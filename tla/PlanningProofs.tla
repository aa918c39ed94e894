--------------------------- MODULE PlanningProofs ---------------------------
(***************************************************************************)
(* Proofs about Dispatch and Calendar, and about the components that       *)
(* MCBackOffice puts side by side.                                         *)
(*                                                                         *)
(* Applying a plan reverts only jobs the planner had read as PENDING,      *)
(* because it holds copies of PENDING and SCHEDULED jobs only, gives       *)
(* nobody a job it does not hold, and writes a status only where it        *)
(* differs from its copy.                                                  *)
(*                                                                         *)
(* An event in a Google calendar is named by its job's row or by the one   *)
(* handler about to commit it: two handlers on a job send it astray, and a *)
(* job not called for still has the id its handler loaded.                 *)
(*                                                                         *)
(* Side by side, the components share no row: each behaves as its own      *)
(* specification says, and what is proved of it holds of them together.    *)
(***************************************************************************)
EXTENDS MCBackOffice, WorkProofs, CampaignProofs, OfficeProofs, TLAPS

-----------------------------------------------------------------------------
(* The inductive invariant *)

\* What a planner holds was waiting, or scheduled for its day, when it was read.
HeldToRoute ==
    \A p \in Planners, v \in Visits :
      planner[p].copy[v] # Open => planner[p].copy[v].status \in {"PENDING", "SCHEDULED"}

\* A job is given to a technician only if the planner holds it.
GivenIsHeld ==
    \A p \in Planners, v \in Visits :
      planner[p].given[v] # Open => planner[p].copy[v] # Open

\* Nothing is given before a solver has answered.
GivenBySolver ==
    \A p \in Planners : planner[p].at # "apply" => \A v \in Visits : planner[p].given[v] = Open

DispatchInv == DispatchTypeOK /\ HeldToRoute /\ GivenIsHeld /\ GivenBySolver

\* The step's effect on one job by one planner, the body of RoutesKeepProgress.
KeepsProgress(p, v) ==
    /\ visit'[v].status # visit[v].status
         => planner[p].copy[v] # Open /\ planner[p].copy[v].status = "PENDING"
    /\ planner[p].given[v] = Open
         => /\ visit'[v].status = visit[v].status
            /\ visit'[v].tech = visit[v].tech
            /\ visit'[v].day = visit[v].day

\* The parts of a plan the invariant is about.
PlanSound(x) ==
    /\ x \in PlannerRecord
    /\ x.at # "apply" => \A v \in Visits : x.given[v] = Open
    /\ \A v \in Visits : /\ x.copy[v] # Open => x.copy[v].status \in {"PENDING", "SCHEDULED"}
                         /\ x.given[v] # Open => x.copy[v] # Open

-----------------------------------------------------------------------------
(* Rows and plans *)

\* A flush writes a row of the right type, column by column.
LEMMA FlushedRow ==
  ASSUME NEW row \in Visit, NEW copy \in Visit, NEW new \in Visit
  PROVE  /\ Flushed(row, copy, new) \in Visit
         /\ Flushed(row, copy, new).status
              = IF new.status = copy.status THEN row.status ELSE new.status
<1>1. DOMAIN row = {"status", "tech", "day", "place"}
  BY DEF Visit
<1>2. Flushed(row, copy, new) \in Visit
  BY <1>1 DEF Visit, Flushed
<1>3. QED BY <1>1, <1>2 DEF Flushed

LEMMA SoundPlans == DispatchInv <=> /\ visit \in [Visits -> Visit]
                                    /\ plans \in 0..MaxPlans /\ moves \in 0..MaxMoves
                                    /\ planner = [p \in Planners |-> planner[p]]
                                    /\ \A p \in Planners : PlanSound(planner[p])
<1>1. planner \in [Planners -> PlannerRecord]
        <=> /\ planner = [p \in Planners |-> planner[p]]
            /\ \A p \in Planners : planner[p] \in PlannerRecord
  OBVIOUS
<1>2. QED BY <1>1 DEF DispatchInv, DispatchTypeOK, HeldToRoute, GivenIsHeld, GivenBySolver, PlanSound

\* A step of one planner that leaves it with a sound plan, and rows of the right type.
LEMMA PlannerStep ==
  ASSUME DispatchInv, NEW p \in Planners, NEW x, PlanSound(x),
         planner' = [planner EXCEPT ![p] = x], visit' \in [Visits -> Visit],
         plans' \in 0..MaxPlans, UNCHANGED moves
  PROVE  DispatchInv'
<1>1. planner \in [Planners -> PlannerRecord] /\ \A q \in Planners : PlanSound(planner[q])
  BY SoundPlans DEF PlanSound
<1>2. planner' \in [Planners -> PlannerRecord]
      /\ \A q \in Planners : planner'[q] = IF q = p THEN x ELSE planner[q]
  BY <1>1 DEF PlanSound
<1>3. \A q \in Planners : PlanSound(planner'[q])
  BY <1>1, <1>2
<1>4. moves' \in 0..MaxMoves
  BY DEF DispatchInv, DispatchTypeOK
<1>5. DispatchTypeOK'
  BY <1>2, <1>4 DEF DispatchTypeOK
<1>6. QED BY <1>3, <1>5 DEF DispatchInv, HeldToRoute, GivenIsHeld, GivenBySolver, PlanSound

LEMMA NoPlanSound == PlanSound(NoPlan) /\ NoPlan.at = "idle"
<1>1. (CHOOSE d \in Days : TRUE) \in Days
  BY DispatchAssumption
<1>2. QED BY <1>1 DEF NoPlan, PlannerRecord, PlanSound

\* What a planner found is written over the row as it is: only the place changes.
LEMMA LocatedRow ==
  ASSUME DispatchInv, NEW p \in Planners
  PROVE  /\ Located(p) \in [Visits -> Visit]
         /\ \A v \in Visits : /\ Located(p)[v].status = visit[v].status
                              /\ Located(p)[v].tech = visit[v].tech
                              /\ Located(p)[v].day = visit[v].day
<1> SUFFICES ASSUME NEW v \in Visits
             PROVE  /\ Located(p)[v] \in Visit
                    /\ Located(p)[v].status = visit[v].status
                    /\ Located(p)[v].tech = visit[v].tech
                    /\ Located(p)[v].day = visit[v].day
  BY DEF Located
<1> DEFINE row == visit[v]
<1>1. row \in Visit
  BY DEF DispatchInv, DispatchTypeOK
<1>2. Located(p)[v] = row \/ Located(p)[v] = [row EXCEPT !.place = "located"]
  BY DEF Located
<1> HIDE DEF row
<1>3. /\ Located(p)[v] \in Visit /\ Located(p)[v].status = row.status
      /\ Located(p)[v].tech = row.tech /\ Located(p)[v].day = row.day
  BY <1>1, <1>2 DEF Visit
<1>4. QED BY <1>3 DEF row

-----------------------------------------------------------------------------
(* The steps *)

LEMMA DispatchInitInv == DispatchInit => DispatchInv
<1> SUFFICES ASSUME DispatchInit PROVE DispatchInv
  OBVIOUS
<1>1. plans \in 0..MaxPlans /\ moves \in 0..MaxMoves
  BY DispatchAssumption DEF DispatchInit
<1>2. visit \in [Visits -> Visit]
  BY DEF DispatchInit, Visit, VisitStatus
<1>3. \A p \in Planners : planner[p] = NoPlan
  BY DEF DispatchInit
<1>4. planner = [p \in Planners |-> planner[p]]
  BY DEF DispatchInit
<1>5. QED BY <1>1, <1>2, <1>3, <1>4, NoPlanSound, SoundPlans

LEMMA ElsewhereStep ==
  ASSUME DispatchInv, NEW v \in Visits, Elsewhere(v)
  PROVE  DispatchInv'
<1>1. PICK s \in VisitStatus, t \in Crew \cup {Open}, d \in Days \cup {Open} :
        visit' = [visit EXCEPT ![v] = [visit[v] EXCEPT !.status = s, !.tech = t, !.day = d]]
  BY DispatchAssumption DEF Elsewhere
<1>2. visit \in [Visits -> Visit] /\ visit[v] \in Visit
  BY DEF DispatchInv, DispatchTypeOK
<1> DEFINE row == visit[v]
<1> HIDE DEF row
<1>3. [row EXCEPT !.status = s, !.tech = t, !.day = d] \in Visit
  <2>1. row \in Visit
    BY <1>2 DEF row
  <2>2. [row EXCEPT !.status = s, !.tech = t, !.day = d]
          = [[[row EXCEPT !.status = s] EXCEPT !.tech = t] EXCEPT !.day = d]
    BY <2>1 DEF Visit
  <2>3. QED BY <2>1, <2>2 DEF Visit
<1>4. visit' = [visit EXCEPT ![v] = [row EXCEPT !.status = s, !.tech = t, !.day = d]]
  BY <1>1 DEF row
<1>5. visit' \in [Visits -> Visit]
  BY <1>2, <1>3, <1>4
<1>6. UNCHANGED <<planner, plans>> /\ moves' \in 0..MaxMoves
  BY DispatchAssumption DEF Elsewhere, DispatchInv, DispatchTypeOK
<1>7. QED BY <1>5, <1>6 DEF DispatchInv, DispatchTypeOK, HeldToRoute, GivenIsHeld, GivenBySolver

LEMMA PendingStep ==
  ASSUME DispatchInv, NEW p \in Planners, NEW d \in Days, NEW locked \in BOOLEAN,
         RoutesPending(p, d, locked)
  PROVE  DispatchInv'
<1> DEFINE copy == [v \in Visits |-> IF Waiting(v) THEN visit[v] ELSE Open]
           x == [NoPlan EXCEPT !.at = "scheduled", !.day = d, !.locked = locked, !.copy = copy]
           dated == [[NoPlan EXCEPT !.at = "scheduled"] EXCEPT !.day = d]
<1>1. visit \in [Visits -> Visit]
  BY DEF DispatchInv, DispatchTypeOK
<1>2. /\ copy \in [Visits -> Visit \cup {Open}]
      /\ \A v \in Visits : copy[v] # Open => copy[v].status \in {"PENDING", "SCHEDULED"}
  BY <1>1 DEF Waiting
<1>3. planner' = [planner EXCEPT ![p] = x]
  BY DEF RoutesPending
<1> HIDE DEF copy
<1>4. NoPlan \in PlannerRecord /\ \A v \in Visits : NoPlan.given[v] = Open
  BY NoPlanSound DEF PlanSound
<1>5. dated \in PlannerRecord /\ dated.at = "scheduled" /\ dated.given = NoPlan.given
  BY <1>4 DEF PlannerRecord
<1>6. x = [[dated EXCEPT !.locked = locked] EXCEPT !.copy = copy]
  BY <1>4 DEF PlannerRecord
<1> HIDE DEF dated, x
<1>7. x \in PlannerRecord /\ x.at = "scheduled" /\ x.given = NoPlan.given /\ x.copy = copy
  BY <1>2, <1>5, <1>6 DEF PlannerRecord
<1>8. PlanSound(x)
  BY <1>2, <1>4, <1>7 DEF PlanSound
<1>9. UNCHANGED <<visit, moves>> /\ plans' \in 0..MaxPlans
  BY DispatchAssumption DEF RoutesPending, DispatchInv, DispatchTypeOK
<1>10. QED BY <1>1, <1>3, <1>8, <1>9, PlannerStep

LEMMA ScheduledStep ==
  ASSUME DispatchInv, NEW p \in Planners, RoutesScheduled(p)
  PROVE  DispatchInv'
<1> DEFINE y == planner[p]
           copy == [v \in Visits |-> IF y.copy[v] = Open /\ OnDay(v, y.day)
                                     THEN visit[v] ELSE y.copy[v]]
           x == [[y EXCEPT !.at = "geocode"] EXCEPT !.copy = copy]
<1>1. PlanSound(y) /\ visit \in [Visits -> Visit] /\ planner \in [Planners -> PlannerRecord]
  BY SoundPlans DEF DispatchInv, DispatchTypeOK
<1>2. /\ copy \in [Visits -> Visit \cup {Open}]
      /\ \A v \in Visits : copy[v] # Open => copy[v].status \in {"PENDING", "SCHEDULED"}
  BY <1>1 DEF OnDay, PlanSound, PlannerRecord
<1>3. planner' = [planner EXCEPT ![p] = x] /\ y.at = "scheduled"
  BY <1>1 DEF RoutesScheduled, PlannerRecord
<1> HIDE DEF copy, y
<1>4. x \in PlannerRecord /\ x.at = "geocode" /\ x.copy = copy /\ x.given = y.given
  BY <1>1, <1>2 DEF PlanSound, PlannerRecord
<1> HIDE DEF x
<1>5. PlanSound(x)
  BY <1>1, <1>2, <1>3, <1>4 DEF PlanSound
<1>6. UNCHANGED <<visit, plans, moves>>
  BY DEF RoutesScheduled
<1>7. QED BY <1>1, <1>3, <1>5, <1>6, PlannerStep DEF DispatchInv, DispatchTypeOK

LEMMA GeocodeStep ==
  ASSUME DispatchInv, NEW p \in Planners, GeocodeJobs(p)
  PROVE  DispatchInv'
<1> DEFINE y == planner[p]
<1>1. PlanSound(y) /\ visit \in [Visits -> Visit] /\ planner \in [Planners -> PlannerRecord]
  BY SoundPlans DEF DispatchInv, DispatchTypeOK
<1>2. PICK found \in SUBSET {v \in Loaded(p) : y.copy[v].place = "address"} :
        planner' = [planner EXCEPT ![p].at = "solve", ![p].copy = [v \in Visits |->
          IF v \in found THEN [y.copy[v] EXCEPT !.place = "located"] ELSE y.copy[v]]]
  BY <1>1 DEF GeocodeJobs, PlannerRecord
<1> DEFINE copy == [v \in Visits |->
             IF v \in found THEN [y.copy[v] EXCEPT !.place = "located"] ELSE y.copy[v]]
           x == [[y EXCEPT !.at = "solve"] EXCEPT !.copy = copy]
<1>3. planner' = [planner EXCEPT ![p] = x] /\ y.at = "geocode"
  BY <1>1, <1>2 DEF GeocodeJobs, PlannerRecord
<1>4. \A v \in found : v \in Visits /\ y.copy[v] # Open
  BY <1>2 DEF Loaded
<1> HIDE DEF y
<1>5. ASSUME NEW v \in Visits
      PROVE  /\ copy[v] \in Visit \cup {Open}
             /\ copy[v] # Open => copy[v].status \in {"PENDING", "SCHEDULED"}
  <2>1. CASE v \in found
    <3>1. y.copy[v] \in Visit /\ y.copy[v].status \in {"PENDING", "SCHEDULED"}
      BY <1>1, <1>4, <2>1 DEF PlanSound, PlannerRecord
    <3>2. copy[v] = [y.copy[v] EXCEPT !.place = "located"]
      BY <2>1
    <3>3. QED BY <3>1, <3>2 DEF Visit
  <2>2. CASE v \notin found
    <3>1. copy[v] = y.copy[v]
      BY <2>2
    <3>2. QED BY <1>1, <3>1 DEF PlanSound, PlannerRecord
  <2>3. QED BY <2>1, <2>2
<1>6. copy \in [Visits -> Visit \cup {Open}]
  BY <1>5
<1> HIDE DEF copy
<1>7. x \in PlannerRecord /\ x.at = "solve" /\ x.copy = copy /\ x.given = y.given
  BY <1>1, <1>6 DEF PlanSound, PlannerRecord
<1> HIDE DEF x
<1>8. PlanSound(x)
  BY <1>1, <1>3, <1>5, <1>7 DEF PlanSound
<1>9. UNCHANGED <<visit, plans, moves>>
  BY DEF GeocodeJobs
<1>10. QED BY <1>1, <1>3, <1>8, <1>9, PlannerStep DEF DispatchInv, DispatchTypeOK

LEMMA SolveStep ==
  ASSUME DispatchInv, NEW p \in Planners, Solve(p)
  PROVE  DispatchInv'
<1> DEFINE y == planner[p]
<1>1. PlanSound(y) /\ visit \in [Visits -> Visit] /\ planner \in [Planners -> PlannerRecord]
  BY SoundPlans DEF DispatchInv, DispatchTypeOK
<1>2. PICK given \in Assignments(p) :
        planner' = [planner EXCEPT ![p].at = "apply", ![p].given =
          [v \in Visits |-> IF v \in DOMAIN given THEN given[v] ELSE Open]]
  BY DEF Solve
<1> DEFINE all == [v \in Visits |-> IF v \in DOMAIN given THEN given[v] ELSE Open]
           x == [[y EXCEPT !.at = "apply"] EXCEPT !.given = all]
<1>3. planner' = [planner EXCEPT ![p] = x]
  BY <1>1, <1>2 DEF PlannerRecord
<1>4. \A v \in DOMAIN given : v \in Visits /\ y.copy[v] # Open /\ given[v] \in Based \cup {Open}
  BY <1>2 DEF Assignments, Loaded
<1>5. all \in [Visits -> Based \cup {Open}] /\ \A v \in Visits : all[v] # Open => y.copy[v] # Open
  BY <1>4
<1> HIDE DEF all, y
<1>6. x \in PlannerRecord /\ x.at = "apply" /\ x.copy = y.copy /\ x.given = all
  BY <1>1, <1>5 DEF PlanSound, PlannerRecord
<1> HIDE DEF x
<1>7. PlanSound(x)
  BY <1>1, <1>5, <1>6 DEF PlanSound
<1>8. UNCHANGED <<visit, plans, moves>>
  BY DEF Solve
<1>9. QED BY <1>1, <1>3, <1>7, <1>8, PlannerStep DEF DispatchInv, DispatchTypeOK

LEMMA ApplyStep ==
  ASSUME DispatchInv, NEW p \in Planners, NEW t \in Based, ApplyRoute(p, t)
  PROVE  DispatchInv'
<1> DEFINE y == planner[p]
           locked == y.locked \/ y.done # {}
           x == [[y EXCEPT !.done = y.done \cup {t}] EXCEPT !.locked = locked]
<1>1. PlanSound(y) /\ visit \in [Visits -> Visit] /\ planner \in [Planners -> PlannerRecord]
  BY SoundPlans DEF DispatchInv, DispatchTypeOK
<1>2. planner' = [planner EXCEPT ![p] = x] /\ y.at = "apply"
  BY <1>1 DEF ApplyRoute, PlannerRecord
<1>3. locked \in BOOLEAN /\ y.done \cup {t} \in SUBSET Based
  BY <1>1 DEF PlanSound, PlannerRecord
<1> HIDE DEF locked, y
<1>4. x \in PlannerRecord /\ x.at = y.at /\ x.copy = y.copy /\ x.given = y.given
  BY <1>1, <1>3 DEF PlanSound, PlannerRecord
<1> HIDE DEF x
<1>5. PlanSound(x)
  BY <1>1, <1>4 DEF PlanSound
<1>6. UNCHANGED <<visit, plans, moves>>
  BY DEF ApplyRoute
<1>7. QED BY <1>1, <1>2, <1>5, <1>6, PlannerStep DEF DispatchInv, DispatchTypeOK

\* The end of a plan, whatever it has written.
LEMMA PlanEndsStep ==
  ASSUME DispatchInv, NEW p \in Planners, RoutesEnd(p) \/ ScheduleFails(p)
  PROVE  DispatchInv'
<1>1. visit' \in [Visits -> Visit]
  BY LocatedRow DEF RoutesEnd, ScheduleFails, DispatchInv, DispatchTypeOK
<1>2. planner' = [planner EXCEPT ![p] = NoPlan] /\ UNCHANGED <<plans, moves>>
  BY DEF RoutesEnd, ScheduleFails
<1>3. QED BY <1>1, <1>2, NoPlanSound, PlannerStep DEF DispatchInv, DispatchTypeOK

\* What the commit of a plan writes into one job.
LEMMA CommittedRow ==
  ASSUME DispatchInv, NEW p \in Planners, ScheduleCommit(p), NEW v \in Visits
  PROVE  visit'[v] \in Visit /\ KeepsProgress(p, v)
<1> DEFINE copy == planner[p].copy[v]
<1>1. PICK arrival \in [Visits -> Days \cup {Open}] :
        visit' = [u \in Visits |->
           IF u \in Given(p)
           THEN [Flushed(visit[u], planner[p].copy[u], Planned(p, u, arrival[u]))
                   EXCEPT !.place = Located(p)[u].place]
           ELSE Located(p)[u]]
  BY DEF ScheduleCommit
<1>2. /\ visit[v] \in Visit /\ Located(p)[v] \in Visit
      /\ Located(p)[v].status = visit[v].status /\ Located(p)[v].tech = visit[v].tech
      /\ Located(p)[v].day = visit[v].day
  BY LocatedRow DEF DispatchInv, DispatchTypeOK
<1>3. /\ planner[p] \in PlannerRecord
      /\ planner[p].given[v] \in Based \cup {Open} /\ copy \in Visit \cup {Open}
  BY DEF DispatchInv, DispatchTypeOK, PlannerRecord
<1>4. CASE v \notin Given(p)
  <2>1. visit'[v] = Located(p)[v] /\ planner[p].given[v] = Open
    BY <1>1, <1>4 DEF Given
  <2>2. QED BY <1>2, <2>1 DEF KeepsProgress
<1>5. CASE v \in Given(p)
  <2> DEFINE new == Planned(p, v, arrival[v])
             row == Flushed(visit[v], copy, new)
  <2>1. planner[p].given[v] # Open /\ copy # Open
    BY <1>5 DEF Given, DispatchInv, GivenIsHeld
  <2>2. copy \in Visit /\ copy.status \in {"PENDING", "SCHEDULED"}
    BY <1>3, <2>1 DEF DispatchInv, HeldToRoute
  <2>3. planner[p].given[v] \in Crew
    BY <1>3, <2>1, DispatchAssumption
  <2>4. new \in Visit /\ new.status = "SCHEDULED"
    <3> DEFINE day == IF arrival[v] = Open THEN copy.day ELSE arrival[v]
    <3>1. day \in Days \cup {Open}
      BY <2>2 DEF Visit
    <3>2. new = [[[copy EXCEPT !.tech = planner[p].given[v]] EXCEPT !.status = "SCHEDULED"]
                   EXCEPT !.day = day]
      BY <2>2 DEF Planned, Visit
    <3> HIDE DEF new, copy, day
    <3>3. QED BY <2>2, <2>3, <3>1, <3>2 DEF Visit, VisitStatus
  <2>5. visit'[v] = [row EXCEPT !.place = Located(p)[v].place]
    BY <1>1, <1>5
  <2> HIDE DEF new, copy
  <2>6. row \in Visit /\ row.status = IF new.status = copy.status THEN visit[v].status ELSE new.status
    BY <1>2, <2>2, <2>4, FlushedRow
  <2> HIDE DEF row
  <2>7. visit'[v] \in Visit /\ visit'[v].status = row.status
    BY <1>2, <2>5, <2>6 DEF Visit
  <2>8. visit'[v].status # visit[v].status => copy.status = "PENDING"
    BY <2>2, <2>4, <2>6, <2>7
  <2>9. QED BY <2>1, <2>7, <2>8 DEF KeepsProgress, copy
<1>6. QED BY <1>4, <1>5

LEMMA PlanCommitStep ==
  ASSUME DispatchInv, NEW p \in Planners, ScheduleCommit(p)
  PROVE  DispatchInv'
<1>1. visit' = [v \in Visits |-> visit'[v]]
  BY DEF ScheduleCommit
<1>2. visit' \in [Visits -> Visit]
  BY <1>1, CommittedRow
<1>3. planner' = [planner EXCEPT ![p] = NoPlan] /\ UNCHANGED <<plans, moves>>
  BY DEF ScheduleCommit
<1>4. QED BY <1>2, <1>3, NoPlanSound, PlannerStep DEF DispatchInv, DispatchTypeOK

LEMMA DispatchStep == DispatchInv /\ [DispatchNext]_dispatchVars => DispatchInv'
<1> SUFFICES ASSUME DispatchInv, [DispatchNext]_dispatchVars PROVE DispatchInv'
  OBVIOUS
<1>1. CASE UNCHANGED dispatchVars
  BY <1>1 DEF dispatchVars, DispatchInv, DispatchTypeOK, HeldToRoute, GivenIsHeld, GivenBySolver
<1>2. ASSUME NEW v \in Visits, Elsewhere(v) PROVE DispatchInv'
  BY <1>2, ElsewhereStep
<1>3. ASSUME NEW p \in Planners,
             \/ \E d \in Days, locked \in BOOLEAN : RoutesPending(p, d, locked)
             \/ \E t \in Based : ApplyRoute(p, t)
      PROVE  DispatchInv'
  BY <1>3, PendingStep, ApplyStep
<1>4. ASSUME NEW p \in Planners,
             \/ RoutesScheduled(p) \/ GeocodeJobs(p) \/ RoutesEnd(p)
             \/ Solve(p) \/ ScheduleCommit(p) \/ ScheduleFails(p)
      PROVE  DispatchInv'
  BY <1>4, ScheduledStep, GeocodeStep, PlanEndsStep, SolveStep, PlanCommitStep
<1>5. QED BY <1>1, <1>2, <1>3, <1>4 DEF DispatchNext

\* Only the commit of a plan, or its failure, ends one that is being applied.
LEMMA EndOfPlan ==
  ASSUME DispatchInv, DispatchNext, NEW p \in Planners,
         planner[p].at = "apply", planner'[p].at = "idle"
  PROVE  ScheduleCommit(p) \/ ScheduleFails(p)
<1>1. \A q \in Planners : planner[q] \in PlannerRecord
  BY DEF DispatchInv, DispatchTypeOK
<1>2. planner \in [Planners -> PlannerRecord]
  BY DEF DispatchInv, DispatchTypeOK
<1>3. ASSUME NEW v \in Visits, Elsewhere(v) PROVE FALSE
  BY <1>3 DEF Elsewhere
<1>4. ASSUME NEW q \in Planners, NEW d \in Days, NEW locked \in BOOLEAN, RoutesPending(q, d, locked)
      PROVE FALSE
  BY <1>2, <1>4 DEF RoutesPending
<1>5. ASSUME NEW q \in Planners, NEW t \in Based, ApplyRoute(q, t) PROVE FALSE
  BY <1>2, <1>5 DEF ApplyRoute, PlannerRecord
<1>6. ASSUME NEW q \in Planners, RoutesScheduled(q) \/ GeocodeJobs(q) \/ RoutesEnd(q) PROVE FALSE
  BY <1>2, <1>6 DEF RoutesScheduled, GeocodeJobs, RoutesEnd
<1>7. ASSUME NEW q \in Planners, Solve(q) PROVE FALSE
  <2>1. planner[q].at = "solve" /\ \E x : planner' = [planner EXCEPT ![q] = x]
    BY <1>2, <1>7 DEF Solve, PlannerRecord
  <2>2. q # p
    BY <2>1
  <2>3. QED BY <1>2, <2>1, <2>2
<1>8. ASSUME NEW q \in Planners, ScheduleCommit(q) \/ ScheduleFails(q) PROVE q = p
  BY <1>2, <1>8 DEF ScheduleCommit, ScheduleFails
<1>9. QED BY <1>3, <1>4, <1>5, <1>6, <1>7, <1>8 DEF DispatchNext

-----------------------------------------------------------------------------
(* The theorems *)

\* Whatever planners and other sessions overlap, a plan holds copies of waiting
\* jobs only and gives away no others (apply_schedule, _calculate).
THEOREM DispatchInvariant == DispatchSpec => []DispatchInv
BY DispatchInitInv, DispatchStep, PTL DEF DispatchSpec

\* Jobs, copies and counters keep the columns the code declares.
THEOREM DispatchTypes == DispatchSpec => []DispatchTypeOK
<1>1. DispatchInv => DispatchTypeOK
  BY DEF DispatchInv
<1>2. QED BY <1>1, DispatchInvariant, PTL

\* apply_schedule changes the status of no job, whatever others made of it while
\* the plan was made, unless it was read as PENDING, and touches no other job.
THEOREM PlansKeepProgress == DispatchSpec => RoutesKeepProgress
<1> DEFINE Keeps ==
      \A p \in Planners :
        (planner[p].at = "apply" /\ planner'[p].at = "idle") =>
           \A v \in Visits : KeepsProgress(p, v)
<1>1. DispatchInv /\ [DispatchNext]_dispatchVars => [Keeps]_dispatchVars
  <2> SUFFICES ASSUME DispatchInv, DispatchNext, NEW p \in Planners,
                      planner[p].at = "apply", planner'[p].at = "idle", NEW v \in Visits
               PROVE  KeepsProgress(p, v)
    OBVIOUS
  <2>1. CASE ScheduleCommit(p)
    BY <2>1, CommittedRow
  <2>2. CASE ScheduleFails(p)
    BY <2>2 DEF ScheduleFails, KeepsProgress
  <2>3. QED BY <2>1, <2>2, EndOfPlan
<1>2. (DispatchSpec => [][Keeps]_dispatchVars) => (DispatchSpec => RoutesKeepProgress)
  BY DEF RoutesKeepProgress, KeepsProgress
<1>3. QED BY <1>1, <1>2, DispatchInvariant, PTL DEF DispatchSpec

-----------------------------------------------------------------------------
(* Calendars *)

Works(f, j) == flow[f].at = "work" /\ j \in flow[f].jobs

\* What a flow holds at its step: a form's job and a handler's jobs were there
\* when it loaded them, and a job not called for has the id it was loaded with.
FlowSound(x) ==
    /\ x.at = "edit" => x.copies[x.job] # NoOne
    /\ x.at = "notify" => x.todo # <<>>
    /\ x.at = "work" =>
         /\ x.left \subseteq x.jobs
         /\ \A j \in x.jobs : x.copies[j] # NoOne
         /\ \A j \in x.left : x.ids[j] = x.copies[j].event

\* An event in a calendar was made for a job.
MadeForJobs == \A e \in Events : inCalendar[e] # NoOne => madeFor[e] # NoOne

\* Of a job that is not astray: one handler is at work on it, whose copy names
\* the event the row names ...
OneHandler == \A f, g \in Flows, j \in CalJobs \ astray : Works(f, j) /\ Works(g, j) => f = g
CopiesCurrent ==
    \A f \in Flows, j \in CalJobs \ astray :
      Works(f, j) => calJob[j] # NoOne /\ flow[f].copies[j].event = calJob[j].event

\* ... and its event is named by the handler if there is one, else by the row.
NamedByHandler ==
    \A e \in Events, f \in Flows :
      (inCalendar[e] # NoOne /\ madeFor[e] \notin astray /\ Works(f, madeFor[e]))
         => flow[f].ids[madeFor[e]] = e
NamedByRow ==
    \A e \in Events :
      (inCalendar[e] # NoOne /\ madeFor[e] \notin astray /\ \A f \in Flows : ~Works(f, madeFor[e]))
         => calJob[madeFor[e]] # NoOne /\ calJob[madeFor[e]].event = e

CalendarInv == /\ CalendarTypeOK
               /\ \A f \in Flows : FlowSound(flow[f])
               /\ MadeForJobs /\ OneHandler /\ CopiesCurrent
               /\ NamedByHandler /\ NamedByRow

-----------------------------------------------------------------------------
(* Flows and rows *)

LEMMA NoFlowTyped ==
  /\ NoFlow \in FlowRecord /\ FlowSound(NoFlow)
  /\ NoFlow.at = "idle" /\ NoFlow.todo = <<>> /\ NoFlow.jobs = {}
<1>1. (CHOOSE j \in CalJobs : TRUE) \in CalJobs
  BY CalendarAssumption
<1> DEFINE copies == [j \in CalJobs |-> NoOne]
           ids == [j \in CalJobs |-> NoOne]
<1>2. /\ copies \in [CalJobs -> CalRow \cup {NoOne}] /\ ids \in [CalJobs -> Events \cup {NoOne}]
      /\ <<>> \in Seq(Notice)
  OBVIOUS
<1>3. NoFlow = [at |-> "idle", job |-> CHOOSE j \in CalJobs : TRUE, give |-> {}, plan |-> FALSE,
                copies |-> copies, todo |-> <<>>, kind |-> "sync",
                user |-> NoOne, jobs |-> {}, left |-> {}, ids |-> ids]
  BY DEF NoFlow
<1> HIDE DEF copies, ids
<1>4. QED BY <1>1, <1>2, <1>3 DEF FlowRecord, FlowSound

LEMMA NotifyTyped ==
  ASSUME NEW x, NEW todo \in Seq(Notice)
  PROVE  /\ Notify(x, todo) \in FlowRecord /\ FlowSound(Notify(x, todo))
         /\ Notify(x, todo).at # "work"
<1> DEFINE rec == Notify(x, todo)
<1>1. /\ rec \in FlowRecord /\ rec.todo = todo
      /\ rec.at = IF todo = <<>> THEN "idle" ELSE "notify"
  BY NoFlowTyped DEF Notify, FlowRecord
<1> HIDE DEF rec
<1>2. rec.at # "work" /\ FlowSound(rec)
  BY <1>1 DEF FlowSound
<1>3. QED BY <1>1, <1>2 DEF rec

LEMMA SyncTyped == \A j \in CalJobs : Sync(j) \in Notice
BY DEF Sync, Notice

LEMMA IfTyped == \A c : \A n \in Notice : If(c, n) \in Seq(Notice)
BY DEF If

LEMMA FlowKnown ==
  ASSUME CalendarInv, NEW f \in Flows
  PROVE  /\ flow[f] \in FlowRecord /\ FlowSound(flow[f])
         /\ calJob \in [CalJobs -> CalRow \cup {NoOne}]
BY DEF CalendarInv, CalendarTypeOK

LEMMA FlowMoves ==
  ASSUME CalendarInv, NEW f \in Flows, NEW rec \in FlowRecord, FlowSound(rec), Step(f, rec)
  PROVE  /\ flow' \in [Flows -> FlowRecord] /\ flow'[f] = rec
         /\ \A g \in Flows \ {f} : flow'[g] = flow[g]
         /\ \A g \in Flows : FlowSound(flow'[g])
<1>1. flow \in [Flows -> FlowRecord] /\ \A g \in Flows : FlowSound(flow[g])
  BY DEF CalendarInv, CalendarTypeOK
<1> DEFINE new == flow'
<1>2. /\ new \in [Flows -> FlowRecord] /\ new[f] = rec
      /\ \A g \in Flows \ {f} : new[g] = flow[g]
  BY <1>1 DEF Step
<1>3. new = flow'
  OBVIOUS
<1> HIDE DEF new
<1>4. \A g \in Flows : FlowSound(new[g])
  BY <1>1, <1>2
<1>5. QED BY <1>2, <1>3, <1>4

LEMMA BoundsKept ==
  ASSUME CalendarInv, Change \/ Trouble \/ UNCHANGED bounds
  PROVE  changes' \in 0..MaxChanges /\ trouble' \in 0..MaxTrouble
<1>1. changes \in 0..MaxChanges /\ trouble \in 0..MaxTrouble /\ MaxChanges \in Nat /\ MaxTrouble \in Nat
  BY CalendarAssumption DEF CalendarInv, CalendarTypeOK
<1>2. CASE Change
  BY <1>1, <1>2 DEF Change
<1>3. CASE Trouble
  BY <1>1, <1>3 DEF Trouble
<1>4. CASE UNCHANGED bounds
  BY <1>1, <1>4 DEF bounds
<1>5. QED BY <1>2, <1>3, <1>4

\* A step that no handler at work takes part in: rows that were there keep the
\* ids they name, unless the job goes astray, and Google makes no event.
Aside == /\ \A g \in Flows, j \in CalJobs : Works(g, j)' = Works(g, j)
         /\ \A g \in Flows : flow[g].at = "work" => flow'[g] = flow[g]
         /\ \A j \in CalJobs \ astray' :
              calJob[j] # NoOne => calJob'[j] # NoOne /\ calJob'[j].event = calJob[j].event
         /\ astray \subseteq astray'
         /\ madeFor' = madeFor
         /\ \A e \in Events : inCalendar'[e] \in {inCalendar[e], NoOne}

LEMMA AsideStep ==
  ASSUME CalendarInv, Aside, CalendarTypeOK', \A f \in Flows : FlowSound(flow'[f])
  PROVE  CalendarInv'
<1>1. \A e \in Events : inCalendar'[e] # NoOne => inCalendar[e] # NoOne /\ madeFor[e] \in CalJobs
  BY DEF Aside, CalendarInv, CalendarTypeOK, MadeForJobs
<1>2. \A j \in CalJobs \ astray' : j \in CalJobs \ astray
  BY DEF Aside
<1>3. MadeForJobs'
  BY <1>1, CalendarAssumption DEF MadeForJobs, Aside
<1>4. OneHandler'
  BY <1>2 DEF OneHandler, Aside, CalendarInv
<1>5. CopiesCurrent'
  <2> SUFFICES ASSUME NEW f \in Flows, NEW j \in CalJobs \ astray', Works(f, j)'
               PROVE  calJob'[j] # NoOne /\ flow'[f].copies[j].event = calJob'[j].event
    BY DEF CopiesCurrent
  <2>1. Works(f, j) /\ flow'[f] = flow[f]
    BY DEF Aside, Works
  <2>2. calJob[j] # NoOne /\ flow[f].copies[j].event = calJob[j].event
    BY <1>2, <2>1 DEF CalendarInv, CopiesCurrent
  <2>3. QED BY <2>1, <2>2 DEF Aside
<1>6. NamedByHandler'
  <2> SUFFICES ASSUME NEW e \in Events, NEW f \in Flows, inCalendar'[e] # NoOne,
                      madeFor'[e] \notin astray', Works(f, madeFor[e])'
               PROVE  flow'[f].ids[madeFor'[e]] = e
    BY DEF NamedByHandler
  <2>1. madeFor' = madeFor /\ madeFor[e] \in CalJobs /\ inCalendar[e] # NoOne /\ madeFor[e] \notin astray
    BY <1>1 DEF Aside
  <2>2. Works(f, madeFor[e]) /\ flow'[f] = flow[f]
    BY <2>1 DEF Aside, Works
  <2>3. QED BY <2>1, <2>2 DEF CalendarInv, NamedByHandler
<1>7. NamedByRow'
  <2> SUFFICES ASSUME NEW e \in Events, inCalendar'[e] # NoOne, madeFor'[e] \notin astray',
                      \A f \in Flows : ~Works(f, madeFor[e])'
               PROVE  calJob'[madeFor'[e]] # NoOne /\ calJob'[madeFor'[e]].event = e
    BY DEF NamedByRow
  <2>1. madeFor' = madeFor /\ madeFor[e] \in CalJobs \ astray' /\ inCalendar[e] # NoOne
    BY <1>1 DEF Aside
  <2>2. \A f \in Flows : ~Works(f, madeFor[e])
    BY <2>1 DEF Aside
  <2>3. calJob[madeFor[e]] # NoOne /\ calJob[madeFor[e]].event = e
    BY <1>2, <2>1, <2>2 DEF CalendarInv, NamedByRow
  <2>4. QED BY <2>1, <2>3 DEF Aside
<1>8. (\A f \in Flows : FlowSound(flow[f]))'
  BY DEF FlowSound
<1>9. QED BY <1>3, <1>4, <1>5, <1>6, <1>7, <1>8 DEF CalendarInv

-----------------------------------------------------------------------------
(* Steps beside the handlers *)

LEMMA CalendarSets == ASSUME CalendarInv PROVE linked \subseteq Staff /\ astray \subseteq CalJobs
BY DEF CalendarInv, CalendarTypeOK

\* The flow that steps is at no handler, before and after.
LEMMA IdleFlow ==
  ASSUME CalendarInv, NEW f \in Flows, NEW rec \in FlowRecord, FlowSound(rec), rec.at # "work",
         flow[f].at # "work", Step(f, rec), UNCHANGED google,
         calJob' \in [CalJobs -> CalRow \cup {NoOne}], linked' \subseteq Staff,
         astray \subseteq astray', astray' \subseteq CalJobs,
         Change \/ Trouble \/ UNCHANGED bounds,
         \A j \in CalJobs \ astray' :
           calJob[j] # NoOne => calJob'[j] # NoOne /\ calJob'[j].event = calJob[j].event
  PROVE  CalendarInv'
<1>1. /\ flow' \in [Flows -> FlowRecord] /\ flow'[f] = rec
      /\ \A g \in Flows \ {f} : flow'[g] = flow[g]
      /\ \A g \in Flows : FlowSound(flow'[g])
  BY FlowMoves
<1>2. CalendarTypeOK'
  BY <1>1, BoundsKept DEF CalendarTypeOK, CalendarInv, google
<1>3. \A g \in Flows, j \in CalJobs : Works(g, j)' = Works(g, j)
  BY <1>1 DEF Works
<1>4. Aside
  BY <1>1, <1>3 DEF Aside, google
<1>5. QED BY <1>1, <1>2, <1>4, AsideStep

\* No flow steps.
LEMMA FlowsWait ==
  ASSUME CalendarInv, UNCHANGED flow, calJob' \in [CalJobs -> CalRow \cup {NoOne}],
         linked' \subseteq Staff, astray \subseteq astray', astray' \subseteq CalJobs,
         inCalendar' \in [Events -> Staff \cup {NoOne}], madeFor' = madeFor,
         \A e \in Events : inCalendar'[e] \in {inCalendar[e], NoOne},
         Change \/ Trouble \/ UNCHANGED bounds,
         \A j \in CalJobs \ astray' :
           calJob[j] # NoOne => calJob'[j] # NoOne /\ calJob'[j].event = calJob[j].event
  PROVE  CalendarInv'
<1>1. CalendarTypeOK'
  BY BoundsKept DEF CalendarTypeOK, CalendarInv
<1>2. Aside
  BY DEF Aside, Works
<1>3. \A g \in Flows : FlowSound(flow'[g])
  BY DEF CalendarInv
<1>4. QED BY <1>1, <1>2, <1>3, AsideStep

LEMMA OutsideTheApp ==
  ASSUME CalendarInv,
         \/ \E j \in CalJobs : DeleteCalJob(j)
         \/ \E u \in Staff : DisconnectCalendar(u)
         \/ \E e \in Events : GoogleForgets(e)
  PROVE  CalendarInv'
<1>1. CalendarTypeOK
  BY DEF CalendarInv
<1>2. ASSUME NEW j \in CalJobs, DeleteCalJob(j) PROVE CalendarInv'
  <2>1. /\ calJob' \in [CalJobs -> CalRow \cup {NoOne}]
        /\ \A i \in CalJobs \ {j} : calJob'[i] = calJob[i]
        /\ astray' = astray \cup {j} /\ Trouble /\ UNCHANGED <<linked, google, flow>>
    BY <1>1, <1>2 DEF DeleteCalJob, CalendarTypeOK
  <2>2. inCalendar' = inCalendar /\ madeFor' = madeFor /\ linked' = linked
    BY <2>1 DEF google
  <2>3. /\ inCalendar' \in [Events -> Staff \cup {NoOne}] /\ astray' \subseteq CalJobs
        /\ linked' \subseteq Staff
    BY <1>1, <2>1, <2>2 DEF CalendarTypeOK
  <2>4. \A i \in CalJobs \ astray' :
          calJob[i] # NoOne => calJob'[i] # NoOne /\ calJob'[i].event = calJob[i].event
    BY <2>1
  <2>5. astray \subseteq astray' /\ \A e \in Events : inCalendar'[e] \in {inCalendar[e], NoOne}
    BY <2>1, <2>2
  <2>6. flow' = flow /\ calJob' \in [CalJobs -> CalRow \cup {NoOne}] /\ Trouble
    BY <2>1
  <2>7. QED BY <2>2, <2>3, <2>4, <2>5, <2>6, FlowsWait
<1>3. ASSUME NEW u \in Staff, DisconnectCalendar(u) PROVE CalendarInv'
  <2>1. linked' \subseteq Staff /\ UNCHANGED <<calJob, inCalendar, madeFor, flow, astray>> /\ Trouble
    BY <1>1, <1>3 DEF DisconnectCalendar, CalendarTypeOK, google
  <2>2. /\ calJob' \in [CalJobs -> CalRow \cup {NoOne}] /\ astray' \subseteq CalJobs
        /\ inCalendar' \in [Events -> Staff \cup {NoOne}]
    BY <1>1, <2>1 DEF CalendarTypeOK
  <2>3. QED BY <2>1, <2>2, FlowsWait
<1>4. ASSUME NEW e \in Events, GoogleForgets(e) PROVE CalendarInv'
  <2>1. /\ inCalendar' \in [Events -> Staff \cup {NoOne}]
        /\ \A d \in Events : inCalendar'[d] \in {inCalendar[d], NoOne}
        /\ UNCHANGED <<calJob, linked, madeFor, flow, astray>> /\ Trouble
    BY <1>1, <1>4 DEF GoogleForgets, CalendarTypeOK
  <2>2. /\ calJob' \in [CalJobs -> CalRow \cup {NoOne}] /\ astray' \subseteq CalJobs
        /\ linked' \subseteq Staff
    BY <1>1, <2>1 DEF CalendarTypeOK
  <2>3. QED BY <2>1, <2>2, FlowsWait
<1>5. QED BY <1>2, <1>3, <1>4

LEMMA CreateCalJobStep ==
  ASSUME CalendarInv, NEW f \in Flows, NEW j \in CalJobs, NEW u \in Staff \cup {NoOne},
         NEW plan \in BOOLEAN, CreateCalJob(f, j, u, plan)
  PROVE  CalendarInv'
<1> DEFINE row == [employee |-> u, scheduled |-> plan, event |-> NoOne]
           todo == <<Sync(j)>> \o If(u # NoOne, Sync(j))
           rec == Notify(NoFlow, todo)
<1>1. CalendarTypeOK /\ flow[f].at # "work"
  BY DEF CalendarInv, CreateCalJob
<1>2. row \in CalRow
  BY DEF CalRow
<1>3. todo \in Seq(Notice)
  <2>1. Sync(j) \in Notice
    BY SyncTyped
  <2>2. If(u # NoOne, Sync(j)) \in Seq(Notice)
    BY <2>1, IfTyped
  <2> HIDE DEF row
  <2>3. QED BY <2>1, <2>2
<1>4. /\ calJob' = [calJob EXCEPT ![j] = row] /\ Step(f, rec) /\ calJob[j] = NoOne /\ Change
      /\ UNCHANGED <<linked, google, astray>>
  BY DEF CreateCalJob, Exists
<1> HIDE DEF row, todo
<1>5. rec \in FlowRecord /\ FlowSound(rec) /\ rec.at # "work"
  BY <1>3, NotifyTyped
<1> HIDE DEF rec
<1>6. /\ calJob' \in [CalJobs -> CalRow \cup {NoOne}]
      /\ \A i \in CalJobs : calJob[i] # NoOne => calJob'[i] = calJob[i]
  BY <1>1, <1>2, <1>4 DEF CalendarTypeOK
<1>7. linked' \subseteq Staff /\ astray \subseteq astray' /\ astray' \subseteq CalJobs
  BY <1>1, <1>4 DEF CalendarTypeOK
<1>8. QED BY <1>1, <1>4, <1>5, <1>6, <1>7, IdleFlow

LEMMA EditReadStep ==
  ASSUME CalendarInv, NEW f \in Flows, NEW j \in CalJobs, NEW give \in SUBSET (Staff \cup {NoOne}),
         NEW plan \in BOOLEAN, EditRead(f, j, give, plan)
  PROVE  CalendarInv'
<1> DEFINE rec == [NoFlow EXCEPT !.at = "edit", !.job = j, !.give = give, !.plan = plan,
                                 !.copies = calJob]
<1>1. CalendarTypeOK /\ flow[f].at # "work" /\ calJob[j] # NoOne
  BY DEF CalendarInv, EditRead, Exists
<1>2. /\ rec \in FlowRecord /\ rec.at = "edit" /\ rec.job = j /\ rec.copies = calJob
  BY <1>1, NoFlowTyped DEF FlowRecord, CalendarTypeOK
<1>3. Step(f, rec) /\ Change /\ UNCHANGED <<calJob, linked, google, astray>>
  BY DEF EditRead
<1> HIDE DEF rec
<1>4. FlowSound(rec) /\ rec.at # "work"
  BY <1>1, <1>2 DEF FlowSound
<1>5. /\ calJob' \in [CalJobs -> CalRow \cup {NoOne}] /\ linked' \subseteq Staff
      /\ astray \subseteq astray' /\ astray' \subseteq CalJobs
  BY <1>1, <1>3 DEF CalendarTypeOK
<1>6. QED BY <1>1, <1>2, <1>3, <1>4, <1>5, IdleFlow

LEMMA AssignCalJobStep ==
  ASSUME CalendarInv, NEW f \in Flows, NEW j \in CalJobs, NEW u \in Staff, AssignCalJob(f, j, u)
  PROVE  CalendarInv'
<1> DEFINE row == [calJob[j] EXCEPT !.employee = u]
           rec == Notify(NoFlow, <<Sync(j)>>)
<1>1. CalendarTypeOK /\ flow[f].at # "work" /\ calJob[j] \in CalRow
  BY DEF CalendarInv, CalendarTypeOK, AssignCalJob, Exists
<1>2. row \in CalRow /\ row.event = calJob[j].event
  BY <1>1 DEF CalRow
<1>3. <<Sync(j)>> \in Seq(Notice)
  BY SyncTyped
<1>4. rec \in FlowRecord /\ FlowSound(rec) /\ rec.at # "work"
  BY <1>3, NotifyTyped
<1>5. /\ calJob' = [calJob EXCEPT ![j] = row] /\ Step(f, rec) /\ Change
      /\ UNCHANGED <<linked, google, astray>>
  BY DEF AssignCalJob
<1>6. linked' = linked /\ astray' = astray
  BY DEF AssignCalJob
<1> HIDE DEF row, rec
<1>7. row # NoOne
  BY <1>2, CalRowAssumption
<1>8. /\ calJob' \in [CalJobs -> CalRow \cup {NoOne}]
      /\ \A i \in CalJobs : calJob[i] # NoOne => calJob'[i] # NoOne /\ calJob'[i].event = calJob[i].event
  BY <1>1, <1>2, <1>5, <1>7 DEF CalendarTypeOK
<1>9. linked' \subseteq Staff /\ astray \subseteq astray' /\ astray' \subseteq CalJobs
  BY <1>6, CalendarSets
<1>10. QED BY <1>1, <1>4, <1>5, <1>8, <1>9, IdleFlow

\* The notices that one edit raises.
LEMMA EditEventsTyped ==
  ASSUME NEW x, NEW employee \in Staff \cup {NoOne}, x.job \in CalJobs,
         x.copies[x.job].employee \in Staff \cup {NoOne}
  PROVE  EditEvents(x, employee) \in Seq(Notice)
<1> DEFINE j == x.job
           old == x.copies[j].employee
           lost == Unassigned(j, old)
           sync == Sync(j)
           taken == employee # old /\ old # NoOne
           given == employee # old /\ employee # NoOne
<1>1. sync \in Notice /\ lost \in Notice
  BY SyncTyped DEF Unassigned, Notice
<1>2. EditEvents(x, employee) = If(taken, lost) \o If(given, sync) \o If(x.plan, sync) \o <<sync>>
  BY Zenon DEF EditEvents
<1> DEFINE a == If(taken, lost)
           b == If(given, sync)
           c == If(x.plan, sync)
           d == <<sync>>
<1> HIDE DEF j, old, lost, sync, taken, given
<1>3. a \in Seq(Notice) /\ b \in Seq(Notice) /\ c \in Seq(Notice)
  BY <1>1, IfTyped
<1>4. d \in Seq(Notice)
  BY <1>1
<1> HIDE DEF a, b, c, d
<1>5. a \o b \in Seq(Notice)
  BY <1>3
<1>6. (a \o b) \o c \in Seq(Notice)
  BY <1>3, <1>5
<1>7. ((a \o b) \o c) \o d \in Seq(Notice)
  BY <1>4, <1>6
<1>8. QED BY <1>2, <1>7 DEF a, b, c, d

LEMMA EditCommitStep == ASSUME CalendarInv, NEW f \in Flows, EditCommit(f) PROVE CalendarInv'
<1> DEFINE x == flow[f]
           j == x.job
           old == x.copies[j]
           employee == IF x.give = {} THEN old.employee ELSE CHOOSE u \in x.give : TRUE
           named == IF employee # old.employee THEN employee ELSE calJob[j].employee
           row == [calJob[j] EXCEPT !.employee = named, !.scheduled = @ \/ x.plan]
           todo == EditEvents(x, employee)
           rec == Notify(x, todo)
<1>1. CalendarTypeOK /\ x \in FlowRecord /\ x.at = "edit" /\ j \in CalJobs /\ calJob[j] \in CalRow
  BY FlowKnown DEF CalendarInv, CalendarTypeOK, FlowRecord, EditCommit, Exists
<1>2. old \in CalRow /\ old.employee \in Staff \cup {NoOne}
  BY <1>1, FlowKnown DEF FlowSound, FlowRecord, CalRow
<1>3. employee \in Staff \cup {NoOne}
  BY <1>1, <1>2 DEF FlowRecord
<1>4. named \in Staff \cup {NoOne} /\ x.plan \in BOOLEAN
  BY <1>1, <1>3 DEF CalRow, FlowRecord
<1> HIDE DEF employee
<1>5. x.job \in CalJobs /\ x.copies[x.job].employee \in Staff \cup {NoOne}
  <2> HIDE DEF x
  <2>1. QED BY <1>1, <1>2
<1>6. calJob' = [calJob EXCEPT ![j].employee = named, ![j].scheduled = @ \/ x.plan]
  BY DEF EditCommit, employee
<1>rest. Step(f, rec) /\ linked' = linked /\ astray' = astray /\ UNCHANGED google /\ UNCHANGED bounds
  BY DEF EditCommit, employee
<1> HIDE DEF named
<1>7. row \in CalRow /\ row.event = calJob[j].event
  BY <1>1, <1>4 DEF CalRow
<1>8. calJob' = [calJob EXCEPT ![j] = row]
  BY <1>1, <1>6 DEF CalendarTypeOK, CalRow
<1> HIDE DEF row
<1>9. todo \in Seq(Notice)
  BY <1>3, <1>5, EditEventsTyped
<1> HIDE DEF todo
<1>10. rec \in FlowRecord /\ FlowSound(rec) /\ rec.at # "work"
  BY <1>9, NotifyTyped
<1> HIDE DEF rec
<1>11. row # NoOne
  BY <1>7, CalRowAssumption
<1>12. /\ calJob' \in [CalJobs -> CalRow \cup {NoOne}]
       /\ \A i \in CalJobs : calJob[i] # NoOne => calJob'[i] # NoOne /\ calJob'[i].event = calJob[i].event
  BY <1>1, <1>7, <1>8, <1>11 DEF CalendarTypeOK
<1>13. flow[f].at # "work"
  BY <1>1
<1> HIDE DEF x, j, old
<1>14. linked' \subseteq Staff /\ astray \subseteq astray' /\ astray' \subseteq CalJobs
  BY <1>rest, CalendarSets
<1>15. QED BY <1>rest, <1>10, <1>12, <1>13, <1>14, IdleFlow

LEMMA ConnectCalendarStep ==
  ASSUME CalendarInv, NEW f \in Flows, NEW u \in Staff, ConnectCalendar(f, u)
  PROVE  CalendarInv'
<1> DEFINE rec == [NoFlow EXCEPT !.at = "resync", !.user = u]
<1>1. CalendarTypeOK /\ flow[f].at # "work"
  BY DEF CalendarInv, ConnectCalendar
<1>2. rec \in FlowRecord /\ rec.at = "resync"
  BY NoFlowTyped DEF FlowRecord
<1>3. /\ Step(f, rec) /\ Change /\ linked' = linked \cup {u} /\ UNCHANGED <<calJob, google, astray>>
  BY DEF ConnectCalendar
<1> HIDE DEF rec
<1>4. FlowSound(rec) /\ rec.at # "work"
  BY <1>2 DEF FlowSound
<1>5. /\ calJob' \in [CalJobs -> CalRow \cup {NoOne}] /\ linked' \subseteq Staff
      /\ astray \subseteq astray' /\ astray' \subseteq CalJobs
  BY <1>1, <1>3 DEF CalendarTypeOK
<1>6. QED BY <1>1, <1>2, <1>3, <1>4, <1>5, IdleFlow

-----------------------------------------------------------------------------
(* A handler loads its jobs *)

\* The jobs it loads are there, and one that another handler works on goes astray.
LEMMA LoadStep ==
  ASSUME CalendarInv, NEW f \in Flows, NEW kind \in {"sync", "unassigned"},
         NEW who \in Staff \cup {NoOne}, NEW jobs \in SUBSET CalJobs, flow[f].at # "work",
         \A j \in jobs : Exists(j), Step(f, Working(f, kind, who, jobs)),
         astray' = astray \cup Overlaps(jobs), UNCHANGED <<calJob, linked, google, bounds>>
  PROVE  CalendarInv'
<1> DEFINE rec == Working(f, kind, who, jobs)
<1>1. CalendarTypeOK /\ flow[f] \in FlowRecord
  BY DEF CalendarInv, CalendarTypeOK
<1>2. /\ rec \in FlowRecord /\ rec.at = "work" /\ rec.jobs = jobs /\ rec.left = jobs
      /\ rec.copies = calJob /\ \A j \in jobs : rec.ids[j] = calJob[j].event
  <2> DEFINE ids == [j \in CalJobs |-> IF Exists(j) THEN calJob[j].event ELSE NoOne]
  <2>1. ids \in [CalJobs -> Events \cup {NoOne}] /\ \A j \in jobs : ids[j] = calJob[j].event
    BY <1>1 DEF Exists, CalendarTypeOK, CalRow
  <2>2. rec = [flow[f] EXCEPT !.at = "work", !.kind = kind, !.user = who, !.jobs = jobs,
                              !.left = jobs, !.copies = calJob, !.ids = ids]
    BY DEF Working
  <2> HIDE DEF rec, ids
  <2>3. calJob \in [CalJobs -> CalRow \cup {NoOne}]
    BY <1>1 DEF CalendarTypeOK
  <2>4. QED BY <1>1, <2>1, <2>2, <2>3 DEF FlowRecord
<1>3. Step(f, rec)
  OBVIOUS
<1> HIDE DEF rec
<1>4. FlowSound(rec)
  BY <1>2 DEF FlowSound, Exists
<1>5. /\ flow' \in [Flows -> FlowRecord] /\ flow'[f] = rec
      /\ \A g \in Flows \ {f} : flow'[g] = flow[g]
      /\ \A g \in Flows : FlowSound(flow'[g])
  BY <1>2, <1>3, <1>4, FlowMoves
<1>6. /\ calJob' = calJob /\ linked' = linked /\ inCalendar' = inCalendar /\ madeFor' = madeFor
      /\ changes' = changes /\ trouble' = trouble /\ astray' \subseteq CalJobs
      /\ astray \subseteq astray'
  BY <1>1 DEF google, bounds, Overlaps, CalendarTypeOK
<1>7. CalendarTypeOK'
  BY <1>1, <1>5, <1>6 DEF CalendarTypeOK
<1>8. /\ \A j \in CalJobs : ~Works(f, j) /\ (Works(f, j)' <=> j \in jobs)
      /\ \A g \in Flows \ {f}, j \in CalJobs : Works(g, j)' <=> Works(g, j)
  BY <1>2, <1>5 DEF Works
<1>9. \A j \in jobs : j \notin astray' => \A g \in Flows : ~Works(g, j)
  BY DEF Overlaps, AtWork, Works
<1>10. MadeForJobs'
  BY <1>6 DEF MadeForJobs, CalendarInv
<1>11. OneHandler'
  BY <1>6, <1>8, <1>9 DEF OneHandler, CalendarInv
<1>12. CopiesCurrent'
  BY <1>2, <1>5, <1>6, <1>8 DEF CopiesCurrent, CalendarInv, Exists
<1>13. NamedByHandler'
  <2> SUFFICES ASSUME NEW e \in Events, NEW g \in Flows, inCalendar[e] # NoOne,
                      madeFor[e] \notin astray', Works(g, madeFor[e])'
               PROVE  flow'[g].ids[madeFor[e]] = e
    BY <1>6 DEF NamedByHandler
  <2>1. madeFor[e] \in CalJobs /\ madeFor[e] \notin astray
    BY <1>1, <1>6 DEF CalendarInv, MadeForJobs, CalendarTypeOK
  <2>2. CASE g = f
    <3>1. madeFor[e] \in jobs /\ \A h \in Flows : ~Works(h, madeFor[e])
      BY <1>6, <1>8, <1>9, <2>1, <2>2
    <3>2. calJob[madeFor[e]].event = e
      BY <2>1, <3>1 DEF CalendarInv, NamedByRow
    <3>3. QED BY <1>2, <1>5, <2>2, <3>1, <3>2
  <2>3. CASE g # f
    <3>1. Works(g, madeFor[e]) /\ flow'[g] = flow[g]
      BY <1>5, <1>6, <1>8, <2>1, <2>3
    <3>2. QED BY <2>1, <3>1 DEF CalendarInv, NamedByHandler
  <2>4. QED BY <2>2, <2>3
<1>14. NamedByRow'
  <2> SUFFICES ASSUME NEW e \in Events, inCalendar[e] # NoOne, madeFor[e] \notin astray',
                      \A g \in Flows : ~Works(g, madeFor[e])'
               PROVE  calJob[madeFor[e]] # NoOne /\ calJob[madeFor[e]].event = e
    BY <1>6 DEF NamedByRow
  <2>1. madeFor[e] \in CalJobs /\ madeFor[e] \notin astray
    BY <1>1, <1>6 DEF CalendarInv, MadeForJobs, CalendarTypeOK
  <2>2. \A g \in Flows : ~Works(g, madeFor[e])
    BY <1>6, <1>8, <2>1
  <2>3. QED BY <2>1, <2>2 DEF CalendarInv, NamedByRow
<1>15. (\A g \in Flows : FlowSound(flow[g]))'
  BY <1>5 DEF FlowSound
<1>16. QED BY <1>7, <1>10, <1>11, <1>12, <1>13, <1>14, <1>15 DEF CalendarInv

LEMMA HandlerLoadsStep == ASSUME CalendarInv, NEW f \in Flows, HandlerLoads(f) PROVE CalendarInv'
<1> DEFINE x == flow[f]
           n == Head(x.todo)
           who == IF n.kind = "unassigned" THEN n.employee ELSE calJob[n.job].employee
           loads == Exists(n.job) /\ who \in linked /\ Asked(n.kind, calJob[n.job]) # "nothing"
<1>1. CalendarTypeOK /\ x \in FlowRecord /\ x.at = "notify" /\ x.todo \in Seq(Notice)
  BY FlowKnown DEF CalendarInv, HandlerLoads, FlowRecord
<1>2. x.todo # <<>>
  BY <1>1, FlowKnown DEF FlowSound
<1>3. n \in Notice /\ Tail(x.todo) \in Seq(Notice)
  BY <1>1, <1>2
<1>4. UNCHANGED <<calJob, linked, google, bounds>>
  BY DEF HandlerLoads
<1>5. CASE loads
  <2>1. Step(f, Working(f, n.kind, who, {n.job})) /\ astray' = astray \cup Overlaps({n.job})
    BY <1>5 DEF HandlerLoads
  <2>2. /\ n.kind \in {"sync", "unassigned"} /\ {n.job} \in SUBSET CalJobs
        /\ who \in Staff \cup {NoOne} /\ \A j \in {n.job} : Exists(j)
    BY <1>1, <1>3, <1>5 DEF Notice, CalendarTypeOK
  <2> HIDE DEF n, who
  <2>3. flow[f].at # "work"
    BY <1>1
  <2>4. QED BY <1>4, <2>1, <2>2, <2>3, LoadStep
<1>6. CASE ~loads
  <2> DEFINE rec == Notify(x, Tail(x.todo))
  <2>1. Step(f, rec) /\ UNCHANGED astray
    BY <1>6 DEF HandlerLoads
  <2>2. rec \in FlowRecord /\ FlowSound(rec) /\ rec.at # "work"
    BY <1>3, NotifyTyped
  <2> HIDE DEF rec
  <2>3. /\ calJob' \in [CalJobs -> CalRow \cup {NoOne}] /\ linked' \subseteq Staff
        /\ astray \subseteq astray' /\ astray' \subseteq CalJobs /\ calJob' = calJob
        /\ UNCHANGED google /\ UNCHANGED bounds
    BY <1>1, <1>4, <2>1 DEF CalendarTypeOK
  <2>4. QED BY <1>1, <2>1, <2>2, <2>3, IdleFlow
<1>7. QED BY <1>5, <1>6

LEMMA ResyncLoadsStep == ASSUME CalendarInv, NEW f \in Flows, ResyncLoads(f) PROVE CalendarInv'
<1> DEFINE x == flow[f]
           jobs == {j \in CalJobs : Exists(j) /\ calJob[j].employee = x.user /\ calJob[j].scheduled}
<1>1. CalendarTypeOK /\ x.at = "resync" /\ x.user \in Staff \cup {NoOne} /\ flow[f].at # "work"
  BY FlowKnown DEF CalendarInv, ResyncLoads, FlowRecord
<1>2. UNCHANGED <<calJob, linked, google, bounds>>
  BY DEF ResyncLoads
<1>3. CASE x.user \in linked
  <2>1. Step(f, Working(f, "sync", x.user, jobs)) /\ astray' = astray \cup Overlaps(jobs)
    BY <1>3 DEF ResyncLoads
  <2>2. jobs \in SUBSET CalJobs /\ \A j \in jobs : Exists(j)
    OBVIOUS
  <2> HIDE DEF jobs
  <2>3. QED BY <1>1, <1>2, <2>1, <2>2, LoadStep
<1>4. CASE x.user \notin linked
  <2>1. Step(f, NoFlow) /\ UNCHANGED astray
    BY <1>4 DEF ResyncLoads
  <2>2. NoFlow.at # "work"
    BY NoFlowTyped
  <2>3. /\ calJob' \in [CalJobs -> CalRow \cup {NoOne}] /\ linked' \subseteq Staff
        /\ astray \subseteq astray' /\ astray' \subseteq CalJobs /\ calJob' = calJob
        /\ UNCHANGED google /\ UNCHANGED bounds
    BY <1>1, <1>2, <2>1 DEF CalendarTypeOK
  <2>4. QED BY <1>1, <2>1, <2>2, <2>3, IdleFlow, NoFlowTyped
<1>5. QED BY <1>3, <1>4

-----------------------------------------------------------------------------
(* Google answers a handler *)

\* The event in a calendar of a job that its handler has not called for is the
\* one its copy names.
LEMMA OnlyEvent ==
  ASSUME CalendarInv, NEW f \in Flows, NEW j \in CalJobs \ astray, flow[f].at = "work",
         j \in flow[f].left, NEW e \in Events, inCalendar[e] # NoOne, madeFor[e] = j
  PROVE  e = flow[f].copies[j].event
<1>1. FlowSound(flow[f]) /\ NamedByHandler
  BY DEF CalendarInv
<1>2. j \in flow[f].jobs /\ flow[f].ids[j] = flow[f].copies[j].event
  BY <1>1 DEF FlowSound
<1>3. QED BY <1>1, <1>2 DEF NamedByHandler, Works

\* After an answer the id to commit names the job's event, if it has one.
LEMMA AnswerStep ==
  ASSUME CalendarInv, NEW f \in Flows, NEW j \in CalJobs, NEW id \in Events \cup {NoOne},
         flow[f].at = "work", j \in flow[f].left, Step(f, Answered(f, j, id)),
         UNCHANGED <<calJob, linked>>, astray \subseteq astray', astray' \subseteq CalJobs,
         inCalendar' \in [Events -> Staff \cup {NoOne}], madeFor' \in [Events -> CalJobs \cup {NoOne}],
         Change \/ Trouble \/ UNCHANGED bounds,
         j \notin astray' => \A e \in Events : inCalendar'[e] # NoOne /\ madeFor'[e] = j => id = e,
         \A e \in Events : inCalendar'[e] # NoOne => madeFor'[e] # NoOne,
         \A e \in Events : inCalendar'[e] # NoOne /\ madeFor'[e] # j
                             => inCalendar[e] # NoOne /\ madeFor'[e] = madeFor[e]
  PROVE  CalendarInv'
<1> DEFINE x == flow[f]
           rec == Answered(f, j, id)
<1>1. CalendarTypeOK /\ x \in FlowRecord /\ FlowSound(x)
  BY DEF CalendarInv, CalendarTypeOK
<1>2. x.left \subseteq x.jobs /\ x.jobs \subseteq CalJobs /\ j \in x.jobs
  BY <1>1 DEF FlowSound, FlowRecord
<1>3. /\ rec \in FlowRecord /\ rec.at = "work" /\ rec.jobs = x.jobs /\ rec.left = x.left \ {j}
      /\ rec.copies = x.copies /\ rec.ids[j] = id
      /\ \A i \in CalJobs \ {j} : rec.ids[i] = x.ids[i]
  BY <1>1 DEF Answered, FlowRecord
<1>4. Step(f, rec)
  OBVIOUS
<1> HIDE DEF rec
<1>5. FlowSound(rec)
  BY <1>1, <1>2, <1>3 DEF FlowSound
<1>6. /\ flow' \in [Flows -> FlowRecord] /\ flow'[f] = rec
      /\ \A g \in Flows \ {f} : flow'[g] = flow[g]
      /\ \A g \in Flows : FlowSound(flow'[g])
  BY <1>3, <1>4, <1>5, FlowMoves
<1>7. changes' \in 0..MaxChanges /\ trouble' \in 0..MaxTrouble
  BY BoundsKept
<1>8. CalendarTypeOK'
  BY <1>1, <1>6, <1>7 DEF CalendarTypeOK
<1>9. \A g \in Flows, i \in CalJobs : Works(g, i)' <=> Works(g, i)
  BY <1>3, <1>6 DEF Works
<1>10. Works(f, j)
  BY <1>2 DEF Works
<1>11. MadeForJobs'
  BY DEF MadeForJobs
<1>12. OneHandler'
  BY <1>9 DEF OneHandler, CalendarInv
<1>13. CopiesCurrent'
  BY <1>3, <1>6, <1>9 DEF CopiesCurrent, CalendarInv
<1>14. NamedByHandler'
  <2> SUFFICES ASSUME NEW e \in Events, NEW g \in Flows, inCalendar'[e] # NoOne,
                      madeFor'[e] \notin astray', Works(g, madeFor[e])'
               PROVE  flow'[g].ids[madeFor'[e]] = e
    BY DEF NamedByHandler
  <2> DEFINE i == madeFor'[e]
  <2>1. i \in CalJobs /\ i \notin astray /\ i \notin astray' /\ Works(g, i)
    BY <1>9
  <2>2. CASE i = j
    <3>1. g = f
      BY <1>10, <2>1, <2>2 DEF CalendarInv, OneHandler
    <3>2. id = e
      BY <2>1, <2>2
    <3>3. QED BY <1>3, <1>6, <2>2, <3>1, <3>2
  <2>3. CASE i # j
    <3>1. inCalendar[e] # NoOne /\ i = madeFor[e]
      BY <2>3
    <3>2. flow[g].ids[i] = e
      BY <2>1, <3>1 DEF CalendarInv, NamedByHandler
    <3>3. flow'[g].ids[i] = flow[g].ids[i]
      BY <1>3, <1>6, <2>1, <2>3
    <3>4. QED BY <3>2, <3>3
  <2>4. QED BY <2>2, <2>3
<1>15. NamedByRow'
  <2> SUFFICES ASSUME NEW e \in Events, inCalendar'[e] # NoOne, madeFor'[e] \notin astray',
                      \A g \in Flows : ~Works(g, madeFor[e])'
               PROVE  calJob[madeFor'[e]] # NoOne /\ calJob[madeFor'[e]].event = e
    BY DEF NamedByRow
  <2> DEFINE i == madeFor'[e]
  <2>1. i \in CalJobs /\ i \notin astray /\ \A g \in Flows : ~Works(g, i)
    BY <1>9
  <2>2. i # j
    BY <1>10, <2>1
  <2>3. inCalendar[e] # NoOne /\ i = madeFor[e]
    BY <2>2
  <2>4. QED BY <2>1, <2>3 DEF CalendarInv, NamedByRow
<1>16. (\A g \in Flows : FlowSound(flow[g]))'
  BY <1>6 DEF FlowSound
<1>17. QED BY <1>8, <1>11, <1>12, <1>13, <1>14, <1>15, <1>16 DEF CalendarInv

LEMMA GoogleCreatesStep ==
  ASSUME CalendarInv, NEW f \in Flows, NEW j \in CalJobs, GoogleCreates(f, j) PROVE CalendarInv'
<1> DEFINE x == flow[f]
<1>1. CalendarTypeOK /\ MadeForJobs /\ x \in FlowRecord /\ x.at = "work" /\ j \in x.left
  BY DEF CalendarInv, CalendarTypeOK, GoogleCreates
<1>2. PICK e \in Events : /\ madeFor[e] = NoOne
                          /\ inCalendar' = [inCalendar EXCEPT ![e] = x.user]
                          /\ madeFor' = [madeFor EXCEPT ![e] = j]
                          /\ Step(f, Answered(f, j, e))
  BY DEF GoogleCreates
<1>3. x.copies[j].event = NoOne
  BY DEF GoogleCreates, Asked
<1>4. UNCHANGED <<calJob, linked>> /\ astray' = astray /\ UNCHANGED bounds
  BY DEF GoogleCreates
<1>5. /\ inCalendar' \in [Events -> Staff \cup {NoOne}] /\ madeFor' \in [Events -> CalJobs \cup {NoOne}]
      /\ madeFor'[e] = j /\ \A d \in Events \ {e} : /\ madeFor'[d] = madeFor[d]
                                                    /\ inCalendar'[d] = inCalendar[d]
  BY <1>1, <1>2 DEF CalendarTypeOK, FlowRecord
<1>6. \A d \in Events : inCalendar'[d] # NoOne => madeFor'[d] # NoOne
  BY <1>1, <1>5, CalendarAssumption DEF MadeForJobs
<1>7. \A d \in Events : inCalendar'[d] # NoOne /\ madeFor'[d] # j
                             => inCalendar[d] # NoOne /\ madeFor'[d] = madeFor[d]
  BY <1>5
<1>8. ASSUME j \notin astray', NEW d \in Events, inCalendar'[d] # NoOne, madeFor'[d] = j PROVE e = d
  <2>1. CASE d # e
    <3>1. inCalendar[d] # NoOne /\ madeFor[d] = j
      BY <1>5, <1>8, <2>1
    <3>2. d = NoOne
      BY <1>1, <1>3, <1>4, <1>8, <3>1, OnlyEvent
    <3>3. QED BY <3>2, CalendarAssumption
  <2>2. QED BY <2>1
<1>9. /\ e \in Events \cup {NoOne} /\ astray \subseteq astray' /\ astray' \subseteq CalJobs
      /\ Step(f, Answered(f, j, e))
  BY <1>1, <1>2, <1>4 DEF CalendarTypeOK
<1> HIDE DEF x
<1>10. flow[f].at = "work" /\ j \in flow[f].left
  BY <1>1 DEF x
<1>11. QED BY <1>4, <1>5, <1>6, <1>7, <1>8, <1>9, <1>10, AnswerStep

LEMMA GoogleUpdatesStep ==
  ASSUME CalendarInv, NEW f \in Flows, NEW j \in CalJobs, GoogleUpdates(f, j) PROVE CalendarInv'
<1> DEFINE x == flow[f]
           e == x.copies[j].event
           id == IF inCalendar[e] = x.user THEN e ELSE NoOne
<1>1. /\ CalendarTypeOK /\ MadeForJobs /\ x \in FlowRecord /\ x.at = "work" /\ j \in x.left
      /\ FlowSound(x)
  BY DEF CalendarInv, CalendarTypeOK, GoogleUpdates
<1>2. x.copies[j] \in CalRow /\ e # NoOne
  BY <1>1 DEF FlowSound, FlowRecord, GoogleUpdates, Asked
<1>3. e \in Events /\ id \in Events \cup {NoOne}
  BY <1>2 DEF CalRow
<1>4. /\ UNCHANGED <<calJob, linked>> /\ inCalendar' = inCalendar /\ madeFor' = madeFor
      /\ UNCHANGED bounds /\ Step(f, Answered(f, j, id))
      /\ astray' = IF inCalendar[e] \in {x.user, NoOne} THEN astray ELSE astray \cup {j}
  BY DEF GoogleUpdates, google
<1>5. /\ inCalendar' \in [Events -> Staff \cup {NoOne}] /\ madeFor' \in [Events -> CalJobs \cup {NoOne}]
      /\ astray \subseteq astray' /\ astray' \subseteq CalJobs
      /\ \A d \in Events : inCalendar'[d] # NoOne => madeFor'[d] # NoOne
      /\ \A d \in Events : inCalendar'[d] # NoOne /\ madeFor'[d] # j
                             => inCalendar[d] # NoOne /\ madeFor'[d] = madeFor[d]
  BY <1>1, <1>4 DEF CalendarTypeOK, MadeForJobs
<1>6. ASSUME j \notin astray', NEW d \in Events, inCalendar'[d] # NoOne, madeFor'[d] = j PROVE id = d
  <2>1. inCalendar[d] # NoOne /\ madeFor[d] = j /\ j \notin astray
    BY <1>4, <1>5, <1>6
  <2>2. d = e
    BY <1>1, <2>1, OnlyEvent
  <2>3. inCalendar[e] \in {x.user, NoOne}
    BY <1>4, <1>6
  <2>4. QED BY <2>1, <2>2, <2>3
<1>7. flow[f].at = "work" /\ j \in flow[f].left
  BY <1>1
<1> HIDE DEF id, e, x
<1>8. UNCHANGED <<calJob, linked>> /\ UNCHANGED bounds /\ Step(f, Answered(f, j, id))
  BY <1>4
<1>9. QED BY <1>3, <1>5, <1>6, <1>7, <1>8, AnswerStep

LEMMA GoogleDeletesStep ==
  ASSUME CalendarInv, NEW f \in Flows, NEW j \in CalJobs, GoogleDeletes(f, j) PROVE CalendarInv'
<1> DEFINE x == flow[f]
           e == x.copies[j].event
           id == IF inCalendar[e] = x.user THEN NoOne ELSE e
<1>1. /\ CalendarTypeOK /\ MadeForJobs /\ x \in FlowRecord /\ x.at = "work" /\ j \in x.left
      /\ FlowSound(x)
  BY DEF CalendarInv, CalendarTypeOK, GoogleDeletes
<1>2. x.copies[j] \in CalRow /\ e # NoOne
  BY <1>1 DEF FlowSound, FlowRecord, GoogleDeletes, Asked
<1>3. e \in Events /\ id \in Events \cup {NoOne}
  BY <1>2 DEF CalRow
<1>4. /\ UNCHANGED <<calJob, linked>> /\ madeFor' = madeFor /\ astray' = astray
      /\ UNCHANGED bounds /\ Step(f, Answered(f, j, id))
      /\ inCalendar' = IF inCalendar[e] = x.user THEN [inCalendar EXCEPT ![e] = NoOne] ELSE inCalendar
  BY DEF GoogleDeletes
<1>5. /\ inCalendar' \in [Events -> Staff \cup {NoOne}] /\ madeFor' \in [Events -> CalJobs \cup {NoOne}]
      /\ astray \subseteq astray' /\ astray' \subseteq CalJobs
      /\ \A d \in Events : inCalendar'[d] # NoOne => inCalendar[d] # NoOne
      /\ inCalendar[e] = x.user => inCalendar'[e] = NoOne
  <2>1. /\ inCalendar \in [Events -> Staff \cup {NoOne}] /\ madeFor \in [Events -> CalJobs \cup {NoOne}]
        /\ astray \subseteq CalJobs
    BY <1>1 DEF CalendarTypeOK
  <2> HIDE DEF x, e
  <2>2. /\ inCalendar' \in [Events -> Staff \cup {NoOne}]
        /\ \A d \in Events : inCalendar'[d] # NoOne => inCalendar[d] # NoOne
        /\ inCalendar[e] = x.user => inCalendar'[e] = NoOne
    <3>1. CASE inCalendar[e] = x.user
      BY <1>3, <1>4, <2>1, <3>1
    <3>2. CASE inCalendar[e] # x.user
      BY <1>4, <2>1, <3>2
    <3>3. QED BY <3>1, <3>2
  <2>3. QED BY <1>4, <2>1, <2>2
<1>6. /\ \A d \in Events : inCalendar'[d] # NoOne => madeFor'[d] # NoOne
      /\ \A d \in Events : inCalendar'[d] # NoOne /\ madeFor'[d] # j
                             => inCalendar[d] # NoOne /\ madeFor'[d] = madeFor[d]
  <2>1. madeFor' = madeFor /\ \A d \in Events : inCalendar'[d] # NoOne => inCalendar[d] # NoOne
    BY <1>4, <1>5
  <2>2. \A d \in Events : inCalendar[d] # NoOne => madeFor[d] # NoOne
    BY <1>1 DEF MadeForJobs
  <2>3. QED BY <2>1, <2>2
<1>7. ASSUME j \notin astray', NEW d \in Events, inCalendar'[d] # NoOne, madeFor'[d] = j PROVE id = d
  <2>1. inCalendar[d] # NoOne /\ madeFor[d] = j /\ j \notin astray
    BY <1>4, <1>5, <1>7
  <2>2. d = e
    BY <1>1, <2>1, OnlyEvent
  <2>3. QED BY <1>5, <1>7, <2>2
<1>8. flow[f].at = "work" /\ j \in flow[f].left
  BY <1>1
<1> HIDE DEF id, e, x
<1>9. UNCHANGED <<calJob, linked>> /\ UNCHANGED bounds /\ Step(f, Answered(f, j, id))
  BY <1>4
<1>10. QED BY <1>3, <1>5, <1>6, <1>7, <1>8, <1>9, AnswerStep

LEMMA GoogleFailsStep ==
  ASSUME CalendarInv, NEW f \in Flows, NEW j \in CalJobs, GoogleFails(f, j) PROVE CalendarInv'
<1> DEFINE x == flow[f]
           id == x.copies[j].event
<1>1. /\ CalendarTypeOK /\ MadeForJobs /\ x \in FlowRecord /\ x.at = "work" /\ j \in x.left
      /\ FlowSound(x)
  BY DEF CalendarInv, CalendarTypeOK, GoogleFails
<1>2. x.copies[j] \in CalRow
  BY <1>1 DEF FlowSound, FlowRecord
<1>3. id \in Events \cup {NoOne}
  BY <1>2 DEF CalRow
<1>4. /\ UNCHANGED <<calJob, linked>> /\ inCalendar' = inCalendar /\ madeFor' = madeFor
      /\ astray' = astray /\ Trouble /\ Step(f, Answered(f, j, id))
  BY DEF GoogleFails, google
<1>5. /\ inCalendar' \in [Events -> Staff \cup {NoOne}] /\ madeFor' \in [Events -> CalJobs \cup {NoOne}]
      /\ astray \subseteq astray' /\ astray' \subseteq CalJobs
      /\ \A d \in Events : inCalendar'[d] # NoOne => madeFor'[d] # NoOne
      /\ \A d \in Events : inCalendar'[d] # NoOne /\ madeFor'[d] # j
                             => inCalendar[d] # NoOne /\ madeFor'[d] = madeFor[d]
  BY <1>1, <1>4 DEF CalendarTypeOK, MadeForJobs
<1>6. ASSUME j \notin astray', NEW d \in Events, inCalendar'[d] # NoOne, madeFor'[d] = j PROVE id = d
  <2>1. inCalendar[d] # NoOne /\ madeFor[d] = j /\ j \notin astray
    BY <1>4, <1>6
  <2>2. QED BY <1>1, <2>1, OnlyEvent
<1>7. flow[f].at = "work" /\ j \in flow[f].left
  BY <1>1
<1> HIDE DEF id, x
<1>8. UNCHANGED <<calJob, linked>> /\ Trouble /\ Step(f, Answered(f, j, id))
  BY <1>4
<1>9. QED BY <1>3, <1>5, <1>6, <1>7, <1>8, AnswerStep

-----------------------------------------------------------------------------
(* A handler leaves its jobs *)

\* The rows of its jobs name what Google answered, or the jobs go astray.
LEMMA LeaveStep ==
  ASSUME CalendarInv, NEW f \in Flows, NEW rec \in FlowRecord, FlowSound(rec), rec.at # "work",
         flow[f].at = "work", Step(f, rec), UNCHANGED <<linked, google>>,
         calJob' \in [CalJobs -> CalRow \cup {NoOne}],
         astray \subseteq astray', astray' \subseteq CalJobs, Change \/ Trouble \/ UNCHANGED bounds,
         \A j \in CalJobs : calJob[j] # NoOne => calJob'[j] # NoOne,
         \A j \in CalJobs \ flow[f].jobs : calJob'[j] = calJob[j],
         \A j \in flow[f].jobs \ astray' : calJob'[j].event = flow[f].ids[j]
  PROVE  CalendarInv'
<1>1. /\ flow' \in [Flows -> FlowRecord] /\ flow'[f] = rec
      /\ \A g \in Flows \ {f} : flow'[g] = flow[g]
      /\ \A g \in Flows : FlowSound(flow'[g])
  BY FlowMoves
<1>2. /\ linked' = linked /\ inCalendar' = inCalendar /\ madeFor' = madeFor
  BY DEF google
<1>3. CalendarTypeOK /\ CalendarTypeOK'
  BY <1>1, <1>2, BoundsKept DEF CalendarTypeOK, CalendarInv
<1>4. \A g \in Flows, j \in CalJobs : Works(g, j)' <=> g # f /\ Works(g, j)
  BY <1>1 DEF Works
<1>5. \A j \in CalJobs : Works(f, j) <=> j \in flow[f].jobs
  BY DEF Works
<1>6. MadeForJobs'
  BY <1>2 DEF MadeForJobs, CalendarInv
<1>7. OneHandler'
  BY <1>4 DEF OneHandler, CalendarInv
<1>8. CopiesCurrent'
  <2> SUFFICES ASSUME NEW g \in Flows, NEW j \in CalJobs \ astray', Works(g, j)'
               PROVE  calJob'[j] # NoOne /\ flow'[g].copies[j].event = calJob'[j].event
    BY DEF CopiesCurrent
  <2>1. g # f /\ Works(g, j) /\ flow'[g] = flow[g] /\ j \in CalJobs \ astray
    BY <1>1, <1>4
  <2>2. j \notin flow[f].jobs
    BY <1>5, <2>1 DEF CalendarInv, OneHandler
  <2>3. QED BY <2>1, <2>2 DEF CalendarInv, CopiesCurrent
<1>9. NamedByHandler'
  <2> SUFFICES ASSUME NEW e \in Events, NEW g \in Flows, inCalendar[e] # NoOne,
                      madeFor[e] \notin astray', Works(g, madeFor[e])'
               PROVE  flow'[g].ids[madeFor[e]] = e
    BY <1>2 DEF NamedByHandler
  <2>1. madeFor[e] \in CalJobs /\ madeFor[e] \notin astray
    BY <1>3 DEF CalendarInv, MadeForJobs, CalendarTypeOK
  <2>2. g # f /\ Works(g, madeFor[e]) /\ flow'[g] = flow[g]
    BY <1>1, <1>2, <1>4, <2>1
  <2>3. QED BY <2>1, <2>2 DEF CalendarInv, NamedByHandler
<1>10. NamedByRow'
  <2> SUFFICES ASSUME NEW e \in Events, inCalendar[e] # NoOne, madeFor[e] \notin astray',
                      \A g \in Flows : ~Works(g, madeFor[e])'
               PROVE  calJob'[madeFor[e]] # NoOne /\ calJob'[madeFor[e]].event = e
    BY <1>2 DEF NamedByRow
  <2> DEFINE j == madeFor[e]
  <2>1. j \in CalJobs /\ j \notin astray
    BY <1>3 DEF CalendarInv, MadeForJobs, CalendarTypeOK
  <2>2. \A g \in Flows \ {f} : ~Works(g, j)
    BY <1>2, <1>4, <2>1
  <2>3. CASE Works(f, j)
    <3>1. flow[f].ids[j] = e /\ calJob[j] # NoOne
      BY <2>1, <2>3 DEF CalendarInv, NamedByHandler, CopiesCurrent
    <3>2. QED BY <1>5, <2>1, <2>3, <3>1
  <2>4. CASE ~Works(f, j)
    <3>1. calJob[j] # NoOne /\ calJob[j].event = e
      BY <2>1, <2>2, <2>4 DEF CalendarInv, NamedByRow
    <3>2. QED BY <1>5, <2>1, <2>4, <3>1
  <2>5. QED BY <2>3, <2>4
<1>11. (\A g \in Flows : FlowSound(flow[g]))'
  BY <1>1 DEF FlowSound
<1>12. QED BY <1>3, <1>6, <1>7, <1>8, <1>9, <1>10, <1>11 DEF CalendarInv

LEMMA HandlerCommitsStep == ASSUME CalendarInv, NEW f \in Flows, HandlerCommits(f) PROVE CalendarInv'
<1> DEFINE x == flow[f]
           todo == IF x.todo = <<>> THEN <<>> ELSE Tail(x.todo)
           rec == Notify(x, todo)
           named(j) == j \in x.jobs /\ Exists(j) /\ x.ids[j] # x.copies[j].event
           row(j) == [calJob[j] EXCEPT !.event = x.ids[j]]
<1>1. /\ CalendarTypeOK /\ CopiesCurrent /\ x \in FlowRecord /\ FlowSound(x)
      /\ x.at = "work" /\ x.jobs \subseteq CalJobs
  BY FlowKnown DEF CalendarInv, HandlerCommits, FlowRecord
<1>2. todo \in Seq(Notice)
  BY <1>1 DEF FlowRecord
<1>3. /\ calJob' = [j \in CalJobs |-> IF named(j) THEN row(j) ELSE calJob[j]]
      /\ Step(f, rec) /\ UNCHANGED <<linked, google>> /\ astray' = astray /\ UNCHANGED bounds
  BY DEF HandlerCommits
<1> HIDE DEF todo
<1>4. rec \in FlowRecord /\ FlowSound(rec) /\ rec.at # "work"
  BY <1>2, NotifyTyped
<1> HIDE DEF rec
<1>5. ASSUME NEW j \in CalJobs, named(j) PROVE row(j) \in CalRow /\ row(j).event = x.ids[j]
  <2>1. calJob[j] \in CalRow
    BY <1>1, <1>5 DEF CalendarTypeOK, Exists
  <2>2. x.ids[j] \in Events \cup {NoOne}
    BY <1>1 DEF FlowRecord
  <2> HIDE DEF x, named
  <2>3. QED BY <2>1, <2>2 DEF CalRow
<1> HIDE DEF row
<1>6. \A j \in CalJobs : named(j) => row(j) # NoOne
  BY <1>5, CalRowAssumption
<1>7. calJob' \in [CalJobs -> CalRow \cup {NoOne}]
  <2>1. \A j \in CalJobs : (IF named(j) THEN row(j) ELSE calJob[j]) \in CalRow \cup {NoOne}
    BY <1>1, <1>5 DEF CalendarTypeOK
  <2> HIDE DEF named
  <2>2. QED BY <1>3, <2>1
<1>8. /\ \A j \in CalJobs : calJob[j] # NoOne => calJob'[j] # NoOne
      /\ \A j \in CalJobs \ x.jobs : calJob'[j] = calJob[j]
  BY <1>3, <1>6
<1>9. ASSUME NEW j \in x.jobs \ astray' PROVE calJob'[j].event = x.ids[j]
  <2>1. j \in CalJobs /\ Works(f, j) /\ j \notin astray
    BY <1>1, <1>3 DEF Works
  <2>2. calJob[j] # NoOne /\ x.copies[j].event = calJob[j].event
    BY <1>1, <2>1 DEF CopiesCurrent
  <2>3. CASE named(j)
    BY <1>3, <1>5, <2>1, <2>3
  <2>4. CASE ~named(j)
    <3>1. x.ids[j] = x.copies[j].event /\ calJob'[j] = calJob[j]
      BY <1>3, <2>1, <2>2, <2>4 DEF Exists
    <3>2. QED BY <2>2, <3>1
  <2>5. QED BY <2>3, <2>4
<1>10. astray \subseteq astray' /\ astray' \subseteq CalJobs /\ flow[f].at = "work"
  BY <1>1, <1>3 DEF CalendarTypeOK
<1> HIDE DEF x, named
<1>11. /\ \A j \in CalJobs \ flow[f].jobs : calJob'[j] = calJob[j]
       /\ \A j \in flow[f].jobs \ astray' : calJob'[j].event = flow[f].ids[j]
  BY <1>8, <1>9 DEF x
<1>12. UNCHANGED <<linked, google>> /\ UNCHANGED bounds /\ Step(f, rec)
  BY <1>3
<1>13. QED BY <1>4, <1>7, <1>8, <1>10, <1>11, <1>12, LeaveStep

LEMMA FlowDiesStep == ASSUME CalendarInv, NEW f \in Flows, FlowDies(f) PROVE CalendarInv'
<1> DEFINE x == flow[f]
<1>1. /\ CalendarTypeOK /\ CopiesCurrent /\ x \in FlowRecord /\ x.jobs \subseteq CalJobs
  BY FlowKnown DEF CalendarInv, FlowRecord
<1>2. /\ Trouble /\ Step(f, NoFlow) /\ calJob' = calJob /\ linked' = linked /\ UNCHANGED google
      /\ astray' = astray \cup {j \in x.jobs : x.ids[j] # x.copies[j].event}
  BY DEF FlowDies
<1>3. /\ astray \subseteq astray' /\ astray' \subseteq CalJobs /\ linked' \subseteq Staff
      /\ calJob' \in [CalJobs -> CalRow \cup {NoOne}]
  BY <1>1, <1>2 DEF CalendarTypeOK
<1>4. CASE x.at = "work"
  <2>1. ASSUME NEW j \in x.jobs \ astray' PROVE calJob'[j].event = x.ids[j]
    <3>1. j \in CalJobs /\ Works(f, j) /\ j \notin astray
      BY <1>1, <1>3, <1>4 DEF Works
    <3>2. x.copies[j].event = calJob[j].event /\ x.ids[j] = x.copies[j].event
      BY <1>1, <1>2, <3>1 DEF CopiesCurrent
    <3>3. QED BY <1>2, <3>2
  <2>2. UNCHANGED <<linked, google>> /\ NoFlow.at # "work"
    BY <1>2, NoFlowTyped
  <2>3. QED BY <1>2, <1>3, <1>4, <2>1, <2>2, NoFlowTyped, LeaveStep
<1>5. CASE x.at # "work"
  <2>1. NoFlow.at # "work"
    BY NoFlowTyped
  <2>2. QED BY <1>2, <1>3, <1>5, <2>1, NoFlowTyped, IdleFlow
<1>6. QED BY <1>4, <1>5

-----------------------------------------------------------------------------
(* The theorems *)

LEMMA CalendarStart == CalendarInit => CalendarInv
<1> SUFFICES ASSUME CalendarInit PROVE CalendarInv
  OBVIOUS
<1>1. CalendarTypeOK
  BY NoFlowTyped, CalendarAssumption DEF CalendarInit, CalendarTypeOK
<1>2. \A f \in Flows : FlowSound(flow[f]) /\ flow[f].at = "idle"
  BY NoFlowTyped DEF CalendarInit
<1>3. \A f \in Flows, j \in CalJobs : ~Works(f, j)
  BY <1>2 DEF Works
<1>4. \A e \in Events : inCalendar[e] = NoOne
  BY DEF CalendarInit
<1>5. MadeForJobs /\ NamedByHandler /\ NamedByRow
  BY <1>4 DEF MadeForJobs, NamedByHandler, NamedByRow
<1>6. OneHandler /\ CopiesCurrent
  BY <1>3 DEF OneHandler, CopiesCurrent
<1>7. QED BY <1>1, <1>2, <1>5, <1>6 DEF CalendarInv

LEMMA CalendarStep == CalendarInv /\ [CalendarNext]_calendarVars => CalendarInv'
<1> SUFFICES ASSUME CalendarInv, [CalendarNext]_calendarVars PROVE CalendarInv'
  OBVIOUS
<1>1. ASSUME \/ \E j \in CalJobs : DeleteCalJob(j)
             \/ \E u \in Staff : DisconnectCalendar(u)
             \/ \E e \in Events : GoogleForgets(e)
      PROVE  CalendarInv'
  BY <1>1, OutsideTheApp
<1>2. ASSUME NEW f \in Flows, \/ EditCommit(f) \/ HandlerLoads(f) \/ ResyncLoads(f)
                              \/ HandlerCommits(f) \/ FlowDies(f)
      PROVE  CalendarInv'
  BY <1>2, EditCommitStep, HandlerLoadsStep, ResyncLoadsStep, HandlerCommitsStep, FlowDiesStep
<1>3. ASSUME NEW f \in Flows, NEW u \in Staff, ConnectCalendar(f, u) PROVE CalendarInv'
  BY <1>3, ConnectCalendarStep
<1>4. ASSUME NEW f \in Flows, NEW j \in CalJobs,
             \/ GoogleCreates(f, j) \/ GoogleUpdates(f, j) \/ GoogleDeletes(f, j) \/ GoogleFails(f, j)
      PROVE  CalendarInv'
  BY <1>4, GoogleCreatesStep, GoogleUpdatesStep, GoogleDeletesStep, GoogleFailsStep
<1>5. ASSUME NEW f \in Flows, NEW j \in CalJobs, NEW u \in Staff, AssignCalJob(f, j, u)
      PROVE  CalendarInv'
  BY <1>5, AssignCalJobStep
<1>6. ASSUME NEW f \in Flows, NEW j \in CalJobs, NEW u \in Staff \cup {NoOne}, NEW plan \in BOOLEAN,
             CreateCalJob(f, j, u, plan) \/ EditRead(f, j, {u}, plan)
      PROVE  CalendarInv'
  <2>1. {u} \in SUBSET (Staff \cup {NoOne})
    OBVIOUS
  <2>2. QED BY <1>6, <2>1, CreateCalJobStep, EditReadStep
<1>7. ASSUME NEW f \in Flows, NEW j \in CalJobs, EditRead(f, j, {}, TRUE) PROVE CalendarInv'
  <2>1. {} \in SUBSET (Staff \cup {NoOne}) /\ TRUE \in BOOLEAN
    OBVIOUS
  <2>2. QED BY <1>7, <2>1, EditReadStep
<1>8. ASSUME UNCHANGED calendarVars PROVE CalendarInv'
  <2>1. UNCHANGED <<calJob, linked, inCalendar, madeFor, flow, astray, changes, trouble>>
    BY <1>8 DEF calendarVars
  <2>2. UNCHANGED bounds /\ UNCHANGED flow /\ UNCHANGED <<calJob, linked, inCalendar, madeFor, astray>>
    BY <2>1 DEF bounds
  <2>3. /\ calJob' \in [CalJobs -> CalRow \cup {NoOne}] /\ linked' \subseteq Staff
        /\ inCalendar' \in [Events -> Staff \cup {NoOne}] /\ astray' \subseteq CalJobs
    BY <2>2 DEF CalendarInv, CalendarTypeOK
  <2>4. QED BY <2>2, <2>3, FlowsWait
<1>9. QED BY <1>1, <1>2, <1>3, <1>4, <1>5, <1>6, <1>7, <1>8 DEF CalendarNext

\* The inductive invariant: of a job that is not astray one handler is at work,
\* with a current copy, and the job's event is the one that handler is to
\* commit, or with no handler the one the row names.
THEOREM CalendarInvariant == CalendarSpec => []CalendarInv
BY CalendarStart, CalendarStep, PTL DEF CalendarSpec

\* Rows, flows and histories keep their types.
THEOREM CalendarTypes == CalendarSpec => []CalendarTypeOK
<1>1. CalendarInv => CalendarTypeOK
  BY DEF CalendarInv
<1>2. QED BY <1>1, CalendarInvariant, PTL

\* An event in somebody's calendar is named by its job's row, or by the handler
\* that is about to commit it, unless the job went astray by a named cause.
THEOREM EventsStayNamed == CalendarSpec => []EventsAreNamed
<1>1. CalendarInv => EventsAreNamed
  <2> SUFFICES ASSUME CalendarInv, NEW e \in Events, inCalendar[e] # NoOne, madeFor[e] \notin astray
               PROVE  \/ Exists(madeFor[e]) /\ calJob[madeFor[e]].event = e
                      \/ \E f \in AtWork(madeFor[e]) : flow[f].ids[madeFor[e]] = e
    BY DEF EventsAreNamed
  <2>1. CASE \E f \in Flows : Works(f, madeFor[e])
    <3>1. PICK f \in Flows : Works(f, madeFor[e])
      BY <2>1
    <3>2. f \in AtWork(madeFor[e]) /\ flow[f].ids[madeFor[e]] = e
      BY <3>1 DEF CalendarInv, NamedByHandler, Works, AtWork
    <3>3. QED BY <3>2
  <2>2. CASE \A f \in Flows : ~Works(f, madeFor[e])
    BY <2>2 DEF CalendarInv, NamedByRow, Exists
  <2>3. QED BY <2>1, <2>2
<1>2. QED BY <1>1, CalendarInvariant, PTL

-----------------------------------------------------------------------------
(* The components of MCBackOffice side by side *)

\* A step of one component is a step or a stutter of each of them.
LEMMA PartsMove ==
  [Next]_vars => /\ [WorkNext]_workVars /\ [CampaignNext]_campaignVars
                 /\ [AccountsNext]_accountVars /\ [CatalogueNext]_catalogueVars
                 /\ [DataNext]_dataVars /\ [CalendarNext]_calendarVars
                 /\ [DispatchNext]_dispatchVars
BY DEF Next, vars, NotWork, NotCampaign, NotAccounts, NotCatalogue, NotData, NotCalendar,
       NotDispatch, DataNext

\* The components share no row: together they behave as each does by itself, so
\* that every theorem about one of them is about the composition too.
THEOREM PartsImplementTheirSpecs ==
  Spec => /\ WorkSpec /\ CampaignSpec /\ AccountsSpec /\ CatalogueSpec /\ DataSpec
          /\ CalendarSpec /\ DispatchSpec
<1>1. Init => /\ WorkInit /\ CampaignInit /\ AccountsInit /\ CatalogueInit /\ DataInit
              /\ CalendarInit /\ DispatchInit
  BY DEF Init
<1>2. QED
  BY <1>1, PartsMove, PTL DEF Spec, WorkSpec, CampaignSpec, AccountsSpec, CatalogueSpec, DataSpec,
     CalendarSpec, DispatchSpec

\* Every variable keeps its type in the composition that the run back_office checks.
THEOREM BackOfficeTypes == Spec => []TypesOK
<1>1. /\ WorkTypeOK /\ CampaignTypeOK /\ AccountsTypeOK /\ CatalogueTypeOK /\ DataTypeOK
      /\ CalendarTypeOK /\ DispatchTypeOK
      => TypesOK
  BY DEF TypesOK
<1>2. QED
  BY <1>1, PartsImplementTheirSpecs, WorkTypes, CampaignTypes, AccountsTypes, CatalogueTypes,
     DataTypes, CalendarTypes, DispatchTypes, PTL

\* So it is with what that run checks beside the types: each promise of a component
\* holds of the composition, whatever the constants.
THEOREM BackOfficeKeepsPromises ==
  Spec => /\ [](/\ WorkedWithinElapsed /\ OneRunningJob /\ BlastOnce /\ CompletedAddsUp
                /\ InvitationHonoured /\ CacheIsCurrent /\ FinishedAsReported /\ EventsAreNamed)
          /\ RoutesKeepProgress /\ ImportsAreAtomic
BY PartsImplementTheirSpecs, NoSecondTwice, OneJobAtATime, RecipientsOnce, CompletedCampaignsAddUp,
   InvitationsAreHonoured, CachedIsCommitted, JobsEndAsReported, EventsStayNamed,
   PlansKeepProgress, ImportsTakeEffectAtOnce, PTL

=============================================================================
