------------------------------- MODULE Dispatch -------------------------------
(***************************************************************************)
(* Autoroute (tools/routing_tools.py, services/routing): a planner loads   *)
(* the jobs that wait and those of the day, locates their addresses, has a *)
(* routing service give them to technicians, notifies these and commits,   *)
(* while other sessions start, finish, hand over and move the same jobs.   *)
(*                                                                         *)
(* A chat turn holds the write lock while its tool runs; a web request     *)
(* takes it with the first flush, the query for its second technician, and *)
(* a flush writes the columns that differ from what the session read.      *)
(***************************************************************************)
EXTENDS Naturals

CONSTANTS
    Visits,            \* jobs
    Crew,              \* team members
    Based,             \* those with a default start location
    Placed,            \* jobs whose coordinates are known at first
    Planners,          \* sessions that autoroute
    Days,              \* days a job can be scheduled for
    MovedTo,           \* the statuses other sessions give a job
    Open,              \* NULL, and a job the planner has not loaded
    MaxPlans, MaxMoves \* bounds: plans begun, changes by other sessions

VisitStatus == {"PENDING", "SCHEDULED", "BOOKED", "IN_PROGRESS", "PAUSED", "COMPLETED",
                "CANCELLED"}

ASSUME DispatchAssumption ==
    /\ MovedTo \subseteq VisitStatus
    /\ Based \subseteq Crew /\ Placed \subseteq Visits /\ Days # {}
    /\ Open \notin Crew \cup Days
    /\ MaxPlans \in Nat /\ MaxMoves \in Nat

VARIABLES
    visit,    \* jobs table
    planner,  \* what each planning session holds
    plans, moves

dispatchVars == <<visit, planner, plans, moves>>

-----------------------------------------------------------------------------
\* place: an address, if any, without or with its coordinates.
Visit == [status : VisitStatus, tech : Crew \cup {Open}, day : Days \cup {Open},
          place : {"address", "located"}]

\* A planner's copies, the technician the solution gives each job, and the
\* technicians whose route is applied.
PlannerRecord == [at : {"idle", "scheduled", "geocode", "solve", "apply"},
                  day : Days, locked : BOOLEAN,
                  copy : [Visits -> Visit \cup {Open}],
                  given : [Visits -> Based \cup {Open}], done : SUBSET Based]

NoPlan == [at |-> "idle", day |-> CHOOSE d \in Days : TRUE, locked |-> FALSE,
           copy |-> [v \in Visits |-> Open], given |-> [v \in Visits |-> Open], done |-> {}]

Loaded(p) == {v \in Visits : planner[p].copy[v] # Open}
Given(p) == {v \in Visits : planner[p].given[v] # Open}
OtherLocks(p) == \E q \in Planners \ {p} : planner[q].locked

\* Mutant of Waiting: every job that is not completed is to be routed.
Unfinished(v) == visit[v].status # "COMPLETED"

\* What the two searches of _calculate ask for.
Waiting(v) == visit[v].status = "PENDING"
OnDay(v, d) == visit[v].status = "SCHEDULED" /\ visit[v].day = d

\* The columns a session changed, written over the row as it is now.
Flushed(row, copy, new) == [f \in DOMAIN row |-> IF new[f] = copy[f] THEN row[f] ELSE new[f]]

DispatchInit ==
    /\ visit = [v \in Visits |-> [status |-> "PENDING", tech |-> Open, day |-> Open,
                                 place |-> IF v \in Placed THEN "located" ELSE "address"]]
    /\ planner = [p \in Planners |-> NoPlan]
    /\ plans = 0 /\ moves = 0

-----------------------------------------------------------------------------
\* update_job of another session: any of the columns, in one commit.
Elsewhere(v) ==
    /\ moves < MaxMoves /\ moves' = moves + 1
    /\ \A p \in Planners : ~planner[p].locked
    /\ \E s \in MovedTo, t \in Crew \cup {Open}, d \in Days \cup {Open} :
         visit' = [visit EXCEPT ![v] = [@ EXCEPT !.status = s, !.tech = t, !.day = d]]
    /\ UNCHANGED <<planner, plans>>

\* AutorouteTool or the routing endpoints: the pending jobs are read first ...
RoutesPending(p, d, locked) ==
    /\ planner[p].at = "idle"
    /\ plans < MaxPlans /\ plans' = plans + 1
    /\ locked => ~OtherLocks(p)
    /\ planner' = [planner EXCEPT ![p] =
         [NoPlan EXCEPT !.at = "scheduled", !.day = d, !.locked = locked,
                        !.copy = [v \in Visits |-> IF Waiting(v) THEN visit[v] ELSE Open]]]
    /\ UNCHANGED <<visit, moves>>

\* ... then those scheduled for the day; a job read twice keeps its first copy.
RoutesScheduled(p) ==
    /\ planner[p].at = "scheduled"
    /\ planner' = [planner EXCEPT ![p].at = "geocode", ![p].copy = [v \in Visits |->
         IF @[v] = Open /\ OnDay(v, planner[p].day) THEN visit[v] ELSE @[v]]]
    /\ UNCHANGED <<visit, plans, moves>>

\* Each address without coordinates is looked up; some are not found.
GeocodeJobs(p) ==
    /\ planner[p].at = "geocode" /\ Loaded(p) # {}
    /\ \E found \in SUBSET {v \in Loaded(p) : planner[p].copy[v].place = "address"} :
         planner' = [planner EXCEPT ![p].at = "solve",
           ![p].copy = [v \in Visits |-> IF v \in found THEN [@[v] EXCEPT !.place = "located"]
                                         ELSE @[v]]]
    /\ UNCHANGED <<visit, plans, moves>>

\* The coordinates a turn keeps when it does not apply a solution.
Located(p) == [v \in Visits |->
    IF v \in Loaded(p) /\ planner[p].copy[v].place = "located"
    THEN [visit[v] EXCEPT !.place = "located"] ELSE visit[v]]

\* No jobs, a routing error, or a preview.  A turn commits the coordinates it
\* found, a request drops them.
RoutesEnd(p) ==
    /\ \/ planner[p].at = "geocode" /\ Loaded(p) = {}
       \/ planner[p].at = "solve"
    /\ visit' = IF planner[p].locked THEN Located(p) ELSE visit
    /\ planner' = [planner EXCEPT ![p] = NoPlan]
    /\ UNCHANGED <<plans, moves>>

\* What a solver may answer: jobs without coordinates and technicians without a
\* base are left out, and a job may be nobody's.
Assignments(p) == [{v \in Loaded(p) : planner[p].copy[v].place = "located"} -> Based \cup {Open}]

\* calculate_routes: any technicians with a base for any of the located jobs.
Solve(p) ==
    /\ planner[p].at = "solve"
    /\ \E given \in Assignments(p) :
         planner' = [planner EXCEPT ![p].at = "apply",
           ![p].given = [v \in Visits |-> IF v \in DOMAIN given THEN given[v] ELSE Open]]
    /\ UNCHANGED <<visit, plans, moves>>

\* apply_schedule, one technician's route, of which Messaging sends the notices: the
\* query for a second one flushes what the first was given, and keeps the lock.
ApplyRoute(p, t) ==
    /\ planner[p].at = "apply"
    /\ t \notin planner[p].done
    /\ \E v \in Visits : planner[p].given[v] = t
    /\ planner[p].done # {} => ~OtherLocks(p)
    /\ planner' = [planner EXCEPT ![p].done = @ \cup {t},
                                  ![p].locked = @ \/ planner[p].done # {}]
    /\ UNCHANGED <<visit, plans, moves>>

\* A job as the solution has it: an arrival may be missing.
Planned(p, v, arrival) == [planner[p].copy[v] EXCEPT
    !.tech = planner[p].given[v], !.status = "SCHEDULED",
    !.day = IF arrival = Open THEN @ ELSE arrival]

ScheduleCommit(p) ==
    /\ planner[p].at = "apply"
    /\ \A v \in Given(p) : planner[p].given[v] \in planner[p].done
    /\ ~OtherLocks(p)
    /\ \E arrival \in [Visits -> Days \cup {Open}] :
         visit' = [v \in Visits |->
           IF v \in Given(p)
           THEN [Flushed(visit[v], planner[p].copy[v], Planned(p, v, arrival[v]))
                   EXCEPT !.place = Located(p)[v].place]
           ELSE Located(p)[v]]
    /\ planner' = [planner EXCEPT ![p] = NoPlan]
    /\ UNCHANGED <<plans, moves>>

\* The flush or the commit waits too long for the lock: rolled back, with the
\* notices so far queued.
ScheduleFails(p) ==
    /\ planner[p].at = "apply"
    /\ planner' = [planner EXCEPT ![p] = NoPlan]
    /\ UNCHANGED <<visit, plans, moves>>

DispatchNext ==
    \/ \E v \in Visits : Elsewhere(v)
    \/ \E p \in Planners :
         \/ \E d \in Days, locked \in BOOLEAN : RoutesPending(p, d, locked)
         \/ \E t \in Based : ApplyRoute(p, t)
         \/ RoutesScheduled(p) \/ GeocodeJobs(p) \/ RoutesEnd(p)
         \/ Solve(p) \/ ScheduleCommit(p) \/ ScheduleFails(p)

DispatchSpec == DispatchInit /\ [][DispatchNext]_dispatchVars

-----------------------------------------------------------------------------
(* Properties *)

\* Jobs, copies and counters have the columns the code declares.
DispatchTypeOK ==
    /\ visit \in [Visits -> Visit]
    /\ planner \in [Planners -> PlannerRecord]
    /\ plans \in 0..MaxPlans /\ moves \in 0..MaxMoves

\* A plan takes back to SCHEDULED no job that somebody has booked, started, paused,
\* finished or cancelled since, or set to PENDING again, except one the planner had
\* read as PENDING; and a job it does not give to a technician keeps its status,
\* technician and day.  This is about apply_schedule,
\* which writes over jobs read before a solver of up to 30 seconds.
RoutesKeepProgress ==
    [][\A p \in Planners :
         (planner[p].at = "apply" /\ planner'[p].at = "idle") =>
           \A v \in Visits :
             /\ visit'[v].status # visit[v].status
                  => planner[p].copy[v] # Open /\ planner[p].copy[v].status = "PENDING"
             /\ planner[p].given[v] = Open
                  => /\ visit'[v].status = visit[v].status
                     /\ visit'[v].tech = visit[v].tech
                     /\ visit'[v].day = visit[v].day]_dispatchVars

=============================================================================
