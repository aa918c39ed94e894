---------------------------- MODULE WorkProofs ----------------------------
(* Proofs about Work: whatever calls overlap on one job, its booked time   *)
(* stays within the time that has passed, because every row and every copy *)
(* a session holds has its total below its start time; and an employee who *)
(* was not handed a job has one running job, because a start in progress   *)
(* already excludes every other job.                                       *)
EXTENDS Work, FiniteSetTheorems, TLAPS

-----------------------------------------------------------------------------
(* The inductive invariant *)

\* What was booked on a job was booked before its present start, if it has one.
Timely(r) == /\ r.total <= now
             /\ r.begun # Unset => r.total <= r.begun /\ r.begun <= now

RowsTimely == \A j \in WorkJobs : Timely(work[j])
CopiesTimely == \A s \in Callers : Timely(call[s].copy)

\* A start in progress was allowed, and nothing but excused steps came between.
StartsAllowed ==
  \A s \in Callers :
    (call[s].at = "start" /\ call[s].employee \notin excused)
      => Running(call[s].employee) \subseteq {call[s].job}

\* OneRunningJob without counting.
Single == \A e \in Employees \ excused : \A j, k \in Running(e) : j = k

WorkInv == WorkTypeOK /\ RowsTimely /\ CopiesTimely /\ StartsAllowed /\ Single

-----------------------------------------------------------------------------
(* Rows *)

\* A commit writes a row of the right type, column by column.
LEMMA WrittenRow ==
  ASSUME NEW row \in WorkRow, NEW copy \in WorkRow, NEW new \in WorkRow
  PROVE  /\ Written(row, copy, new) \in WorkRow
         /\ Written(row, copy, new).status = IF new.status = copy.status THEN row.status ELSE new.status
         /\ Written(row, copy, new).employee
              = IF new.employee = copy.employee THEN row.employee ELSE new.employee
         /\ Written(row, copy, new).begun = IF new.begun = copy.begun THEN row.begun ELSE new.begun
         /\ Written(row, copy, new).total = IF new.total = copy.total THEN row.total ELSE new.total
<1>1. DOMAIN row = {"status", "employee", "begun", "total", "completed"}
  BY DEF WorkRow
<1>2. Written(row, copy, new) \in WorkRow
  BY <1>1 DEF WorkRow, Written
<1>3. QED BY <1>1, <1>2 DEF Written

LEMMA ElapsedNat ==
  ASSUME now \in Nat, NEW r \in WorkRow, Timely(r)
  PROVE  Elapsed(r) \in Nat /\ r.total + Elapsed(r) \in Nat /\ r.total + Elapsed(r) <= now
<1>1. r.total \in Nat /\ (r.begun # Unset => r.begun \in Nat)
  BY DEF WorkRow, Time
<1>2. QED BY <1>1 DEF Elapsed, Timely

\* The three changes of the clock keep types and times.
LEMMA StartedRow ==
  ASSUME now \in Nat, NEW r \in WorkRow, Timely(r), NEW e \in Employees
  PROVE  /\ Started(r, e) \in WorkRow
         /\ Started(r, e).begun = now /\ Started(r, e).total = r.total
         /\ Started(r, e).employee = e /\ Started(r, e).status = "IN_PROGRESS"
         /\ Timely(Started(r, e))
<1>1. Started(r, e) \in WorkRow
  BY DEF Started, WorkRow, Time, JobStatus
<1>2. Started(r, e).begun = now /\ Started(r, e).total = r.total
      /\ Started(r, e).employee = e /\ Started(r, e).status = "IN_PROGRESS"
  BY DEF Started, WorkRow
<1>3. QED BY <1>1, <1>2 DEF Timely, WorkRow

\* Columns of a row as pause or finish leave it.
StoppedFrom(r, new) ==
  /\ new \in WorkRow
  /\ new.begun = Unset
  /\ new.employee = r.employee
  /\ new.status # "IN_PROGRESS"
  /\ new.total <= now

LEMMA PausedRow ==
  ASSUME now \in Nat, NEW r \in WorkRow, Timely(r)
  PROVE  StoppedFrom(r, Paused(r))
<1>1. Elapsed(r) \in Nat /\ r.total + Elapsed(r) \in Nat /\ r.total + Elapsed(r) <= now
  BY ElapsedNat
<1> DEFINE total == r.total + Elapsed(r)
           p == [r EXCEPT !.total = total]
           q == [p EXCEPT !.begun = Unset]
<1>2. Paused(r) = [q EXCEPT !.status = "PAUSED"]
  BY DEF Paused
<1>3. total \in Nat /\ total <= now
  BY <1>1
<1> HIDE DEF total
<1>4. p \in WorkRow /\ p.total = total /\ p.employee = r.employee
  BY <1>3 DEF WorkRow
<1> HIDE DEF p
<1>5. q \in WorkRow /\ q.total = total /\ q.employee = r.employee /\ q.begun = Unset
  BY <1>4 DEF WorkRow, Time
<1> HIDE DEF q
<1>6. QED BY <1>2, <1>3, <1>5 DEF StoppedFrom, WorkRow, JobStatus

LEMMA FinishedRow ==
  ASSUME now \in Nat, NEW r \in WorkRow, Timely(r)
  PROVE  StoppedFrom(r, Finished(r))
<1> DEFINE total == IF r.status = "IN_PROGRESS" THEN r.total + Elapsed(r) ELSE r.total
<1>1. Elapsed(r) \in Nat /\ r.total + Elapsed(r) \in Nat /\ r.total + Elapsed(r) <= now
  BY ElapsedNat
<1>2. total \in Nat /\ total <= now
  BY <1>1 DEF WorkRow, Timely
<1> DEFINE p == [r EXCEPT !.total = total]
           q == [p EXCEPT !.begun = Unset]
           o == [q EXCEPT !.status = "COMPLETED"]
<1>3. Finished(r) = [o EXCEPT !.completed = now]
  BY DEF Finished
<1> HIDE DEF total
<1>4. p \in WorkRow /\ p.total = total /\ p.employee = r.employee
  BY <1>2 DEF WorkRow
<1> HIDE DEF p
<1>5. q \in WorkRow /\ q.total = total /\ q.employee = r.employee /\ q.begun = Unset
  BY <1>4 DEF WorkRow, Time
<1> HIDE DEF q
<1>6. /\ o \in WorkRow /\ o.total = total /\ o.employee = r.employee /\ o.begun = Unset
      /\ o.status = "COMPLETED"
  BY <1>5 DEF WorkRow, JobStatus
<1> HIDE DEF o
<1>7. QED BY <1>2, <1>3, <1>6 DEF StoppedFrom, WorkRow, Time

\* A commit of such a change over a timely row leaves a timely row.
LEMMA CommitTimely ==
  ASSUME now \in Nat, NEW row \in WorkRow, NEW copy \in WorkRow, NEW new \in WorkRow,
         Timely(row), new.total <= now,
         \/ new.begun = Unset /\ (copy.begun # Unset \/ new.total = copy.total)
         \/ new.begun = now /\ new.total = copy.total
         \/ new.begun = copy.begun /\ new.total = copy.total
  PROVE  Timely(Written(row, copy, new))
<1> DEFINE w == Written(row, copy, new)
<1>1. /\ w.begun = IF new.begun = copy.begun THEN row.begun ELSE new.begun
      /\ w.total = IF new.total = copy.total THEN row.total ELSE new.total
  BY WrittenRow
<1>2. row.total \in Nat /\ new.total \in Nat /\ row.total <= now
  BY DEF WorkRow, Timely
<1> HIDE DEF w
<1>3. Timely(w)
  BY <1>1, <1>2 DEF Timely
<1>4. QED BY <1>3 DEF w

\* Who runs what after a commit.
LEMMA RunningAfter ==
  ASSUME WorkTypeOK, NEW j \in WorkJobs, NEW r \in WorkRow, work' = [work EXCEPT ![j] = r],
         NEW e \in Employees
  PROVE  /\ Running(e)' \subseteq Running(e) \cup {j}
         /\ (r.employee # e \/ r.status # "IN_PROGRESS") => Running(e)' \subseteq Running(e)
         /\ (r.employee = work[j].employee /\ r.status \in {work[j].status, "PAUSED", "COMPLETED"})
              => Running(e)' \subseteq Running(e)
BY DEF WorkTypeOK, Running

-----------------------------------------------------------------------------
(* Calls *)

LEMMA NoCallTyped == NoCall \in CallRecord /\ NoCall.at = "idle" /\ NoCall.copy = NewJob("PENDING", Unset)
                       /\ NewJob("PENDING", Unset) \in WorkRow
<1>1. NewJob("PENDING", Unset) \in WorkRow
  BY DEF NewJob, WorkRow, JobStatus, Time
<1>2. (CHOOSE j \in WorkJobs : TRUE) \in WorkJobs /\ (CHOOSE e \in Employees : TRUE) \in Employees
  BY WorkAssumption
<1>3. QED BY <1>1, <1>2 DEF NoCall, CallRecord

LEMMA NewJobTimely == ASSUME now \in Nat, NEW st, NEW e PROVE Timely(NewJob(st, e))
BY DEF NewJob, Timely

\* A call begins: nothing but the call changes.
LEMMA BeginStep ==
  ASSUME WorkInv, NEW s \in Callers, NEW rec \in CallRecord, Hold(s, rec),
         UNCHANGED <<now, shift, work, excused>>, calls' \in 0..MaxCalls,
         Timely(rec.copy), rec.at = "start" => Running(rec.employee) \subseteq {rec.job}
  PROVE  WorkInv'
<1>1. call' = [call EXCEPT ![s] = rec] /\ call \in [Callers -> CallRecord]
  BY DEF Hold, WorkInv, WorkTypeOK
<1>2. /\ call' \in [Callers -> CallRecord] /\ call'[s] = rec
      /\ \A t \in Callers : t # s => call'[t] = call[t]
  BY <1>1
<1>3. WorkTypeOK'
  BY <1>2 DEF WorkInv, WorkTypeOK
<1>4. RowsTimely' /\ Single'
  BY DEF WorkInv, RowsTimely, Timely, Single, Running
<1>5. CopiesTimely'
  <2> SUFFICES ASSUME NEW t \in Callers PROVE Timely(call[t].copy)'
    BY DEF CopiesTimely
  <2>1. QED BY <1>2 DEF WorkInv, CopiesTimely, Timely
<1>6. StartsAllowed'
  <2> SUFFICES ASSUME NEW t \in Callers PROVE StartsAllowed!(t)'
    BY DEF StartsAllowed
  <2>1. QED BY <1>2 DEF WorkInv, StartsAllowed, Running
<1>7. QED BY <1>3, <1>4, <1>5, <1>6 DEF WorkInv

\* A call commits a row and goes on to the form or ends.
LEMMA CommitStep ==
  ASSUME WorkInv, NEW s \in Callers, NEW r \in WorkRow, NEW rec \in CallRecord,
         work' = [work EXCEPT ![call[s].job] = r], Hold(s, rec),
         UNCHANGED <<now, shift, calls>>, excused' \subseteq Employees, excused \subseteq excused',
         Timely(r), Timely(rec.copy), rec.at # "start",
         \A e \in Employees \ excused' :
           \/ Running(e)' \subseteq Running(e)
           \/ /\ Running(e)' \subseteq {call[s].job}
              /\ \A t \in Callers \ {s} : (call[t].at = "start" /\ call[t].employee = e)
                                            => call[t].job = call[s].job
  PROVE  WorkInv'
<1>1. /\ call' = [call EXCEPT ![s] = rec] /\ call \in [Callers -> CallRecord]
      /\ work \in [WorkJobs -> WorkRow] /\ call[s].job \in WorkJobs
  BY DEF Hold, WorkInv, WorkTypeOK, CallRecord
<1>2. /\ call' \in [Callers -> CallRecord] /\ call'[s] = rec
      /\ \A t \in Callers : t # s => call'[t] = call[t]
  BY <1>1
<1>3. WorkTypeOK'
  BY <1>1, <1>2 DEF WorkInv, WorkTypeOK
<1>4. RowsTimely'
  <2> SUFFICES ASSUME NEW j \in WorkJobs PROVE Timely(work[j])'
    BY DEF RowsTimely
  <2>1. work'[j] = IF j = call[s].job THEN r ELSE work[j]
    BY <1>1
  <2>2. QED BY <2>1 DEF WorkInv, RowsTimely, Timely
<1>5. CopiesTimely'
  <2> SUFFICES ASSUME NEW t \in Callers PROVE Timely(call[t].copy)'
    BY DEF CopiesTimely
  <2>1. QED BY <1>2 DEF WorkInv, CopiesTimely, Timely
<1>6. StartsAllowed'
  <2> SUFFICES ASSUME NEW t \in Callers, NEW e \in Employees, e \notin excused',
                      call'[t].at = "start", call'[t].employee = e
               PROVE  Running(e)' \subseteq {call'[t].job}
    <3>1. \A t \in Callers : call'[t].employee \in Employees
      BY <1>2 DEF CallRecord
    <3>2. QED BY <3>1 DEF StartsAllowed, Running
  <2>1. t # s /\ call'[t] = call[t]
    BY <1>2
  <2>2. Running(e) \subseteq {call[t].job}
    BY <2>1 DEF WorkInv, StartsAllowed
  <2>3. QED BY <2>1, <2>2
<1>7. Single'
  <2> SUFFICES ASSUME NEW e \in Employees \ excused' PROVE \A j, k \in Running(e)' : j = k
    BY DEF Single, Running
  <2>1. QED BY DEF WorkInv, Single
<1>8. QED BY <1>3, <1>4, <1>5, <1>6, <1>7 DEF WorkInv

-----------------------------------------------------------------------------
(* The steps *)

LEMMA WorkInitial == WorkInit => WorkInv
<1> SUFFICES ASSUME WorkInit PROVE WorkInv
  OBVIOUS
<1>1. PICK e \in Employees \cup {Unset} : work = [j \in WorkJobs |-> NewJob("PENDING", e)]
  BY DEF WorkInit
<1>2. now = 0 /\ call = [s \in Callers |-> NoCall] /\ 0 \in 0..MaxTime /\ 0 \in 0..MaxCalls
  BY WorkAssumption DEF WorkInit
<1>3. NewJob("PENDING", e) \in WorkRow
  BY DEF NewJob, WorkRow, JobStatus, Time
<1>4. NoCall \in CallRecord /\ NoCall.at = "idle" /\ NoCall.copy = NewJob("PENDING", Unset)
  BY NoCallTyped
<1>5. \A j \in WorkJobs : work[j] = NewJob("PENDING", e) /\ work[j].status = "PENDING"
  BY <1>1 DEF NewJob
<1>6. Timely(NewJob("PENDING", e)) /\ Timely(NewJob("PENDING", Unset))
  BY <1>2, NewJobTimely
<1>7. WorkTypeOK
  BY <1>1, <1>2, <1>3, <1>4 DEF WorkInit, WorkTypeOK, Time
<1>8. RowsTimely /\ CopiesTimely
  BY <1>2, <1>4, <1>5, <1>6 DEF RowsTimely, CopiesTimely
<1>9. \A x \in Employees : Running(x) = {}
  BY <1>5 DEF Running
<1>10. StartsAllowed /\ Single
  BY <1>2, <1>4, <1>9 DEF StartsAllowed, Single
<1>11. QED BY <1>7, <1>8, <1>10 DEF WorkInv

LEMMA TakeCounts == ASSUME WorkTypeOK, NEW s \in Callers, Take(s) PROVE calls' \in 0..MaxCalls
BY WorkAssumption DEF WorkTypeOK, Take

\* An operation reads a job and begins.
LEMMA ReadStep ==
  ASSUME WorkInv, NEW s \in Callers, NEW j \in WorkJobs, NEW e \in Employees,
         NEW at \in {"idle", "start", "pause", "finish", "apply", "assign", "shift"},
         NEW status \in JobStatus \cup {Unset}, NEW give \in Employees \cup {Unset, Nobody},
         Take(s), at = "start" => MayStart(e, j),
         Read(s, at, j, e, status, give),
         UNCHANGED <<now, shift, work, excused>>
  PROVE  WorkInv'
<1> DEFINE rec == [at |-> at, job |-> j, employee |-> e, copy |-> work[j],
                   status |-> status, give |-> give]
<1>1. work[j] \in WorkRow /\ Timely(work[j])
  BY DEF WorkInv, WorkTypeOK, RowsTimely
<1>2. rec \in CallRecord
  BY <1>1 DEF CallRecord
<1>3. rec.copy = work[j] /\ rec.at = at /\ rec.employee = e /\ rec.job = j
  OBVIOUS
<1>4. calls' \in 0..MaxCalls
  BY TakeCounts DEF WorkInv
<1> HIDE DEF rec
<1>5. QED BY <1>1, <1>2, <1>3, <1>4, BeginStep DEF MayStart, Read, rec

LEMMA StartJobStep ==
  ASSUME WorkInv, NEW s \in Callers, NEW j \in WorkJobs, NEW e \in Employees, StartJob(s, j, e)
  PROVE  WorkInv'
BY ReadStep DEF StartJob

LEMMA FinishJobStep ==
  ASSUME WorkInv, NEW s \in Callers, NEW j \in WorkJobs, FinishJob(s, j)
  PROVE  WorkInv'
<1>1. NoCall.employee \in Employees
  BY NoCallTyped DEF CallRecord
<1>2. QED BY <1>1, ReadStep DEF FinishJob

LEMMA AssignJobStep ==
  ASSUME WorkInv, NEW s \in Callers, NEW j \in WorkJobs, NEW give \in Employees \cup {Nobody},
         AssignJob(s, j, give)
  PROVE  WorkInv'
<1>1. NoCall.employee \in Employees
  BY NoCallTyped DEF CallRecord
<1>2. QED BY <1>1, ReadStep DEF AssignJob

LEMMA UpdateJobStep ==
  ASSUME WorkInv, NEW s \in Callers, NEW j \in WorkJobs, NEW e \in Employees,
         NEW status \in WorkStatuses, NEW give \in {Unset, Nobody, e},
         UpdateJob(s, j, e, status, give)
  PROVE  WorkInv'
<1> DEFINE step == Transition(work[j].status, status)
           later == IF step = "apply" THEN status ELSE Unset
<1>1. step \in {"start", "pause", "finish", "apply"}
  BY DEF Transition
<1>2. /\ Take(s)
      /\ step = "start" => MayStart(e, j)
      /\ UNCHANGED <<now, shift, work, excused>>
      /\ Read(s, step, j, e, later, give)
  BY DEF UpdateJob
<1>3. later \in JobStatus \cup {Unset} /\ give \in Employees \cup {Unset, Nobody}
  BY WorkAssumption
<1> HIDE DEF step, later
<1>4. QED BY <1>1, <1>2, <1>3, ReadStep

LEMMA CheckOutReadStep ==
  ASSUME WorkInv, NEW s \in Callers, NEW e \in Employees, CheckOutRead(s, e)
  PROVE  WorkInv'
<1> DEFINE rec == [NoCall EXCEPT !.at = "shift", !.employee = e]
<1>1. rec \in CallRecord /\ rec.at = "shift" /\ rec.copy = NewJob("PENDING", Unset)
  BY NoCallTyped DEF CallRecord
<1>2. Timely(rec.copy)
  BY <1>1, NewJobTimely DEF WorkInv, WorkTypeOK
<1>3. calls' \in 0..MaxCalls /\ Hold(s, rec) /\ UNCHANGED <<now, shift, work, excused>>
  BY TakeCounts DEF WorkInv, CheckOutRead
<1> HIDE DEF rec
<1>4. QED BY <1>1, <1>2, <1>3, BeginStep

\* The shift's steps and the end of a call touch no job.
LEMMA ShiftStep ==
  ASSUME WorkInv, UNCHANGED <<now, work, excused>>, shift' \in [Employees -> Time],
         calls' \in 0..MaxCalls,
         call' = call \/ \E s \in Callers : Return(s)
  PROVE  WorkInv'
<1>1. CASE call' = call
  BY <1>1 DEF WorkInv, WorkTypeOK, RowsTimely, CopiesTimely, StartsAllowed, Single, Timely, Running
<1>2. CASE \E s \in Callers : Return(s)
  <2>1. PICK s \in Callers : call' = [call EXCEPT ![s] = NoCall]
    BY <1>2 DEF Return, Hold
  <2>2. NoCall \in CallRecord /\ NoCall.at = "idle" /\ Timely(NoCall.copy)
    BY NoCallTyped, NewJobTimely DEF WorkInv, WorkTypeOK
  <2>3. /\ call' \in [Callers -> CallRecord] /\ call'[s] = NoCall
        /\ \A t \in Callers : t # s => call'[t] = call[t]
    BY <2>1, <2>2 DEF WorkInv, WorkTypeOK
  <2>4. WorkTypeOK' /\ RowsTimely' /\ Single'
    BY <2>3 DEF WorkInv, WorkTypeOK, RowsTimely, Timely, Single, Running
  <2>5. CopiesTimely'
    <3> SUFFICES ASSUME NEW t \in Callers PROVE Timely(call[t].copy)'
      BY DEF CopiesTimely
    <3>1. QED BY <2>2, <2>3 DEF WorkInv, CopiesTimely, Timely
  <2>6. StartsAllowed'
    <3> SUFFICES ASSUME NEW t \in Callers PROVE StartsAllowed!(t)'
      BY DEF StartsAllowed
    <3>1. QED BY <2>2, <2>3 DEF WorkInv, StartsAllowed, Running
  <2>7. QED BY <2>4, <2>5, <2>6 DEF WorkInv
<1>3. QED BY <1>1, <1>2

LEMMA TickStep == ASSUME WorkInv, Tick PROVE WorkInv'
<1>1. now' = now + 1 /\ now \in Nat /\ now' \in 0..MaxTime /\ UNCHANGED <<shift, work, call, excused, calls>>
  BY WorkAssumption DEF Tick, WorkInv, WorkTypeOK
<1>2. ASSUME NEW r \in WorkRow, Timely(r)
      PROVE  r.total <= now' /\ (r.begun # Unset => r.total <= r.begun /\ r.begun <= now')
  BY <1>1, <1>2 DEF Timely, WorkRow, Time
<1>3. RowsTimely'
  BY <1>1, <1>2 DEF WorkInv, WorkTypeOK, RowsTimely, Timely
<1>4. CopiesTimely'
  <2>1. \A s \in Callers : call[s].copy \in WorkRow
    BY DEF WorkInv, WorkTypeOK, CallRecord
  <2>2. QED BY <1>1, <1>2, <2>1 DEF WorkInv, CopiesTimely, Timely
<1>5. WorkTypeOK' /\ StartsAllowed' /\ Single'
  BY <1>1 DEF WorkInv, WorkTypeOK, StartsAllowed, Single, Running
<1>6. QED BY <1>3, <1>4, <1>5 DEF WorkInv

-----------------------------------------------------------------------------
(* Commits *)

\* The call after a commit: it holds the new row, and applies its form or ends.
LEMMA NextCall ==
  ASSUME WorkTypeOK, NEW s \in Callers, NEW new \in WorkRow
  PROVE  LET c == call[s]
             rec == [c EXCEPT !.at = IF c.give # Unset THEN "apply" ELSE "idle", !.copy = new]
         IN rec \in CallRecord /\ rec.copy = new /\ rec.at # "start"
<1> DEFINE c == call[s]
           at == IF c.give # Unset THEN "apply" ELSE "idle"
           d == [c EXCEPT !.at = at]
<1>1. c \in CallRecord /\ at \in {"apply", "idle"}
  BY DEF WorkTypeOK
<1> HIDE DEF c, at
<1>2. d \in CallRecord /\ d.at = at
  BY <1>1 DEF CallRecord
<1> HIDE DEF d
<1>3. [d EXCEPT !.copy = new] \in CallRecord /\ [d EXCEPT !.copy = new].copy = new
      /\ [d EXCEPT !.copy = new].at = at
  BY <1>2 DEF CallRecord
<1>4. QED BY <1>1, <1>3 DEF c, at, d

\* What a caller at work holds.
LEMMA CallHeld ==
  ASSUME WorkInv, NEW s \in Callers
  PROVE  /\ call[s] \in CallRecord /\ call[s].copy \in WorkRow /\ call[s].job \in WorkJobs
         /\ call[s].employee \in Employees /\ work[call[s].job] \in WorkRow
         /\ Timely(call[s].copy) /\ Timely(work[call[s].job]) /\ now \in Nat
BY DEF WorkInv, WorkTypeOK, CallRecord, RowsTimely, CopiesTimely

LEMMA StartCommitStep ==
  ASSUME WorkInv, NEW s \in Callers, StartCommit(s)
  PROVE  WorkInv'
<1> DEFINE c == call[s]
           new == Started(c.copy, c.employee)
           row == Written(work[c.job], c.copy, new)
           rec == [c EXCEPT !.at = IF c.give # Unset THEN "apply" ELSE "idle", !.copy = new]
<1>1. /\ c.at = "start" /\ Hold(s, rec) /\ UNCHANGED <<now, shift, calls>>
      /\ work' = [work EXCEPT ![c.job] = row]
      /\ excused' = excused \cup (Overlapping(s) \cup (Employees \cap ({row.employee} \ {c.employee})))
  BY DEF StartCommit, Save, Excuse
<1>2. /\ new \in WorkRow /\ new.begun = now /\ new.total = c.copy.total /\ Timely(new)
      /\ new.employee = c.employee
  BY CallHeld, StartedRow
<1>3. rec \in CallRecord /\ rec.copy = new /\ rec.at # "start"
  BY <1>2, NextCall DEF WorkInv
<1>4. row \in WorkRow
  BY <1>2, CallHeld, WrittenRow
<1>5. Timely(row)
  BY <1>2, CallHeld, CommitTimely DEF Timely
<1>6. excused' \subseteq Employees /\ excused \subseteq excused'
  BY <1>1 DEF WorkInv, WorkTypeOK, Overlapping
<1>7. ASSUME NEW e \in Employees, e \notin excused'
      PROVE  \/ Running(e)' \subseteq Running(e)
             \/ /\ Running(e)' \subseteq {c.job}
                /\ \A t \in Callers \ {s} : (call[t].at = "start" /\ call[t].employee = e)
                                              => call[t].job = c.job
  <2> HIDE DEF new, row
  <2>1. /\ Running(e)' \subseteq Running(e) \cup {c.job}
        /\ row.employee # e => Running(e)' \subseteq Running(e)
    <3> DEFINE j == c.job
    <3>1. WorkTypeOK /\ j \in WorkJobs
      BY CallHeld DEF WorkInv
    <3>2. work' = [work EXCEPT ![j] = row]
      BY <1>1
    <3> HIDE DEF j, c
    <3>3. /\ Running(e)' \subseteq Running(e) \cup {j}
          /\ row.employee # e => Running(e)' \subseteq Running(e)
      BY <1>4, <3>1, <3>2, RunningAfter
    <3>4. QED BY <3>3 DEF j
  <2>2. CASE row.employee # e
    BY <2>1, <2>2
  <2>3. CASE row.employee = e
    <3>1. e = c.employee /\ e \notin excused /\ e \notin Overlapping(s)
      BY <1>1, <1>7, <2>3
    <3>2. Running(e) \subseteq {c.job}
      BY <1>1, <3>1 DEF WorkInv, StartsAllowed
    <3>3. \A t \in Callers \ {s} : (call[t].at = "start" /\ call[t].employee = e) => call[t].job = c.job
      BY <1>1, <3>1 DEF Overlapping
    <3>4. QED BY <2>1, <3>2, <3>3
  <2>4. QED BY <2>2, <2>3
<1> HIDE DEF new, row, rec
<1>8. QED BY <1>1, <1>2, <1>3, <1>4, <1>5, <1>6, <1>7, CommitStep

\* Pausing and finishing stop a job.
LEMMA StopStep ==
  ASSUME WorkInv, NEW s \in Callers, NEW new \in WorkRow,
         \/ new = call[s].copy
         \/ StoppedFrom(call[s].copy, new)
              /\ (call[s].copy.begun # Unset \/ new.total = call[s].copy.total),
         new.status \in {call[s].copy.status, "PAUSED", "COMPLETED"},
         Save(s, new), UNCHANGED <<now, shift, excused, calls>>,
         Hold(s, [call[s] EXCEPT !.at = IF call[s].give # Unset THEN "apply" ELSE "idle", !.copy = new])
  PROVE  WorkInv'
<1> DEFINE c == call[s]
           row == Written(work[c.job], c.copy, new)
           rec == [c EXCEPT !.at = IF c.give # Unset THEN "apply" ELSE "idle", !.copy = new]
<1>1. Hold(s, rec) /\ work' = [work EXCEPT ![c.job] = row]
  BY DEF Save
<1>2. rec \in CallRecord /\ rec.copy = new /\ rec.at # "start"
  BY NextCall DEF WorkInv
<1>3. /\ row \in WorkRow
      /\ row.status = IF new.status = c.copy.status THEN work[c.job].status ELSE new.status
      /\ row.employee = IF new.employee = c.copy.employee THEN work[c.job].employee ELSE new.employee
  BY CallHeld, WrittenRow
<1>4. Timely(new) /\ new.total <= now /\ new.employee = c.copy.employee
  BY CallHeld DEF StoppedFrom, Timely
<1>5. Timely(row)
  BY <1>4, CallHeld, CommitTimely DEF StoppedFrom
<1>6. ASSUME NEW e \in Employees PROVE Running(e)' \subseteq Running(e)
  <2> HIDE DEF row
  <2>1. row.employee = work[c.job].employee /\ row.status \in {work[c.job].status, "PAUSED", "COMPLETED"}
    BY <1>3, <1>4
  <2> DEFINE j == c.job
  <2>2. WorkTypeOK /\ j \in WorkJobs /\ work' = [work EXCEPT ![j] = row]
    BY <1>1, CallHeld DEF WorkInv
  <2> HIDE DEF j
  <2>3. row.employee = work[j].employee /\ row.status \in {work[j].status, "PAUSED", "COMPLETED"}
    BY <2>1 DEF j
  <2>4. QED BY <1>3, <2>2, <2>3, RunningAfter
<1> HIDE DEF row, rec
<1>7. QED BY <1>1, <1>2, <1>3, <1>4, <1>5, <1>6, CommitStep DEF WorkInv, WorkTypeOK

LEMMA FinishCommitStep ==
  ASSUME WorkInv, NEW s \in Callers, FinishCommit(s)
  PROVE  WorkInv'
<1> DEFINE new == Finished(call[s].copy)
<1>1. StoppedFrom(call[s].copy, new)
  BY CallHeld, FinishedRow
<1>2. new.status = "COMPLETED" /\ (call[s].copy.begun = Unset => new.total = call[s].copy.total)
  <2>1. call[s].copy.total + 0 = call[s].copy.total
    BY CallHeld DEF WorkRow
  <2>2. QED BY <2>1, CallHeld DEF Finished, Elapsed, WorkRow
<1>3. /\ Save(s, new) /\ UNCHANGED <<now, shift, excused, calls>>
      /\ Hold(s, [call[s] EXCEPT !.at = IF call[s].give # Unset THEN "apply" ELSE "idle", !.copy = new])
  BY DEF FinishCommit
<1>4. new \in WorkRow
  BY <1>1 DEF StoppedFrom
<1> HIDE DEF new
<1>5. QED BY <1>1, <1>2, <1>3, <1>4, StopStep

LEMMA PauseCommitStep ==
  ASSUME WorkInv, NEW s \in Callers, PauseCommit(s)
  PROVE  WorkInv'
<1> DEFINE new == IF call[s].copy.begun = Unset THEN call[s].copy ELSE Paused(call[s].copy)
<1>1. \/ new = call[s].copy
      \/ StoppedFrom(call[s].copy, new) /\ call[s].copy.begun # Unset
  BY CallHeld, PausedRow
<1>2. new.status \in {call[s].copy.status, "PAUSED", "COMPLETED"}
  BY CallHeld DEF Paused, WorkRow
<1>3. /\ Save(s, new) /\ UNCHANGED <<now, shift, excused, calls>>
      /\ Hold(s, [call[s] EXCEPT !.at = IF call[s].give # Unset THEN "apply" ELSE "idle", !.copy = new])
  BY DEF PauseCommit
<1>4. new \in WorkRow
  BY <1>1, CallHeld DEF StoppedFrom
<1> HIDE DEF new
<1>5. QED BY <1>1, <1>2, <1>3, <1>4, StopStep

\* The form changes the status and the employee only.
LEMMA AppliedRow ==
  ASSUME NEW c \in CallRecord
  PROVE  /\ Applied(c) \in WorkRow
         /\ Applied(c).begun = c.copy.begun /\ Applied(c).total = c.copy.total
<1> DEFINE status == IF c.status = Unset THEN c.copy.status ELSE c.status
           employee == CASE c.give = Unset -> c.copy.employee
                         [] c.give = Nobody -> Unset
                         [] OTHER -> c.give
           p == [c.copy EXCEPT !.status = status]
<1>1. status \in JobStatus /\ employee \in Employees \cup {Unset} /\ c.copy \in WorkRow
  BY WorkAssumption DEF CallRecord, WorkRow
<1>2. Applied(c) = [p EXCEPT !.employee = employee]
  BY DEF Applied
<1> HIDE DEF status, employee
<1>3. p \in WorkRow /\ p.begun = c.copy.begun /\ p.total = c.copy.total
  BY <1>1 DEF WorkRow
<1> HIDE DEF p
<1>4. QED BY <1>1, <1>2, <1>3 DEF WorkRow

LEMMA ApplyCommitStep ==
  ASSUME WorkInv, NEW s \in Callers, ApplyCommit(s)
  PROVE  WorkInv'
<1> DEFINE c == call[s]
           new == Applied(c)
           row == Written(work[c.job], c.copy, new)
<1>1. /\ Hold(s, NoCall) /\ UNCHANGED <<now, shift, calls>>
      /\ work' = [work EXCEPT ![c.job] = row]
      /\ excused' = excused \cup {e \in Employees : row.employee = e /\ row.status = "IN_PROGRESS"}
  BY DEF ApplyCommit, Save, Excuse, Return
<1>2. new \in WorkRow /\ new.begun = c.copy.begun /\ new.total = c.copy.total
  BY CallHeld, AppliedRow
<1>3. NoCall \in CallRecord /\ Timely(NoCall.copy) /\ NoCall.at # "start"
  BY CallHeld, NoCallTyped, NewJobTimely
<1>4. row \in WorkRow
  BY <1>2, CallHeld, WrittenRow
<1>5. Timely(row)
  BY <1>2, CallHeld, CommitTimely DEF Timely
<1>6. excused' \subseteq Employees /\ excused \subseteq excused'
  BY <1>1 DEF WorkInv, WorkTypeOK
<1>7. ASSUME NEW e \in Employees, e \notin excused' PROVE Running(e)' \subseteq Running(e)
  <2> HIDE DEF new, row
  <2>1. row.employee # e \/ row.status # "IN_PROGRESS"
    BY <1>1, <1>7
  <2>2. WorkTypeOK /\ c.job \in WorkJobs /\ work' = [work EXCEPT ![c.job] = row]
    BY <1>1, CallHeld DEF WorkInv
  <2> HIDE DEF c
  <2>3. QED BY <1>4, <2>1, <2>2, RunningAfter
<1> HIDE DEF new, row
<1>8. QED BY <1>1, <1>2, <1>3, <1>4, <1>5, <1>6, <1>7, CommitStep

-----------------------------------------------------------------------------
(* Theorems *)

LEMMA WorkStep == WorkInv /\ [WorkNext]_workVars => WorkInv'
<1> SUFFICES ASSUME WorkInv, [WorkNext]_workVars PROVE WorkInv'
  OBVIOUS
<1>1. CASE UNCHANGED workVars
  BY <1>1 DEF workVars, WorkInv, WorkTypeOK, RowsTimely, CopiesTimely, StartsAllowed, Single,
     Timely, Running
<1>2. CASE Tick
  BY <1>2, TickStep
<1>3. ASSUME NEW s \in Callers, NEW e \in Employees, CheckIn(s, e) PROVE WorkInv'
  <2>1. shift' \in [Employees -> Time] /\ calls' \in 0..MaxCalls
    BY <1>3, TakeCounts DEF CheckIn, WorkInv, WorkTypeOK, Time
  <2>2. QED BY <1>3, <2>1, ShiftStep DEF CheckIn
<1>4. ASSUME NEW s \in Callers, NEW e \in Employees, CheckOutRead(s, e) PROVE WorkInv'
  BY <1>4, CheckOutReadStep
<1>5. ASSUME NEW s \in Callers, CheckOutWrite(s) \/ AbandonCall(s) PROVE WorkInv'
  <2>1. shift' \in [Employees -> Time] /\ calls' \in 0..MaxCalls /\ Return(s)
        /\ UNCHANGED <<now, work, excused>>
    BY <1>5, CallHeld DEF CheckOutWrite, AbandonCall, WorkInv, WorkTypeOK, Time
  <2>2. QED BY <2>1, ShiftStep
<1>6. ASSUME NEW s \in Callers, NEW j \in WorkJobs,
             \/ FinishJob(s, j)
             \/ \E e \in Employees :
                  \/ StartJob(s, j, e)
                  \/ \E status \in WorkStatuses, give \in {Unset, Nobody, e} :
                       UpdateJob(s, j, e, status, give)
             \/ \E give \in Employees \cup {Nobody} : AssignJob(s, j, give)
      PROVE  WorkInv'
  BY <1>6, FinishJobStep, StartJobStep, UpdateJobStep, AssignJobStep
<1>7. ASSUME NEW s \in Callers,
             StartCommit(s) \/ FinishCommit(s) \/ PauseCommit(s) \/ ApplyCommit(s)
      PROVE  WorkInv'
  BY <1>7, StartCommitStep, FinishCommitStep, PauseCommitStep, ApplyCommitStep
<1>8. QED BY <1>1, <1>2, <1>3, <1>4, <1>5, <1>6, <1>7 DEF WorkNext

\* The invariant holds in every reachable state, for any jobs, employees and
\* callers, however their calls overlap.
THEOREM WorkInvariant == WorkSpec => []WorkInv
BY WorkInitial, WorkStep, PTL DEF WorkSpec

\* Every variable keeps its type: no mixture of columns is a row the code does
\* not know, and no duration is negative.
THEOREM WorkTypes == WorkSpec => []WorkTypeOK
<1>1. WorkInv => WorkTypeOK
  BY DEF WorkInv
<1>2. QED BY <1>1, WorkInvariant, PTL

\* The time booked on a job, and what it would add now, never exceeds the time
\* that has passed: start, pause and finish count no second twice.
THEOREM NoSecondTwice == WorkSpec => []WorkedWithinElapsed
<1>1. WorkInv => WorkedWithinElapsed
  <2> SUFFICES ASSUME WorkInv, NEW j \in WorkJobs PROVE work[j].total + Elapsed(work[j]) <= now
    BY DEF WorkedWithinElapsed
  <2>1. work[j] \in WorkRow /\ Timely(work[j]) /\ now \in Nat
    BY DEF WorkInv, WorkTypeOK, RowsTimely
  <2>2. QED BY <2>1, ElapsedNat
<1>2. QED BY <1>1, WorkInvariant, PTL

\* An employee who was not handed a running job and whose starts did not overlap
\* has at most one running job (start_job's test).
THEOREM OneJobAtATime == WorkSpec => []OneRunningJob
<1>1. WorkInv => OneRunningJob
  <2> SUFFICES ASSUME WorkInv, NEW e \in Employees \ excused PROVE Cardinality(Running(e)) <= 1
    BY DEF OneRunningJob
  <2>1. \A j, k \in Running(e) : j = k
    BY DEF WorkInv, Single
  <2>2. Running(e) = {} \/ \E j \in Running(e) : Running(e) = {j}
    BY <2>1
  <2>3. CASE Running(e) = {}
    BY <2>3, FS_EmptySet
  <2>4. CASE \E j \in Running(e) : Running(e) = {j}
    <3>1. PICK j : Running(e) = {j}
      BY <2>4
    <3>2. Cardinality({j}) = 1
      BY FS_Singleton
    <3>3. QED BY <3>1, <3>2
  <2>5. QED BY <2>2, <2>3, <2>4
<1>2. QED BY <1>1, WorkInvariant, PTL

=============================================================================
