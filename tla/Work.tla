-------------------------------- MODULE Work --------------------------------
(***************************************************************************)
(* The working day of one business: the employees' shifts, and the jobs    *)
(* they start, pause and finish (services/time_tracking, update_job of     *)
(* services/crm_service, services/assignment_service).                     *)
(*                                                                         *)
(* Chat tools and PWA requests run in database sessions of their own.      *)
(* Each reads a job, awaits, and commits the columns it changed against    *)
(* the copy it holds.  A tick of the clock is longer than the five seconds *)
(* a commit may wait for the lock, so that a time computed just before a   *)
(* commit is the time of the commit.                                       *)
(***************************************************************************)
EXTENDS Naturals, FiniteSets

CONSTANTS
    WorkJobs, Employees,
    Callers,        \* chat users and HTTP clients
    Unset,          \* NULL, and a field the form does not send
    Nobody,         \* the employee id 0 of a form: take the job away
    WorkStatuses,   \* statuses the form sends
    MaxTime,        \* bound: ticks of the clock
    MaxCalls        \* bound: operations begun in one behaviour

JobStatus == {"PENDING", "SCHEDULED", "BOOKED", "IN_PROGRESS", "PAUSED",
              "COMPLETED", "CANCELLED"}

ASSUME WorkAssumption ==
    /\ WorkJobs # {} /\ Employees # {}
    /\ WorkStatuses \subseteq JobStatus
    /\ MaxTime \in Nat /\ MaxCalls \in Nat
    /\ Unset \notin Employees \cup WorkJobs \cup JobStatus \cup Nat
    /\ Nobody \notin Employees \cup {Unset}

VARIABLES
    now,      \* the clock
    shift,    \* current_shift_start of each employee
    work,     \* the jobs table
    call,     \* what each caller is doing, with the copies its session holds
    excused,  \* history: employees with an overlapping start or a job handed over
    calls     \* operations begun so far

workVars == <<now, shift, work, call, excused, calls>>

-----------------------------------------------------------------------------
Time == Nat \cup {Unset}
WorkRow == [status : JobStatus, employee : Employees \cup {Unset},
            begun : Time, total : Nat, completed : Time]

\* A call holds its job, the employee it starts the job for, the copy of the
\* row, and the fields of the form it still has to apply.
CallRecord == [at : {"idle", "start", "pause", "finish", "apply", "assign", "shift"},
               job : WorkJobs, employee : Employees, copy : WorkRow,
               status : JobStatus \cup {Unset},
               give : Employees \cup {Unset, Nobody}]

\* A job as create_job leaves it, with a status and an employee of the form's choice.
NewJob(status, e) == [status |-> status, employee |-> e, begun |-> Unset,
                      total |-> 0, completed |-> Unset]
NoCall == [at |-> "idle", job |-> CHOOSE j \in WorkJobs : TRUE,
           employee |-> CHOOSE e \in Employees : TRUE,
           copy |-> NewJob("PENDING", Unset), status |-> Unset, give |-> Unset]

Running(e) == {j \in WorkJobs : work[j].status = "IN_PROGRESS" /\ work[j].employee = e}

\* A commit writes the columns whose value differs from the session's copy.
Written(row, copy, new) == [f \in DOMAIN row |-> IF new[f] = copy[f] THEN row[f] ELSE new[f]]

Elapsed(row) == IF row.begun = Unset THEN 0 ELSE now - row.begun
\* Mutant of Paused: the start time and the status stay.
PausedClockRuns(row) == [row EXCEPT !.total = @ + Elapsed(row)]
\* Mutant of Finished: the clock's reading is stored without a start to subtract.
FinishedSinceEver(row) == [row EXCEPT !.begun = Unset, !.status = "FINISHED", !.completed = now]
\* int() of the duration: a difference of times is never negative here.
Paused(row) == [row EXCEPT !.total = @ + Elapsed(row), !.begun = Unset, !.status = "PAUSED"]
Finished(row) == [row EXCEPT !.total = IF row.status = "IN_PROGRESS" THEN @ + Elapsed(row) ELSE @,
                             !.begun = Unset, !.status = "COMPLETED", !.completed = now]
Started(row, e) == [row EXCEPT !.begun = now, !.status = "IN_PROGRESS", !.employee = e]

WorkInit ==
    /\ now = 0
    /\ shift = [e \in Employees |-> Unset]
    /\ \E e \in Employees \cup {Unset} : work = [j \in WorkJobs |-> NewJob("PENDING", e)]
    /\ call = [s \in Callers |-> NoCall]
    /\ excused = {}
    /\ calls = 0

Take(s) == call[s].at = "idle" /\ calls < MaxCalls /\ calls' = calls + 1
Hold(s, rec) == call' = [call EXCEPT ![s] = rec]
Return(s) == Hold(s, NoCall)

\* A call reads the job into its session.
Read(s, at, j, e, status, give) ==
    Hold(s, [at |-> at, job |-> j, employee |-> e, copy |-> work[j],
             status |-> status, give |-> give])

\* The session's commit of its copy of the job, changed to new.
Save(s, new) == work' = [work EXCEPT ![call[s].job] = Written(@, call[s].copy, new)]

\* History: start_job cannot see a start that overlaps, or a running job handed over.
Excuse(others) == excused' = excused \cup others
Overlapping(s) == {e \in Employees : \E t \in Callers \ {s} :
                     /\ call[t].at = "start" /\ call[t].employee = e
                     /\ call[s].employee = e /\ call[t].job # call[s].job}

-----------------------------------------------------------------------------
(* Shifts *)

\* CheckInTool: a second check-in starts the shift again.
CheckIn(s, e) ==
    /\ Take(s)
    /\ shift' = [shift EXCEPT ![e] = now]
    /\ UNCHANGED <<now, work, call, excused>>

\* CheckOutTool reads the shift, lists the jobs completed since ...
CheckOutRead(s, e) ==
    /\ Take(s) /\ shift[e] # Unset
    /\ Hold(s, [NoCall EXCEPT !.at = "shift", !.employee = e])
    /\ UNCHANGED <<now, shift, work, excused>>

\* ... and ends it.
CheckOutWrite(s) ==
    /\ call[s].at = "shift"
    /\ shift' = [shift EXCEPT ![call[s].employee] = Unset]
    /\ Return(s)
    /\ UNCHANGED <<now, work, excused, calls>>

-----------------------------------------------------------------------------
(* Starting and finishing: the chat tools *)

\* Mutant of MayStart: the job to start is not told from the others.
AnyJob(e, j) == TRUE

\* start_job raises while another job of the employee runs.
MayStart(e, j) == Running(e) \subseteq {j}

StartJob(s, j, e) ==
    /\ Take(s) /\ MayStart(e, j)
    /\ Read(s, "start", j, e, Unset, Unset)
    /\ UNCHANGED <<now, shift, work, excused>>

\* The clock is read and the start committed; update_job goes on with its form.
StartCommit(s) ==
    LET c == call[s]
        new == Started(c.copy, c.employee)
        row == Written(work[c.job], c.copy, new) IN
    /\ c.at = "start"
    /\ Save(s, new)
    /\ Hold(s, [c EXCEPT !.at = IF c.give # Unset THEN "apply" ELSE "idle", !.copy = new])
    /\ Excuse(Overlapping(s) \cup (Employees \cap ({row.employee} \ {c.employee})))
    /\ UNCHANGED <<now, shift, calls>>

\* FinishJobTool: only a running or paused job.
FinishJob(s, j) ==
    /\ Take(s) /\ work[j].status \in {"IN_PROGRESS", "PAUSED"}
    /\ Read(s, "finish", j, NoCall.employee, Unset, Unset)
    /\ UNCHANGED <<now, shift, work, excused>>

FinishCommit(s) ==
    LET c == call[s]
        new == Finished(c.copy) IN
    /\ c.at = "finish"
    /\ Save(s, new)
    /\ Hold(s, [c EXCEPT !.at = IF c.give # Unset THEN "apply" ELSE "idle", !.copy = new])
    /\ UNCHANGED <<now, shift, excused, calls>>

\* pause_job leaves a job without a start time alone.
PauseCommit(s) ==
    LET c == call[s]
        new == IF c.copy.begun = Unset THEN c.copy ELSE Paused(c.copy) IN
    /\ c.at = "pause"
    /\ Save(s, new)
    /\ Hold(s, [c EXCEPT !.at = IF c.give # Unset THEN "apply" ELSE "idle", !.copy = new])
    /\ UNCHANGED <<now, shift, excused, calls>>

-----------------------------------------------------------------------------
(* The job form: update_job *)

\* The transition the form asks for, judged by the status just read.
Transition(old, new) ==
    CASE new = "IN_PROGRESS" /\ old # "IN_PROGRESS" -> "start"
      [] new = "PAUSED" /\ old = "IN_PROGRESS" -> "pause"
      [] new = "COMPLETED" /\ old \in {"IN_PROGRESS", "PAUSED"} -> "finish"
      [] OTHER -> "apply"

UpdateJob(s, j, e, status, give) ==
    LET step == Transition(work[j].status, status) IN
    /\ Take(s)
    /\ step = "start" => MayStart(e, j)
    /\ Read(s, step, j, e, IF step = "apply" THEN status ELSE Unset, give)
    /\ UNCHANGED <<now, shift, work, excused>>

\* The rest of the form and its commit; geocoding may have awaited before.
Applied(c) ==
    [c.copy EXCEPT !.status = IF c.status = Unset THEN @ ELSE c.status,
                   !.employee = CASE c.give = Unset -> @
                                  [] c.give = Nobody -> Unset
                                  [] OTHER -> c.give]

ApplyCommit(s) ==
    LET c == call[s]
        row == Written(work[c.job], c.copy, Applied(c)) IN
    /\ c.at = "apply"
    /\ Save(s, Applied(c))
    /\ Return(s)
    /\ Excuse({e \in Employees : row.employee = e /\ row.status = "IN_PROGRESS"})
    /\ UNCHANGED <<now, shift, calls>>

\* AssignJobTool: assign_job and unassign_job read, look for a double booking
\* (a warning only), and commit the employee.
AssignJob(s, j, give) ==
    /\ Take(s)
    /\ Read(s, "apply", j, NoCall.employee, Unset, give)
    /\ UNCHANGED <<now, shift, work, excused>>

-----------------------------------------------------------------------------
\* An exception, a lock timeout or a restart: nothing uncommitted is written.
AbandonCall(s) ==
    /\ call[s].at # "idle"
    /\ Return(s)
    /\ UNCHANGED <<now, shift, work, excused, calls>>

Tick == now < MaxTime /\ now' = now + 1 /\ UNCHANGED <<shift, work, call, excused, calls>>

WorkNext ==
    \/ Tick
    \/ \E s \in Callers :
         \/ \E e \in Employees : CheckIn(s, e) \/ CheckOutRead(s, e)
         \/ \E j \in WorkJobs :
              \/ FinishJob(s, j)
              \/ \E e \in Employees :
                   \/ StartJob(s, j, e)
                   \/ \E status \in WorkStatuses, give \in {Unset, Nobody, e} :
                        UpdateJob(s, j, e, status, give)
              \/ \E give \in Employees \cup {Nobody} : AssignJob(s, j, give)
         \/ StartCommit(s) \/ FinishCommit(s) \/ PauseCommit(s) \/ ApplyCommit(s)
         \/ CheckOutWrite(s) \/ AbandonCall(s)

WorkSpec == WorkInit /\ [][WorkNext]_workVars

-----------------------------------------------------------------------------
(* Properties *)

\* Every column, copy and counter has the type the code declares.
WorkTypeOK ==
    /\ now \in 0..MaxTime
    /\ shift \in [Employees -> Time]
    /\ work \in [WorkJobs -> WorkRow]
    /\ call \in [Callers -> CallRecord]
    /\ excused \subseteq Employees
    /\ calls \in 0..MaxCalls

\* The time booked on a job never exceeds the time that has passed: pauses,
\* restarts, and commits made from stale copies count no second twice
\* (total_actual_duration_seconds, and what a running job would still add).
WorkedWithinElapsed ==
    \A j \in WorkJobs : work[j].total + Elapsed(work[j]) <= now

\* start_job's "one running job at a time": an employee with two running jobs
\* was handed one of them by a form or an assignment, or two starts overlapped.
OneRunningJob ==
    \A e \in Employees \ excused : Cardinality(Running(e)) <= 1

=============================================================================
