------------------------------ MODULE Calendar ------------------------------
(***************************************************************************)
(* The copy of jobs in their employees' Google calendars                   *)
(* (services/calendar_sync_handler, services/google_calendar_service).     *)
(*                                                                         *)
(* A request that changes a job commits it and emits events; each event's  *)
(* handler, one after the other, loads the job in a session of its own,    *)
(* calls Google, and commits the id of the event the job now has.          *)
(***************************************************************************)
EXTENDS Naturals, Sequences

CONSTANTS
    CalJobs, Staff,
    Events,         \* ids Google gives
    NoOne,          \* no employee, no event, no row
    Flows,          \* requests, and background tasks that go on after one
    MaxChanges,     \* bound: jobs changed and calendars linked
    MaxTrouble      \* bound: calls that fail, deaths, jobs deleted, calendars unlinked

ASSUME CalendarAssumption ==
    /\ MaxChanges \in Nat /\ MaxTrouble \in Nat
    /\ NoOne \notin Staff \cup Events \cup CalJobs
    /\ CalJobs # {}

VARIABLES
    calJob,      \* jobs table: employee, scheduled_at, gcal_event_id
    linked,      \* employees with google_calendar_sync_enabled
    inCalendar,  \* Google: the calendar an event is in
    madeFor,     \* Google: the job an event was made for
    flow,        \* what each request or task is doing
    astray,      \* history: jobs whose event the code has lost by a named cause
    changes, trouble

calendarVars == <<calJob, linked, inCalendar, madeFor, flow, astray, changes, trouble>>
google == <<inCalendar, madeFor>>
bounds == <<changes, trouble>>

-----------------------------------------------------------------------------
CalRow == [employee : Staff \cup {NoOne}, scheduled : BOOLEAN, event : Events \cup {NoOne}]
ASSUME CalRowAssumption == NoOne \notin CalRow
Notice == [kind : {"sync", "unassigned"}, job : CalJobs, employee : Staff \cup {NoOne}]

\* A flow: a form it is applying (an empty give keeps the employee), the events
\* it has still to emit, and the handler at work: its user, its jobs with the
\* copies it loaded, those it has not called Google for, and the ids to commit.
FlowRecord == [at : {"idle", "edit", "notify", "resync", "work"},
               job : CalJobs, give : SUBSET (Staff \cup {NoOne}), plan : BOOLEAN,
               copies : [CalJobs -> CalRow \cup {NoOne}], todo : Seq(Notice),
               kind : {"sync", "unassigned"}, user : Staff \cup {NoOne},
               jobs : SUBSET CalJobs, left : SUBSET CalJobs,
               ids : [CalJobs -> Events \cup {NoOne}]]
NoFlow == [at |-> "idle", job |-> CHOOSE j \in CalJobs : TRUE, give |-> {}, plan |-> FALSE,
           copies |-> [j \in CalJobs |-> NoOne], todo |-> <<>>, kind |-> "sync",
           user |-> NoOne, jobs |-> {}, left |-> {}, ids |-> [j \in CalJobs |-> NoOne]]

Step(f, rec) == flow' = [flow EXCEPT ![f] = rec]
Change == changes < MaxChanges /\ changes' = changes + 1 /\ UNCHANGED trouble
Trouble == trouble < MaxTrouble /\ trouble' = trouble + 1 /\ UNCHANGED changes
Exists(j) == calJob[j] # NoOne
Sync(j) == [kind |-> "sync", job |-> j, employee |-> NoOne]
Unassigned(j, u) == [kind |-> "unassigned", job |-> j, employee |-> u]
If(condition, notice) == IF condition THEN <<notice>> ELSE <<>>

\* The next event is emitted, or the flow is done.
Notify(x, todo) == [NoFlow EXCEPT !.at = IF todo = <<>> THEN "idle" ELSE "notify", !.todo = todo]

CalendarInit ==
    /\ calJob = [j \in CalJobs |-> NoOne]
    /\ linked \in SUBSET Staff
    /\ inCalendar = [e \in Events |-> NoOne]
    /\ madeFor = [e \in Events |-> NoOne]
    /\ flow = [f \in Flows |-> NoFlow]
    /\ astray = {} /\ changes = 0 /\ trouble = 0

-----------------------------------------------------------------------------
(* Jobs change *)

\* create_job: JOB_CREATED, and JOB_ASSIGNED if it has an employee.
CreateCalJob(f, j, u, plan) ==
    /\ flow[f].at = "idle" /\ Change /\ ~Exists(j) /\ j \notin astray
    /\ calJob' = [calJob EXCEPT ![j] = [employee |-> u, scheduled |-> plan, event |-> NoOne]]
    /\ Step(f, Notify(NoFlow, <<Sync(j)>> \o If(u # NoOne, Sync(j))))
    /\ UNCHANGED <<linked, google, astray>>

\* update_job reads the job; geocoding may await before it commits.
EditRead(f, j, give, plan) ==
    /\ flow[f].at = "idle" /\ Change /\ Exists(j)
    /\ Step(f, [NoFlow EXCEPT !.at = "edit", !.job = j, !.give = give, !.plan = plan,
                              !.copies = calJob])
    /\ UNCHANGED <<calJob, linked, google, astray>>

\* The events of update_job: an employee changed, a time set, and always JOB_UPDATED.
EditEvents(x, employee) ==
    LET old == x.copies[x.job] IN
    If(employee # old.employee /\ old.employee # NoOne, Unassigned(x.job, old.employee))
      \o If(employee # old.employee /\ employee # NoOne, Sync(x.job))
      \o If(x.plan, Sync(x.job)) \o <<Sync(x.job)>>

EditCommit(f) ==
    LET x == flow[f]
        old == x.copies[x.job]
        employee == IF x.give = {} THEN old.employee ELSE CHOOSE u \in x.give : TRUE IN
    /\ x.at = "edit" /\ Exists(x.job)
    /\ calJob' = [calJob EXCEPT ![x.job].employee = IF employee # old.employee THEN employee ELSE @,
                                ![x.job].scheduled = @ \/ x.plan]
    /\ Step(f, Notify(x, EditEvents(x, employee)))
    /\ UNCHANGED <<linked, google, astray, bounds>>

\* assign_job: JOB_ASSIGNED only, whoever had the job before.
AssignCalJob(f, j, u) ==
    /\ flow[f].at = "idle" /\ Change /\ Exists(j)
    /\ calJob' = [calJob EXCEPT ![j].employee = u]
    /\ Step(f, Notify(NoFlow, <<Sync(j)>>))
    /\ UNCHANGED <<linked, google, astray>>

AtWork(j) == {f \in Flows : flow[f].at = "work" /\ j \in flow[f].jobs}

\* Undoing the creation deletes the job; no event tells the calendar.
DeleteCalJob(j) ==
    /\ Exists(j) /\ Trouble
    /\ calJob' = [calJob EXCEPT ![j] = NoOne]
    /\ astray' = astray \cup {j}
    /\ UNCHANGED <<linked, google, flow>>

\* The OAuth callback stores the credentials and starts sync_all_user_jobs.
ConnectCalendar(f, u) ==
    /\ flow[f].at = "idle" /\ Change
    /\ linked' = linked \cup {u}
    /\ Step(f, [NoFlow EXCEPT !.at = "resync", !.user = u])
    /\ UNCHANGED <<calJob, google, astray>>

DisconnectCalendar(u) ==
    /\ Trouble /\ u \in linked
    /\ linked' = linked \ {u}
    /\ UNCHANGED <<calJob, google, flow, astray>>

-----------------------------------------------------------------------------
(* Handlers *)

\* A handler starts on jobs that another is working on.
Overlaps(jobs) == {j \in jobs : AtWork(j) # {}}

Working(f, kind, user, jobs) ==
    [flow[f] EXCEPT !.at = "work", !.kind = kind, !.user = user, !.jobs = jobs, !.left = jobs,
                    !.copies = calJob, !.ids = [j \in CalJobs |->
                       IF Exists(j) THEN calJob[j].event ELSE NoOne]]

\* Mutant of Asked: the id is not looked at before an event is made.
AlwaysCreates(kind, row) ==
    CASE kind = "sync" /\ row.scheduled -> "create"
      [] row.event # NoOne /\ (kind = "unassigned" \/ ~row.scheduled) -> "delete"
      [] OTHER -> "nothing"

\* What the handler asks of Google for a job, by the copy it has loaded.
Asked(kind, row) ==
    CASE kind = "unassigned" /\ row.event # NoOne -> "delete"
      [] kind = "sync" /\ row.event # NoOne /\ ~row.scheduled -> "delete"
      [] kind = "sync" /\ row.event # NoOne /\ row.scheduled -> "update"
      [] kind = "sync" /\ row.event = NoOne /\ row.scheduled -> "create"
      [] OTHER -> "nothing"

\* _sync_job and handle_job_unassigned load the job and the user.
HandlerLoads(f) ==
    LET x == flow[f]
        n == Head(x.todo)
        user == IF n.kind = "unassigned" THEN n.employee ELSE calJob[n.job].employee IN
    /\ x.at = "notify"
    /\ IF Exists(n.job) /\ user \in linked /\ Asked(n.kind, calJob[n.job]) # "nothing"
       THEN /\ Step(f, Working(f, n.kind, user, {n.job}))
            /\ astray' = astray \cup Overlaps({n.job})
       ELSE Step(f, Notify(x, Tail(x.todo))) /\ UNCHANGED astray
    /\ UNCHANGED <<calJob, linked, google, bounds>>

\* sync_all_user_jobs loads the user's coming jobs.
ResyncLoads(f) ==
    LET x == flow[f]
        jobs == {j \in CalJobs : Exists(j) /\ calJob[j].employee = x.user /\ calJob[j].scheduled} IN
    /\ x.at = "resync"
    /\ IF x.user \in linked
       THEN Step(f, Working(f, "sync", x.user, jobs)) /\ astray' = astray \cup Overlaps(jobs)
       ELSE Step(f, NoFlow) /\ UNCHANGED astray
    /\ UNCHANGED <<calJob, linked, google, bounds>>

Answered(f, j, id) == [flow[f] EXCEPT !.left = @ \ {j}, !.ids[j] = id]

GoogleCreates(f, j) ==
    LET x == flow[f] IN
    /\ x.at = "work" /\ j \in x.left /\ Asked(x.kind, x.copies[j]) = "create"
    /\ \E e \in Events :
         /\ madeFor[e] = NoOne
         /\ inCalendar' = [inCalendar EXCEPT ![e] = x.user]
         /\ madeFor' = [madeFor EXCEPT ![e] = j]
         /\ Step(f, Answered(f, j, e))
    /\ UNCHANGED <<calJob, linked, astray, bounds>>

\* An event that is not in this user's calendar is forgotten (404).
GoogleUpdates(f, j) ==
    LET x == flow[f]
        e == x.copies[j].event IN
    /\ x.at = "work" /\ j \in x.left /\ Asked(x.kind, x.copies[j]) = "update"
    /\ Step(f, Answered(f, j, IF inCalendar[e] = x.user THEN e ELSE NoOne))
    /\ astray' = IF inCalendar[e] \in {x.user, NoOne} THEN astray ELSE astray \cup {j}
    /\ UNCHANGED <<calJob, linked, google, bounds>>

\* Deleting an event that is not there is an error, and the id is kept.
GoogleDeletes(f, j) ==
    LET x == flow[f]
        e == x.copies[j].event IN
    /\ x.at = "work" /\ j \in x.left /\ Asked(x.kind, x.copies[j]) = "delete"
    /\ IF inCalendar[e] = x.user
       THEN inCalendar' = [inCalendar EXCEPT ![e] = NoOne] /\ Step(f, Answered(f, j, NoOne))
       ELSE UNCHANGED inCalendar /\ Step(f, Answered(f, j, e))
    /\ UNCHANGED <<calJob, linked, madeFor, astray, bounds>>

\* Credentials that cannot be refreshed, or any other error: the id is kept.
GoogleFails(f, j) ==
    /\ flow[f].at = "work" /\ j \in flow[f].left /\ Trouble
    /\ Step(f, Answered(f, j, flow[f].copies[j].event))
    /\ UNCHANGED <<calJob, linked, google, astray>>

\* The user deletes an event in Google.
GoogleForgets(e) ==
    /\ inCalendar[e] # NoOne /\ Trouble
    /\ inCalendar' = [inCalendar EXCEPT ![e] = NoOne]
    /\ UNCHANGED <<calJob, linked, madeFor, flow, astray>>

\* The ids that differ from the copies are committed (to rows that are still there).
HandlerCommits(f) ==
    LET x == flow[f] IN
    /\ x.at = "work" /\ x.left = {}
    /\ calJob' = [j \in CalJobs |->
                    IF j \in x.jobs /\ Exists(j) /\ x.ids[j] # x.copies[j].event
                    THEN [calJob[j] EXCEPT !.event = x.ids[j]] ELSE calJob[j]]
    /\ Step(f, Notify(x, IF x.todo = <<>> THEN <<>> ELSE Tail(x.todo)))
    /\ UNCHANGED <<linked, google, astray, bounds>>

\* A restart, or a commit that fails, after what Google has done already.
FlowDies(f) ==
    LET x == flow[f] IN
    /\ x.at # "idle" /\ Trouble
    /\ astray' = astray \cup {j \in x.jobs : x.ids[j] # x.copies[j].event}
    /\ Step(f, NoFlow)
    /\ UNCHANGED <<calJob, linked, google>>

CalendarNext ==
    \/ \E j \in CalJobs : DeleteCalJob(j)
    \/ \E u \in Staff : DisconnectCalendar(u)
    \/ \E e \in Events : GoogleForgets(e)
    \/ \E f \in Flows :
         \/ EditCommit(f) \/ HandlerLoads(f) \/ ResyncLoads(f) \/ HandlerCommits(f) \/ FlowDies(f)
         \/ \E u \in Staff : ConnectCalendar(f, u)
         \/ \E j \in CalJobs :
              \/ GoogleCreates(f, j) \/ GoogleUpdates(f, j) \/ GoogleDeletes(f, j) \/ GoogleFails(f, j)
              \/ \E u \in Staff : AssignCalJob(f, j, u)
              \/ \E u \in Staff \cup {NoOne}, plan \in BOOLEAN :
                   CreateCalJob(f, j, u, plan) \/ EditRead(f, j, {u}, plan)
              \/ EditRead(f, j, {}, TRUE)

CalendarSpec == CalendarInit /\ [][CalendarNext]_calendarVars

-----------------------------------------------------------------------------
(* Properties *)

\* Rows, flows and histories are of the types the code declares.
CalendarTypeOK ==
    /\ calJob \in [CalJobs -> CalRow \cup {NoOne}]
    /\ linked \subseteq Staff
    /\ inCalendar \in [Events -> Staff \cup {NoOne}]
    /\ madeFor \in [Events -> CalJobs \cup {NoOne}]
    /\ flow \in [Flows -> FlowRecord]
    /\ astray \subseteq CalJobs
    /\ changes \in 0..MaxChanges /\ trouble \in 0..MaxTrouble

\* An event in somebody's calendar is the one its job's row names, or will name
\* with the next commit, so that the code can update and delete it.  It is lost
\* only when two handlers worked on the job at once, when a death came between
\* Google's answer and the commit, when the job's row was deleted, or when the
\* job had moved to an employee in whose calendar the event is not.
EventsAreNamed ==
    \A e \in Events :
      (inCalendar[e] # NoOne /\ madeFor[e] \notin astray) =>
         \/ Exists(madeFor[e]) /\ calJob[madeFor[e]].event = e
         \/ \E f \in AtWork(madeFor[e]) : flow[f].ids[madeFor[e]] = e

\* "Jobs correctly move from User A's calendar to User B's calendar upon
\* reassignment": with nobody at work, an event is in the calendar of its job's
\* employee (the run that checks it has one flow and no trouble).
EventsMoveAlong ==
    (\A f \in Flows : flow[f].at = "idle") =>
      \A e \in Events : inCalendar[e] # NoOne => inCalendar[e] = calJob[madeFor[e]].employee

=============================================================================
