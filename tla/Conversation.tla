---------------------------- MODULE Conversation ----------------------------
(* The assistant's conversation with one user.  A message proposes an       *)
(* action (a draft) and a later message confirms, cancels or replaces it.   *)
(* All turns share the user's conversation_states row: webhook turns        *)
(* (handle_message), the web chat (/send, /execute) and auto-confirm timers *)
(* each hold a session of their own and only meet in that row and in the    *)
(* database's single write lock.                                            *)
(*                                                                          *)
(* A session reads without the lock, takes it at its first flush and keeps  *)
(* it until it commits or rolls back.  It flushes only the columns whose    *)
(* value it changed, and a commit leaves its objects as they were           *)
(* (expire_on_commit=False).  An action is the code between two awaits      *)
(* whose order against the other sessions matters.                          *)
EXTENDS Naturals, FiniteSets

CONSTANTS
  Chats,              \* webhook turns in progress
  Webs,               \* web chat requests in progress
  Timer,              \* the auto-confirm task that is awake
  Nobody,             \* the lock is free
  Drafts,             \* the tool calls the parser can propose
  Committing,         \* drafts whose tool commits midway (jobs, requests, quotes)
  Tracked,            \* drafts whose tool returns metadata for undo
  Twins,              \* drafts of one tool, differing in their arguments
  JoinStep,           \* the draft {"step": "joining"} of the onboarding
  NoDraft,
  MaxMessages,        \* bound: incoming messages and requests
  MaxFaults           \* bound: exceptions, cancelled requests and crashes

ASSUME ConversationAssumption ==
  /\ Chats \cap Webs = {} /\ Timer \notin Chats \cup Webs
  /\ Nobody \notin Chats \cup Webs \cup {Timer}
  /\ Committing \subseteq Drafts /\ Tracked \subseteq Drafts /\ Twins \subseteq Drafts
  /\ NoDraft \notin Drafts \cup {JoinStep} /\ JoinStep \notin Drafts
  /\ MaxMessages \in Nat /\ MaxFaults \in Nat

Turns == Chats \cup Webs \cup {Timer}
Columns == {"state", "draft", "ts", "last"}
Confirmable == {"WAITING_CONFIRM", "PENDING_AUTO_CONFIRM"}

VARIABLES
  row,        \* the committed conversation_states row; state "NEW" when there is none
  lock,       \* the session that holds the database's write lock
  pc,         \* pc[t]: where turn t stands
  base,       \* base[t]: the row as t's session last loaded or flushed it
  mem,        \* mem[t]: the row as t has it in memory
  written,    \* written[t]: columns flushed and not yet committed
  work,       \* work[t]: what the turn is to run, and ran, undid and dropped uncommitted
  timers,     \* auto-confirm tasks asleep
  proposed,   \* drafts the parser has answered with
  offered,    \* drafts whose proposal was committed: the user can see them
  runs,       \* runs[d]: committed executions of d
  undone,     \* drafts whose effect a committed undo reverted
  cancelled,  \* drafts whose cancellation was committed
  asked,      \* the draft the last turn that changed the row asked to confirm
  latest,     \* the tracked draft executed last
  messages,   \* counts incoming messages
  faults      \* counts faults

vars == <<row, lock, pc, base, mem, written, work, timers, proposed, offered, runs,
          undone, cancelled, asked, latest, messages, faults>>
history == <<offered, runs, undone, cancelled, asked, latest>>
session == <<base, mem, written, work>>

EmptyRow == [state |-> "NEW", draft |-> NoDraft, ts |-> "none", last |-> NoDraft]
NoWork == [todo |-> NoDraft, ran |-> NoDraft, undid |-> NoDraft, dropped |-> NoDraft]

Init ==
  /\ row = EmptyRow
  /\ lock = Nobody
  /\ pc = [t \in Turns |-> "idle"]
  /\ base = [t \in Turns |-> EmptyRow] /\ mem = [t \in Turns |-> EmptyRow]
  /\ written = [t \in Turns |-> {}]
  /\ work = [t \in Turns |-> NoWork]
  /\ timers = 0
  /\ proposed = {} /\ offered = {} /\ undone = {} /\ cancelled = {}
  /\ runs = [d \in Drafts |-> 0]
  /\ asked = NoDraft /\ latest = NoDraft
  /\ messages = 0 /\ faults = 0

-----------------------------------------------------------------------------
(* Rows *)

\* Variant: the reset clears the draft and leaves the state.
ForgetState(r) == [r EXCEPT !.draft = NoDraft]

\* After an execution.
Reset(r) == [r EXCEPT !.state = "IDLE", !.draft = NoDraft]

\* Variant: the user is told the action is cancelled, the row is left alone.
DiscardNothing(r) == r

\* "no", or another text: PENDING_AUTO_CONFIRM clears the timestamp too.
Discard(r) ==
  [r EXCEPT !.state = "IDLE", !.draft = NoDraft,
            !.ts = IF r.state = "PENDING_AUTO_CONFIRM" THEN "none" ELSE @]

\* Variant: the metadata of an older action is not replaced.
RememberFirst(r, d) == IF r.last = NoDraft THEN [r EXCEPT !.last = d] ELSE r

Remember(r, d) == IF d \in Tracked THEN [r EXCEPT !.last = d] ELSE r

Propose(r, d, auto) ==
  IF auto THEN [r EXCEPT !.state = "PENDING_AUTO_CONFIRM", !.draft = d, !.ts = "aware"]
          ELSE [r EXCEPT !.state = "WAITING_CONFIRM", !.draft = d]

\* Variant: the column keeps the offset.
KeepOffset(r) == r

\* A DateTime column stores no offset.
Stored(r) == [r EXCEPT !.ts = IF @ = "aware" THEN "naive" ELSE @]

\* Variant: the comparison of timestamps converts.
AnyTimes(a, b) == TRUE

\* now >= pending_action_timestamp raises TypeError unless both or neither have an offset.
Comparable(a, b) == a = b

\* What a commit leaves in the row when it writes only the given columns of r.
Merge(r, columns) == Stored([c \in Columns |-> IF c \in columns THEN r[c] ELSE row[c]])

Dirty(t) == {c \in Columns : mem[t][c] # base[t][c]}

-----------------------------------------------------------------------------
(* The lock and the end of a turn *)

\* Variant: nobody waits for another session's transaction.
NeverWait(t) == TRUE

MayWrite(t) == lock \in {t, Nobody}

\* Variant: the session of a failed turn is never closed.
KeepLock(t) == lock

Unlock(t) == IF lock = t THEN Nobody ELSE lock

\* Turn t is over: its session is closed and what it did not commit is gone.
EndOfTurn(t) ==
  /\ pc' = [pc EXCEPT ![t] = "idle"]
  /\ base' = [base EXCEPT ![t] = EmptyRow]
  /\ mem' = [mem EXCEPT ![t] = EmptyRow]
  /\ written' = [written EXCEPT ![t] = {}]
  /\ work' = [work EXCEPT ![t] = NoWork]

Goto(t, place) == pc' = [pc EXCEPT ![t] = place]

\* A query autoflushes the pending assignments, which takes the lock.
Flush(t) ==
  /\ MayWrite(t)
  /\ lock' = t
  /\ written' = [written EXCEPT ![t] = @ \cup Dirty(t)]
  /\ base' = [base EXCEPT ![t] = mem[t]]

\* The session of t commits: its row, what its tool did, and the lock is free.
Commit(t) ==
  /\ MayWrite(t)
  /\ lock' = Nobody
  /\ LET columns == written[t] \cup Dirty(t) IN
       /\ row' = Merge(mem[t], columns)
       /\ asked' = IF columns \cap {"state", "draft"} = {} THEN asked
                  ELSE IF mem[t].state \in Confirmable THEN mem[t].draft
                  ELSE NoDraft
  /\ offered' = offered \cup ({mem[t].draft} \cap Drafts)
  /\ LET w == work[t] IN
       /\ runs' = [d \in Drafts |-> runs[d] + IF d = w.ran THEN 1 ELSE 0]
       /\ latest' = IF w.ran \in Tracked THEN w.ran ELSE latest
       /\ undone' = undone \cup ({w.undid} \ {NoDraft})
       /\ cancelled' = cancelled \cup ({w.dropped} \ {NoDraft})

\* track_message_sent commits the reply, or /send and /execute commit theirs.
Close(t) ==
  /\ pc[t] = "closing"
  /\ Commit(t)
  /\ EndOfTurn(t)
  /\ UNCHANGED <<timers, proposed, messages, faults>>

\* A handler commits and goes on with the row it has in memory.
CommitAndGoOn(t) ==
  /\ Commit(t)
  /\ base' = [base EXCEPT ![t] = mem[t]]
  /\ written' = [written EXCEPT ![t] = {}]
  /\ work' = [work EXCEPT ![t] = NoWork]
  /\ Goto(t, "closing")
  /\ UNCHANGED <<timers, proposed, messages, faults>>

\* An exception or a cancelled request rolls the session back: what it has
\* committed stays, the draft of the row stays.
Fail(t) ==
  /\ pc[t] # "idle"
  /\ faults < MaxFaults
  /\ faults' = faults + 1
  /\ lock' = Unlock(t)
  /\ EndOfTurn(t)
  /\ UNCHANGED <<row, timers, proposed, history, messages>>

\* "database is locked": five seconds went by while another session held the lock.
LockTimeout(t) ==
  /\ pc[t] \in {"arrived", "run", "replace", "idle_handler", "closing"}
  /\ ~MayWrite(t)
  /\ EndOfTurn(t)
  /\ UNCHANGED <<row, lock, timers, proposed, history, messages, faults>>

\* The process dies and starts again: turns and timers are gone.
Crash ==
  /\ faults < MaxFaults
  /\ faults' = faults + 1
  /\ lock' = Nobody
  /\ pc' = [t \in Turns |-> "idle"]
  /\ base' = [t \in Turns |-> EmptyRow] /\ mem' = [t \in Turns |-> EmptyRow]
  /\ written' = [t \in Turns |-> {}] /\ work' = [t \in Turns |-> NoWork]
  /\ timers' = 0
  /\ UNCHANGED <<row, proposed, history, messages>>

-----------------------------------------------------------------------------
(* A message arrives and reads the row *)

Arrive(t) ==
  /\ t # Timer
  /\ pc[t] = "idle"
  /\ messages < MaxMessages
  /\ messages' = messages + 1
  /\ Goto(t, "arrived")
  /\ UNCHANGED <<row, lock, session, timers, proposed, history, faults>>

\* The user's message is flushed, which takes the lock, and the row is read
\* under it, or created.  A user the webhook has just created is welcomed.
Load(t) ==
  /\ pc[t] = "arrived"
  /\ MayWrite(t)
  /\ lock' = t
  /\ base' = [base EXCEPT ![t] = row]
  /\ \/ /\ mem' = [mem EXCEPT ![t] =
                     IF row.state = "NEW" /\ t \in Chats
                       THEN [row EXCEPT !.state = "IDLE"] ELSE row]
        /\ Goto(t, IF t \in Webs THEN "drafting" ELSE "dispatch")
     \/ /\ row.state = "NEW" /\ t \in Chats
        /\ mem' = [mem EXCEPT ![t].state = "ONBOARDING"]
        /\ Goto(t, "closing")
  /\ UNCHANGED <<row, written, work, timers, proposed, history, messages, faults>>

\* A location message: the location is committed, and no reply is logged.
ShareLocation(t) ==
  /\ pc[t] = "dispatch"
  /\ Commit(t)
  /\ EndOfTurn(t)
  /\ UNCHANGED <<timers, proposed, messages, faults>>

-----------------------------------------------------------------------------
(* Confirmation *)

\* execute_draft, up to the tool: without a draft it only resets the state.
Begin(t, place) ==
  IF mem[t].draft = NoDraft
    THEN /\ mem' = [mem EXCEPT ![t].state = "IDLE"]
         /\ Goto(t, IF place = "replace" THEN "idle_handler" ELSE "closing")
         /\ UNCHANGED work
    ELSE /\ work' = [work EXCEPT ![t].todo = mem[t].draft]
         /\ Goto(t, place)
         /\ UNCHANGED mem

\* "yes"
ConfirmYes(t) ==
  /\ pc[t] = "dispatch"
  /\ mem[t].state \in Confirmable
  /\ Begin(t, "run")
  /\ UNCHANGED <<row, lock, base, written, timers, proposed, history, messages, faults>>

\* "no", or another text that replaces the draft; with the preference
\* confirm_by_default another text executes a draft that waits for confirmation.
ConfirmOther(t, text, byDefault) ==
  /\ pc[t] = "dispatch"
  /\ mem[t].state \in Confirmable
  /\ IF text = "new" /\ mem[t].state = "WAITING_CONFIRM" /\ byDefault
       THEN Begin(t, "replace")
       ELSE /\ mem' = [mem EXCEPT ![t] = Discard(@)]
            /\ work' = [work EXCEPT ![t].dropped = mem[t].draft]
            /\ Goto(t, IF text = "no" THEN "closing" ELSE "idle_handler")
  /\ UNCHANGED <<row, lock, base, written, timers, proposed, history, messages, faults>>

\* Variant: every tool commits midway.
CommitsAlways(d) == TRUE

CommitsMidway(d) == d \in Committing

\* Where execute_draft returns to.
AfterRun(t) == IF pc[t] = "replace" THEN "idle_handler" ELSE "closing"

\* /execute resets the row and leaves last_action_metadata.
Executed(t, d) == IF t \in Webs THEN Reset(mem[t]) ELSE Reset(Remember(mem[t], d))

\* ToolExecutor.execute returns: the effect waits for the turn's commit, or
\* the tool has committed it, which releases the lock with the row unchanged.
Run(t) ==
  LET d == work[t].todo IN
  /\ pc[t] \in {"run", "replace"}
  /\ MayWrite(t)
  /\ mem' = [mem EXCEPT ![t] = Executed(t, d)]
  /\ Goto(t, AfterRun(t))
  /\ IF CommitsMidway(d)
       THEN /\ runs' = [runs EXCEPT ![d] = @ + 1]
            /\ latest' = IF d \in Tracked THEN d ELSE latest
            /\ work' = [work EXCEPT ![t].todo = NoDraft]
            /\ lock' = Nobody
       ELSE /\ work' = [work EXCEPT ![t].todo = NoDraft, ![t].ran = d]
            /\ lock' = t
            /\ UNCHANGED <<runs, latest>>
  /\ UNCHANGED <<row, base, written, timers, proposed, offered, undone, cancelled,
                 asked, messages, faults>>

\* The tool raises, perhaps after a commit of its own, or its name is unknown:
\* execute_draft resets the row and reports; /execute lets the exception end
\* the request.
RunFails(t, half) ==
  LET d == work[t].todo IN
  /\ pc[t] \in {"run", "replace"}
  /\ IF half
       THEN /\ CommitsMidway(d) /\ MayWrite(t)
            /\ runs' = [runs EXCEPT ![d] = @ + 1]
            /\ lock' = Nobody
       ELSE /\ lock' = IF t \in Webs THEN Unlock(t) ELSE lock
            /\ UNCHANGED runs
  /\ IF t \in Webs
       THEN EndOfTurn(t)
       ELSE /\ mem' = [mem EXCEPT ![t] = Reset(@)]
            /\ work' = [work EXCEPT ![t].todo = NoDraft]
            /\ Goto(t, AfterRun(t))
            /\ UNCHANGED <<base, written>>
  /\ UNCHANGED <<row, timers, proposed, offered, undone, cancelled, asked, latest,
                 messages, faults>>

SameTool(d, e) == d = e \/ {d, e} \subseteq Twins

\* POST /execute for the draft the page shows: the row is read without the
\* lock and only the name of its tool is compared.
WebConfirm(w, d) ==
  /\ w \in Webs /\ pc[w] = "idle"
  /\ messages < MaxMessages
  /\ d \in offered
  /\ row.state = "WAITING_CONFIRM" /\ SameTool(d, row.draft)
  /\ messages' = messages + 1
  /\ base' = [base EXCEPT ![w] = row]
  /\ mem' = [mem EXCEPT ![w] = row]
  /\ work' = [work EXCEPT ![w].todo = d]
  /\ Goto(w, "run")
  /\ UNCHANGED <<row, lock, written, timers, proposed, history, faults>>

\* An auto-confirm task wakes up and reads the row without the lock.
TimerFires ==
  /\ timers > 0
  /\ pc[Timer] = "idle"
  /\ timers' = timers - 1
  /\ IF /\ row.state = "PENDING_AUTO_CONFIRM"
        /\ row.ts # "none"
        /\ Comparable("aware", row.ts)
       THEN /\ base' = [base EXCEPT ![Timer] = row]
            /\ mem' = [mem EXCEPT ![Timer] = row]
            /\ work' = [work EXCEPT ![Timer].todo = row.draft]
            /\ Goto(Timer, "run")
       ELSE UNCHANGED <<base, mem, work, pc>>
  /\ UNCHANGED <<row, lock, written, proposed, history, messages, faults>>

-----------------------------------------------------------------------------
(* The other handlers *)

\* ONBOARDING: create a business, ask for a code, or an invalid choice.
Onboard(t) ==
  /\ pc[t] = "dispatch"
  /\ mem[t].state = "ONBOARDING"
  /\ \E after \in IF mem[t].draft = NoDraft
                    THEN {mem[t], [mem[t] EXCEPT !.state = "IDLE"],
                          [mem[t] EXCEPT !.draft = JoinStep]}
                    ELSE {mem[t], Reset(mem[t])} :
       mem' = [mem EXCEPT ![t] = after]
  /\ Goto(t, "closing")
  /\ UNCHANGED <<row, lock, base, written, work, timers, proposed, history, messages, faults>>

\* The code is good: process_join commits, then the row is reset.
Join(t) ==
  /\ pc[t] = "dispatch"
  /\ mem[t].state = "ONBOARDING" /\ mem[t].draft = JoinStep
  /\ CommitAndGoOn(t)
  /\ mem' = [mem EXCEPT ![t] = Reset(@)]

\* SETTINGS, DATA_MANAGEMENT, BILLING, EMPLOYEE_MANAGEMENT ("MODE"): stay or
\* leave, or buy a seat or an addon, which asks for confirmation.
InMode(t) ==
  /\ pc[t] = "dispatch"
  /\ mem[t].state = "MODE"
  /\ \/ /\ \E s \in {"MODE", "IDLE"} : mem' = [mem EXCEPT ![t].state = s]
        /\ UNCHANGED proposed
     \/ \E d \in Drafts \ proposed :
          /\ mem' = [mem EXCEPT ![t] = Propose(@, d, FALSE)]
          /\ proposed' = proposed \cup {d}
  /\ Goto(t, "closing")
  /\ UNCHANGED <<row, lock, base, written, work, timers, history, messages, faults>>

\* The tool of the mode commits (an invitation, an import), or a user at no
\* draft joins another business.
HandlerCommits(t) ==
  /\ \/ pc[t] = "dispatch" /\ mem[t].state = "MODE"
     \/ pc[t] = "idle_handler"
  /\ CommitAndGoOn(t)
  /\ UNCHANGED mem

GoIdle(t) ==
  /\ pc[t] = "dispatch"
  /\ mem[t].state = "IDLE"
  /\ Goto(t, "idle_handler")
  /\ UNCHANGED <<row, lock, session, timers, proposed, history, messages, faults>>

\* IdleHandler: a greeting or a keyword of a mode.
Command(t) ==
  /\ pc[t] = "idle_handler"
  /\ \E s \in {mem[t].state, "MODE"} : mem' = [mem EXCEPT ![t].state = s]
  /\ Goto(t, "closing")
  /\ UNCHANGED <<row, lock, base, written, work, timers, proposed, history, messages, faults>>

\* "undo": handle_undo reverts the action the row remembers.
Undo(t) ==
  /\ pc[t] = "idle_handler"
  /\ mem[t].last # NoDraft
  /\ Flush(t)
  /\ mem' = [mem EXCEPT ![t].last = NoDraft]
  /\ work' = [work EXCEPT ![t].undid = mem[t].last]
  /\ Goto(t, "closing")
  /\ UNCHANGED <<row, timers, proposed, history, messages, faults>>

\* Any other text goes to the parser; the catalog query autoflushes unless
\* the catalog is cached.
Parse(t) ==
  /\ pc[t] = "idle_handler"
  /\ \/ Flush(t)
     \/ UNCHANGED <<lock, base, written>>
  /\ Goto(t, "drafting")
  /\ UNCHANGED <<row, mem, work, timers, proposed, history, messages, faults>>

\* The parser answers with text or help, is not understood, or twice names a
\* place that the safeguard refuses.
Answer(t) ==
  /\ pc[t] = "drafting"
  /\ Goto(t, "closing")
  /\ UNCHANGED <<row, lock, session, timers, proposed, history, messages, faults>>

\* The parser answers with a tool call: the draft is stored, and on a channel
\* with auto_confirm a task is scheduled at once.  /send always waits.
Draft(t, d, auto) ==
  /\ pc[t] = "drafting"
  /\ d \notin proposed
  /\ auto => t \in Chats
  /\ proposed' = proposed \cup {d}
  /\ mem' = [mem EXCEPT ![t] = Propose(@, d, auto)]
  /\ timers' = IF auto THEN timers + 1 ELSE timers
  /\ Goto(t, "closing")
  /\ UNCHANGED <<row, lock, base, written, work, history, messages, faults>>

Dispatch(t) ==
  \/ ShareLocation(t)
  \/ ConfirmYes(t)
  \/ \E text \in {"no", "new"}, byDefault \in BOOLEAN : ConfirmOther(t, text, byDefault)
  \/ Onboard(t)
  \/ Join(t)
  \/ InMode(t)
  \/ GoIdle(t)

\* What a turn does once it has begun.
Proceed(t) ==
  \/ Load(t)
  \/ Dispatch(t)
  \/ Run(t)
  \/ \E half \in BOOLEAN : RunFails(t, half)
  \/ HandlerCommits(t)
  \/ Command(t)
  \/ Undo(t)
  \/ Parse(t)
  \/ Answer(t)
  \/ \E d \in Drafts, auto \in BOOLEAN : Draft(t, d, auto)
  \/ Close(t)

Next ==
  \/ \E t \in Turns : Arrive(t) \/ Proceed(t) \/ Fail(t) \/ LockTimeout(t)
  \/ \E w \in Webs, d \in Drafts : WebConfirm(w, d)
  \/ TimerFires
  \/ Crash

Spec == Init /\ [][Next]_vars

\* A turn that has begun goes on or gives up waiting for the lock, and a
\* sleeping task wakes up.
Fairness ==
  /\ \A t \in Turns : WF_vars(Proceed(t) \/ LockTimeout(t))
  /\ WF_vars(TimerFires)

FairSpec == Spec /\ Fairness

-----------------------------------------------------------------------------
(* Properties *)

Rows ==
  [state : {"NEW", "IDLE", "ONBOARDING", "MODE"} \cup Confirmable,
   draft : Drafts \cup {JoinStep, NoDraft},
   ts : {"none", "aware", "naive"},
   last : Drafts \cup {NoDraft}]

Works == [{"todo", "ran", "undid", "dropped"} -> Drafts \cup {NoDraft}]

\* Every variable has its type; a time in the database has no offset.
TypeOK ==
  /\ row \in Rows /\ row.ts # "aware"
  /\ lock \in Turns \cup {Nobody}
  /\ pc \in [Turns -> {"idle", "arrived", "dispatch", "run", "replace",
                       "idle_handler", "drafting", "closing"}]
  /\ base \in [Turns -> Rows] /\ mem \in [Turns -> Rows]
  /\ written \in [Turns -> SUBSET Columns]
  /\ work \in [Turns -> Works]
  /\ timers \in Nat /\ messages \in Nat /\ faults \in Nat
  /\ proposed \subseteq Drafts /\ offered \subseteq proposed
  /\ undone \subseteq Drafts /\ cancelled \subseteq Drafts
  /\ runs \in [Drafts -> Nat]
  /\ asked \in Drafts \cup {NoDraft} /\ latest \in Drafts \cup {NoDraft}

\* The row awaits a confirmation exactly when the last turn that changed
\* it asked for one, and then of the draft it asked about: no turn's prompt is
\* overwritten by a turn that ran beside it.
AskedIsPending ==
  IF row.state \in Confirmable THEN row.draft = asked ELSE asked = NoDraft

\* A row that awaits a confirmation holds a draft, even when sessions that
\* loaded different versions of the row have each written some of its columns.
ConfirmableHasDraft == row.state \in Confirmable => row.draft \in Drafts

\* "undo" reverts the action that was executed last, not an older one.
UndoRevertsLatest == [][\A d \in undone' \ undone : d = latest']_vars

\* A webhook turn executes a draft only while the committed row still offers
\* that draft for confirmation.
ChatRunsPending ==
  [][\A t \in Chats, d \in Drafts :
       pc'[t] # pc[t] /\ runs'[d] # runs[d]
         => row.state \in Confirmable /\ row.draft = d]_vars

\* Once the user has been told that a draft is cancelled, no webhook turn
\* executes it, however the turns and the web chat overlap.
CancelledStaysCancelled ==
  [][\A t \in Chats, d \in cancelled :
       pc'[t] # pc[t] => runs'[d] = runs[d]]_vars

\* A draft is executed at most once, whatever the user answers and how often.
RunOnce == \A d \in Drafts : runs[d] <= 1

\* The user's answer counts once: a draft is executed or cancelled, not both, and
\* not twice, unless its own tool commits midway.
ResolvedOnce ==
  \A d \in Drafts \ Committing : runs[d] <= (IF d \in cancelled THEN 0 ELSE 1)

\* No turn keeps the write lock for ever: other users' turns wait for it too.
LockIsReleased == lock # Nobody ~> lock = Nobody

\* A draft that is announced as auto-confirming is executed, or the user
\* cancels or replaces it first.
AutoConfirmHappens ==
  \A d \in Drafts :
    row.state = "PENDING_AUTO_CONFIRM" /\ row.draft = d
      ~> runs[d] > 0 \/ d \in cancelled \/ row.draft # d

\* Turns take effect one after the other, as DraftLifecycle promises: each
\* resolves the pending draft and perhaps proposes another, in one step.
Lifecycle == INSTANCE DraftLifecycle WITH
  pending <- IF row.state \in Confirmable THEN row.draft ELSE NoDraft,
  dropped <- cancelled

LifecycleSpec == Lifecycle!Spec
=============================================================================
