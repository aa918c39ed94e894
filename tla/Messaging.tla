----------------------------- MODULE Messaging -----------------------------
(* MessagingService: event handlers put outgoing messages on an in-memory   *)
(* queue, one worker task takes them off and sends them, and some requests  *)
(* call send_message themselves.  send_message commits a PENDING log row,   *)
(* calls the provider and commits the outcome together with the credit      *)
(* deduction.  The lifespan starts and stops the service, cancels a stop    *)
(* that takes too long, and the process may die at any moment, which loses  *)
(* the queue and every send in progress but not the rows.                   *)
(*                                                                          *)
(* An action is the code between two awaits that can suspend.               *)
EXTENDS Naturals, Sequences, FiniteSets

CONSTANTS
  Messages,     \* the messages the program ever wants to send
  Callers,      \* requests that call send_message without the queue
  Worker,       \* the queue processor task
  Sentinel,     \* the None that stop() puts on the queue
  NoMessage,
  Reachable,    \* messages whose event data is complete and whose customer has a phone
  Unroutable,   \* messages on a channel send_message has no branch for (EMAIL)
  Billable,     \* messages sent for a known business_id
  MaxStarts,    \* bound: service starts (same process or after a restart)
  MaxFaults     \* bound: database or billing errors

ASSUME MessagingAssumption ==
  /\ Worker \notin Callers
  /\ Sentinel \notin Messages
  /\ NoMessage \notin Messages
  /\ Reachable \subseteq Messages
  /\ Unroutable \subseteq Messages
  /\ Billable \subseteq Messages
  /\ MaxStarts \in Nat
  /\ MaxFaults \in Nat

Senders == Callers \cup {Worker}

VARIABLES
  phase,        \* the lifespan: "down", "up", or "stopping" while stop() awaits the worker
  running,      \* self._running
  queue,        \* self._queue
  pc,           \* pc[s]: where sender s stands in process_queue / send_message
  cur,          \* cur[s]: the message s is sending
  answer,       \* answer[s]: the success flag _send_whatsapp / _send_sms returned
  stage,        \* stage[m]: "new", "emitted" (handlers running), "handed" over, "dropped"
  log,          \* log[m]: committed MessageLog.status, "none" when there is no row
  attempts,     \* attempts[m]: calls to the provider for m
  accepted,     \* messages the provider accepted
  billed,       \* messages whose credits were deducted in a committed transaction
  cut,          \* messages whose send was cut short by an error, a cancel or a crash
  starts,       \* counts service starts
  faults        \* counts database and billing errors

messagingVars == <<phase, running, queue, pc, cur, answer, stage, log, attempts,
          accepted, billed, cut, starts, faults>>
senderVars == <<pc, cur, answer>>
rowVars == <<log, billed>>
providerVars == <<attempts, accepted>>
lifeVars == <<phase, running, starts>>

Init ==
  /\ phase = "down" /\ running = FALSE /\ queue = <<>>
  /\ pc = [s \in Senders |-> "idle"]
  /\ cur = [s \in Senders |-> NoMessage]
  /\ answer = [s \in Senders |-> FALSE]
  /\ stage = [m \in Messages |-> "new"]
  /\ log = [m \in Messages |-> "none"]
  /\ attempts = [m \in Messages |-> 0]
  /\ accepted = {} /\ billed = {} /\ cut = {}
  /\ starts = 0 /\ faults = 0

-----------------------------------------------------------------------------
(* Events and the queue *)

\* event_bus.emit of an event that asks for a message: the handler begins.
Emit(m) ==
  /\ phase = "up"
  /\ stage[m] = "new"
  /\ stage' = [stage EXCEPT ![m] = "emitted"]
  /\ UNCHANGED <<lifeVars, queue, senderVars, rowVars, providerVars, cut, faults>>

\* The handler has looked the customer up: it enqueues, or returns early when
\* a field of the event, the customer or the phone is missing.  A message is what
\* one handler makes of one event: a second start in one process registers the
\* handlers again, and an event then has two.
HandleEvent(m) ==
  /\ phase # "down"
  /\ stage[m] = "emitted"
  /\ IF m \in Reachable
       THEN /\ queue' = Append(queue, m)
            /\ stage' = [stage EXCEPT ![m] = "handed"]
       ELSE /\ stage' = [stage EXCEPT ![m] = "dropped"]
            /\ UNCHANGED queue
  /\ UNCHANGED <<lifeVars, senderVars, rowVars, providerVars, cut, faults>>

\* A request calls send_message itself (campaign, invitation, web chat).
RequestSend(r, m) ==
  /\ phase = "up"
  /\ stage[m] = "new"
  /\ pc[r] = "idle"
  /\ pc' = [pc EXCEPT ![r] = "log"]
  /\ cur' = [cur EXCEPT ![r] = m]
  /\ stage' = [stage EXCEPT ![m] = "handed"]
  /\ UNCHANGED <<lifeVars, queue, answer, rowVars, providerVars, cut, faults>>

\* Variant: the worker peeks and never removes the message.
PeekOnly(q) == q

AfterGet(q) == Tail(q)

\* The worker's get() returns a message.
WorkerTake ==
  /\ pc[Worker] = "waiting"
  /\ queue # <<>>
  /\ Head(queue) # Sentinel
  /\ queue' = AfterGet(queue)
  /\ pc' = [pc EXCEPT ![Worker] = "log"]
  /\ cur' = [cur EXCEPT ![Worker] = Head(queue)]
  /\ UNCHANGED <<lifeVars, answer, stage, rowVars, providerVars, cut, faults>>

\* The worker's get() returns the sentinel: break, leaving _running as it is.
WorkerBreak ==
  /\ pc[Worker] = "waiting"
  /\ queue # <<>>
  /\ Head(queue) = Sentinel
  /\ queue' = AfterGet(queue)
  /\ pc' = [pc EXCEPT ![Worker] = "idle"]
  /\ UNCHANGED <<lifeVars, cur, answer, stage, rowVars, providerVars, cut, faults>>

-----------------------------------------------------------------------------
(* send_message *)

\* Variant: the worker handles one message per start.
NoLoop(s) == "idle"

\* Where a sender goes when send_message returns or raises: the worker to the
\* test of its while loop, a request back to its caller.
AfterSend(s) == IF s = Worker /\ running THEN "waiting" ELSE "idle"

Finish(s) ==
  /\ pc' = [pc EXCEPT ![s] = AfterSend(s)]
  /\ cur' = [cur EXCEPT ![s] = NoMessage]
  /\ answer' = [answer EXCEPT ![s] = FALSE]

\* The PENDING row is committed before anything is sent.
LogPending(s) ==
  /\ pc[s] = "log"
  /\ log' = [log EXCEPT ![cur[s]] = "PENDING"]
  /\ pc' = [pc EXCEPT ![s] = "provider"]
  /\ UNCHANGED <<lifeVars, queue, cur, answer, stage, billed, providerVars, cut, faults>>

\* That commit fails: send_message raises and the message is gone.
LogPendingFails(s) ==
  /\ pc[s] = "log"
  /\ faults < MaxFaults
  /\ faults' = faults + 1
  /\ cut' = cut \cup {cur[s]}
  /\ Finish(s)
  /\ UNCHANGED <<lifeVars, queue, stage, rowVars, providerVars>>

\* The provider is called; it may accept the message and its answer still be
\* lost (a timeout, a bad body), which the senders report as not sent.
CallProvider(s) ==
  /\ pc[s] = "provider"
  /\ LET m == cur[s] IN
       IF m \in Unroutable
         THEN /\ answer' = [answer EXCEPT ![s] = FALSE]
              /\ UNCHANGED providerVars
         ELSE /\ attempts' = [attempts EXCEPT ![m] = @ + 1]
              /\ accepted' \in {accepted, accepted \cup {m}}
              /\ \E ok \in BOOLEAN :
                   /\ ok => m \in accepted'
                   /\ answer' = [answer EXCEPT ![s] = ok]
  /\ pc' = [pc EXCEPT ![s] = "record"]
  /\ UNCHANGED <<lifeVars, queue, cur, stage, rowVars, cut, faults>>

\* Variants: the refusal is not written; the answer is not looked at.
RefusalForgotten(ok) == IF ok THEN "SENT" ELSE "PENDING"
AlwaysSent(ok) == "SENT"

\* The status the last commit gives the row.
Outcome(ok) == IF ok THEN "SENT" ELSE "FAILED"

\* Variant: credits are deducted before the answer is looked at.
ChargedAnyway(m, ok) == m \in Billable

\* track_message_sent deducts the credits in the transaction that holds SENT.
Charged(m, ok) == ok /\ m \in Billable

\* The outcome and the credit deduction are committed together.
RecordOutcome(s) ==
  /\ pc[s] = "record"
  /\ LET m == cur[s] IN
       /\ log' = [log EXCEPT ![m] = Outcome(answer[s])]
       /\ billed' = IF Charged(m, answer[s]) THEN billed \cup {m} ELSE billed
  /\ Finish(s)
  /\ UNCHANGED <<lifeVars, queue, stage, providerVars, cut, faults>>

\* Billing or the commit raises: FAILED is written instead, or, when that
\* fails as well, the row stays PENDING.  The worker goes on either way.
RecordError(s) ==
  /\ pc[s] = "record"
  /\ faults < MaxFaults
  /\ faults' = faults + 1
  /\ \E status \in {"FAILED", "PENDING"} : log' = [log EXCEPT ![cur[s]] = status]
  /\ cut' = cut \cup {cur[s]}
  /\ Finish(s)
  /\ UNCHANGED <<lifeVars, queue, stage, billed, providerVars>>

-----------------------------------------------------------------------------
(* Life cycle *)

\* start(): a worker task is created unless _running is set.  The lifespan
\* awaits the shutdown signal next, so the worker reaches its get() before
\* anything else happens.
Start ==
  /\ phase = "down"
  /\ starts < MaxStarts
  /\ phase' = "up"
  /\ starts' = starts + 1
  /\ running' = TRUE
  /\ pc' = IF running THEN pc ELSE [pc EXCEPT ![Worker] = "waiting"]
  /\ UNCHANGED <<queue, cur, answer, stage, rowVars, providerVars, cut, faults>>

\* stop(): clear _running, put the sentinel, await the worker task.
Stop ==
  /\ phase = "up"
  /\ running
  /\ phase' = "stopping"
  /\ running' = FALSE
  /\ queue' = Append(queue, Sentinel)
  /\ UNCHANGED <<starts, senderVars, stage, rowVars, providerVars, cut, faults>>

\* Variant: stop() does not await the worker task.
NoJoin == TRUE

MayReturn == pc[Worker] = "idle"

\* The awaited worker task has finished.
StopReturns ==
  /\ phase = "stopping"
  /\ MayReturn
  /\ phase' = "down"
  /\ UNCHANGED <<running, starts, queue, senderVars, stage, rowVars, providerVars, cut, faults>>

InFlight(S) == {cur[s] : s \in S} \ {NoMessage}

MessagesIn(q) == {q[i] : i \in 1 .. Len(q)} \ {Sentinel}

Queued == MessagesIn(queue)

\* The senders in S vanish at their await; their sessions roll back.
Abandon(S) ==
  /\ pc' = [s \in Senders |-> IF s \in S THEN "idle" ELSE pc[s]]
  /\ cur' = [s \in Senders |-> IF s \in S THEN NoMessage ELSE cur[s]]
  /\ answer' = [s \in Senders |-> IF s \in S THEN FALSE ELSE answer[s]]

\* The lifespan's five seconds are over: cancelling stop() cancels the worker
\* task it awaits, at whatever await the worker is.
StopTimesOut ==
  /\ phase = "stopping"
  /\ pc[Worker] # "idle"
  /\ phase' = "down"
  /\ Abandon({Worker})
  /\ cut' = cut \cup InFlight({Worker})
  /\ UNCHANGED <<running, starts, queue, stage, rowVars, providerVars, faults>>

\* The process dies, or exits after the shutdown: only the rows survive.
Crash ==
  /\ starts > 0
  /\ phase' = "down"
  /\ running' = FALSE
  /\ queue' = <<>>
  /\ stage' = [m \in Messages |-> IF stage[m] = "emitted" THEN "dropped" ELSE stage[m]]
  /\ Abandon(Senders)
  /\ cut' = cut \cup InFlight(Senders) \cup Queued
  /\ UNCHANGED <<starts, rowVars, providerVars, faults>>

-----------------------------------------------------------------------------
Send(s) ==
  \/ LogPending(s)
  \/ LogPendingFails(s)
  \/ CallProvider(s)
  \/ RecordOutcome(s)
  \/ RecordError(s)

Next ==
  \/ \E m \in Messages : Emit(m)
  \/ \E m \in Messages : HandleEvent(m)
  \/ \E r \in Callers, m \in Messages : RequestSend(r, m)
  \/ WorkerTake
  \/ WorkerBreak
  \/ \E s \in Senders : Send(s)
  \/ Start
  \/ Stop
  \/ StopReturns
  \/ StopTimesOut
  \/ Crash

Spec == Init /\ [][Next]_messagingVars

\* The event loop runs every ready task, the provider calls are bounded by
\* their HTTP timeout, so the worker, the handlers and the sends go on.
\* Nothing makes the lifespan start, stop or time out.
Fairness ==
  /\ WF_messagingVars(WorkerTake \/ WorkerBreak)
  /\ WF_messagingVars(StopReturns)
  /\ \A m \in Messages : WF_messagingVars(HandleEvent(m))
  /\ \A s \in Senders : WF_messagingVars(Send(s))

FairSpec == Spec /\ Fairness

-----------------------------------------------------------------------------
(* Properties *)

TypeOK ==
  /\ phase \in {"down", "up", "stopping"}
  /\ running \in BOOLEAN
  /\ queue \in Seq(Messages \cup {Sentinel})
  /\ pc \in [Senders -> {"idle", "waiting", "log", "provider", "record"}]
  /\ cur \in [Senders -> Messages \cup {NoMessage}]
  /\ answer \in [Senders -> BOOLEAN]
  /\ stage \in [Messages -> {"new", "emitted", "handed", "dropped"}]
  /\ log \in [Messages -> {"none", "PENDING", "SENT", "FAILED"}]
  /\ attempts \in [Messages -> Nat]
  /\ accepted \subseteq Messages
  /\ billed \subseteq Messages
  /\ cut \subseteq Messages
  /\ starts \in 0 .. MaxStarts
  /\ faults \in 0 .. MaxFaults

\* No customer gets a message twice: whatever the errors, stops, cancels and
\* restarts, the provider is called at most once for each message.
AtMostOneAttempt == \A m \in Messages : attempts[m] <= 1

\* Every message handed to the service is accounted for: still queued, being
\* sent, settled in its log row, or cut short by a named error.  In particular
\* no row is left PENDING, and no message forgotten, on a path without errors.
Accounted ==
  \A m \in Messages :
    stage[m] = "handed" =>
      \/ m \in Queued \cup InFlight(Senders) \cup cut
      \/ log[m] \in {"SENT", "FAILED"}

\* The credits of a billable message are deducted exactly when its row says
\* SENT, although SENT, the deduction and a later FAILED are three writes.
BilledExactlyWhenSent ==
  \A m \in Billable : m \in billed <=> log[m] = "SENT"

\* Once stop() has returned or was cancelled, the worker sends nothing more,
\* although it may have been in the middle of a message.
QuietWhenDown == phase = "down" => pc[Worker] = "idle"

-----------------------------------------------------------------------------
(* The inductive invariant behind the safety properties: where a message can *)
(* be at once, and what its row and the provider know of it there.           *)

Distinct(q) ==
  \A i, j \in 1 .. Len(q) : q[i] = q[j] /\ q[i] # Sentinel => i = j

\* A message is in one place: once in the queue, or held by one sender.
OnePlace ==
  /\ Distinct(queue)
  /\ \A s, t \in Senders : cur[s] = cur[t] /\ cur[s] # NoMessage => s = t
  /\ \A s \in Senders : cur[s] \notin Queued

\* A sender holds a message exactly while it is inside send_message.
SenderStates ==
  \A s \in Senders :
    /\ cur[s] # NoMessage <=> pc[s] \in {"log", "provider", "record"}
    /\ pc[s] = "waiting" => s = Worker
    /\ answer[s] => pc[s] = "record"

\* What the row says while a sender works on it.
HeldRows ==
  \A s \in Senders :
    /\ pc[s] = "log" => log[cur[s]] = "none"
    /\ pc[s] = "provider" => log[cur[s]] = "PENDING" /\ attempts[cur[s]] = 0
    /\ pc[s] = "record" => log[cur[s]] = "PENDING"
    /\ answer[s] => cur[s] \in accepted
    /\ cur[s] # NoMessage => stage[cur[s]] = "handed"

\* A message that waits, or was never handed over, has no row.
WaitingRows ==
  /\ \A m \in Queued : log[m] = "none" /\ stage[m] = "handed"
  /\ \A m \in Messages : stage[m] # "handed" => log[m] = "none"

\* How the row, the provider and the bill agree.
RowsAgree ==
  \A m \in Messages :
    /\ log[m] = "none" => attempts[m] = 0
    /\ m \in accepted => attempts[m] = 1
    /\ log[m] = "SENT" => m \in accepted

LifeAgrees ==
  /\ running <=> phase = "up"
  /\ QuietWhenDown

MessagingInv ==
  /\ TypeOK
  /\ OnePlace
  /\ SenderStates
  /\ HeldRows
  /\ WaitingRows
  /\ RowsAgree
  /\ LifeAgrees
  /\ AtMostOneAttempt
  /\ Accounted
  /\ BilledExactlyWhenSent

-----------------------------------------------------------------------------
\* The service implements the delivery promise.
Delivery == INSTANCE MessageDelivery
              WITH tried <- {m \in Messages : attempts[m] > 0}

DeliverySpec == Delivery!Spec

\* In the first start the worker ends only because the service is stopped or
\* the process dies: no failing send ends it, and no sentinel is left to read.
FirstWorkerRunsUntilStopped ==
  [][starts <= 1 /\ pc[Worker] # "idle" /\ pc'[Worker] = "idle"
       => phase = "stopping" \/ phase' = "down"]_messagingVars

\* While the first start lasts, every queued message leaves the queue: neither
\* a failing send nor a failing database ends the worker.
QueuedIsHandled ==
  \A m \in Messages :
    m \in Queued ~> m \notin Queued \/ phase # "up" \/ starts > 1

\* "Runs indefinitely until stopped" (process_queue): the worker task ends only
\* while stop() awaits it, or with the process.
WorkerRunsUntilStopped ==
  [][pc[Worker] # "idle" /\ pc'[Worker] = "idle" => phase' = "down" \/ phase = "stopping"]_messagingVars
=============================================================================
