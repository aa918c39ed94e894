-------------------------- MODULE MessageDelivery --------------------------
(* What the messaging service promises for each message it is handed, with  *)
(* no queue, no worker and no sessions: a row is recorded as PENDING before *)
(* the provider is called, the provider is called at most once, and the row *)
(* is settled at most once, as SENT only for a message the provider took.   *)
(* A message may be dropped at any point: nothing is promised to arrive.    *)
CONSTANT Messages

VARIABLES
  log,        \* log[m]: the status of m's MessageLog row, "none" before it exists
  tried,      \* the messages for which the provider has been called
  accepted    \* those the provider accepted

vars == <<log, tried, accepted>>

Init ==
  /\ log = [m \in Messages |-> "none"]
  /\ tried = {}
  /\ accepted = {}

\* The PENDING row is committed.
Record(m) ==
  /\ log[m] = "none"
  /\ log' = [log EXCEPT ![m] = "PENDING"]
  /\ UNCHANGED <<tried, accepted>>

\* The one call to the provider, whose answer may be yes or no.
Attempt(m) ==
  /\ log[m] = "PENDING"
  /\ m \notin tried
  /\ tried' = tried \cup {m}
  /\ accepted' \in {accepted, accepted \cup {m}}
  /\ UNCHANGED log

\* The outcome is written once.
Settle(m, status) ==
  /\ log[m] = "PENDING"
  /\ status = "SENT" => m \in accepted
  /\ log' = [log EXCEPT ![m] = status]
  /\ UNCHANGED <<tried, accepted>>

Next ==
  \E m \in Messages :
    \/ Record(m)
    \/ Attempt(m)
    \/ \E status \in {"SENT", "FAILED"} : Settle(m, status)

Spec == Init /\ [][Next]_vars
=============================================================================
