--------------------------- MODULE DraftLifecycle ---------------------------
(* What the assistant promises of the actions it proposes to a user: at most *)
(* one is pending; the next message executes it, drops it, or finds that it  *)
(* cannot be executed; a message that leaves nothing pending may propose     *)
(* another; and what was executed or dropped does not come back.             *)
EXTENDS Naturals

CONSTANTS
  Drafts,
  NoDraft    \* not a draft

VARIABLES
  pending,   \* the draft that awaits the user's answer, or NoDraft
  runs,      \* runs[d]: how often d was executed
  dropped    \* the drafts the user cancelled or replaced

vars == <<pending, runs, dropped>>

Init ==
  /\ pending = NoDraft
  /\ runs = [d \in Drafts |-> 0]
  /\ dropped = {}

\* After a message: nothing is pending, or a draft that was not used yet.
Unused == {d \in Drafts : runs[d] = 0 /\ d \notin dropped}
NextPending == pending' \in {NoDraft} \cup (Unused \ {pending})

Execute ==
  /\ pending \in Drafts
  /\ runs' = [runs EXCEPT ![pending] = @ + 1]
  /\ NextPending
  /\ UNCHANGED dropped

Drop ==
  /\ pending \in Drafts
  /\ dropped' = dropped \cup {pending}
  /\ NextPending
  /\ UNCHANGED runs

\* The tool fails: the draft is gone without an effect.
GiveUp ==
  /\ pending \in Drafts
  /\ NextPending
  /\ UNCHANGED <<runs, dropped>>

Ask ==
  /\ pending = NoDraft
  /\ pending' \in Unused
  /\ UNCHANGED <<runs, dropped>>

Next == Execute \/ Drop \/ GiveUp \/ Ask

Spec == Init /\ [][Next]_vars
=============================================================================
