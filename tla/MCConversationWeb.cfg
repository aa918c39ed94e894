\* Webhook turns and the web chat, a tool that commits midway and one that does not.
SPECIFICATION Spec
CONSTANTS
  c1 = c1
  c2 = c2
  w1 = w1
  d1 = d1
  d2 = d2
  Chats = {c1, c2}
  Webs = {w1}
  Timer = Timer
  Nobody = Nobody
  Drafts = {d1, d2}
  Committing = {d1}
  Tracked = {d1, d2}
  Twins = {d1, d2}
  JoinStep = JoinStep
  NoDraft = NoDraft
  MaxMessages = 4
  MaxFaults = 1
INVARIANT ConfirmableHasDraft
PROPERTIES ChatRunsPending CancelledStaysCancelled
CHECK_DEADLOCK FALSE
