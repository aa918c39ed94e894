\* Webhook turns only, tools that leave the commit to the turn.
SPECIFICATION FairSpec
CONSTANTS
  c1 = c1
  c2 = c2
  d1 = d1
  d2 = d2
  Chats = {c1, c2}
  Webs = {}
  Timer = Timer
  Nobody = Nobody
  Drafts = {d1, d2}
  Committing = {}
  Tracked = {d1, d2}
  Twins = {}
  JoinStep = JoinStep
  NoDraft = NoDraft
  MaxMessages = 5
  MaxFaults = 1
INVARIANTS TypeOK AskedIsPending
PROPERTIES UndoRevertsLatest LifecycleSpec LockIsReleased
CHECK_DEADLOCK FALSE
