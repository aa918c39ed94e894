\* Two turns confirm the same draft, whose tool commits midway.
SPECIFICATION Spec
CONSTANTS
  c1 = c1
  c2 = c2
  d1 = d1
  Chats = {c1, c2}
  Webs = {}
  Timer = Timer
  Nobody = Nobody
  Drafts = {d1}
  Committing = {d1}
  Tracked = {d1}
  Twins = {}
  JoinStep = JoinStep
  NoDraft = NoDraft
  MaxMessages = 3
  MaxFaults = 0
INVARIANT RunOnce
CHECK_DEADLOCK FALSE
