\* One turn proposes an action on a channel that confirms automatically.
SPECIFICATION FairSpec
CONSTANTS
  c1 = c1
  d1 = d1
  Chats = {c1}
  Webs = {}
  Timer = Timer
  Nobody = Nobody
  Drafts = {d1}
  Committing = {}
  Tracked = {d1}
  Twins = {}
  JoinStep = JoinStep
  NoDraft = NoDraft
  MaxMessages = 2
  MaxFaults = 0
PROPERTY AutoConfirmHappens
CHECK_DEADLOCK FALSE
