CONSTANTS
  m1 = m1
  Worker = worker
  Sentinel = sentinel
  NoMessage = nomessage
  Messages = {m1}
  Callers = {}
  Reachable = {m1}
  Unroutable = {}
  Billable = {m1}
  MaxStarts = 2
  MaxFaults = 0
SPECIFICATION FairSpec
CHECK_DEADLOCK FALSE
PROPERTY WorkerRunsUntilStopped
