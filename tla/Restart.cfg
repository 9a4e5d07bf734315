SPECIFICATION FairSpec
CONSTANTS
  a = a
  b = b
  q1 = q1
  q2 = q2
  NoServer = NoServer
  Servers = {a, b}
  Requests = {q1}
  MaxRuns = 2
  MaxOps = 1
  MaxRevision = 0
  Offered = {"start", "continue", "cancel", "recover"}
  Slow = {}
  Overlap = FALSE
PROPERTIES EveryRunEnds KeepsPromise
CHECK_DEADLOCK FALSE
