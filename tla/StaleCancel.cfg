SPECIFICATION Spec
CONSTANTS
  a = a
  b = b
  q1 = q1
  q2 = q2
  NoServer = NoServer
  Servers = {a}
  Requests = {q1, q2}
  MaxRuns = 1
  MaxOps = 1
  MaxRevision = 0
  Offered = {"start", "cancel"}
  Slow = {"cancel"}
  Overlap = FALSE
INVARIANT EveryDispatchCharged
CHECK_DEADLOCK FALSE
