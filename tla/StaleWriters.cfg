SPECIFICATION Spec
CONSTANTS
  a = a
  b = b
  q1 = q1
  q2 = q2
  NoServer = NoServer
  Servers = {a}
  Requests = {q1, q2}
  MaxRuns = 1
  MaxOps = 2
  MaxRevision = 0
  Offered = {"start", "cancel", "recover"}
  Slow <- Stalls
  Overlap = FALSE
SYMMETRY Slots
INVARIANT OneLateDispatch
CHECK_DEADLOCK FALSE
