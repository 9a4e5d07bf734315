SPECIFICATION Spec
CONSTANTS
  a = a
  b = b
  q1 = q1
  q2 = q2
  NoServer = NoServer
  Servers = {a}
  Requests = {q1, q2}
  MaxRuns = 2
  MaxOps = 1
  MaxRevision = 0
  Offered = {"start", "continue", "cancel", "recover"}
  Slow <- Races
  Overlap = FALSE
SYMMETRY Slots
INVARIANT SingleExecutor
CHECK_DEADLOCK FALSE
