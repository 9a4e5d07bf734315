SPECIFICATION FairSpec
CONSTANTS
  a = a
  b = b
  q1 = q1
  q2 = q2
  NoServer = NoServer
  Servers = {a}
  Requests = {q1}
  MaxRuns = 2
  MaxOps = 1
  MaxRevision = 0
  Offered = {"start", "cancel", "continue"}
  Slow = {}
  Overlap = FALSE
PROPERTY TerminalTasksCannotResume
CHECK_DEADLOCK FALSE
