SPECIFICATION Spec
CONSTANTS
  a = a
  b = b
  q1 = q1
  q2 = q2
  NoServer = NoServer
  Servers = {a}
  Requests = {q1, q2}
  MaxRuns = 2
  MaxOps = 1
  MaxRevision = 4
  Offered <- ServesAll
  Slow = {"recover", "reconcile", "register"}
  Overlap = FALSE
SYMMETRY Slots
INVARIANTS NoZombie
PROPERTY OutcomeStands
CHECK_DEADLOCK FALSE
