SPECIFICATION Spec
CONSTANTS
  k1 = k1
  k2 = k2
  NoKey = NoKey
  Keys = {k1, k2}
  MaxOps = 3
  MaxRuns = 2
  MaxSpend = 3
  Allowances = {2}
  TokenLimit = 3
  Grants = {2}
  Ceilings = {5}
  AttemptGrants = {1}
  OverrunFloor = 1
  OverrunCap = 2
  BestEffort = TRUE
SYMMETRY KeyNames
INVARIANTS WithinLimit BurnedWithinAuthority NothingFree
PROPERTIES NoBlindRepeat RetriesBounded
CHECK_DEADLOCK FALSE
