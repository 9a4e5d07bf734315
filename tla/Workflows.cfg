CONSTANTS
  w1 = w1
  w2 = w2
  k1 = k1
  k2 = k2
  Writers = {w1, w2}
  Drafts = {"d"}
  Keys = {k1, k2}
  MaxRevision = 2
  MaxSource = 1
  MaxPassage = 1
  MaxSaved = 1
  RoleCount = 2
  Slots = 1
  MaxCycles = 1
  MaxDrafts = 3
  MaxRuns = 2
  MaxEdits = 1
  MaxChildren = 2
  Ceiling = 28
  Fee = 1
  Counts = {1}
  MaxOut = 1
  MaxPolls = 1
  Arms = 1
  MaxTurns = 3
  MaxBurned = 2
  Allowance = 2
  MaxChecks = 1
  TokenLimit = 15
  Starts = {7, 15}
  Reviewers = 2
  Concurrent = 1
  Handoff = 3
  ClosureCall = 2
  Least = 1
  Headroom = 1
  RepairFloor = 1
  AuthorFloor = 1
  Fair = 2
  SummaryMin = 1
  Inputs = {1, 2}
  MaxOverrun = 1
  MaxWaves = 2
SPECIFICATION Spec
SYMMETRY Sym
INVARIANTS TypeOK RevisionsChain VersionsOfOneSource
INVARIANTS ChecksSound AnsweredOnce PromisesFunded AccountsForAll
INVARIANTS BillCovered StagesFunded UsageReported CorrectedOnce
PROPERTY Silenced
CHECK_DEADLOCK FALSE
