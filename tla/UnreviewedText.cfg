CONSTANTS
  Writers = {"w1", "w2"}
  Drafts = {"d"}
  Keys = {"k1", "k2"}
  MaxRevision = 2
  MaxSource = 1
  MaxPassage = 1
  MaxSaved = 1
SPECIFICATION ProposalsSpec
INVARIANT ApprovedAsReviewed
CHECK_DEADLOCK FALSE
