CONSTANTS
  Requests = {r1, r2}
  Texts = {t, u}
  NoText = NoText
  Engines = {"postgres"}
  MaxActions = 2
  MaxOutside = 0
SPECIFICATION DialogueSpec
INVARIANT EditsAsReviewed
CHECK_DEADLOCK FALSE
