SPECIFICATION Spec
CONSTANTS
  c1 = c1
  c2 = c2
  Caller = {c1}
  MaxReplies = 3
  MaxQueued = 0
  MaxNotes = 0
  MaxMoves = 0
  MaxCompactions = 1
  MaxRetries = 1
  Patient = TRUE
CHECK_DEADLOCK FALSE
INVARIANTS
  ContinueIsAccepted
