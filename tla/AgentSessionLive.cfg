SPECIFICATION Spec
CONSTANTS
  c1 = c1
  c2 = c2
  Caller = {c1}
  MaxReplies = 2
  MaxQueued = 1
  MaxNotes = 0
  MaxMoves = 1
  MaxCompactions = 1
  MaxRetries = 1
  Patient = TRUE
CHECK_DEADLOCK FALSE
PROPERTIES
  RunsSettle
  AbortReturns
