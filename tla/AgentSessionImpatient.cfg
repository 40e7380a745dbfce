SPECIFICATION Spec
CONSTANTS
  c1 = c1
  c2 = c2
  Caller = {c1, c2}
  MaxReplies = 1
  MaxQueued = 1
  MaxNotes = 0
  MaxMoves = 0
  MaxCompactions = 0
  MaxRetries = 1
  Patient = FALSE
SYMMETRY CallerSymmetry
CHECK_DEADLOCK FALSE
INVARIANTS
  RunsAreExclusive
