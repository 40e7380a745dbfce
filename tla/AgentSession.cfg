SPECIFICATION Spec
CONSTANTS
  c1 = c1
  c2 = c2
  Caller = {c1, c2}
  MaxReplies = 2
  MaxQueued = 0
  MaxNotes = 1
  MaxMoves = 0
  MaxCompactions = 1
  MaxRetries = 1
  Patient = TRUE
SYMMETRY CallerSymmetry
CHECK_DEADLOCK FALSE
INVARIANTS
  TypeOK
  
  CompactionIsExclusive
  
  RetriesAreClosed
  ResultsStayWithCalls
  NotesAreConserved
