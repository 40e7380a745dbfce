SPECIFICATION Spec
CONSTANTS
  CallId = {"x", "nx", "y"}
  Normalize <- MCNormalize
  Message <- MCMessage
  Targets <- MCTargets
  MaxMessages = 5
CHECK_DEADLOCK FALSE
INVARIANTS
  RequestIsPaired
  TranscriptIsKept
  ResultsAreBridged
