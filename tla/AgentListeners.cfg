SPECIFICATION Spec
CONSTANTS
  m1 = m1
  m2 = m2
  m3 = m3
  Msg = {m1, m2}
  MaxRuns = 2
  MaxTurns = 2
  MaxCalls = 2
  QueueModes = {"all"}
  ToolExecution = "parallel"
  ListenersThrow = TRUE
  HooksThrow = TRUE
SYMMETRY MsgSymmetry
CHECK_DEADLOCK FALSE
INVARIANTS
  MessageConservation
  PendingCallsAreCurrent
