SPECIFICATION Spec
CONSTANTS
  m1 = m1
  m2 = m2
  m3 = m3
  Msg = {m1, m2, m3}
  MaxRuns = 3
  MaxTurns = 2
  MaxCalls = 2
  QueueModes = {"one-at-a-time"}
  ToolExecution = "parallel"
  ListenersThrow = FALSE
  HooksThrow = TRUE
SYMMETRY MsgSymmetry
CHECK_DEADLOCK FALSE
INVARIANTS
  TypeOK
  MessageConservation
  SteeringOncePerTurn
  ResultsFollowTheirCalls
  RequestHasAllResults
  
