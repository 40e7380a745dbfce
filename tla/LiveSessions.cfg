SPECIFICATION Spec
CONSTANTS
  a = a
  b = b
  q1 = q1
  q2 = q2
  Conn = {a, b}
  Req = {q1, q2}
  MaxLives = 2
  MaxFailing = 1
CHECK_DEADLOCK FALSE
INVARIANTS
  TypeOK
  RuntimeIsExclusive
  RuntimeIsReturnedOnce
  
PROPERTIES
  AbandonedIsDisposed
  CloseReturnsEverything
