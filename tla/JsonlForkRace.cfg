SPECIFICATION Spec
CONSTANTS
  e1 = e1
  e2 = e2
  r1 = r1
  r2 = r2
  EntryId = {e1, e2}
  RecordId = {r1}
  Lane = {"main", "side"}
  Main = "main"
  NoId = "null"
  NoLane = "undefined"
  Text = {"text"}
  NoText = "undefined"
  MaxLog = 3
  SharedFile = TRUE
  TornFailures = FALSE
SYMMETRY IdSymmetry
CHECK_DEADLOCK FALSE
INVARIANTS
  AckedAreDurable
