SPECIFICATION Spec
CONSTANTS
  p = p
  q = q
  Repo = {p, q}
  MaxOwners = 3
  TTL = 1
  MaxTime = 2
  MaxLog = 2
  MaxWaiting = 1
SYMMETRY RepoSymmetry
CHECK_DEADLOCK FALSE
INVARIANTS
  TypeOK
  WritesNeverInterleave
  LogIsDense
  ReleaseIsLast
  LeaseNeedsSession
PROPERTIES
  OnlyLastClaimantWrites
  LiveLeaseIsStable
