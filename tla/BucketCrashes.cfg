SPECIFICATION Spec
CONSTANTS
  k1 = k1
  k2 = k2
  Keys = {k1, k2}
  MaxWriters = 1
  MaxWrites = 4
  MaxMemtables = 4
  MaxCrashes = 1
  MaxFailures = 1
  MaxSegmentSize = 2
  SegmentsCleanup = TRUE
CONSTRAINT Explored
INVARIANTS
  TypeOK
  ReadsTheLast
  RecoveryIsPossible
PROPERTIES
  RecoveryKeepsLogged
CHECK_DEADLOCK FALSE
