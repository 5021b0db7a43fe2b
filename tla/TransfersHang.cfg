SPECIFICATION TransfersSpec
CONSTANTS
  k1 = k1
  k2 = k2
  c1 = c1
  c2 = c2
  Requested <- OneClass
  Copiers <- OneCopier
  CopyOf <- CopiesOfFirst
  MaxBackups = 1
  MaxCopies = 1
  MaxCompactions = 1
  MaxFaults = 1
INVARIANT StoppedTimerIsNotWaitedFor
CHECK_DEADLOCK FALSE
