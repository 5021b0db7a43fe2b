SPECIFICATION FairTransfers
CONSTANTS
  k1 = k1
  k2 = k2
  c1 = c1
  c2 = c2
  Requested <- TwoClasses
  Copiers <- OneCopier
  CopyOf <- CopiesOfFirst
  MaxBackups = 1
  MaxCopies = 1
  MaxCompactions = 1
  MaxFaults = 1
INVARIANT TransfersTypeOK
INVARIANT HaltedWhileTransferring
INVARIANT BackupIsComplete
PROPERTY MaintenanceResumes
CHECK_DEADLOCK FALSE
