SPECIFICATION StoreSpec
CONSTANTS
  n1 = n1
  n2 = n2
  n3 = n3
  s1 = s1
  c1 = c1
  Nodes = {n1, n2, n3}
  Shards = {s1}
  Collections = {c1}
  CollectionOf <- MCCollectionOf
  InitialReplicas <- MCInitialReplicas
  ReplicationFactor = 2
  UserCommands = {"cancel", "delete", "deleteAll", "forceDelete", "deleteClass", "deleteTenants"}
  MaxErrors = 1
  MaxOps = 2
  SchemaVersions = {0}
SYMMETRY Symmetry
INVARIANTS
  TypeOK
  IndexesAgree
  OneOpPerTarget
  WritesReachAReplicaOnce
  UnfinishedReplicaServesNoRead
  ReplicaFloor
  PlacedIsUnCancellable
PROPERTIES
  CancelledIsFinal
  UnCancellableStaysUncancelled
CHECK_DEADLOCK FALSE
