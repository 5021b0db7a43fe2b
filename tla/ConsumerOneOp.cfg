SPECIFICATION ConsumerSpec
CONSTANTS
  n1 = n1
  n2 = n2
  n3 = n3
  s1 = s1
  s2 = s2
  c1 = c1
  Nodes = {n1, n2}
  Engines = {n2}
  Shards = {s1}
  Collections = {c1}
  CollectionOf <- MCCollectionOf
  InitialReplicas <- MCInitialReplicas
  ReplicationFactor = 1
  UserCommands = {"cancel", "forceDelete", "deleteClass"}
  MaxErrors = 1
  MaxOps = 1
  SchemaVersions = {0}
  MaxWorkers = 2
  QueueSize = 1
  MaxRestarts = 1
  CallsFail = TRUE
INVARIANTS
  ConsumerTypeOK
  OneWorkerPerOp
  SomeReplicaServesReads
PROPERTIES
  StatesFollowEdges
  MovesReplicas
CHECK_DEADLOCK FALSE
