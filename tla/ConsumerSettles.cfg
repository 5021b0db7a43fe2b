SPECIFICATION FairSpec
CONSTANTS
  n1 = n1
  n2 = n2
  n3 = n3
  s1 = s1
  s2 = s2
  c1 = c1
  Nodes = {n1, n2}
  Engines = {n2}
  Shards = {s1, s2}
  Collections = {c1}
  CollectionOf <- MCCollectionOf
  InitialReplicas <- MCInitialReplicas
  ReplicationFactor = 1
  UserCommands = {}
  MaxErrors = 1
  MaxOps = 2
  SchemaVersions = {0}
  MaxWorkers = 1
  QueueSize = 1
  MaxRestarts = 0
  CallsFail = FALSE
PROPERTIES
  EveryOpSettles
CHECK_DEADLOCK FALSE
