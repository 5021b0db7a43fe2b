SPECIFICATION ReplicatedFairSpec
CONSTANTS
    n1 = n1
    n2 = n2
    n3 = n3
    x = x
    y = y
    Deleted = Deleted
    Absent = Absent
    Nobody = Nobody
    Reader = Reader
    Replicas <- MCTwo
    Beaters <- MCTwo
    Values = {x, y}
    Levels = {2}
    Strategies <- MCResolving
    MaxWrites = 2
    MaxReads = 0
    MaxFaults = 1
CHECK_DEADLOCK FALSE
INVARIANTS
    RefusedWriteLeavesNoTrace
PROPERTIES
    ReplicasConverge
