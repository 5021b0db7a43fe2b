SPECIFICATION ReplicatedSpec
CONSTANTS
    n1 = n1
    n2 = n2
    n3 = n3
    x = x
    y = y
    Deleted = Deleted
    Absent = Absent
    Nobody = Nobody
    Reader = Reader
    Replicas <- MCThree
    Beaters <- MCNone
    Values = {x, y}
    Levels = {2}
    Strategies <- MCUnresolved
    MaxWrites = 2
    MaxReads = 1
    MaxFaults = 1
SYMMETRY Symmetry
CHECK_DEADLOCK FALSE
INVARIANTS
    ReplicatedTypeOK
PROPERTIES
    ReadsAreMonotonic
    DeletionsAreNotResolvedUnasked
