SPECIFICATION TasksFairSpec
CONSTANTS
    n1 = n1
    n2 = n2
    t1 = t1
    NoTask = NoTask
    Nodes <- MCTwoNodes
    InitialMembers <- MCTwoNodes
    TaskIds = {t1}
    TTL = 0
    MaxAdds = 1
    MaxSnapshots = 0
    MaxFaults = 1
CHECK_DEADLOCK FALSE
PROPERTIES
    EveryTaskEnds
    EndedTaskIsForgotten
