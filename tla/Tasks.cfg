SPECIFICATION TasksSpec
CONSTANTS
    MaxChildren = 4
    Null = null
    x = x
    y = y
    MaxTasks = 4
    Objects = {x, y}
    Accesses <- Both
    Free = free
INVARIANTS
    ReleasedAsIssued
    ThiefFollowsLiveFrame
    IssuedBeforeNext
    CountsExact
    WalkedNodesLive
    NobodyWaitsInVain
PROPERTIES
    WaitEnds
    RespectsSerialOrder
    EveryTaskEnds
CHECK_DEADLOCK FALSE
