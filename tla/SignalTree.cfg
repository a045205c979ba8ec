SPECIFICATION MCSpec
CONSTANTS
    SysWorkers = 4
    max_steal_failures = 1
    MaxEntries = 2
    MaxLoops = 1
INVARIANTS
    TreeFollowsUsers
PROPERTIES
    AwakeWhileInUse
    SleepWhenUnused
    StopEndsAll
CHECK_DEADLOCK FALSE
