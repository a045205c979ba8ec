SPECIFICATION Spec
CONSTANTS
    Workers = {1, 2}
    Users = {11}
    NumNodes = 2
    Counts = {3}
    MaxLoops = 1
INVARIANTS
    EveryIterationOnce
CHECK_DEADLOCK FALSE
