SPECIFICATION Spec
CONSTANTS
 Workers = {0, 2}
 First = 0
 Count = 3
 Grain = 1
 Kinds = {"numa_gcc"}
INVARIANTS IterationsRunOnce
CHECK_DEADLOCK FALSE
