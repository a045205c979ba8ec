SPECIFICATION Spec
CONSTANTS
    Families = {"add"}
    Types = {"int"}
    CharSigned = TRUE
    Bits = 2
    MaxStrands = 2
    MaxOps = 3
INVARIANT ViewIsTheResult
CHECK_DEADLOCK FALSE
