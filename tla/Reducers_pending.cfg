SPECIFICATION Spec
CONSTANTS
    MaxKids = 2
    MaxEvents = 2
    NoMap = nomap
    Reducers = {r1}
    Dataflow = TRUE
INVARIANTS
    ViewsInSerialOrder
CHECK_DEADLOCK FALSE
