SPECIFICATION LevelsSpec
CONSTANTS
    MaxKids = 3
    NoMap = nomap
    NoView = noview
    MaxEvents = 3
    Reducers = {r1, r2}
    Dataflow = TRUE
SYMMETRY Symmetry
INVARIANTS
    ViewsInOrderUnlessMixed
    FirstExceptionSurvives
    FibersComeBack
    AllComesHome
    ReductionsAreSerial
CHECK_DEADLOCK FALSE
