SPECIFICATION MCSpec
CONSTANTS
    Owner = w
    Thieves = {t1, t2}
    NoOwner = none
    Size = 3
    MaxSpawns = 4
    Replaying = TRUE
    NumaFrames = TRUE
INVARIANTS
    TakenExactlyOnce
    ExceptionSettles
    DequeMatchesFrame
    GuardedNotStolen
PROPERTIES
    ReturnsAreDecided
    ImplementsStealDeque
