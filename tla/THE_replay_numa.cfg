SPECIFICATION Spec
CONSTANTS
    Owner = w
    Thieves = {t1, t2}
    NoOwner = none
    Size = 2
    MaxSpawns = 2
    Replaying = TRUE
    NumaFrames = TRUE
INVARIANTS
    HeadBelowException
