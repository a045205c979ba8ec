SPECIFICATION Spec3
CONSTANTS
    Users = {u1, u2}
    Systems = {s1, s2}
    Nobody = nobody
    MaxFrames = 4
    MaxCalls = 2
    MaxDeque = 1
    FibersRunOut = FALSE
SYMMETRY Symmetry
INVARIANTS
    JoinCountsExact
    OneOwner
    MasterIsFree
    SerialPartOnItsThread
    TeamIsThreadOfWork
PROPERTIES
    SyncsWait
