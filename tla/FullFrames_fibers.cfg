SPECIFICATION Spec3
CONSTANTS
    Users = {u1, u2}
    Systems = {s1}
    Nobody = nobody
    MaxFrames = 6
    MaxCalls = 2
    MaxDeque = 1
    FibersRunOut = TRUE
SYMMETRY Symmetry
INVARIANTS
    UsersKeepTheirTeam
