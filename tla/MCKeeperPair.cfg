SPECIFICATION Spec
CONSTANTS
    k1 = k1
    k2 = k2
    p = p
    q = q
    Keepers = {k1, k2}
    Pools = {p}
    Scope <- MCScope
    Unprovable = {}
    MaxAttempts = 2
    MaxSequence = 2
SYMMETRY KeepersAreAlike
INVARIANTS
    ReportsAreTrue
    OneKeeperSettles
CHECK_DEADLOCK FALSE
