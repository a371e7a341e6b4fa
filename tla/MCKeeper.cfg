SPECIFICATION FairSpec
CONSTANTS
    k1 = k1
    k2 = k2
    p = p
    q = q
    Keepers = {k1}
    Pools = {p, q}
    Scope <- MCScope
    Unprovable = {q}
    MaxAttempts = 1
    MaxSequence = 1
INVARIANTS
    OnlyProvenFinalsAreSent
    RunsCoverTheirScope
PROPERTIES
    SettlesWhatItCan
CHECK_DEADLOCK FALSE
