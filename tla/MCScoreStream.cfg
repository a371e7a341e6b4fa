SPECIFICATION FairSpec
CONSTANTS
    f = f
    g = g
    Fixtures = {f}
    Watched = {f}
    Start <- MCResume
    MaxPending = 1
    Unlimited = FALSE
    MaxReconnects = 1
    Redelivery = 1
    MaxLog = 3
    MaxSequence = 3
INVARIANTS
    BuffersAreBounded
    InOrderAndOnce
    NothingSkippedSilently
PROPERTIES
    DeliversWhatIsDue
CHECK_DEADLOCK FALSE
