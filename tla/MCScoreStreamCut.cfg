SPECIFICATION FairSpec
CONSTANTS
    f = f
    g = g
    Fixtures = {f}
    Watched = {f}
    Start <- MCResume
    MaxPending = 2
    Unlimited = TRUE
    MaxReconnects = 0
    Redelivery = 1
    MaxLog = 3
    MaxSequence = 2
PROPERTIES
    NoFrameIsLost
CHECK_DEADLOCK FALSE
