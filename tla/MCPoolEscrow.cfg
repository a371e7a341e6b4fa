SPECIFICATION FairSpec
CONSTANTS
    a = a
    b = b
    c = c
    d = d
    Owners = {a, b, c, d}
    outsider = outsider
    Creator = outsider
    Endowment <- MCSmallEndowment
    Gifts = {1}
    MaxGift = 1
    MaxU64 = 6
    MaxTime = 3
    Grace = 1
    Sequences = {0, 1}
INVARIANTS
    IInv
    NobodyStranded
    PaidWhatIsOwed
    ClosedLeavesNobodyUnpaid
    RecordAgrees
PROPERTIES
    ResolutionIsFinal
    StakesFreezeAtCutoff
    QuotesNeverDrop
    EveryPoolCloses
    KeepsPromise
    FollowsLifecycle
CHECK_DEADLOCK FALSE
