SPECIFICATION VerifierFairSpec
CONSTANTS
    d = d
    p = p
    Deployer = d
    Participant = p
    Owners = {d, p}
    Creator = d
    Endowment <- NoTokens
    Gifts = {}
    MaxGift = 0
    MaxU64 = 30
    MaxTime = 10
    Grace = 3
    Sequences = {1}
    StatKeys <- ConditionKeys
    YesStake = 4
    NoStake = 6
    SecondStake = 2
    FinalSequence = 1
    CutoffDelay = 2
    LastTick = 5
INVARIANTS
    FailsOnlyForCause
    EvidenceIsTrue
PROPERTIES
    VerifierEnds
CHECK_DEADLOCK FALSE
