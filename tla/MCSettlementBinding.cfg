SPECIFICATION Spec
CONSTANTS
    Thresholds <- MCBoundaries
    StatValues = {0, 2}
    ProbeValues = {0, 1, 2, 30, 60}
    ThisFixture = "this"
    OtherFixture = "other"
    OtherScore <- MCOtherScore
INVARIANTS
    CompiledMeansDraft
    AcceptedByProgram
    ContradictionsAreExact
    AcceptedIsOpen
    OrderIsIrrelevant
    SettledAsTheConditionSays
    MissingMeansUndecided
    KeeperAgreesWithProgram
CHECK_DEADLOCK FALSE
