SPECIFICATION PagesFairSpec
CONSTANTS
    Fixture = 11
    Answers <- MCAnswers
    TimelineLimit = 2
    Conditions = {"canonical", "another"}
INVARIANTS
    CountsEachRecordOnce
    SettlementFollowsFinal
    ConnectedMeansCurrent
PROPERTIES
    ReplayEnds
