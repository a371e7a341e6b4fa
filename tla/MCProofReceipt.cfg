SPECIFICATION Spec
CONSTANTS
    a = a
    b = b
    c = c
    Owners = {a, b, c}
    Creator = a
    Endowment <- ReceiptEndowment
    Gifts = {}
    MaxGift = 0
    MaxU64 = 4
    MaxTime = 2
    Grace = 1
    Sequences = {1}
    StatKeys <- GoalKeys
INVARIANTS
    EveryClaimHasAReceipt

CHECK_DEADLOCK FALSE
