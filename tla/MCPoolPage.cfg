SPECIFICATION PageSpec
CONSTANTS
    a = a
    b = b
    c = c
    none = none
    Owners = {a, b, c}
    Creator = c
    Endowment <- PageEndowment
    Gifts = {}
    MaxGift = 0
    Openings <- PageOpenings
    MaxU64 = 4
    MaxTime = 1
    Grace = 0
    Sequences = {1}
    Accounts = {a, b, none}
    Others = {b}
    NoAccount = none
    MaxTransactions = 1
INVARIANTS
    OffersWhatTheProgramAccepts
    ShowsWhatItConfirmed
PROPERTIES
    PaysWhatItShowed
