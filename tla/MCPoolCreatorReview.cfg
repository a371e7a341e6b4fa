SPECIFICATION Spec
CONSTANTS
    winner = winner
    corners = corners
    contradiction = contradiction
    none = none
    Conditions = {winner, corners, contradiction}
    Compilable = {winner, corners}
    None = none
    Addresses = {a1, a2}
    MaxEdits = 2
    MaxEstimates = 2
    MaxSends = 2
INVARIANTS
    SignsWhatIsReviewed
CHECK_DEADLOCK FALSE
