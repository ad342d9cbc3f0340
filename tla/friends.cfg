SPECIFICATION Spec
CONSTANTS
    Users = {a, b}
    Jobs = {j1, j2, j3}
    MaxInputs = 4
    MaxFailures = 1
SYMMETRY Symmetric
INVARIANTS
    OnePending
    FriendsAsAnswered
    AppliesShown
    FriendsShown
CHECK_DEADLOCK FALSE
