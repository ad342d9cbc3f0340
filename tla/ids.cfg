SPECIFICATION IdSpec
CONSTANTS
    Clients = {"a"}
    WorkerSize = 2
    SeqSize = 3
    MaxClock = 4
    MaxSetBacks = 1
    MaxRestarts = 1
    Word32 = 16
    Word64 = 256
    BadText = "not UTF-8"
INVARIANTS
    IdTravels
    SidesAgree
PROPERTIES
    IdsIncrease
    NoIdTwice
CHECK_DEADLOCK FALSE
