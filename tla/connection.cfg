SPECIFICATION Spec
CONSTANTS
    Threads = {"worker", "observer"}
    Background = {"observer"}
    Packets = {"a", "b", "c", "d"}
    Loads <- MixedLoads
    Size <- Sizes
    TooLong = {"d"}
    HeaderLen = 2
    SockCap = 3
    BufferSize = 3
    Extra = 2
    Reactor = "reactor"
    Nobody = "nobody"
    Junk = Junk
INVARIANTS
    FlushIsDue
PROPERTIES
    FallsOnlyInRace
    SendIsPipe
    ReadIsPipe
    PacketsArrive
CHECK_DEADLOCK FALSE
