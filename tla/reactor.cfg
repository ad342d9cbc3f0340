SPECIFICATION Spec
CONSTANTS
    Conns = {"a", "b"}
    Senders = {"a"}
    Leavers = {"a"}
    Fds = {4, 5}
    MaxTasks = 1
    Listener = 3
    None = "none"
INVARIANTS
    NoStranger
    ClosedIsTold
    BacklogIsSeen
PROPERTIES
    ShutWasIdle
    SilentIsDropped
    EndedIsClosed
CHECK_DEADLOCK FALSE
