SPECIFICATION Spec
CONSTANTS
    Workers = {"w1", "w2"}
    Others = {"save"}
    Users = {"w1", "w2", "save"}
    MaxTasks = 2
    Locking = {1}
    Links = {"l1", "l2"}
    InitSize = 1
    MaxSize = 2
    MaxIdle = 1
    MaxTime = 1
    NoLink = "none"
INVARIANTS
    StartedInOrder
    WakeUpIsDue
    ScanNeedsIdle
PROPERTIES
    RequestsEnd
CHECK_DEADLOCK FALSE
