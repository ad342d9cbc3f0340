SPECIFICATION Spec
CONSTANTS
    Users = {"u1"}
    Conns = {"c1", "c2"}
    Msgs = {1, 2}
    Owner <- OwnerOne
    To <- ToOne
    MsgId <- OwnId
    Resent = {}
    Remote = {2}
    LongMsgs = {2}
    MaxRetry = 1
    MaxSkips = 1
    MaxDbFailures = 1
    NoConn = NoConn
    NoMsg = NoMsg
    NoId = NoId
    Free = Free
INVARIANTS
    NoOrphan
    NothingDropped
PROPERTIES
    PendingIsSettled
CHECK_DEADLOCK FALSE
