SPECIFICATION Spec
CONSTANTS
    Users = {"u1"}
    Conns = {"c1"}
    Msgs = {1}
    Owner <- OwnerOne
    To <- ToOne
    MsgId <- OwnId
    Resent = {}
    Remote = {}
    LongMsgs = {}
    MaxRetry = 3
    MaxSkips = 1
    MaxDbFailures = 0
    NoConn = NoConn
    NoMsg = NoMsg
    NoId = NoId
    Free = Free
PROPERTIES GiveUpCloses
CHECK_DEADLOCK FALSE
