SPECIFICATION Spec
CONSTANTS
    Users = {1}
    Conns = {1, 2, 3}
    Nodes = {1, 2}
    Owner <- OwnerOne
    NodeOf <- ByParity
    MaxCrashes = 1
    NoConn = NoConn
    NoNode = NoNode
INVARIANTS
    PlacesAgree
    FriendsTold
    RefusedIsHarmless
CHECK_DEADLOCK FALSE
