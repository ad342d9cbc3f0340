SPECIFICATION Spec
CONSTANTS
    Sends = {1}
    LastArrival = 2
    Window = 1
    MaxRetry = 1
    MaxSkips = 0
    MaxInputs = 5
INVARIANTS
    SendingIsPending
    BubbleIsRight
    ShownOnce
    KeyIsShown
PROPERTIES
    SendingIsSettled
CHECK_DEADLOCK FALSE
