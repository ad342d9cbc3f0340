SPECIFICATION Spec
CONSTANTS
    Users <- OneUser
    Nodes <- TwoNodes
    Msgs <- TwoMsgs
    MsgId <- SharedId
    Score <- OneScore
    Read <- Digits1
    To <- TwoToOne
    On <- Spread2
    Resent = {1}
    LongMsgs = {2}
    CacheCap = 1
    BatchMax = 2
    MaxCrashes = 1
    MaxDbFailures = 1
INVARIANTS RefusalHasCause
PROPERTIES QueuedIsSettled
