SPECIFICATION Spec
CONSTANTS
    Users <- OneUser
    Nodes <- TwoNodes
    Msgs <- ThreeMsgs
    MsgId <- OwnIds3
    Score <- TieScores
    Read <- TieCut
    To <- AllToOne
    On <- Spread3
    Resent = {1}
    LongMsgs = {}
    CacheCap = 1
    BatchMax = 2
    MaxCrashes = 1
    MaxDbFailures = 0
INVARIANTS
    CacheHoldsNewest
    HitCoversUnread
    SyncKeyCovers
    AckedIsHeld
