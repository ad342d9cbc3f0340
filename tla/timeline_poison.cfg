SPECIFICATION Spec
CONSTANTS
    Users <- TwoUsers
    Nodes <- OneNode
    Msgs <- TwoMsgs
    MsgId <- OwnIds2
    Score <- OwnScores2
    Read <- Digits2
    To <- OneEach
    On <- TwoOnOne
    Resent = {1}
    LongMsgs = {}
    CacheCap = 1
    BatchMax = 2
    MaxCrashes = 0
    MaxDbFailures = 0
PROPERTIES AckedIsSaved
