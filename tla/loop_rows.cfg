CONSTANTS
    w1 = w1
    w2 = w2
    u1 = u1
    u2 = u2
    u3 = u3
    chat = chat
    None = None
    Procs <- TwoProcs
    Updates <- ThreeUpdates
    Chats <- OneChat
    ProcOf <- Spread
    ChatOf <- InOneChat
    Limit = 2
    MaxFailures = 1
    MaxHangs = 1
    MaxRefreshes = 1
SPECIFICATION FairSpec
INVARIANTS
    TypeOK
    CirclesNeedOverlap
PROPERTIES
    EndsUnlessWedged
    RestartOnlyWhenSilent
CHECK_DEADLOCK FALSE
