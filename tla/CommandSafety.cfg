SPECIFICATION FairSpec
CONSTANTS
    MaxCmd = 4
    MaxResets = 1
    kMaxWaitRtt = 3
    TickMs = 30
    Rtts <- TwoRtts
    MaxAge = 3
    Lite = FALSE
INVARIANTS
    TypeOK
    HeldAhead
PROPERTIES
    ImplementsOrderedDelivery
    HeldDelivered
