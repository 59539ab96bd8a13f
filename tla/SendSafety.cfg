SPECIFICATION FairSpec
CONSTANTS
    MaxMsg = 3
    Priority <- TwoLevels
    QueueLimit = 2
    LiteQueueLimit = 1
    EncodeCap = 2
    OutboundCap = 2
    LiteTasks = 1
    LitePackets = 1
    MaxEvents = 2
    StartLite <- BothModes
    StartLink <- FromAny
INVARIANTS
    TypeOK
    NothingVanishes
    SentInOrder
    SentOnce
PROPERTIES
    HigherFirst
    Departs
    SwitchReturns
