SPECIFICATION Spec
CONSTANTS
    MaxSeq = 3
    MaxControl = 1
    MaxReports = 2
    kMaxRetries = 1
    LostCap = 3
    MissingCap = 3
    report_interval = 1000
    TickMs = 1000
    Rtts <- OneRtt
    Retransmit = TRUE
    Outages = TRUE
INVARIANTS
    TypeOK
    CursorAccounted
    RepeatedUntilConfirmed
    ResendBound
PROPERTIES
    PruneJustified
