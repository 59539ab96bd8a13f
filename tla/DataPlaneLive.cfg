SPECIFICATION FairSpec
CONSTANTS
    MaxSeq = 3
    MaxControl = 0
    MaxReports = 1
    kMaxRetries = 1
    LostCap = 3
    MissingCap = 3
    report_interval = 1000
    TickMs = 1000
    Rtts <- OneRtt
    Retransmit = TRUE
    Outages = FALSE
PROPERTIES
    CursorAdvances
    PendingDrains
