SPECIFICATION FairSpec
CONSTANTS
    Budgets <- Stalls
    InboxCap = 1
    QueueCap <- OneEach
    Interval <- OneTimer
    Skippable <- Skip
    kSkipThreshold = 0
PROPERTIES TimersPeriodic
CHECK_DEADLOCK FALSE
