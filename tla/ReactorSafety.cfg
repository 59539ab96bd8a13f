SPECIFICATION FairSpec
CONSTANTS
    Budgets <- EachAlone
    InboxCap = 1
    QueueCap <- OneEach
    Interval <- OneTimer
    Skippable <- Skip
    kSkipThreshold = 0
INVARIANTS ProcessedInOrder Accounted FunctionKept
PROPERTIES QuietAfterStop AcceptedProcessed StopReturns TimersRun
CHECK_DEADLOCK FALSE
