SPECIFICATION FairSpec
CONSTANTS
    Peers = {"p", "q"}
    Names = {"d", "p"}
    Scenarios <- Race
    Bucket <- Buckets
    HeartTimeout = 0
    SessionTimeout = 1
PROPERTIES CallbackReturns
CHECK_DEADLOCK FALSE
