SPECIFICATION FairSpec
CONSTANTS
    Peers = {"p", "q"}
    Names = {"d", "p"}
    Scenarios <- Stories
    Bucket <- Buckets
    HeartTimeout = 0
    SessionTimeout = 1
INVARIANTS ConnectedHasSession RepliesInOrder AnswersReachAsker GreetedOnce
PROPERTIES HelloSpacing HelloAnswered
CHECK_DEADLOCK FALSE
