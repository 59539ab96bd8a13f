SPECIFICATION Spec
CONSTANTS
    Ends <- Pair
    Connectors <- Client
    Listening <- Client
    Tokens <- AnyToken
    LiteModes <- FullMode
    MaxSeq = 12
    DeadTicks = 2
    MaxLosses = 0
    Losable <- AnyType
    MaxOutages = 1
    Window = 2
    MaxExits = 0
    MaxEpoch = 1
    Prompt = TRUE
    client = client
    server = server
INVARIANTS
    UpOnlyKeyed
PROPERTIES
    ForgottenOnlyAcked
