SPECIFICATION FairSpec
CONSTANTS
    Ends <- Pair
    Connectors <- Client
    Listening <- Pair
    Tokens <- SameToken
    LiteModes <- BothModes
    MaxSeq = 12
    DeadTicks = 2
    MaxLosses = 1
    Losable <- AfterHandshake
    MaxOutages = 0
    Window = 1
    MaxExits = 1
    MaxEpoch = 1
    Prompt = TRUE
    client = client
    server = server
INVARIANTS
    EventsReflectState
PROPERTIES
    ConnectsBoth
    DeathNoticed
