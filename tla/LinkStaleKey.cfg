SPECIFICATION Spec
CONSTANTS
    Ends <- Pair
    Connectors <- Client
    Listening <- Pair
    Tokens <- SameToken
    LiteModes <- FullMode
    MaxSeq = 8
    DeadTicks = 2
    MaxLosses = 0
    Losable <- AnyType
    MaxOutages = 0
    Window = 1
    MaxExits = 1
    MaxEpoch = 2
    Prompt = TRUE
    client = client
    server = server
INVARIANTS
    KeysAgree
