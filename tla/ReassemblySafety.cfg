SPECIFICATION FairSpec
CONSTANTS
    Payloads <- Processes
    FragPayload = 5
    MaxMessageBytes = 100
    MaxMsg = 1
    MaxRestarts = 1
    RestartPause = 4
    Lifetime = 1
    DeadTicks = 2
    Modes <- BothModes
    Encode <- encode
    Decode <- decode
INVARIANTS
    DeliveredIntact
    DeliveredOnce
    EnoughDelivered
PROPERTIES
    IncomingReclaimed
