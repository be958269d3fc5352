SPECIFICATION FairSpec
CONSTANTS
    ChunkCount = 0
    AckInterval = 2
    SaveInterval = 2
    Window = 2
    MaxAttempts = 1
    MaxFaults = 0
    Faults = {"damage"}
    ReuseIds = FALSE
    PoolInOrder = TRUE
PROPERTIES
    AcceptUniCompletes
CHECK_DEADLOCK FALSE
