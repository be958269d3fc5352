SPECIFICATION FairSpec
CONSTANTS
    ChunkCount = 4
    AckInterval = 2
    SaveInterval = 3
    Window = 2
    MaxAttempts = 1
    MaxFaults = 3
    Faults = {"damage", "tail"}
    ReuseIds = FALSE
    PoolInOrder = FALSE
INVARIANTS
    StoredWhenDone
    OneWriteBehind
PROPERTIES
    TransferCompletes
