SPECIFICATION FairSpec
CONSTANTS
    ChunkCount = 4
    AckInterval = 2
    SaveInterval = 3
    Window = 2
    MaxAttempts = 2
    MaxFaults = 3
    Faults = {"damage", "frame", "loss", "crash", "io"}
    ReuseIds = TRUE
    PoolInOrder = TRUE
INVARIANTS
    TypeOK
    ChunkInOnePlace
    DeliveredWhenSent
    StoredWhenDone
    OneWriteBehind
PROPERTIES
    DeliversFile
    BothSidesReturn
CHECK_DEADLOCK FALSE
