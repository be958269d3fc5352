SPECIFICATION Spec
CONSTANTS
    ChunkCount = 3
    AckInterval = 2
    SaveInterval = 2
    Window = 2
    MaxAttempts = 1
    MaxFaults = 0
    Faults = {"damage"}
    ReuseIds = FALSE
    PoolInOrder = FALSE
INVARIANTS
    WritesStayOrdered
