SPECIFICATION FairSpec
CONSTANTS
    ChunkCount = 5
    Forward = 1
    Back = 2
    SaveInterval = 3
    MaxFaults = 3
    Faults = {"damage", "io", "reset", "quit"}
INVARIANTS
    TypeOK
    ChunkInOnePlace
    SavedOneBehind
PROPERTIES
    DeliversFile
    CallsReturn
