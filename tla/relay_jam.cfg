SPECIFICATION FairSpec
CONSTANTS
    ChunkCount = 5
    Forward = 1
    Back = 2
    SaveInterval = 3
    MaxFaults = 2
    Faults = {"damage"}
PROPERTIES
    NacksAreSent
