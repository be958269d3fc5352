SPECIFICATION Spec
CONSTANTS
    Calls = {c1, c2}
    None = None
    FileSizes = {1, 2}
    MaxSessions = 3
INVARIANTS
    TypeOK
    OwnedOnce
    OneDhtClient
    PollWithinTransfer
PROPERTIES
    HandleKeepsSession
