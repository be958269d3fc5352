SPECIFICATION FairSpec
CONSTANTS
    Names = {"ann", "bob"}
    Contacts = {"c"}
    Calls = {r1, r2}
    MaxKeys = 2
    MaxFaults = 2
INVARIANTS
    TypeOK
    QuietLoadsSucceed
PROPERTIES
    ResetHeals
