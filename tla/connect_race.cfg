SPECIFICATION FairSpec
CONSTANTS
    Losses = {"lan", "net", "relay"}
    Quitters = {"sender", "receiver"}
INVARIANTS
    TypeOK
    SenderFollowsReceiver
    SameHourOverDht
PROPERTIES
    LanSurvives
    CallsReturn
    OrphansAreClosed
