SPECIFICATION FairSpec
CONSTANTS
    Clients = {c1, c2, c3}
    Tokens = {t1}
    NoClient = NoClient
INVARIANTS
    TypeOK
    OneHolder
    PairsAreExclusive
    RegistrationHasWaiter
PROPERTIES
    EveryWaitEnds
    AbandonedPipeEnds
