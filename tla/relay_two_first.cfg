SPECIFICATION Spec
CONSTANTS
    Clients = {c1, c2}
    Tokens = {t1}
    NoClient = NoClient
INVARIANTS
    OneFirstPeer
