SPECIFICATION Spec
CONSTANTS
    Sizes = {0, 1, 524288, 524289, 5000001, 8388609}
    NonceBase = 32
    MaxDamage = 2
INVARIANTS
    TypeOK
    NonceOnce
    FileRebuilt
    ReceiverBarExact
PROPERTIES
    UndamagedAccepted
