SPECIFICATION FairSpec
CONSTANTS
    SeqSpace = 4
    MinRate = 4
    InitRate = 5
    MaxRate = 7
    Good = 2
    Bad = 40
    Declared = {0, 3}
    Hints = {0, 5, 9}
    Received = {0, 6}
INVARIANTS
    TypeOK
    RateInBounds
    LossIsReal
PROPERTIES
    RampsUp
    BacksOff
