SPECIFICATION Spec
CONSTANTS
    Packets = {1, 2}
    Streams = {1}
    K = 2
    M = 1
    MaxFrags = 2
    TTL = 2
    Flight = 1
    MaxRestarts = 1
    None = None
    Corrupt = Corrupt
INVARIANTS
    TypeOK
    RestartHeals
    NoStuckGroup
PROPERTY
    Implements
CHECK_DEADLOCK FALSE
