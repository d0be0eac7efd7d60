SPECIFICATION Spec
CONSTANTS
    Payloads = {p1, p2}
    Corrupt = Corrupt
    Empty = Empty
    K = 2
    M = 1
    PayloadLen = 1
    FragCount = 1
    ServerK = 2
    ServerM = 2
    SeqSpace = 2
    MaxSessions = 2
    MaxThreads = 2
    MaxTime = 6
    Lifetime = 1
    GroupTTL = 1
    SweepPeriod = 1
    SessionTimeout = 3
    QuietTime = 3
SYMMETRY Symmetry
INVARIANT
    NoCorruptDelivery
CHECK_DEADLOCK FALSE
