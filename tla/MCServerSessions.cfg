SPECIFICATION FairSpec
CONSTANTS
    Clients = {c1}
    Probes = {p1}
    NoSid = NoSid
    MaxMoves = 2
    MaxThreads = 2
    Silence = 1
    SessionTimeout = 2
INVARIANTS
    TypeOK
    OneBackend
    DataKeepsReturnPath
PROPERTIES
    ReturnPathSettles
