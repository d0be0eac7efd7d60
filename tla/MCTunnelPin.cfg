SPECIFICATION Spec
CONSTANTS
    Clients = {c1}
    Probes = {p1}
    NoSid = NoSid
    MaxMoves = 1
    MaxThreads = 2
    Silence = 1
    SessionTimeout = 1
INVARIANTS
    PinnedToData
