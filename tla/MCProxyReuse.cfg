SPECIFICATION Spec
CONSTANTS
    Streams = {s1, s2}
    NumIds = 1
    MaxRelays = 2
    MaxChunks = 1
    MaxReplies = 1
    MaxWrites = 1
INVARIANT
    NoCrossTalk
CHECK_DEADLOCK FALSE
