SPECIFICATION Spec
CONSTANTS
    Streams = {s1}
    NumIds = 1
    MaxRelays = 1
    MaxChunks = 1
    MaxReplies = 0
    MaxWrites = 2
INVARIANT
    CopiesDropped
CHECK_DEADLOCK FALSE
