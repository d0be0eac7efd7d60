SPECIFICATION FairSpec
CONSTANTS
    Streams = {s1, s2}
    NumIds = 1
    MaxRelays = 2
    MaxChunks = 1
    MaxReplies = 1
    MaxWrites = 1
INVARIANTS
    TypeOK
    OnlyLeftoversCross
    EstablishedIsConnected
PROPERTIES
    StreamsEnd
    RelaysDrain
CHECK_DEADLOCK FALSE
