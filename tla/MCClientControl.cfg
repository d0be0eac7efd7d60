SPECIFICATION FairSpec
CONSTANTS
    Hosts = {h1, h2}
    First = h1
    MaxConns = 4
    Tries = 1
    MaxFaults = 1
    TokenWindow = 2
INVARIANTS
    TypeOK
    ChosenIsOpen
    RaceLeavesOne
PROPERTIES
    ResumeWindow
    StartEnds
    Reconnects
CHECK_DEADLOCK FALSE
