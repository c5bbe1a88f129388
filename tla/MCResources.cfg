\* A source and two clients, or one client and more chunks, and what may go wrong.
CONSTANTS
    s = s
    a = a
    b = b
    Clients = {s, a, b}
    Source = s
    MaxLoad = 3
    MaxLoadPerPeer = 1
    Settings <- AnyGame
SPECIFICATION FairSpec
INVARIANTS
    TypeOK
    RangesRight
    LoadedOnce
    Intact
PROPERTIES
    Loads
CHECK_DEADLOCK FALSE
