\* The source leaves while two clients load.
CONSTANTS
    s = s
    a = a
    b = b
    Clients = {s, a, b}
    Source = s
    MaxLoad = 3
    MaxLoadPerPeer = 1
    Settings <- Abandoned
SPECIFICATION FairSpec
PROPERTIES
    GivesUp
CHECK_DEADLOCK FALSE
