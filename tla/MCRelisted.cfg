\* A client may drop the resource while others load it: StaysIntact does not hold.
CONSTANTS
    s = s
    a = a
    b = b
    Clients = {s, a, b}
    Source = s
    MaxLoad = 3
    MaxLoadPerPeer = 1
    Settings <- Relisted
SPECIFICATION Spec
INVARIANTS
    StaysIntact
CHECK_DEADLOCK FALSE
