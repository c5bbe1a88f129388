\* Two computers, three fragments one way, a list of two packets, every network.
CONSTANTS
    a = a
    b = b
    Sides = {a, b}
    Sizes = {1, 2}
    MaxAsk = 1
    MaxRetries = 2
    Backlog = 2
    Networks <- AnyNetwork
    MaxO <- Volume
    Capacity = 2
    MaxLives = 2
SPECIFICATION FairSpec
INVARIANTS
    TypeOK
    InOrder
    NeverStarves
PROPERTIES
    Establishes
    CatchesUp
CHECK_DEADLOCK FALSE
