\* Three messages one way, a broadcast and messages both ways, and a connection
\* that only one side accepts on its own.
CONSTANTS
    a = a
    b = b
    Sides = {a, b}
    Settings <- MCSettings
SPECIFICATION FairSpec
INVARIANTS
    TypeOK
    InOrder
    Recovers
PROPERTIES
    Delivers
    Settles
    NoneAfterPostMortem
CHECK_DEADLOCK FALSE
