\* The host pauses while a client joins.
CONSTANTS
    h = h
    a = a
    b = b
    all = all
    Clients = {h, a, b}
    Host = h
    All = all
    Settings <- PausedJoins
SPECIFICATION Spec
INVARIANTS
    FrozenTogether
