\* A pause with three clients in decentral mode.
CONSTANTS
    h = h
    a = a
    b = b
    all = all
    Clients = {h, a, b}
    Host = h
    All = all
    Settings <- PausedThree
SPECIFICATION Spec
INVARIANTS
    FrozenTogether
