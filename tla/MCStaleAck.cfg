\* The host issues a command before the last one is over.
CONSTANTS
    h = h
    a = a
    b = b
    all = all
    Clients = {h, a, b}
    Host = h
    All = all
    Settings <- Haste
SPECIFICATION Spec
INVARIANTS
    NeverLate
