\* A client disappears and is removed; or clients are deactivated in central mode.
CONSTANTS
    h = h
    a = a
    b = b
    all = all
    Clients = {h, a, b}
    Host = h
    All = all
    Settings <- Removals
SPECIFICATION Spec
INVARIANTS
    SameLog
    NeverLate
    FrozenTogether
