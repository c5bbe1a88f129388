\* A client is deactivated and activated again.
CONSTANTS
    h = h
    a = a
    b = b
    all = all
    Clients = {h, a, b}
    Host = h
    All = all
    Settings <- Reactivation
SPECIFICATION Spec
INVARIANTS
    SameLog
