\* A joining client gets two chase targets for the same tick; it answers both, and the second answer counts for the next status.
CONSTANTS
    h = h
    a = a
    b = b
    all = all
    Clients = {h, a, b}
    Host = h
    All = all
    Settings <- HastyJoins
SPECIFICATION Spec
INVARIANTS
    SameLog
