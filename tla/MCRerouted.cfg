CONSTANTS
    a = a
    b = b
    Sides = {a, b}
    Settings <- MCSettings
SPECIFICATION Spec
INVARIANTS
    Reroutes
CHECK_DEADLOCK FALSE
