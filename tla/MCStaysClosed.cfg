CONSTANTS
    a = a
    b = b
    Sides = {a, b}
    Settings <- MCSettings
SPECIFICATION Spec
PROPERTIES
    StaysClosed
CHECK_DEADLOCK FALSE
