\* Users vote before the game is paused for them.
CONSTANTS
    h = h
    a = a
    b = b
    all = all
    Clients = {h, a, b}
    Host = h
    All = all
    Settings <- HastyVoting
SPECIFICATION Spec
INVARIANTS
    NeverLate
