\* Two clients: the host pauses, resumes and deactivates the other, or that one votes or joins.
CONSTANTS
    h = h
    a = a
    b = b
    all = all
    Clients = {h, a, b}
    Host = h
    All = all
    Settings <- StatusGames
SPECIFICATION FairSpec
INVARIANTS
    TypeOK
    SameLog
    NeverLate
    FrozenTogether
PROPERTIES
    Settles
    GoesOn
    Activates
    VotesEnd
    Resumes
