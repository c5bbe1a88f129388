\* Decentral: two clients run to a target tick with the smallest backlog, a request of Init on its way.
CONSTANTS
    h = h
    a = a
    b = b
    all = all
    i1 = i1
    i2 = i2
    Nodes = {h, a}
    Active = {h, a}
    Host = h
    All = all
    Mode = "Decentral"
    Inputs = {i1}
    Joins = {}
    PreSends = {1}
    Rate = 1
    Backlog = 2
    TargetTick = 3
    Requesting = {a}
    Unreliable = {}
    Impatient = FALSE
    MaxFrame = 4
SPECIFICATION FairSpec
INVARIANTS
    Agreement
    NoTickSkipped
    BacklogSuffices
PROPERTIES
    ImplementsLockstep
    AllReachTarget
