\* Decentral with a target: what a and the deactivated b send each other may be lost.
CONSTANTS
    h = h
    a = a
    b = b
    all = all
    i1 = i1
    i2 = i2
    Nodes = {h, a, b}
    Active = {h, a}
    Host = h
    All = all
    Mode = "Decentral"
    Inputs = {i1}
    Joins = {}
    PreSends = {1}
    Rate = 1
    Backlog = 2
    TargetTick = 1
    Requesting = {}
    Unreliable = {a, b}
    Impatient = FALSE
    MaxFrame = 1
SPECIFICATION Spec
INVARIANTS
    TypeOK
    HostCanAnswer
