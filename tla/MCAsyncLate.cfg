\* Asynchronous: which controls are packed without the other client.
CONSTANTS
    h = h
    a = a
    b = b
    all = all
    i1 = i1
    i2 = i2
    Nodes = {h, a}
    Active = {h, a}
    Host = h
    All = all
    Mode = "Async"
    Inputs = {i1}
    Joins = {}
    PreSends = {1}
    Rate = 1
    Backlog = 2
    TargetTick <- NoTarget
    Requesting = {}
    Unreliable = {}
    Impatient = FALSE
    MaxFrame = 2
SPECIFICATION Spec
PROPERTIES
    LateOnlyForCurrentTick
