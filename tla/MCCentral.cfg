\* Central: i2 is a player join, there is a target, and controls on their way may be asked for.
CONSTANTS
    h = h
    a = a
    b = b
    all = all
    i1 = i1
    i2 = i2
    Nodes = {h, a}
    Active = {h, a}
    Host = h
    All = all
    Mode = "Central"
    Inputs = {i1, i2}
    Joins = {i2}
    PreSends = {1}
    Rate = 1
    Backlog = 2
    TargetTick = 2
    Requesting = {}
    Unreliable = {}
    Impatient = TRUE
    MaxFrame = 1
SPECIFICATION FairSpec
INVARIANTS
    FaithfulControl
    ResourcesPresent
PROPERTIES
    NeverStalls
