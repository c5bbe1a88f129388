\* Asynchronous: PreSend changes, the host may pack without the other client, and only the host is sure to run.
CONSTANTS
    h = h
    a = a
    b = b
    all = all
    i1 = i1
    i2 = i2
    Nodes = {h, a}
    Active = {h, a}
    Host = h
    All = all
    Mode = "Async"
    Inputs = {i1}
    Joins = {}
    PreSends = {1, 2}
    Rate = 1
    Backlog = 3
    TargetTick <- NoTarget
    Requesting = {}
    Unreliable = {}
    Impatient = FALSE
    MaxFrame = 3
SPECIFICATION HostFairSpec
PROPERTIES
    ImplementsLockstep
    HostNeverStalls
