CONSTANTS
    p1 = p1
    p2 = p2
    p3 = p3
    p4 = p4
    icap = icap
    NoPid = NoPid
    Pids <- Pids4
    Workers = 1
    Sides <- Icap
    Platforms = {TRUE}
    MaxGen = 2
    MaxExits = 1
    MaxAdopted = 1
    MaxFaults = 1
    MayDie = TRUE
SPECIFICATION Spec
CHECK_DEADLOCK FALSE
SYMMETRY PidSymmetry
INVARIANTS TracksItsChildren GenerationsApart PoolKeepsItsSize OneLateConnection GoneLeavesNone
