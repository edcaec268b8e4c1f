CONSTANTS
    p1 = p1
    p2 = p2
    p3 = p3
    p4 = p4
    icap = icap
    NoPid = NoPid
    Pids <- Pids2
    Workers = 1
    Sides <- NoSides
    Platforms = {TRUE, FALSE}
    MaxGen = 2
    MaxExits = 1
    MaxAdopted = 0
    MaxFaults = 1
    MayDie = TRUE
SPECIFICATION FairSpec
CHECK_DEADLOCK FALSE
PROPERTIES RetiredLeave ShutdownEndsUnlessDeaf OrphansLeave ImplementsService
