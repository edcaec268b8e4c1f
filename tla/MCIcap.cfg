CONSTANTS
    c1 = c1
    c2 = c2
    c3 = c3
    Conns <- ThreeConns
    MaxConnections = 2
    KeepAlive = 2
    CloneMayFail = TRUE
SPECIFICATION FairSpec
CHECK_DEADLOCK FALSE
INVARIANTS WithinCapacity DoneMeansDrained NoStaleRegistration NoneLeftWaiting
PROPERTY StopEnds
