CONSTANTS
    u1 = u1
    u2 = u2
    i1 = i1
    i2 = i2
    i3 = i3
    i4 = i4
    NoInode = NoInode
    Updaters <- Two
    Pid <- OwnPids
    Inodes <- Inodes4
    MaxPublished = 2
    MaxFaults = 1
    Damages = {"deleted", "truncated"}
SPECIFICATION UpdateFairSpec
CHECK_DEADLOCK FALSE
INVARIANTS DestIsWhole SafeIsWhole
PROPERTY EventuallyCurrent
