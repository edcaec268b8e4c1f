CONSTANTS
    f1 = f1
    f2 = f2
    Files <- TwoFiles
    MaxVersion = 2
    MaxAsks = 2
    MaxFails = 1
    Silent = TRUE
    Vanishes = TRUE
    AllowNoDb = TRUE
SPECIFICATION FairSpec
CHECK_DEADLOCK FALSE
INVARIANTS StaleIsNoticed RequestIsHonoured
 
