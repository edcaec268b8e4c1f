CONSTANTS
    Signals = {"alarm", "xcpu", "abort", "term", "kill"}
    Commands = {"scan", "shutdown"}
    TimeLimits = {TRUE, FALSE}
    MaxJobs = 2
    MaxReplies = 2
    MaxCmds = 3
    MaxConns = 2
SPECIFICATION FairSpec
CHECK_DEADLOCK FALSE
INVARIANTS FdIsOpen NoSilentDeath OneExtraLineAtMost
PROPERTY JobsEnd
