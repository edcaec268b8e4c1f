CONSTANTS
    h1 = h1
    t2 = t2
    t1 = t1
    Signallers <- MCSignallers
    Inline <- MCHandlers
    NKinds = 2
    StopKind = 1
    Reordered = TRUE
SPECIFICATION FairSpec
INVARIANTS NoLostWakeup PipeNeverFull
PROPERTY RaisedIsServed
