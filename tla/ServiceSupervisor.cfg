\* Two processes, one operation at a time, two failed polls to an error.
SPECIFICATION FairSpec
CONSTANTS
    p1 = p1
    p2 = p2
    Procs <- TwoProcs
    NoProc = NoProc
    Threshold = 2
    MaxLine = 2
INVARIANTS
    TypeOK
    RunningHasHandle
    PolledWhileUp
    StepAtHand
PROPERTIES
    LockIsReleased
