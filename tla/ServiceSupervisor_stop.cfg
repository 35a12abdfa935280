\* A child that does not obey SIGTERM.
SPECIFICATION Spec
CONSTANTS
    p1 = p1
    p2 = p2
    Procs <- TwoProcs
    NoProc = NoProc
    Threshold = 2
    MaxLine = 2
INVARIANTS
    StoppedIsDead
