\* Two batches, one running at a time, two crashes.
SPECIFICATION FairSpec
CONSTANTS
    long = long
    short = short
    Batches <- TwoBatches
    Lines <- LinesOf
    Invalid = {}
    MaxConcurrent = 1
    MaxTries = 2
    MaxCrashes = 2
INVARIANTS
    TypeOK
    NoReplay
    FilesComplete
    CancelStops
PROPERTIES
    TerminalFinal
    BatchEnds
