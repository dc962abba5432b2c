SPECIFICATION FairSpec
CONSTANTS
    j1 = j1
    j2 = j2
    Jobs = {j1, j2}
    File <- TwoFiles
    FlushEvery = 2
    MaxBuffered = 2
    MaxFaults = 0
    MaxExpiries = 0
    MaxCrashes = 1
PROPERTY
    EveryImportEnds
CHECK_DEADLOCK FALSE
