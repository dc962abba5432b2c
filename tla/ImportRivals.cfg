SPECIFICATION Spec
CONSTANTS
    j1 = j1
    j2 = j2
    Jobs = {j1, j2}
    File <- Rivals
    FlushEvery = 2
    MaxBuffered = 2
    MaxFaults = 1
    MaxExpiries = 0
    MaxCrashes = 0
INVARIANT
    NilFlushMeansDelivered
CHECK_DEADLOCK FALSE
