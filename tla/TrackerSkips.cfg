SPECIFICATION Spec
CONSTANTS
    j1 = j1
    j2 = j2
    w1 = w1
    w2 = w2
    Jobs = {j1, j2}
    Workers = {w1, w2}
    MaxPoll = 2
    MaxCount = 1
    MaxReports = 2
    MaxFaults = 1
    MaxCrashes = 0
INVARIANT
    CommittedIsFolded
CHECK_DEADLOCK FALSE
