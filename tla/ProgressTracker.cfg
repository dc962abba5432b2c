SPECIFICATION FairSpec
CONSTANTS
    j1 = j1
    j2 = j2
    w1 = w1
    w2 = w2
    Jobs = {j1}
    Workers = {w1, w2}
    MaxPoll = 2
    MaxCount = 2
    MaxReports = 3
    MaxFaults = 1
    MaxCrashes = 1
INVARIANTS
    TypeOK
    CommittedIsShown
PROPERTIES
    CounterIsHonest
    EveryReportFolded
CHECK_DEADLOCK FALSE
