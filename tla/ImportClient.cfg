SPECIFICATION FairSpec
CONSTANTS
    j1 = j1
    j2 = j2
    q1 = q1
    q2 = q2
    Jobs = {j1, j2}
    NoJob = NoJob
    Earlier = {j1}
    Pages = {1, 2}
    Calls = {q1, q2}
    MaxFaults = 1
INVARIANTS
    OneSource
    SettlesOnItsEnd
PROPERTIES
    FollowedEnds
    
