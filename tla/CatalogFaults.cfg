SPECIFICATION Spec
CONSTANTS
    w1 = w1
    w2 = w2
    p1 = p1
    j1 = j1
    k1 = k1
    Workers = {w1, w2}
    WorkerIds = {w1, w2}
    WorkerId <- OwnId
    Partitions = {p1}
    Jobs = {j1}
    NoJob = NoJob
    Keys = {k1}
    PartitionOf <- OnePartition
    Events <- AnyKind
    NoWorker = NoWorker
    NoRec = NoRec
    MaxPoll = 2
    writeRetryAttempts = 2
    MaxEvents = 2
    MaxFaults = 1
    MaxRevokes = 1
SYMMETRY Symmetry
INVARIANTS
    TypeOK
    CommitAfterWrite
    ProgressBeforeCommit
CHECK_DEADLOCK FALSE
