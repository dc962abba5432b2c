SPECIFICATION FairSpec
CONSTANTS
    w1 = w1
    w2 = w2
    p1 = p1
    j1 = j1
    k1 = k1
    Workers = {w1, w2}
    WorkerIds = {w1, w2}
    WorkerId <- OwnId
    Partitions = {p1}
    Jobs = {j1}
    NoJob = NoJob
    Keys = {k1}
    PartitionOf <- OnePartition
    Events <- AllKinds
    NoWorker = NoWorker
    NoRec = NoRec
    MaxPoll = 2
    writeRetryAttempts = 2
    MaxEvents = 3
    MaxFaults = 1
    MaxRevokes = 0
INVARIANTS
    CommitAfterWrite
    ProgressBeforeCommit
    RecountAtMostOneBatch
    CatalogCurrent
    PublishedWasReported
    ReportedAtCommit
PROPERTIES
    EveryEventCommitted
CHECK_DEADLOCK FALSE
