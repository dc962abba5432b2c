SPECIFICATION FairSpec
CONSTANTS
    s1 = s1
    s2 = s2
    Streams = {s1}
    NoStream = NoStream
    Attempts = 3
    MaxChunks = 2
    MaxFaults = 3
INVARIANTS
    TypeOK
    ChunksStoredOnce
    RowMatchesTables
    FailedNeverCompletes
    
PROPERTIES
    JobSettles
