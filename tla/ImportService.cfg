SPECIFICATION FairSpec
CONSTANTS
    j1 = j1
    j2 = j2
    Jobs = {j1, j2}
    File <- Rivals
    FlushEvery = 2
    MaxBuffered = 1
    MaxFaults = 1
    MaxExpiries = 1
    MaxCrashes = 1
INVARIANTS
    TypeOK
    CompletedIsFinal
    LossFailsAnImport
    
    EndIsRecordedIfPossible
PROPERTIES
    TerminalIsFinal
    
CHECK_DEADLOCK FALSE
