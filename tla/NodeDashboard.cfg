SPECIFICATION FairSpec
CONSTANTS
    b1 = b1
    b2 = b2
    c1 = c1
    c2 = c2
    Batches = {b1, b2}
    Earlier = {b1}
    NoBatch = NoBatch
    Conns = {c1, c2}
    NoConn = NoConn
    MaxInbox = 1
    MaxFaults = 1
INVARIANTS
    OneConnection
    
    

    
