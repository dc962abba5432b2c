SPECIFICATION FairSpec
CONSTANTS
    u1 = u1
    u2 = u2
    b1 = b1
    b2 = b2
    k1 = k1
    k2 = k2
    f1 = f1
    f2 = f2
    Users = {u1, u2}
    NoUser = NoUser
    Batches = {b1, b2}
    Owner <- OneEach
    Known = {u1}
    Logins = {k1, k2}
    Fetches = {f1, f2}
    MaxFaults = 1
INVARIANTS
    RowsOfUser
PROPERTIES
    ListSettles
