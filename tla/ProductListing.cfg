SPECIFICATION FairSpec
CONSTANTS
    b1 = b1
    b2 = b2
    n1 = n1
    Batches = {b1}
    All = All
    Names = {NoName, n1}
    NoName = NoName
    Columns = {name}
    FirstColumn = name
    Limits = {1, 2}
    FirstLimit = 2
    Total <- SomeProducts
    MaxPage = 3
    MaxRequests = 2
    MaxFaults = 1
INVARIANTS
    RestMeansCurrent
    RangeMatchesRows
PROPERTIES
    SearchApplied
