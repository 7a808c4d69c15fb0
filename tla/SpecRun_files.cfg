CONSTANTS
    f1 = f1
    f2 = f2
    f3 = f3
    Pods = {p1, p2}
    MaxAttempts = 2
    MaxStale = 1
    MaxRestarts = 1
    NotADict = NotADict
    Corrupt = Corrupt
    None = None
    Stores = {"acme"}
    Inputs <- TwoFiles
    Listing <- MCListing
    Versions <- MCVersions
SPECIFICATION Spec
CHECK_DEADLOCK FALSE
INVARIANTS
    TypeOK
    IInv
    Lineage
    DeliveredIsComplete
    ConnectionOnce
    CountsAgree
    NoOrphanPaths
PROPERTIES
    UploadsNeverChange
