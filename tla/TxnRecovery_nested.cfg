SPECIFICATION Spec
CONSTANTS
    p1 = p1  p2 = p2
    Pages <- TwoPages
    MinId = 1
    MaxId = 6
    SyncTxns = {1}
    Nesting = TRUE
    EmptyPrepares = FALSE
    LoneRecords = FALSE
    MaxTxns = 3
    MaxWrites = 2
    MaxCkps = 1
    MaxCrashes = 2
    MaxEvictions = 1
SYMMETRY PageSymmetry
CONSTRAINT Bounds
INVARIANTS NoError LocksCover CkpCovers
PROPERTIES StoreSpec
