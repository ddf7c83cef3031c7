SPECIFICATION Spec
CONSTANTS
    th1 = th1  th2 = th2  th3 = th3  nobody = nobody
    Threads <- TwoThreads
    None = nobody
    Kinds = {"commit", "write", "append", "api"}
    RecLen = 2
    BufSize = 3
    FileSize = 8
    SplitStores = TRUE
    Files = {1}
    MaxFailures = 0
    MaxCrashes = 2
INVARIANTS TypeOK Durable WrittenSurvives
SYMMETRY ThreadSymmetry
CHECK_DEADLOCK FALSE
