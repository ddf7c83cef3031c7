SPECIFICATION FairSpec
CONSTANTS
    th1 = th1  th2 = th2  th3 = th3  nobody = nobody
    Threads <- ThreeThreads
    None = nobody
    Kinds = {"commit", "write"}
    RecLen = 2
    BufSize = 5
    FileSize = 8
    SplitStores = FALSE
    Files = {1, 2}
    MaxFailures = 1
    MaxCrashes = 0
INVARIANTS WaitersCovered SyncedExact FilesComplete InFlushExact
PROPERTIES SyncForward CommittersAnswered
CHECK_DEADLOCK FALSE
