SPECIFICATION Spec
CONSTANTS
    t1 = t1  t2 = t2  s1 = s1  s2 = s2
    p1 = p1  p2 = p2  b1 = b1  b2 = b2
    None = None
    Threads <- Two
    Syncers <- TwoSyncers
    Pages <- OnePage
    Bufs <- TwoBufs
    NoSyncClose = FALSE
    IOErrors = {"read", "write", "sync"}
    MaxLsn = 2
    MaxSyncs = 2
SYMMETRY Symmetry
INVARIANTS DirtyExact WriteAhead CheckpointDurable
