SPECIFICATION Spec
CONSTANTS
  Thread = {t1, t2}
  NoThread = NoThread
  Kind <- FiveItems
  Throttled = FALSE
  MaxRequests = 1
  MaxFaults = 1
  MaxElections = 1
  MaxCrashes = 1
SYMMETRY ThreadSymmetry
INVARIANTS WaitingExact SyncFirst
PROPERTIES LogSpec
CHECK_DEADLOCK FALSE
