SPECIFICATION FairSpec
CONSTANTS
  Thread = {t1, t2}
  NoThread = NoThread
  Kind <- FourItems
  Throttled = TRUE
  MaxRequests = 1
  MaxFaults = 1
  MaxElections = 0
  MaxCrashes = 0
PROPERTIES CaughtUp
CHECK_DEADLOCK FALSE
