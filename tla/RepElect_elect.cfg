SPECIFICATION Spec
CONSTANTS
  Site = {1, 2, 3}
  NoSite = 0
  Priority <- MCPriority
  FirstMaster = 2
  FormerMaster = 3
  FirstData <- MCFirstData
  MayCrash = {1}
  MaxEgen = 4
  MaxVotes = 3
  MaxFaults = 1
INVARIANTS OneWinner ElectedIsBest LeaseExclusive
CHECK_DEADLOCK FALSE
