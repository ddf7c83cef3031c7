SPECIFICATION Spec
CONSTANTS
    t1 = t1  t2 = t2  t3 = t3  par = par  c1 = c1  c2 = c2
    o1 = o1  none = none
    NoLock = 0
    NoLocker = none
    NoObj = NoObj
    Lockers <- NestT
    Objs <- OneObj
    LockIds <- Ids3
    Modes = {"R", "IW", "W"}
    Conflicts <- CdbConflicts
    Parent <- NestTParent
    Ancestors <- NestTAncestors
    FamilyRoots <- CdbRoots
    Downgrades <- CdbDowngrades
    Upgrades <- CdbUpgrades
    Timed <- CdbTimed
    MaxHeld = 2
    MaxRef = 1
INVARIANTS SleepersExact DdObjsExact
