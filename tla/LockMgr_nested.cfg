SPECIFICATION Spec
CONSTANTS
    t1 = t1  t2 = t2  t3 = t3  par = par  c1 = c1  c2 = c2
    o1 = o1  none = none
    NoLock = 0
    NoLocker = none
    NoObj = NoObj
    Lockers <- Nest
    Objs <- OneObj
    LockIds <- Ids3
    Modes = {"R", "W", "WW", "DR"}
    Conflicts <- RiwConflicts
    Parent <- NestParent
    Ancestors <- NestAncestors
    FamilyRoots = {}
    Downgrades = {}
    Upgrades = {}
    Timed = {}
    MaxHeld = 2
    MaxRef = 1
SYMMETRY NestSymmetry
INVARIANTS ListsExact CountsExact
