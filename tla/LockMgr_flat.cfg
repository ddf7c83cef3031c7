SPECIFICATION Spec
CONSTANTS
    t1 = t1  t2 = t2  t3 = t3  par = par  c1 = c1  c2 = c2
    o1 = o1  none = none
    NoLock = 0
    NoLocker = none
    NoObj = NoObj
    Lockers <- Flat3
    Objs <- OneObj
    LockIds <- Ids4
    Modes = {"R", "W"}
    Conflicts <- RiwConflicts
    Parent <- Flat3Parent
    Ancestors <- Flat3Ancestors
    FamilyRoots = {}
    Downgrades = {}
    Upgrades = {}
    Timed <- Flat3
    MaxHeld = 2
    MaxRef = 2
SYMMETRY FlatSymmetry
INVARIANTS TypeOK Compatible WakeupExact NoStrandedWaiter
PROPERTIES NoOvertaking
