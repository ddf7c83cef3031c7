SPECIFICATION Spec
CONSTANTS
    oa = oa  ob = ob  oc = oc  od = od
    N = 4
    NoObj = NoObj
    Objs <- ABCD
    Settings <- SomeSettings
CHECK_DEADLOCK FALSE
INVARIANTS DdObjsExact ExclusiveBroken
PROPERTIES VictimsDeadlocked DeadlockFound
