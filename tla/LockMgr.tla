------------------------------ MODULE LockMgr ------------------------------
(***************************************************************************)
(* The lock manager of lock/lock.c: lock structures, the holders and       *)
(* waiters lists of each object, the lockers' lists of locks, promotion    *)
(* of waiters, and the mutex every locker sleeps on.                       *)
(*                                                                         *)
(* One action is one critical section.  The region is taken to have        *)
(* several partitions, so a section spans one object (OBJECT_LOCK) and     *)
(* the operations of __lock_vec that walk a locker's list release it       *)
(* between two locks; with a single partition LOCK_SYSTEM_LOCK makes the   *)
(* sections larger and only removes interleavings.                         *)
(*                                                                         *)
(* The lockers follow the transaction layer: a locker requests locks, then *)
(* commits or aborts with the __lock_vec operations __txn_commit and       *)
(* __txn_abort use, in their order.                                        *)
(***************************************************************************)
EXTENDS ShQueue, LockModes

CONSTANTS
    Lockers,     \* DB_LOCKER structures
    Objs,        \* lockable objects (pages, handles)
    LockIds,     \* __db_lock structures, numbered
    NoLock,      \* LOCK_INVALID
    NoLocker,    \* INVALID_ROFF as a locker
    NoObj,       \* the object of a structure on the free list
    Modes,       \* the modes lockers request
    Conflicts,   \* Conflicts[h] = the wanted modes that conflict with h
    Parent,      \* Parent[l] = parent_locker, NoLocker for a top-level one
    Ancestors,   \* Ancestors[l] = the lockers on l's parent chain
    FamilyRoots, \* masters with DB_LOCKER_FAMILY_LOCKER set
    Downgrades,  \* the <<from, to>> pairs lockers downgrade
    Upgrades,    \* the <<from, to>> pairs lockers upgrade
    Timed,       \* the lockers whose waits have an expiration time
    MaxHeld,     \* bound: locks a locker asks for
    MaxRef       \* bound: references to one lock

\* Lock structures are numbered so that an allocation can name the first
\* free one; no locker and no lock is also the absence of one.
ASSUME IdAssumption ==
    /\ LockIds \subseteq Nat
    /\ IsFiniteSet(LockIds)
    /\ NoLock \notin LockIds
    /\ NoLocker \notin Lockers
    /\ NoObj \notin Objs

\* Every conflict array is symmetric on the modes a locker can hold: only
\* DB_LOCK_WAIT, which is never held, is not.
ASSUME ModeAssumption ==
    /\ Modes \subseteq AllModes \ {"N", "WT"}
    /\ \A a, b \in Modes : a \in Conflicts[b] <=> b \in Conflicts[a]
    /\ Downgrades \subseteq Modes \X Modes
    /\ Upgrades \subseteq Modes \X Modes
    /\ "WW" \in Modes => "W" \in Modes

\* A downgrade never gains a conflict.
ASSUME DowngradeAssumption ==
    \A d \in Downgrades : \A m \in Modes :
        d[2] \in Conflicts[m] => d[1] \in Conflicts[m]

\* An upgrade never loses one: neither that of a write cursor nor the one that
\* turns a was-write lock back into a write lock.
ASSUME UpgradeAssumption ==
    \A weak, strong \in Modes :
        <<weak, strong>> \in Upgrades \cup {<<"WW", "W">>} =>
            \A m \in Modes : weak \in Conflicts[m] => strong \in Conflicts[m]

\* Of the two modes of a downgrade or an upgrade the stronger one is a write
\* mode if the weaker one is.
ASSUME WriteAssumption ==
    /\ \A d \in Downgrades : d[2] \in WriteModes => d[1] \in WriteModes
    /\ \A d \in Upgrades : d[1] \in WriteModes => d[2] \in WriteModes

\* Ancestors is the chain of Parent, and a family root is on top of one.
ASSUME FamilyAssumption ==
    /\ Parent \in [Lockers -> Lockers \cup {NoLocker}]
    /\ Ancestors \in [Lockers -> SUBSET Lockers]
    /\ \A l \in Lockers :
         /\ l \notin Ancestors[l]
         /\ Parent[l] = NoLocker => Ancestors[l] = {}
         /\ Parent[l] # NoLocker =>
              Ancestors[l] = {Parent[l]} \cup Ancestors[Parent[l]]
         /\ \A k \in Ancestors[l] : Ancestors[k] \subseteq Ancestors[l]
    /\ FamilyRoots \subseteq {l \in Lockers : Parent[l] = NoLocker}

ASSUME BoundAssumption ==
    /\ Timed \subseteq Lockers
    /\ MaxHeld \in Nat
    /\ MaxRef \in Nat \ {0}

-----------------------------------------------------------------------------
VARIABLES
    \* struct __db_lock
    status,     \* FREE, HELD, PENDING, WAITING, ABORTED or EXPIRED
    mode,
    holder,
    obj,
    refcount,
    \* DB_LOCKOBJ and DB_LOCKREGION
    holders,    \* holders[o]: list of the locks granted on o
    waiters,    \* waiters[o]: list of the locks waiting for o
    ddObjs,     \* dd_objs, the objects the deadlock detector visits
    needDD,     \* need_dd, the detector has to run
    \* struct __db_locker
    heldby,     \* heldby[l]: list of l's locks, the newest first
    nlocks,
    nwrites,
    dirty,      \* DB_LOCKER_DIRTY
    inabort,    \* DB_LOCKER_INABORT
    mtx,        \* mtx_locker, locked except between a wake-up and the waking
    \* the thread that uses the locker
    thr,        \* what it is doing
    req         \* the request it sleeps in

lockVars   == <<status, mode, holder, obj, refcount>>
objVars    == <<holders, waiters, ddObjs>>
lockerVars == <<heldby, nlocks, nwrites, dirty, inabort>>
thrVars    == <<thr, req>>
vars       == <<lockVars, objVars, needDD, lockerVars, mtx, thrVars>>

\* "none": no transaction; "idle": outside the lock manager; "sleep": on its
\* mutex in __lock_get_internal; "deadlock": was returned DB_LOCK_DEADLOCK
\* and can only abort; the others are the loops of __lock_vec, and "undo" is
\* __txn_undo, between DB_LOCK_UPGRADE_WRITE and DB_LOCK_PUT_ALL.
ThrStates == {"none", "idle", "sleep", "deadlock", "upwrite", "upgrade",
              "undo", "putread", "putall", "inherit"}

Statuses == {"FREE", "HELD", "PENDING", "WAITING", "ABORTED", "EXPIRED"}

NoReq == [lk |-> NoLock, upg |-> NoLock, back |-> "idle"]

Reqs == [lk : LockIds \cup {NoLock}, upg : LockIds \cup {NoLock},
         back : {"idle", "upgrade"}]

Init ==
    /\ status = [i \in LockIds |-> "FREE"]
    /\ mode = [i \in LockIds |-> "N"]
    /\ holder = [i \in LockIds |-> NoLocker]
    /\ obj = [i \in LockIds |-> NoObj]
    /\ refcount = [i \in LockIds |-> 0]
    /\ holders = [o \in Objs |-> EmptyList]
    /\ waiters = [o \in Objs |-> EmptyList]
    /\ ddObjs = {}
    /\ needDD = FALSE
    /\ heldby = [l \in Lockers |-> EmptyList]
    /\ nlocks = [l \in Lockers |-> 0]
    /\ nwrites = [l \in Lockers |-> 0]
    /\ dirty = [l \in Lockers |-> FALSE]
    /\ inabort = [l \in Lockers |-> FALSE]
    /\ mtx = [l \in Lockers |-> "locked"]
    /\ thr = [l \in Lockers |-> "none"]
    /\ req = [l \in Lockers |-> NoReq]

-----------------------------------------------------------------------------
(* Lockers and conflicts.                                                  *)

ConflictsWith(held, wanted) == wanted \in Conflicts[held]

\* Mutant: a was-write lock is not counted as a write lock.
IsWriteForgetsWasWrite(m) == IF m \in WriteModes \ {"WW"} THEN 1 ELSE 0

IsWrite(m) == IF m \in WriteModes THEN 1 ELSE 0

\* May a lock held by h be ignored when w asks for one?
SameFamily(h, w) ==
    \/ h \in Ancestors[w]
    \/ \E r \in FamilyRoots :
         /\ r \in Ancestors[w] \cup {w}
         /\ r \in Ancestors[h] \cup {h}

Unrelated(a, b) == ~SameFamily(a, b) /\ ~SameFamily(b, a)

FreeLocks == {i \in LockIds : status[i] = "FREE"}

\* A transaction with an unresolved child makes no request of its own; the
\* cursors of a family are used by its one thread.
ChildrenResolved(l) ==
    l \in FamilyRoots \/ \A c \in Lockers : Parent[c] = l => thr[c] = "none"

-----------------------------------------------------------------------------
(* __lock_promote on object o, from lists hs and ws, with the lock fields  *)
(* st, md and hd and the mutexes mx the caller has already changed.        *)

Waiting(st, ws) == {i \in Members(ws) : st[i] = "WAITING"}

\* Does a lock of G keep waiter i from being granted?
BlockedBy(i, G, md, hd) ==
    \E h \in G : /\ hd[h] # hd[i]
                 /\ ConflictsWith(md[h], md[i])
                 /\ ~SameFamily(hd[h], hd[i])

\* Mutant: waiters are only compared with the old holders.
AheadOfNobody(i, st, ws) == {}

\* The waiters ahead of i are granted before i is looked at.
AheadOf(i, st, ws) == {j \in Waiting(st, ws) \ {i} : ws[j] <= ws[i]}

\* Mutant: at most the first waiter is let in (ONEWAITER).
PromotableFirst(st, md, hd, hs, ws) ==
    {i \in Waiting(st, ws) :
        AheadOf(i, st, ws) = {} /\ ~BlockedBy(i, Members(hs), md, hd)}

\* Promotion goes down the queue, passes over aborted and expired waiters
\* and stops at the first one that has to keep waiting.
Promotable(st, md, hd, hs, ws) ==
    {i \in Waiting(st, ws) :
        \A j \in AheadOf(i, st, ws) \cup {i} :
            ~BlockedBy(j, Members(hs) \cup AheadOf(j, st, ws), md, hd)}

\* Mutant: only one of the lockers is woken.
WokenOnce(S, hd, mx) ==
    [l \in Lockers |->
        IF \E i \in S : hd[i] = l /\ \A j \in S : i <= j THEN "unlocked" ELSE mx[l]]

\* The mutexes after the lockers of the locks S were woken.
Woken(S, hd, mx) ==
    [l \in Lockers |-> IF \E i \in S : hd[i] = l THEN "unlocked" ELSE mx[l]]

\* Mutant: an object stays on the detector's list without waiters.
UnqueuedStays(o, dd) == dd

\* dd_objs after the last waiter of o has left its queue.
Unqueued(o, dd) == dd \ {o}

Promote(o, st, md, hd, hs, ws, mx, dd) ==
    LET P == Promotable(st, md, hd, hs, ws) IN
    /\ status' = [i \in LockIds |-> IF i \in P THEN "PENDING" ELSE st[i]]
    /\ holders' = [holders EXCEPT ![o] = AppendAll(hs, ws, P)]
    /\ waiters' = [waiters EXCEPT ![o] = RemoveAll(ws, P)]
    /\ mtx' = Woken(P, hd, mx)
    /\ ddObjs' = IF Members(ws) # {} /\ Members(ws) \subseteq P
                 THEN Unqueued(o, dd) ELSE dd

\* state_changed of __lock_promote: nobody was waiting, or someone was let in.
StateChanged(st, md, hd, hs, ws) ==
    Members(ws) = {} \/ Promotable(st, md, hd, hs, ws) # {}

-----------------------------------------------------------------------------
(* What __lock_get_internal decides for locker l asking for mode m on o.   *)

Conflicting(j, l, m) ==
    holder[j] # l /\ ~SameFamily(holder[j], l) /\ ConflictsWith(mode[j], m)

\* The scan of the holders ends at the first that conflicts.
Scanned(l, o, m) ==
    {i \in Members(holders[o]) :
        \A j \in Members(holders[o]) :
            Conflicting(j, l, m) => holders[o][i] < holders[o][j]}

HolderConflict(l, o, m) ==
    \E j \in Members(holders[o]) : Conflicting(j, l, m)

\* The locks that make the request a second reference.
SameHeld(l, o, m) ==
    {i \in Scanned(l, o, m) :
        holder[i] = l /\ mode[i] = m /\ status[i] = "HELD"}

IHold(l, o, m) ==
    \E i \in Scanned(l, o, m) : holder[i] = l \/ SameFamily(holder[i], l)

\* Mutant: the queue is not looked at.
WaiterConflictIgnored(l, o, m) == FALSE

\* A waiter of another locker whose mode conflicts with the wanted one.
WaiterConflict(l, o, m) ==
    \E i \in Members(waiters[o]) :
        holder[i] # l /\ ConflictsWith(mode[i], m)

\* The holders that leave grant_dirty set; "holder" is the last of them.
DirtyHolders(l, o, m) ==
    {i \in Scanned(l, o, m) :
        /\ holder[i] # l
        /\ ~SameFamily(holder[i], l)
        /\ mode[i] \in {"R", "WW"}}

\* "An upgrade will be at the head of the queue": is the first waiter a
\* WRITE of the locker the scan remembered?
UpgraderFirst(l, o, m) ==
    LET D == DirtyHolders(l, o, m)
        last == CHOOSE i \in D : \A j \in D : holders[o][j] <= holders[o][i]
        first == FirstIn(waiters[o], Members(waiters[o]))
    IN mode[first] = "W" /\ holder[first] = holder[last]

\* GRANT, HEAD, SECOND and TAIL of a request that is no upgrade.
QueueAction(l, o, m) ==
    IF HolderConflict(l, o, m)
    THEN IF IHold(l, o, m) \/ m = "DR" THEN "HEAD" ELSE "TAIL"
    ELSE IF IHold(l, o, m) \/ ~WaiterConflict(l, o, m) THEN "GRANT"
    ELSE IF m # "DR" THEN "TAIL"
    ELSE IF DirtyHolders(l, o, m) # {} /\ ~UpgraderFirst(l, o, m)
         THEN "GRANT" ELSE "SECOND"

Enqueued(q, i, action) ==
    CASE action = "HEAD"   -> InsertHead(q, i)
      [] action = "SECOND" -> InsertSecond(q, i)
      [] action = "TAIL"   -> InsertTail(q, i)

\* Mutant: the structure is not linked to its locker.
AllocateUnlinked(i, l, o, m, st) ==
    /\ status' = [status EXCEPT ![i] = st]
    /\ mode' = [mode EXCEPT ![i] = m]
    /\ holder' = [holder EXCEPT ![i] = l]
    /\ obj' = [obj EXCEPT ![i] = o]
    /\ refcount' = [refcount EXCEPT ![i] = 1]
    /\ heldby' = heldby

\* A structure from the free list, linked first on its locker's list.
Allocate(i, l, o, m, st) ==
    /\ status' = [status EXCEPT ![i] = st]
    /\ mode' = [mode EXCEPT ![i] = m]
    /\ holder' = [holder EXCEPT ![i] = l]
    /\ obj' = [obj EXCEPT ![i] = o]
    /\ refcount' = [refcount EXCEPT ![i] = 1]
    /\ heldby' = [heldby EXCEPT ![l] = InsertHead(heldby[l], i)]

\* Join the queue of o with lock i and go to sleep on the locker's mutex.
Enqueue(i, l, o, m, action, u, back) ==
    /\ Allocate(i, l, o, m, "WAITING")
    /\ waiters' = [waiters EXCEPT ![o] = Enqueued(waiters[o], i, action)]
    /\ ddObjs' = ddObjs \cup {o}
    /\ needDD' = TRUE
    /\ thr' = [thr EXCEPT ![l] = "sleep"]
    /\ req' = [req EXCEPT ![l] = [lk |-> i, upg |-> u, back |-> back]]
    /\ UNCHANGED <<holders, nlocks, nwrites, dirty, mtx>>

\* The counts of locker l after it was granted a lock of mode m.
Count(l, m) ==
    /\ nlocks' = [nlocks EXCEPT ![l] = @ + 1]
    /\ nwrites' = [nwrites EXCEPT ![l] = @ + IsWrite(m)]
    /\ dirty' = [dirty EXCEPT ![l] = @ \/ m = "WW"]

\* Mutant: the last reference is given back twice.
RecycleTwice(i) ==
    /\ mode' = [mode EXCEPT ![i] = "N"]
    /\ holder' = [holder EXCEPT ![i] = NoLocker]
    /\ obj' = [obj EXCEPT ![i] = NoObj]
    /\ refcount' = [refcount EXCEPT ![i] = @ - 2]

\* __lock_freelock with DB_LOCK_FREE: the next allocation sets every field.
Recycle(i) ==
    /\ mode' = [mode EXCEPT ![i] = "N"]
    /\ holder' = [holder EXCEPT ![i] = NoLocker]
    /\ obj' = [obj EXCEPT ![i] = NoObj]
    /\ refcount' = [refcount EXCEPT ![i] = 0]

-----------------------------------------------------------------------------
(* Operations.                                                             *)

\* A transaction starts: __lock_getlocker, or __lock_addfamilylocker for a
\* child.  The structure is initialised, its mutex locked.  (Bound: no child is
\* started under a parent that has collected MaxRef references to a lock.)
Begin(l) ==
    /\ thr[l] = "none"
    /\ Parent[l] # NoLocker =>
         /\ thr[Parent[l]] = "idle"
         /\ \A i \in Members(heldby[Parent[l]]) : refcount[i] < MaxRef
    /\ thr' = [thr EXCEPT ![l] = "idle"]
    /\ nlocks' = [nlocks EXCEPT ![l] = 0]
    /\ nwrites' = [nwrites EXCEPT ![l] = 0]
    /\ dirty' = [dirty EXCEPT ![l] = FALSE]
    /\ inabort' = [inabort EXCEPT ![l] = FALSE]
    /\ UNCHANGED <<lockVars, objVars, needDD, heldby, mtx, req>>

\* Mutant: a second thread uses a locker that waits for a lock.
IdleOrAsleep(l) == thr[l] \in {"idle", "sleep"} /\ ChildrenResolved(l)

Idle(l) == thr[l] = "idle" /\ ChildrenResolved(l)

\* A WWRITE lock is only requested by a locker that holds the WRITE lock on
\* the object, as the first half of a downgrade (LCK_DOWNGRADE).
MayRequest(l, o, m) ==
    /\ Idle(l)
    /\ m = "WW" => \E i \in Members(heldby[l]) : obj[i] = o /\ mode[i] = "W"

\* A further reference to a lock the locker holds in the same mode.
GetAgain(l, o, m) ==
    /\ MayRequest(l, o, m)
    /\ SameHeld(l, o, m) # {}
    /\ LET i == FirstIn(holders[o], SameHeld(l, o, m)) IN
         /\ refcount[i] < MaxRef
         /\ refcount' = [refcount EXCEPT ![i] = @ + 1]
    /\ UNCHANGED <<status, mode, holder, obj, objVars, needDD, lockerVars,
                   mtx, thrVars>>

NewRequest(l, o, m) ==
    /\ MayRequest(l, o, m)
    /\ SameHeld(l, o, m) = {}
    /\ Cardinality(Members(heldby[l])) < MaxHeld

\* A request that is granted at once.
GetGranted(l, o, m) ==
    /\ NewRequest(l, o, m)
    /\ QueueAction(l, o, m) = "GRANT"
    /\ \E i \in FreeLocks :
         /\ \A j \in FreeLocks : i <= j
         /\ Allocate(i, l, o, m, "HELD")
         /\ holders' = [holders EXCEPT ![o] = InsertTail(holders[o], i)]
    /\ Count(l, m)
    /\ UNCHANGED <<waiters, ddObjs, needDD, inabort, mtx, thrVars>>

\* A request that has to wait.
GetWaits(l, o, m) ==
    /\ NewRequest(l, o, m)
    /\ QueueAction(l, o, m) # "GRANT"
    /\ \E i \in FreeLocks :
         /\ \A j \in FreeLocks : i <= j
         /\ Enqueue(i, l, o, m, QueueAction(l, o, m), NoLock, "idle")
    /\ UNCHANGED inabort

\* __lock_get_internal with DB_LOCK_UPGRADE on lock u, wanting mode m.
UpgradeNow(l, u, m) ==
    /\ ~HolderConflict(l, obj[u], m) \/ SameHeld(l, obj[u], m) # {}
    /\ nwrites' = [nwrites EXCEPT
                     ![l] = @ + (IF IsWrite(mode[u]) = 0 THEN IsWrite(m) ELSE 0)]
    /\ mode' = [mode EXCEPT ![u] = m]
    /\ UNCHANGED <<status, holder, obj, refcount, objVars, needDD, heldby,
                   nlocks, dirty, mtx, req>>

UpgradeWaits(l, u, m, back) ==
    /\ HolderConflict(l, obj[u], m)
    /\ SameHeld(l, obj[u], m) = {}
    /\ \E i \in FreeLocks :
         /\ \A j \in FreeLocks : i <= j
         /\ Enqueue(i, l, obj[u], m, "HEAD", u, back)

\* Removing lock i, granted to l, from its lists, with the promotion that
\* __lock_put_internal runs on the object.
Release(l, i) ==
    LET o == obj[i]
        st == [status EXCEPT ![i] = "FREE"]
        hs == RemoveAll(holders[o], {i})
        ws == waiters[o]
    IN /\ Promote(o, st, mode, holder, hs, ws, mtx, ddObjs)
       /\ needDD' = (needDD \/ ~StateChanged(st, mode, holder, hs, ws))
       /\ Recycle(i)
       /\ heldby' = [heldby EXCEPT ![l] = RemoveAll(heldby[l], {i})]
       /\ nlocks' = [nlocks EXCEPT ![l] = @ - 1]
       /\ nwrites' = [nwrites EXCEPT ![l] = @ - IsWrite(mode[i])]

\* __lock_put: one reference is given back, the lock with the last one.
PutReference(l, i) ==
    /\ Idle(l)
    /\ i \in Members(heldby[l])
    /\ refcount[i] > 1
    /\ refcount' = [refcount EXCEPT ![i] = @ - 1]
    /\ UNCHANGED <<status, mode, holder, obj, objVars, needDD, lockerVars,
                   mtx, thrVars>>

Put(l, i) ==
    /\ Idle(l)
    /\ i \in Members(heldby[l])
    /\ refcount[i] = 1
    /\ Release(l, i)
    /\ UNCHANGED <<dirty, inabort, thrVars>>

\* __lock_downgrade: the new mode may let waiters in.
Downgrade(l, i, m) ==
    /\ Idle(l)
    /\ i \in Members(heldby[l])
    /\ <<mode[i], m>> \in Downgrades
    /\ mode' = [mode EXCEPT ![i] = m]
    /\ nwrites' = [nwrites EXCEPT ![l] =
                     @ - (IF IsWrite(m) = 0 THEN IsWrite(mode[i]) ELSE 0)]
    /\ Promote(obj[i], status, mode', holder, holders[obj[i]],
               waiters[obj[i]], mtx, ddObjs)
    /\ UNCHANGED <<holder, obj, refcount, needDD, heldby, nlocks, dirty,
                   inabort, thrVars>>

\* __lock_get with DB_LOCK_UPGRADE, as a write cursor of CDB does.
Upgrade(l, u, m) ==
    /\ Idle(l)
    /\ u \in Members(heldby[l])
    /\ <<mode[u], m>> \in Upgrades
    /\ \/ UpgradeNow(l, u, m) /\ UNCHANGED thr
       \/ UpgradeWaits(l, u, m, "idle")
    /\ UNCHANGED inabort

-----------------------------------------------------------------------------
(* The end of a transaction.                                               *)

\* A top-level commit releases its read locks before it writes the commit
\* record, unless it logged nothing; a child's locks go to its parent.
Commit(l) ==
    /\ Idle(l)
    /\ \E next \in CASE Parent[l] = NoLocker -> {"putread", "putall"}
                      [] Parent[l] \in FamilyRoots -> {"putall"}
                      [] OTHER -> {"inherit"} :
         thr' = [thr EXCEPT ![l] = next]
    /\ UNCHANGED <<lockVars, objVars, needDD, lockerVars, mtx, req>>

\* An abort with nothing to undo skips DB_LOCK_UPGRADE_WRITE.
Abort(l) ==
    /\ thr[l] \in {"idle", "deadlock"}
    /\ ChildrenResolved(l)
    /\ \E next \in {"upwrite", "putall"} : thr' = [thr EXCEPT ![l] = next]
    /\ UNCHANGED <<lockVars, objVars, needDD, lockerVars, mtx, req>>

ReadLocks(l) == {i \in Members(heldby[l]) : mode[i] \in ReadModes}

\* DB_LOCK_PUT_READ and the first half of DB_LOCK_UPGRADE_WRITE release the
\* read locks, in list order, with all their references.
ReleaseRead(l) ==
    /\ thr[l] \in {"upwrite", "putread"}
    /\ ReadLocks(l) # {}
    /\ Release(l, FirstIn(heldby[l], ReadLocks(l)))
    /\ UNCHANGED <<dirty, inabort, thrVars>>

ReadReleased(l) ==
    /\ thr[l] \in {"upwrite", "putread"}
    /\ ReadLocks(l) = {}
    /\ thr' = [thr EXCEPT ![l] =
                 CASE thr[l] = "putread" -> "putall"
                   [] thr[l] = "upwrite" /\ dirty[l] -> "upgrade"
                   [] OTHER -> "undo"]
    /\ UNCHANGED <<lockVars, objVars, needDD, lockerVars, mtx, req>>

WasWriteLocks(l) == {i \in Members(heldby[l]) : mode[i] = "WW"}

\* The second half of DB_LOCK_UPGRADE_WRITE: the next was-write lock becomes
\* a write lock again, after a wait for its dirty readers.
UpgradeWrite(l) ==
    /\ thr[l] = "upgrade"
    /\ WasWriteLocks(l) # {}
    /\ inabort' = [inabort EXCEPT ![l] = TRUE]
    /\ LET u == FirstIn(heldby[l], WasWriteLocks(l)) IN
       \/ UpgradeNow(l, u, "W") /\ UNCHANGED thr
       \/ UpgradeWaits(l, u, "W", "upgrade")

WritesUpgraded(l) ==
    /\ thr[l] = "upgrade"
    /\ WasWriteLocks(l) = {}
    /\ thr' = [thr EXCEPT ![l] = "undo"]
    /\ UNCHANGED <<lockVars, objVars, needDD, lockerVars, mtx, req>>

\* __txn_undo rewrites the pages; then __txn_end releases the locks.
Undone(l) ==
    /\ thr[l] = "undo"
    /\ thr' = [thr EXCEPT ![l] = "putall"]
    /\ UNCHANGED <<lockVars, objVars, needDD, lockerVars, mtx, req>>

\* DB_LOCK_PUT_ALL, one lock.
ReleaseNext(l) ==
    /\ thr[l] = "putall"
    /\ Members(heldby[l]) # {}
    /\ Release(l, FirstIn(heldby[l], Members(heldby[l])))
    /\ UNCHANGED <<dirty, inabort, thrVars>>

\* The parent's lock that child lock i is merged into.
Merge(i) ==
    {j \in Members(holders[obj[i]]) :
        holder[j] = Parent[holder[i]] /\ mode[j] = mode[i]}

\* __lock_inherit_locks, one lock: the parent's lock on the object takes over
\* the references, or the lock itself moves to the parent.
InheritNext(l) ==
    /\ thr[l] = "inherit"
    /\ Members(heldby[l]) # {}
    /\ LET i == FirstIn(heldby[l], Members(heldby[l]))
           o == obj[i]
           p == Parent[l]
           rest == RemoveAll(heldby[l], {i})
       IN \/ /\ Merge(i) # {}
             /\ LET j == FirstIn(holders[o], Merge(i)) IN
                /\ refcount' = [refcount EXCEPT ![j] = @ + refcount[i], ![i] = 0]
                /\ mode' = [mode EXCEPT ![i] = "N"]
                /\ holder' = [holder EXCEPT ![i] = NoLocker]
                /\ obj' = [obj EXCEPT ![i] = NoObj]
                /\ heldby' = [heldby EXCEPT ![l] = rest]
                /\ Promote(o, [status EXCEPT ![i] = "FREE"], mode, holder,
                           RemoveAll(holders[o], {i}), waiters[o], mtx, ddObjs)
             /\ UNCHANGED <<nlocks, nwrites>>
          \/ /\ Merge(i) = {}
             /\ holder' = [holder EXCEPT ![i] = p]
             /\ heldby' = [heldby EXCEPT ![l] = rest,
                                         ![p] = InsertHead(heldby[p], i)]
             /\ nlocks' = [nlocks EXCEPT ![p] = @ + 1]
             /\ nwrites' = [nwrites EXCEPT ![p] = @ + IsWrite(mode[i])]
             /\ Promote(o, status, mode, holder', holders[o], waiters[o],
                        mtx, ddObjs)
             /\ UNCHANGED <<mode, obj, refcount>>
    /\ UNCHANGED <<needDD, dirty, inabort, thrVars>>

\* The locker structure is given up, or kept for the thread's next locker.
End(l) ==
    /\ thr[l] \in {"putall", "inherit"}
    /\ Members(heldby[l]) = {}
    /\ thr' = [thr EXCEPT ![l] = "none"]
    /\ UNCHANGED <<lockVars, objVars, needDD, lockerVars, mtx, req>>

-----------------------------------------------------------------------------
(* Waking up in __lock_get_internal.                                       *)

Awake(l, st) ==
    /\ thr[l] = "sleep"
    /\ mtx[l] = "unlocked"
    /\ status[req[l].lk] = st

\* Granted: the lock is counted.
WakeGranted(l) ==
    /\ Awake(l, "PENDING")
    /\ req[l].upg = NoLock
    /\ status' = [status EXCEPT ![req[l].lk] = "HELD"]
    /\ Count(l, mode[req[l].lk])
    /\ mtx' = [mtx EXCEPT ![l] = "locked"]
    /\ thr' = [thr EXCEPT ![l] = "idle"]
    /\ req' = [req EXCEPT ![l] = NoReq]
    /\ UNCHANGED <<mode, holder, obj, refcount, objVars, needDD, heldby,
                   inabort>>

\* Granted an upgrade: the lock that waited is taken off the holders and
\* freed, the upgraded lock gets its mode.
WakeUpgraded(l) ==
    /\ Awake(l, "PENDING")
    /\ req[l].upg # NoLock
    /\ LET i == req[l].lk
           u == req[l].upg
           o == obj[i]
       IN /\ holders' = [holders EXCEPT ![o] = RemoveAll(holders[o], {i})]
          /\ nwrites' = [nwrites EXCEPT ![l] = @ +
                   (IF IsWrite(mode[u]) = 0 THEN IsWrite(mode[i]) ELSE 0)]
          /\ mode' = [mode EXCEPT ![u] = mode[i], ![i] = "N"]
          /\ status' = [status EXCEPT ![i] = "FREE"]
          /\ holder' = [holder EXCEPT ![i] = NoLocker]
          /\ obj' = [obj EXCEPT ![i] = NoObj]
          /\ refcount' = [refcount EXCEPT ![i] = 0]
          /\ heldby' = [heldby EXCEPT ![l] = RemoveAll(heldby[l], {i})]
    /\ mtx' = [mtx EXCEPT ![l] = "locked"]
    /\ thr' = [thr EXCEPT ![l] = req[l].back]
    /\ req' = [req EXCEPT ![l] = NoReq]
    /\ UNCHANGED <<waiters, ddObjs, needDD, nlocks, dirty, inabort>>

\* Chosen by the deadlock detector, which took the lock off the queue.
WakeAborted(l) ==
    /\ Awake(l, "ABORTED")
    /\ ~inabort[l]
    /\ LET i == req[l].lk IN
         /\ status' = [status EXCEPT ![i] = "FREE"]
         /\ Recycle(i)
         /\ heldby' = [heldby EXCEPT ![l] = RemoveAll(heldby[l], {i})]
    /\ mtx' = [mtx EXCEPT ![l] = "locked"]
    /\ thr' = [thr EXCEPT ![l] = "deadlock"]
    /\ req' = [req EXCEPT ![l] = NoReq]
    /\ UNCHANGED <<objVars, needDD, nlocks, nwrites, dirty, inabort>>

\* Expired: the lock is still on the queue; DB_LOCK_NOTGRANTED.
WakeExpired(l) ==
    /\ Awake(l, "EXPIRED")
    /\ LET i == req[l].lk
           o == obj[i]
           st == [status EXCEPT ![i] = "FREE"]
           ws == RemoveAll(waiters[o], {i})
           dd == IF Members(ws) = {} THEN Unqueued(o, ddObjs) ELSE ddObjs
       IN /\ Promote(o, st, mode, holder, holders[o], ws,
                     [mtx EXCEPT ![l] = "locked"], dd)
          /\ needDD' = (needDD \/
                        ~StateChanged(st, mode, holder, holders[o], ws))
          /\ Recycle(i)
          /\ heldby' = [heldby EXCEPT ![l] = RemoveAll(heldby[l], {i})]
    /\ thr' = [thr EXCEPT ![l] = req[l].back]
    /\ req' = [req EXCEPT ![l] = NoReq]
    /\ UNCHANGED <<nlocks, nwrites, dirty, inabort>>

-----------------------------------------------------------------------------
(* The deadlock detector, as far as a locker can tell.  Here it may pick   *)
(* any waiter __dd_abort accepts; LockDetect models how it chooses.        *)

\* __dd_abort: off the queue, whoever waited behind may be let in, wake up.
DdAbort(l) ==
    /\ thr[l] = "sleep"
    /\ ~inabort[l]
    /\ status[req[l].lk] = "WAITING"
    /\ LET i == req[l].lk
           o == obj[i]
           st == [status EXCEPT ![i] = "ABORTED"]
           ws == RemoveAll(waiters[o], {i})
           dd == IF Members(ws) = {} THEN Unqueued(o, ddObjs) ELSE ddObjs
       IN Promote(o, st, mode, holder, holders[o], ws,
                  [mtx EXCEPT ![l] = "unlocked"], dd)
    /\ UNCHANGED <<mode, holder, obj, refcount, needDD, lockerVars, thrVars>>

\* __dd_build over object o: the waiters whose time is up are marked and
\* woken; they leave the queue themselves.  Aborting lockers have none.
Expirable(o) ==
    {i \in Waiting(status, waiters[o]) :
        holder[i] \in Timed /\ req[holder[i]].back = "idle"}

DdExpire(o) ==
    \E S \in SUBSET Expirable(o) \ {{}} :
       /\ status' = [i \in LockIds |-> IF i \in S THEN "EXPIRED" ELSE status[i]]
       /\ mtx' = Woken(S, holder, mtx)
       /\ UNCHANGED <<mode, holder, obj, refcount, objVars, needDD, lockerVars,
                      thrVars>>

\* __lock_detect starts: it will look at every waiter there is.
DdStart ==
    /\ needDD
    /\ needDD' = FALSE
    /\ UNCHANGED <<lockVars, objVars, lockerVars, mtx, thrVars>>

-----------------------------------------------------------------------------
LockerStep(l) ==
    \/ Begin(l)
    \/ \E o \in Objs, m \in Modes :
         GetAgain(l, o, m) \/ GetGranted(l, o, m) \/ GetWaits(l, o, m)
    \/ \E i \in LockIds : PutReference(l, i) \/ Put(l, i)
    \/ \E i \in LockIds, m \in Modes : Downgrade(l, i, m) \/ Upgrade(l, i, m)
    \/ Commit(l)
    \/ Abort(l)
    \/ ReleaseRead(l)
    \/ ReadReleased(l)
    \/ UpgradeWrite(l)
    \/ WritesUpgraded(l)
    \/ Undone(l)
    \/ ReleaseNext(l)
    \/ InheritNext(l)
    \/ End(l)
    \/ WakeGranted(l)
    \/ WakeUpgraded(l)
    \/ WakeAborted(l)
    \/ WakeExpired(l)

Next ==
    \/ \E l \in Lockers : LockerStep(l) \/ DdAbort(l)
    \/ \E o \in Objs : DdExpire(o)
    \/ DdStart

Spec == Init /\ [][Next]_vars

-----------------------------------------------------------------------------
(* Properties.                                                             *)

\* Every variable has its type: a lock is free, or describes a request.
TypeOK ==
    /\ status \in [LockIds -> Statuses]
    /\ mode \in [LockIds -> Modes \cup {"N"}]
    /\ holder \in [LockIds -> Lockers \cup {NoLocker}]
    /\ obj \in [LockIds -> Objs \cup {NoObj}]
    /\ refcount \in [LockIds -> Nat]
    /\ IsListArray(holders, Objs, LockIds)
    /\ IsListArray(waiters, Objs, LockIds)
    /\ ddObjs \subseteq Objs
    /\ needDD \in BOOLEAN
    /\ IsListArray(heldby, Lockers, LockIds)
    /\ nlocks \in [Lockers -> Int]
    /\ nwrites \in [Lockers -> Int]
    /\ dirty \in [Lockers -> BOOLEAN]
    /\ inabort \in [Lockers -> BOOLEAN]
    /\ mtx \in [Lockers -> {"locked", "unlocked"}]
    /\ thr \in [Lockers -> ThrStates]
    /\ req \in [Lockers -> Reqs]

\* The granted locks of two lockers of different families on one object never
\* conflict: not after a promotion of several waiters at once, an upgrade, a
\* downgrade or a child's locks going to its parent.
Compatible ==
    \A o \in Objs : \A i, j \in Members(holders[o]) :
        /\ holder[i] # holder[j]
        /\ Unrelated(holder[i], holder[j])
        => ~ConflictsWith(mode[i], mode[j])

\* No lost and no spurious wake-up: a locker's mutex is unlocked exactly
\* while it sleeps in a request somebody has answered.
WakeupExact ==
    \A l \in Lockers :
        mtx[l] = "unlocked" <=>
            /\ thr[l] = "sleep"
            /\ status[req[l].lk] \in {"PENDING", "ABORTED", "EXPIRED"}

\* No lock structure leaks: one that is not free is on the list of its locker
\* alone, and on the one list of its object that its status calls for.
ListsExact ==
    /\ \A i \in LockIds \ FreeLocks :
         holder[i] \in Lockers /\ obj[i] \in Objs /\ mode[i] \in Modes
    /\ \A i \in LockIds, l \in Lockers :
         i \in Members(heldby[l]) <=> status[i] # "FREE" /\ holder[i] = l
    /\ \A i \in LockIds, o \in Objs :
         /\ i \in Members(holders[o]) <=>
              obj[i] = o /\ status[i] \in {"HELD", "PENDING"}
         /\ i \in Members(waiters[o]) <=>
              obj[i] = o /\ status[i] \in {"WAITING", "EXPIRED"}

\* Every lock that is neither free nor held is the one its locker sleeps for,
\* answered or not, and a lock being upgraded stays held, by the same locker
\* and on the same object, for as long as the upgrade waits.
SleepersExact ==
    /\ \A i \in LockIds : status[i] \notin {"FREE", "HELD"} =>
         thr[holder[i]] = "sleep" /\ req[holder[i]].lk = i
    /\ \A l \in Lockers : thr[l] = "sleep" =>
         LET i == req[l].lk
             u == req[l].upg
         IN /\ i \in LockIds /\ holder[i] = l
            /\ status[i] \notin {"FREE", "HELD"}
            /\ u # NoLock => /\ holder[u] = l /\ status[u] = "HELD"
                             /\ obj[u] = obj[i]

\* The counts a victim is chosen by, and __lock_id_free refuses to free a
\* locker on, are those of the locks on the locker's list.
CountsExact ==
    \A l \in Lockers : thr[l] \notin {"inherit", "none"} =>
        LET held == {i \in Members(heldby[l]) : status[i] = "HELD"} IN
        /\ nlocks[l] = Cardinality(held)
        /\ nwrites[l] = Cardinality({i \in held : mode[i] \in WriteModes})

\* The detector's list is that of the objects with waiters.
DdObjsExact == ddObjs = {o \in Objs : Members(waiters[o]) # {}}

\* Nobody waits for nothing: the first waiter, unless it is about to leave the
\* queue, is kept out by a lock of another family.
NoStrandedWaiter ==
    \A o \in Objs : Members(waiters[o]) # {} =>
        LET i == FirstIn(waiters[o], Members(waiters[o])) IN
        status[i] = "WAITING" =>
            BlockedBy(i, Members(holders[o]), mode, holder)

Granted(i) == status[i] \in {"HELD", "PENDING"}

\* Is i not granted in this step, or is waiter j, which it conflicts with, not
\* passed over?
InOrder(i, j) ==
    LET o == obj'[i] IN
    /\ ~Granted(i) /\ Granted(i)'
    /\ status[j] = "WAITING" /\ status'[j] = "WAITING" /\ obj[j] = o
    /\ holder[j] # holder'[i]
    /\ ConflictsWith(mode[j], mode'[i])
    => \/ status[i] = "WAITING" /\ waiters[o][i] < waiters[o][j]
       \/ \E h \in Members(holders[o]) :
            holder[h] = holder'[i] \/ SameFamily(holder[h], holder'[i])
       \/ mode'[i] = "DR"

\* A request is granted past a conflicting one that waits on only when it
\* was queued before it, when its locker (or an ancestor) already has a lock
\* on the object, or when it is a dirty read.
NoOvertaking == [][\A i, j \in LockIds : InOrder(i, j)]_vars
=============================================================================
