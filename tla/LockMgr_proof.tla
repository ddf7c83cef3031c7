--------------------------- MODULE LockMgr_proof ---------------------------
(***************************************************************************)
(* Proofs about LockMgr: for every number of lockers, objects and lock     *)
(* structures, every family tree and every symmetric conflict array in     *)
(* which a downgrade weakens and an upgrade strengthens a lock.            *)
(*                                                                         *)
(* The inductive invariant IInv is the conjunction of the type invariant   *)
(* and of what the lists, the sleepers, the mutexes and the granted locks  *)
(* have to say of each other.  Compatible alone is not inductive: that a   *)
(* promotion keeps it depends on the queues holding waiting locks only,    *)
(* and a release on the released lock being a held one.                    *)
(*                                                                         *)
(* Most operations change some locks and then promote on one object, so    *)
(* the conjuncts are stated for any arrays ("...Of"), and one lemma shows  *)
(* that a promotion preserves them from the intermediate state on.         *)
(***************************************************************************)
EXTENDS LockMgr, OrderFacts

\* Lock i is on the lists it has to be on, and on no others.
LockAt(i, st, md, hd, ob, hss, wss, hb) ==
    /\ st[i] # "FREE" => hd[i] \in Lockers /\ ob[i] \in Objs /\ md[i] \in Modes
    /\ \A l \in Lockers : i \in Members(hb[l]) <=> st[i] # "FREE" /\ hd[i] = l
    /\ \A o \in Objs :
         i \in Members(hss[o]) <=> ob[i] = o /\ st[i] \in {"HELD", "PENDING"}
    /\ \A o \in Objs :
         i \in Members(wss[o]) <=> ob[i] = o /\ st[i] \in {"WAITING", "EXPIRED"}

ListsOf(st, md, hd, ob, hss, wss, hb) ==
    \A i \in LockIds : LockAt(i, st, md, hd, ob, hss, wss, hb)

SleepersOf(st, hd, ob, th, rq) ==
    /\ \A i \in LockIds : st[i] \notin {"FREE", "HELD"} =>
         th[hd[i]] = "sleep" /\ rq[hd[i]].lk = i
    /\ \A l \in Lockers : th[l] = "sleep" =>
         /\ rq[l].lk \in LockIds
         /\ hd[rq[l].lk] = l
         /\ st[rq[l].lk] \notin {"FREE", "HELD"}
         /\ rq[l].upg # NoLock =>
              /\ rq[l].upg \in LockIds
              /\ hd[rq[l].upg] = l
              /\ st[rq[l].upg] = "HELD"
              /\ ob[rq[l].upg] = ob[rq[l].lk]

WakeupOf(st, mx, th, rq) ==
    \A l \in Lockers :
        mx[l] = "unlocked" <=>
            th[l] = "sleep" /\ st[rq[l].lk] \in {"PENDING", "ABORTED", "EXPIRED"}

DdObjsOf(dd, wss) == dd = {o \in Objs : Members(wss[o]) # {}}

CompatibleOf(md, hd, hss) ==
    \A o \in Objs : \A i, j \in Members(hss[o]) :
        hd[i] # hd[j] /\ Unrelated(hd[i], hd[j]) => ~ConflictsWith(md[i], md[j])

\* Only a locker with a parent hands its locks on.
HeirOf(th) == \A l \in Lockers : th[l] = "inherit" => Parent[l] # NoLocker

IInv ==
    /\ TypeOK
    /\ ListsOf(status, mode, holder, obj, holders, waiters, heldby)
    /\ SleepersOf(status, holder, obj, thr, req)
    /\ WakeupOf(status, mtx, thr, req)
    /\ DdObjsOf(ddObjs, waiters)
    /\ CompatibleOf(mode, holder, holders)
    /\ HeirOf(thr)

\* The conjuncts are the properties of LockMgr.
LEMMA IInvMeaning ==
    IInv => /\ TypeOK /\ ListsExact /\ SleepersExact /\ WakeupExact
            /\ DdObjsExact /\ Compatible
<1> SUFFICES ASSUME IInv
             PROVE  /\ TypeOK /\ ListsExact /\ SleepersExact /\ WakeupExact
                    /\ DdObjsExact /\ Compatible
  OBVIOUS
<1>1. TypeOK
  BY DEF IInv
<1>2. ListsExact
  BY DEF IInv, ListsOf, LockAt, ListsExact, FreeLocks
<1>3. SleepersExact
  BY DEF IInv, SleepersOf, SleepersExact
<1>4. WakeupExact
  BY DEF IInv, WakeupOf, WakeupExact
<1>5. DdObjsExact
  BY DEF IInv, DdObjsOf, DdObjsExact
<1>6. Compatible
  BY DEF IInv, CompatibleOf, Compatible
<1> QED BY <1>1, <1>2, <1>3, <1>4, <1>5, <1>6

-----------------------------------------------------------------------------
(* Promotion.                                                              *)

\* What a promotion of the locks P leaves behind.
Promoted(P, o, st, md, hd, hs, ws, mx, dd) ==
    /\ P \subseteq Waiting(st, ws)
    /\ status' = [i \in LockIds |-> IF i \in P THEN "PENDING" ELSE st[i]]
    /\ IsListArray(holders', Objs, LockIds)
    /\ Members(holders'[o]) = Members(hs) \cup P
    /\ IsListArray(waiters', Objs, LockIds)
    /\ Members(waiters'[o]) = Members(ws) \ P
    /\ \A x \in Objs : x # o => holders'[x] = holders[x] /\ waiters'[x] = waiters[x]
    /\ mtx' = Woken(P, hd, mx)
    /\ ddObjs' = IF Members(ws) # {} /\ Members(ws) \subseteq P THEN dd \ {o} ELSE dd
    /\ \A i \in P : ~BlockedBy(i, Members(hs), md, hd)
    /\ \A i, j \in P : i # j => ~BlockedBy(i, {j}, md, hd) \/ ~BlockedBy(j, {i}, md, hd)

\* A promotion does to the lists and the mutexes what Promoted says.
LEMMA PromoteEffect ==
    ASSUME NEW o \in Objs, NEW st, NEW md, NEW hd, NEW mx, NEW dd,
           NEW hs, IsList(hs, LockIds), NEW ws, IsList(ws, LockIds),
           IsListArray(holders, Objs, LockIds), IsListArray(waiters, Objs, LockIds),
           Promote(o, st, md, hd, hs, ws, mx, dd)
    PROVE  Promoted(Promotable(st, md, hd, hs, ws), o, st, md, hd, hs, ws, mx, dd)
<1> DEFINE P == Promotable(st, md, hd, hs, ws)
<1>1. /\ P \subseteq Waiting(st, ws) /\ P \subseteq Members(ws)
      /\ IsFiniteSet(LockIds)
  BY IdAssumption DEF Promotable, Waiting
<1>2. \A i \in P : ~BlockedBy(i, Members(hs) \cup AheadOf(i, st, ws), md, hd)
  BY DEF Promotable
<1>3. \A i, j \in P : i # j => i \in AheadOf(j, st, ws) \/ j \in AheadOf(i, st, ws)
  <2> SUFFICES ASSUME NEW i \in P, NEW j \in P, i # j
               PROVE  i \in AheadOf(j, st, ws) \/ j \in AheadOf(i, st, ws)
    OBVIOUS
  <2>1. ws[i] \in Nat /\ ws[j] \in Nat
    BY <1>1 DEF IsList
  <2>2. i \in Waiting(st, ws) /\ j \in Waiting(st, ws)
    BY <1>1
  <2> QED BY <2>1, <2>2 DEF AheadOf
<1>4. /\ status' = [i \in LockIds |-> IF i \in P THEN "PENDING" ELSE st[i]]
      /\ holders' = [holders EXCEPT ![o] = AppendAll(hs, ws, P)]
      /\ waiters' = [waiters EXCEPT ![o] = RemoveAll(ws, P)]
      /\ mtx' = Woken(P, hd, mx)
      /\ ddObjs' = IF Members(ws) # {} /\ Members(ws) \subseteq P THEN dd \ {o} ELSE dd
  BY DEF Promote, Unqueued
<1> HIDE DEF P
<1>5. /\ IsList(AppendAll(hs, ws, P), LockIds)
      /\ Members(AppendAll(hs, ws, P)) = Members(hs) \cup P
  BY <1>1, AppendAllType
<1>6. /\ IsList(RemoveAll(ws, P), LockIds)
      /\ Members(RemoveAll(ws, P)) = Members(ws) \ P
  BY <1>1, RemoveAllType
<1>7. /\ IsListArray(holders', Objs, LockIds)
      /\ Members(holders'[o]) = Members(hs) \cup P
      /\ IsListArray(waiters', Objs, LockIds)
      /\ Members(waiters'[o]) = Members(ws) \ P
      /\ \A x \in Objs : x # o => holders'[x] = holders[x] /\ waiters'[x] = waiters[x]
  BY <1>4, <1>5, <1>6 DEF IsListArray
<1>8. \A i \in P : ~BlockedBy(i, Members(hs), md, hd)
  BY <1>2 DEF BlockedBy
<1>9. \A i, j \in P : i # j => ~BlockedBy(i, {j}, md, hd) \/ ~BlockedBy(j, {i}, md, hd)
  BY <1>2, <1>3 DEF BlockedBy
<1> QED BY <1>1, <1>4, <1>7, <1>8, <1>9 DEF Promoted, P

\* A promotion preserves the conjuncts: hss and wss are the lists it starts
\* from, st, mx and dd the other variables it changes, and the caller may have
\* recycled a lock (md, hd) that is on no list.
LEMMA PromotePreserves ==
    ASSUME NEW o \in Objs, NEW st, NEW md, NEW hd, NEW mx, NEW dd,
           NEW hss, IsListArray(hss, Objs, LockIds),
           NEW wss, IsListArray(wss, Objs, LockIds),
           IsListArray(holders, Objs, LockIds), IsListArray(waiters, Objs, LockIds),
           \A x \in Objs : x # o => hss[x] = holders[x] /\ wss[x] = waiters[x],
           ListsOf(st, mode', holder', obj', hss, wss, heldby'),
           SleepersOf(st, holder', obj', thr', req'),
           WakeupOf(st, mx, thr', req'),
           DdObjsOf(dd, wss),
           CompatibleOf(mode', holder', hss),
           \A j \in Members(hss[o]) \cup Members(wss[o]) :
               mode'[j] = md[j] /\ holder'[j] = hd[j],
           Promote(o, st, md, hd, hss[o], wss[o], mx, dd)
    PROVE  /\ ListsOf(status, mode, holder, obj, holders, waiters, heldby)'
           /\ SleepersOf(status, holder, obj, thr, req)'
           /\ WakeupOf(status, mtx, thr, req)'
           /\ DdObjsOf(ddObjs, waiters)'
           /\ CompatibleOf(mode, holder, holders)'
           /\ IsListArray(holders, Objs, LockIds)'
           /\ IsListArray(waiters, Objs, LockIds)'
<1> DEFINE hs == hss[o]
           ws == wss[o]
           P == Promotable(st, md, hd, hs, ws)
<1>1. Promoted(P, o, st, md, hd, hs, ws, mx, dd)
  BY PromoteEffect DEF IsListArray
<1>2. /\ \A x \in Objs : hss[x] = IF x = o THEN hs ELSE holders[x]
      /\ \A x \in Objs : wss[x] = IF x = o THEN ws ELSE waiters[x]
      /\ IsList(hs, LockIds) /\ IsList(ws, LockIds)
  BY DEF IsListArray
<1>3. \A j \in Members(hs) \cup Members(ws) : mode'[j] = md[j] /\ holder'[j] = hd[j]
  OBVIOUS
<1> HIDE DEF P, hs, ws
<1>4. P \subseteq Members(ws) /\ Members(ws) \subseteq LockIds
      /\ Members(hs) \subseteq LockIds /\ \A i \in P : st[i] = "WAITING"
  BY <1>1, <1>2 DEF Promoted, Waiting, IsList
<1>5. \A i \in P : /\ i \in LockIds /\ obj'[i] = o /\ st[i] = "WAITING"
                   /\ holder'[i] \in Lockers /\ holder'[i] = hd[i]
                   /\ mode'[i] \in Modes /\ mode'[i] = md[i]
  BY <1>2, <1>3, <1>4 DEF ListsOf, LockAt
<1>6. \A i \in LockIds : status'[i] = IF i \in P THEN "PENDING" ELSE st[i]
  BY <1>1 DEF Promoted
<1>7. /\ \A x \in Objs : Members(holders'[x]) =
             IF x = o THEN Members(hss[x]) \cup P ELSE Members(hss[x])
      /\ \A x \in Objs : Members(waiters'[x]) =
             IF x = o THEN Members(wss[x]) \ P ELSE Members(wss[x])
  BY <1>1, <1>2 DEF Promoted
<1>8. ListsOf(status, mode, holder, obj, holders, waiters, heldby)'
  <2>1. \A i \in LockIds : status'[i] = "FREE" <=> st[i] = "FREE"
    BY <1>5, <1>6
  <2>2. \A i \in LockIds, x \in Objs :
          /\ i \in Members(holders'[x]) <=>
               obj'[i] = x /\ status'[i] \in {"HELD", "PENDING"}
          /\ i \in Members(waiters'[x]) <=>
               obj'[i] = x /\ status'[i] \in {"WAITING", "EXPIRED"}
    <3> SUFFICES ASSUME NEW i \in LockIds, NEW x \in Objs
                 PROVE  /\ i \in Members(holders'[x]) <=>
                             obj'[i] = x /\ status'[i] \in {"HELD", "PENDING"}
                        /\ i \in Members(waiters'[x]) <=>
                             obj'[i] = x /\ status'[i] \in {"WAITING", "EXPIRED"}
      OBVIOUS
    <3>1. /\ i \in Members(hss[x]) <=> obj'[i] = x /\ st[i] \in {"HELD", "PENDING"}
          /\ i \in Members(wss[x]) <=> obj'[i] = x /\ st[i] \in {"WAITING", "EXPIRED"}
      BY <1>3 DEF ListsOf, LockAt
    <3>2. CASE i \in P
      BY <1>5, <1>6, <1>7, <3>1, <3>2
    <3>3. CASE i \notin P
      BY <1>6, <1>7, <3>1, <3>3
    <3> QED BY <3>2, <3>3
  <2> QED BY <1>3, <2>1, <2>2 DEF ListsOf, LockAt
<1>9. SleepersOf(status, holder, obj, thr, req)'
  BY <1>5, <1>6 DEF SleepersOf
<1>10. WakeupOf(status, mtx, thr, req)'
  <2> SUFFICES ASSUME NEW l \in Lockers
               PROVE  mtx'[l] = "unlocked" <=>
                        /\ thr'[l] = "sleep"
                        /\ status'[req'[l].lk] \in {"PENDING", "ABORTED", "EXPIRED"}
    BY DEF WakeupOf
  <2>1. mtx'[l] = IF \E i \in P : hd[i] = l THEN "unlocked" ELSE mx[l]
    BY <1>1 DEF Promoted, Woken
  <2>2. CASE \E i \in P : hd[i] = l
    <3>1. PICK i \in P : hd[i] = l
      BY <2>2
    <3>2. thr'[l] = "sleep" /\ req'[l].lk = i
      BY <1>5, <3>1 DEF SleepersOf
    <3> QED BY <1>5, <1>6, <2>1, <2>2, <3>2
  <2>3. CASE ~ \E i \in P : hd[i] = l
    <3>1. thr'[l] = "sleep" => req'[l].lk \in LockIds /\ req'[l].lk \notin P
      BY <1>5, <2>3 DEF SleepersOf
    <3>2. thr'[l] = "sleep" => status'[req'[l].lk] = st[req'[l].lk]
      BY <1>6, <3>1
    <3> QED BY <2>1, <2>3, <3>2 DEF WakeupOf
  <2> QED BY <2>2, <2>3
<1>11. DdObjsOf(ddObjs, waiters)'
  <2>1. ddObjs' = IF Members(ws) # {} /\ Members(ws) \subseteq P THEN dd \ {o} ELSE dd
    BY <1>1 DEF Promoted
  <2> QED BY <1>2, <1>3, <1>7, <2>1 DEF DdObjsOf
<1>12. CompatibleOf(mode, holder, holders)'
  <2> SUFFICES ASSUME NEW x \in Objs,
                      NEW i \in Members(holders'[x]), NEW j \in Members(holders'[x]),
                      holder'[i] # holder'[j], Unrelated(holder'[i], holder'[j])
               PROVE  ~ConflictsWith(mode'[i], mode'[j])
    BY DEF CompatibleOf
  <2>1. CASE i \in Members(hss[x]) /\ j \in Members(hss[x])
    BY <1>3, <2>1 DEF CompatibleOf
  <2>2. CASE i \notin Members(hss[x]) \/ j \notin Members(hss[x])
    <3>1. x = o /\ hss[x] = hs /\ i \in Members(hs) \cup P /\ j \in Members(hs) \cup P
          /\ (i \in P \/ j \in P)
      BY <1>2, <1>7, <2>2
    <3>2. /\ i \in LockIds /\ mode'[i] \in Modes /\ mode'[i] = md[i] /\ holder'[i] = hd[i]
          /\ j \in LockIds /\ mode'[j] \in Modes /\ mode'[j] = md[j] /\ holder'[j] = hd[j]
      <4>1. \A k \in Members(hs) : mode'[k] \in Modes
        BY <1>2, <1>3, <1>4 DEF ListsOf, LockAt
      <4> QED BY <1>4, <1>5, <3>1, <4>1
    <3>3. ConflictsWith(mode'[i], mode'[j]) <=> ConflictsWith(mode'[j], mode'[i])
      BY <3>2, ModeAssumption DEF ConflictsWith
    <3>4. i # j /\ ~SameFamily(hd[i], hd[j]) /\ ~SameFamily(hd[j], hd[i])
      BY <3>2 DEF Unrelated
    <3>5. CASE i \in P /\ j \in P
      <4>1. ~BlockedBy(i, {j}, md, hd) \/ ~BlockedBy(j, {i}, md, hd)
        BY <1>1, <3>4, <3>5 DEF Promoted
      <4> QED BY <3>2, <3>3, <3>4, <4>1 DEF BlockedBy
    <3>6. CASE i \in P /\ j \in Members(hs)
      <4>1. ~BlockedBy(i, Members(hs), md, hd)
        BY <1>1, <3>6 DEF Promoted
      <4> QED BY <3>2, <3>3, <3>4, <3>6, <4>1 DEF BlockedBy
    <3>7. CASE j \in P /\ i \in Members(hs)
      <4>1. ~BlockedBy(j, Members(hs), md, hd)
        BY <1>1, <3>7 DEF Promoted
      <4> QED BY <3>2, <3>3, <3>4, <3>7, <4>1 DEF BlockedBy
    <3> QED BY <3>1, <3>5, <3>6, <3>7
  <2> QED BY <2>1, <2>2
<1>13. IsListArray(holders, Objs, LockIds)' /\ IsListArray(waiters, Objs, LockIds)'
  BY <1>1 DEF Promoted
<1> QED BY <1>8, <1>9, <1>10, <1>11, <1>12, <1>13
-----------------------------------------------------------------------------
(* Steps that only move a thread on.                                       *)

\* A locker that is not asleep holds every lock on its list.
LEMMA HeldLock ==
    ASSUME IInv, NEW l \in Lockers, thr[l] # "sleep", NEW i \in Members(heldby[l])
    PROVE  /\ i \in LockIds /\ status[i] = "HELD" /\ holder[i] = l
           /\ obj[i] \in Objs /\ mode[i] \in Modes
           /\ i \in Members(holders[obj[i]])
           /\ \A x \in Objs : i \notin Members(waiters[x])
           /\ \A x \in Objs \ {obj[i]} : i \notin Members(holders[x])
           /\ \A k \in Lockers \ {l} : i \notin Members(heldby[k])
<1>1. i \in LockIds
  BY DEF IInv, TypeOK, IsListArray, IsList
<1>2. holder[i] = l /\ status[i] # "FREE"
  BY <1>1 DEF IInv, ListsOf, LockAt
<1>3. status[i] = "HELD"
  BY <1>1, <1>2 DEF IInv, SleepersOf
<1> QED BY <1>1, <1>2, <1>3 DEF IInv, ListsOf, LockAt

\* The steps that only move a thread on keep the invariant.
LEMMA ThreadStep ==
    ASSUME IInv, NEW l \in Lockers, thr[l] # "sleep",
           NEW v \in ThrStates \ {"sleep"}, v = "inherit" => Parent[l] # NoLocker,
           thr' = [thr EXCEPT ![l] = v],
           UNCHANGED <<lockVars, objVars, needDD, heldby, mtx, req>>,
           nlocks' \in [Lockers -> Int], nwrites' \in [Lockers -> Int],
           dirty' \in [Lockers -> BOOLEAN], inabort' \in [Lockers -> BOOLEAN]
    PROVE  IInv'
<1> USE DEF IInv, lockVars, objVars
<1>1. TypeOK'
  BY DEF TypeOK
<1>2. \A k \in Lockers : (thr'[k] = "sleep" <=> thr[k] = "sleep") /\ req'[k] = req[k]
  BY DEF TypeOK
<1>3. ListsOf(status, mode, holder, obj, holders, waiters, heldby)'
  BY DEF ListsOf, LockAt
<1>4. SleepersOf(status, holder, obj, thr, req)'
  BY <1>2 DEF SleepersOf, ListsOf, LockAt
<1>5. WakeupOf(status, mtx, thr, req)'
  BY <1>2 DEF WakeupOf
<1>6. DdObjsOf(ddObjs, waiters)'
  BY DEF DdObjsOf
<1>7. CompatibleOf(mode, holder, holders)'
  BY DEF CompatibleOf
<1>8. HeirOf(thr)'
  BY DEF HeirOf, TypeOK
<1> QED BY <1>1, <1>3, <1>4, <1>5, <1>6, <1>7, <1>8

\* The actions that are such a step.
LEMMA ThreadActions ==
    ASSUME IInv, NEW l \in Lockers,
           \/ Begin(l) \/ Commit(l) \/ Abort(l) \/ ReadReleased(l)
           \/ WritesUpgraded(l) \/ Undone(l) \/ End(l)
    PROVE  IInv'
<1> USE DEF lockVars, objVars, lockerVars, ThrStates, Idle
<1> TypeOK
  BY DEF IInv
<1>1. CASE Begin(l)
  <2>1. thr[l] = "none" /\ thr' = [thr EXCEPT ![l] = "idle"]
        /\ UNCHANGED <<lockVars, objVars, needDD, heldby, mtx, req>>
    BY <1>1 DEF Begin
  <2>2. /\ nlocks' \in [Lockers -> Int] /\ nwrites' \in [Lockers -> Int]
        /\ dirty' \in [Lockers -> BOOLEAN] /\ inabort' \in [Lockers -> BOOLEAN]
    BY <1>1 DEF Begin, TypeOK
  <2> QED BY <2>1, <2>2, ThreadStep
<1>2. CASE Commit(l)
  <2>1. PICK v \in {"putread", "putall", "inherit"} :
          thr' = [thr EXCEPT ![l] = v] /\ (v = "inherit" => Parent[l] # NoLocker)
    <3>1. CASE Parent[l] = NoLocker
      BY <1>2, <3>1, IdAssumption, FamilyAssumption DEF Commit
    <3>2. CASE Parent[l] # NoLocker /\ Parent[l] \in FamilyRoots
      BY <1>2, <3>2 DEF Commit
    <3>3. CASE Parent[l] # NoLocker /\ Parent[l] \notin FamilyRoots
      BY <1>2, <3>3 DEF Commit
    <3> QED BY <3>1, <3>2, <3>3
  <2> QED BY <1>2, <2>1, ThreadStep DEF Commit, TypeOK
<1>3. CASE Abort(l)
  <2>1. PICK v \in {"upwrite", "putall"} : thr' = [thr EXCEPT ![l] = v]
    BY <1>3 DEF Abort
  <2> QED BY <1>3, <2>1, ThreadStep DEF Abort, TypeOK
<1>4. CASE ReadReleased(l)
  <2>1. PICK v \in {"putall", "upgrade", "undo"} : thr' = [thr EXCEPT ![l] = v]
    BY <1>4 DEF ReadReleased
  <2> QED BY <1>4, <2>1, ThreadStep DEF ReadReleased, TypeOK
<1>5. CASE WritesUpgraded(l)
  BY <1>5, ThreadStep DEF WritesUpgraded, TypeOK
<1>6. CASE Undone(l)
  BY <1>6, ThreadStep DEF Undone, TypeOK
<1>7. CASE End(l)
  BY <1>7, ThreadStep DEF End, TypeOK
<1> QED BY <1>1, <1>2, <1>3, <1>4, <1>5, <1>6, <1>7

-----------------------------------------------------------------------------
(* Steps that change one lock.                                             *)

\* Lock j has the same fields and is on the same lists as before.
SameLists(j, st, md, hd, ob, hss, wss, hb, st2, md2, hd2, ob2, hss2, wss2, hb2) ==
    /\ st2[j] = st[j] /\ md2[j] = md[j] /\ hd2[j] = hd[j] /\ ob2[j] = ob[j]
    /\ \A o \in Objs : j \in Members(hss2[o]) <=> j \in Members(hss[o])
    /\ \A o \in Objs : j \in Members(wss2[o]) <=> j \in Members(wss[o])
    /\ \A l \in Lockers : j \in Members(hb2[l]) <=> j \in Members(hb[l])

\* A lock with the same fields, on the same lists, is still where it has to be.
LEMMA ListsChange ==
    ASSUME NEW st, NEW md, NEW hd, NEW ob, NEW hss, NEW wss, NEW hb,
           NEW st2, NEW md2, NEW hd2, NEW ob2, NEW hss2, NEW wss2, NEW hb2,
           NEW i \in LockIds,
           ListsOf(st, md, hd, ob, hss, wss, hb),
           LockAt(i, st2, md2, hd2, ob2, hss2, wss2, hb2),
           \A j \in LockIds \ {i} : SameLists(j, st, md, hd, ob, hss, wss, hb,
                                             st2, md2, hd2, ob2, hss2, wss2, hb2)
    PROVE  ListsOf(st2, md2, hd2, ob2, hss2, wss2, hb2)
<1> SUFFICES ASSUME NEW j \in LockIds, j # i
             PROVE  LockAt(j, st2, md2, hd2, ob2, hss2, wss2, hb2)
  BY DEF ListsOf
<1>1. LockAt(j, st, md, hd, ob, hss, wss, hb)
  BY DEF ListsOf
<1>2. SameLists(j, st, md, hd, ob, hss, wss, hb, st2, md2, hd2, ob2, hss2, wss2, hb2)
  OBVIOUS
<1> QED BY <1>1, <1>2 DEF LockAt, SameLists

-----------------------------------------------------------------------------
(* Requests.                                                               *)

\* A request with no conflicting holder can be granted beside the granted
\* locks of other families.
LEMMA NoConflict ==
    ASSUME IInv, NEW l \in Lockers, NEW o \in Objs, NEW m \in Modes,
           ~HolderConflict(l, o, m), NEW j \in Members(holders[o]),
           holder[j] # l, Unrelated(l, holder[j]) \/ Unrelated(holder[j], l)
    PROVE  ~ConflictsWith(mode[j], m) /\ ~ConflictsWith(m, mode[j])
<1>1. j \in LockIds
  BY DEF IInv, TypeOK, IsListArray, IsList
<1>2. mode[j] \in Modes
  BY <1>1 DEF IInv, ListsOf, LockAt
<1>3. ~ConflictsWith(mode[j], m)
  BY DEF HolderConflict, Conflicting, Unrelated
<1> QED BY <1>2, <1>3, ModeAssumption DEF ConflictsWith

\* A request granted at once keeps the invariant.
LEMMA GrantedStep ==
    ASSUME IInv, NEW l \in Lockers, NEW o \in Objs, NEW m \in Modes,
           GetGranted(l, o, m)
    PROVE  IInv'
<1>1. PICK i \in FreeLocks :
        /\ Allocate(i, l, o, m, "HELD")
        /\ holders' = [holders EXCEPT ![o] = InsertTail(holders[o], i)]
  BY DEF GetGranted
<1>2. i \in LockIds /\ status[i] = "FREE" /\ IsFiniteSet(LockIds)
  BY IdAssumption DEF FreeLocks
<1>3. /\ UNCHANGED <<waiters, ddObjs, needDD, inabort, mtx, thr, req>>
      /\ ~HolderConflict(l, o, m)
      /\ thr[l] = "idle"
      /\ nlocks' = [nlocks EXCEPT ![l] = @ + 1]
      /\ nwrites' = [nwrites EXCEPT ![l] = @ + IsWrite(m)]
      /\ dirty' = [dirty EXCEPT ![l] = @ \/ m = "WW"]
  BY DEF GetGranted, QueueAction, thrVars, NewRequest, MayRequest, Idle, Count
<1>4. TypeOK
  BY DEF IInv
<1>5. /\ \A x \in Objs : IsList(holders[x], LockIds) /\ IsList(waiters[x], LockIds)
      /\ \A k \in Lockers : IsList(heldby[k], LockIds)
  BY <1>4 DEF TypeOK, IsListArray
<1>6. /\ IsList(InsertTail(holders[o], i), LockIds)
      /\ Members(InsertTail(holders[o], i)) = Members(holders[o]) \cup {i}
      /\ IsList(InsertHead(heldby[l], i), LockIds)
      /\ Members(InsertHead(heldby[l], i)) = Members(heldby[l]) \cup {i}
  BY <1>2, <1>5, InsertTailType, InsertHeadType
<1>7. TypeOK'
  <2>1. IsListArray(holders', Objs, LockIds) /\ IsListArray(heldby', Lockers, LockIds)
    BY <1>1, <1>4, <1>6 DEF TypeOK, IsListArray, Allocate
  <2>2. nlocks' \in [Lockers -> Int] /\ nwrites' \in [Lockers -> Int]
        /\ dirty' \in [Lockers -> BOOLEAN]
    BY <1>3, <1>4 DEF TypeOK, IsWrite
  <2>3. /\ status' \in [LockIds -> Statuses] /\ mode' \in [LockIds -> Modes \cup {"N"}]
        /\ holder' \in [LockIds -> Lockers \cup {NoLocker}]
        /\ obj' \in [LockIds -> Objs \cup {NoObj}] /\ refcount' \in [LockIds -> Nat]
    BY <1>1, <1>4 DEF TypeOK, Allocate, Statuses
  <2> QED BY <1>3, <1>4, <2>1, <2>2, <2>3 DEF TypeOK
<1>8. \A j \in LockIds :
        /\ status'[j] = IF j = i THEN "HELD" ELSE status[j]
        /\ mode'[j] = IF j = i THEN m ELSE mode[j]
        /\ holder'[j] = IF j = i THEN l ELSE holder[j]
        /\ obj'[j] = IF j = i THEN o ELSE obj[j]
  BY <1>1, <1>4 DEF Allocate, TypeOK
<1>9. /\ \A x \in Objs : \A j : j \in Members(holders'[x]) <=>
           j \in Members(holders[x]) \/ (j = i /\ x = o)
      /\ \A k \in Lockers : \A j : j \in Members(heldby'[k]) <=>
           j \in Members(heldby[k]) \/ (j = i /\ k = l)
  BY <1>1, <1>4, <1>6 DEF Allocate, TypeOK, IsListArray
<1>10. ListsOf(status, mode, holder, obj, holders, waiters, heldby)'
  <2>1. ListsOf(status, mode, holder, obj, holders, waiters, heldby)
    BY DEF IInv
  <2>2. LockAt(i, status', mode', holder', obj', holders', waiters', heldby')
    <3>1. LockAt(i, status, mode, holder, obj, holders, waiters, heldby)
      BY <1>2, <2>1 DEF ListsOf
    <3>2. /\ status'[i] = "HELD" /\ mode'[i] = m /\ holder'[i] = l /\ obj'[i] = o
      BY <1>2, <1>8
    <3>3. /\ \A x \in Objs : i \in Members(holders'[x]) <=> x = o
          /\ \A x \in Objs : i \notin Members(waiters'[x])
          /\ \A k \in Lockers : i \in Members(heldby'[k]) <=> k = l
      BY <1>2, <1>3, <1>9, <3>1 DEF LockAt
    <3> QED BY <3>2, <3>3 DEF LockAt
  <2>3. \A j \in LockIds \ {i} : SameLists(j, status, mode, holder, obj, holders,
            waiters, heldby, status', mode', holder', obj', holders', waiters', heldby')
    BY <1>3, <1>8, <1>9 DEF SameLists
  <2>4. ListsOf(status', mode', holder', obj', holders', waiters', heldby')
    BY <1>2, <2>1, <2>2, <2>3, ListsChange
  <2> QED BY <2>4
<1>11. SleepersOf(status, holder, obj, thr, req)'
  BY <1>2, <1>3, <1>8 DEF IInv, SleepersOf
<1>12. WakeupOf(status, mtx, thr, req)'
  BY <1>2, <1>3, <1>8 DEF IInv, WakeupOf, SleepersOf
<1>13. DdObjsOf(ddObjs, waiters)'
  BY <1>3 DEF IInv, DdObjsOf
<1>14. CompatibleOf(mode, holder, holders)'
  <2> SUFFICES ASSUME NEW x \in Objs,
                      NEW a \in Members(holders'[x]), NEW b \in Members(holders'[x]),
                      holder'[a] # holder'[b], Unrelated(holder'[a], holder'[b])
               PROVE  ~ConflictsWith(mode'[a], mode'[b])
    BY DEF CompatibleOf
  <2>1. a \in LockIds /\ b \in LockIds /\ (a # i => a \in Members(holders[x]))
        /\ (b # i => b \in Members(holders[x])) /\ (a = i \/ b = i => x = o)
    <3>1. Members(holders[x]) \subseteq LockIds
      BY <1>5 DEF IsList
    <3> QED BY <1>2, <1>9, <3>1 DEF IInv, ListsOf, LockAt
  <2>2. CASE a # i /\ b # i
    BY <1>8, <2>1, <2>2 DEF IInv, CompatibleOf
  <2>3. CASE a = i \/ b = i
    BY <1>3, <1>8, <2>1, <2>3, NoConflict
  <2> QED BY <2>2, <2>3
<1>15. HeirOf(thr)'
  BY <1>3 DEF IInv, HeirOf
<1> QED BY <1>7, <1>10, <1>11, <1>12, <1>13, <1>14, <1>15 DEF IInv
\* A request that waits: the new lock joins the queue and its locker sleeps.
LEMMA EnqueueStep ==
    ASSUME IInv, NEW l \in Lockers, NEW o \in Objs, NEW m \in Modes,
           thr[l] # "sleep", NEW i \in FreeLocks,
           NEW action \in {"HEAD", "SECOND", "TAIL"},
           NEW u, u # NoLock => u \in Members(heldby[l]) /\ obj[u] = o,
           NEW back \in {"idle", "upgrade"},
           Enqueue(i, l, o, m, action, u, back),
           inabort' \in [Lockers -> BOOLEAN]
    PROVE  IInv'
<1>1. /\ Allocate(i, l, o, m, "WAITING")
      /\ waiters' = [waiters EXCEPT ![o] = Enqueued(waiters[o], i, action)]
      /\ ddObjs' = ddObjs \cup {o} /\ needDD' = TRUE
      /\ thr' = [thr EXCEPT ![l] = "sleep"]
      /\ req' = [req EXCEPT ![l] = [lk |-> i, upg |-> u, back |-> back]]
      /\ UNCHANGED <<holders, nlocks, nwrites, dirty, mtx>>
  BY DEF Enqueue
<1>2. i \in LockIds /\ status[i] = "FREE" /\ IsFiniteSet(LockIds)
  BY IdAssumption DEF FreeLocks
<1>3. TypeOK /\ ListsOf(status, mode, holder, obj, holders, waiters, heldby)
  BY DEF IInv
<1>4. /\ \A x \in Objs : IsList(holders[x], LockIds) /\ IsList(waiters[x], LockIds)
      /\ \A k \in Lockers : IsList(heldby[k], LockIds)
  BY <1>3 DEF TypeOK, IsListArray
<1>5. /\ IsList(Enqueued(waiters[o], i, action), LockIds)
      /\ Members(Enqueued(waiters[o], i, action)) = Members(waiters[o]) \cup {i}
  <2>1. CASE action = "HEAD"
    BY <1>2, <1>4, <2>1, InsertHeadType DEF Enqueued
  <2>2. CASE action = "SECOND"
    BY <1>2, <1>4, <2>2, InsertSecondType DEF Enqueued
  <2>3. CASE action = "TAIL"
    BY <1>2, <1>4, <2>3, InsertTailType DEF Enqueued
  <2> QED BY <2>1, <2>2, <2>3
<1>6. /\ IsList(InsertHead(heldby[l], i), LockIds)
      /\ Members(InsertHead(heldby[l], i)) = Members(heldby[l]) \cup {i}
  BY <1>2, <1>4, InsertHeadType
<1>7. u # NoLock => /\ u \in LockIds /\ u # i /\ status[u] = "HELD"
                    /\ holder[u] = l /\ obj[u] = o
  BY <1>2, HeldLock
<1>8. TypeOK'
  <2>1. IsListArray(waiters', Objs, LockIds) /\ IsListArray(heldby', Lockers, LockIds)
    BY <1>1, <1>3, <1>5, <1>6 DEF TypeOK, IsListArray, Allocate
  <2>2. thr' \in [Lockers -> ThrStates] /\ req' \in [Lockers -> Reqs]
    BY <1>1, <1>2, <1>3, <1>7 DEF TypeOK, ThrStates, Reqs
  <2>3. /\ status' \in [LockIds -> Statuses] /\ mode' \in [LockIds -> Modes \cup {"N"}]
        /\ holder' \in [LockIds -> Lockers \cup {NoLocker}]
        /\ obj' \in [LockIds -> Objs \cup {NoObj}] /\ refcount' \in [LockIds -> Nat]
    BY <1>1, <1>3 DEF TypeOK, Allocate, Statuses
  <2> QED BY <1>1, <1>3, <2>1, <2>2, <2>3 DEF TypeOK
<1>9. \A j \in LockIds :
        /\ status'[j] = IF j = i THEN "WAITING" ELSE status[j]
        /\ mode'[j] = IF j = i THEN m ELSE mode[j]
        /\ holder'[j] = IF j = i THEN l ELSE holder[j]
        /\ obj'[j] = IF j = i THEN o ELSE obj[j]
  BY <1>1, <1>3 DEF Allocate, TypeOK
<1>10. /\ \A x \in Objs : \A j : j \in Members(waiters'[x]) <=>
            j \in Members(waiters[x]) \/ (j = i /\ x = o)
       /\ \A k \in Lockers : \A j : j \in Members(heldby'[k]) <=>
            j \in Members(heldby[k]) \/ (j = i /\ k = l)
  BY <1>1, <1>3, <1>5, <1>6 DEF Allocate, TypeOK, IsListArray
<1>11. \A k \in Lockers :
         /\ thr'[k] = IF k = l THEN "sleep" ELSE thr[k]
         /\ req'[k] = IF k = l THEN [lk |-> i, upg |-> u, back |-> back] ELSE req[k]
  BY <1>1, <1>3 DEF TypeOK
<1>12. LockAt(i, status, mode, holder, obj, holders, waiters, heldby)
  BY <1>2, <1>3 DEF ListsOf
<1>13. ListsOf(status, mode, holder, obj, holders, waiters, heldby)'
  <2>1. LockAt(i, status', mode', holder', obj', holders', waiters', heldby')
    <3>1. status'[i] = "WAITING" /\ mode'[i] = m /\ holder'[i] = l /\ obj'[i] = o
      BY <1>2, <1>9
    <3>2. /\ \A x \in Objs : i \notin Members(holders'[x])
          /\ \A x \in Objs : i \in Members(waiters'[x]) <=> x = o
          /\ \A k \in Lockers : i \in Members(heldby'[k]) <=> k = l
      BY <1>1, <1>2, <1>10, <1>12 DEF LockAt
    <3> QED BY <3>1, <3>2 DEF LockAt
  <2>2. \A j \in LockIds \ {i} : SameLists(j, status, mode, holder, obj, holders,
            waiters, heldby, status', mode', holder', obj', holders', waiters', heldby')
    BY <1>1, <1>9, <1>10 DEF SameLists
  <2>3. ListsOf(status', mode', holder', obj', holders', waiters', heldby')
    BY <1>2, <1>3, <2>1, <2>2, ListsChange
  <2> QED BY <2>3
<1>14. SleepersOf(status, holder, obj, thr, req)'
  <2>1. SleepersOf(status, holder, obj, thr, req)
    BY DEF IInv
  <2>2. \A j \in LockIds : status'[j] \notin {"FREE", "HELD"} =>
          thr'[holder'[j]] = "sleep" /\ req'[holder'[j]].lk = j
    <3> SUFFICES ASSUME NEW j \in LockIds, status'[j] \notin {"FREE", "HELD"}
                 PROVE  thr'[holder'[j]] = "sleep" /\ req'[holder'[j]].lk = j
      OBVIOUS
    <3>1. CASE j = i
      BY <1>9, <1>11, <3>1
    <3>2. CASE j # i
      <4>1. holder[j] \in Lockers /\ thr[holder[j]] = "sleep"
        BY <1>3, <1>9, <2>1, <3>2 DEF SleepersOf, ListsOf, LockAt
      <4> QED BY <1>9, <1>11, <2>1, <3>2, <4>1 DEF SleepersOf
    <3> QED BY <3>1, <3>2
  <2>3. ASSUME NEW k \in Lockers, thr'[k] = "sleep"
        PROVE  /\ req'[k].lk \in LockIds
               /\ holder'[req'[k].lk] = k
               /\ status'[req'[k].lk] \notin {"FREE", "HELD"}
               /\ req'[k].upg # NoLock =>
                    /\ req'[k].upg \in LockIds
                    /\ holder'[req'[k].upg] = k
                    /\ status'[req'[k].upg] = "HELD"
                    /\ obj'[req'[k].upg] = obj'[req'[k].lk]
    <3>1. CASE k = l
      BY <1>2, <1>7, <1>9, <1>11, <3>1
    <3>2. CASE k # l
      BY <1>2, <1>9, <1>11, <2>1, <2>3, <3>2 DEF SleepersOf
    <3> QED BY <3>1, <3>2
  <2> QED BY <2>2, <2>3 DEF SleepersOf
<1>15. WakeupOf(status, mtx, thr, req)'
  <2> SUFFICES ASSUME NEW k \in Lockers
               PROVE  mtx'[k] = "unlocked" <=>
                        /\ thr'[k] = "sleep"
                        /\ status'[req'[k].lk] \in {"PENDING", "ABORTED", "EXPIRED"}
    BY DEF WakeupOf
  <2>1. mtx'[k] = mtx[k] /\ (mtx[k] = "unlocked" <=>
          thr[k] = "sleep" /\ status[req[k].lk] \in {"PENDING", "ABORTED", "EXPIRED"})
    BY <1>1 DEF IInv, WakeupOf
  <2>2. CASE k = l
    BY <1>2, <1>9, <1>11, <2>1, <2>2
  <2>3. CASE k # l
    <3>1. thr[k] = "sleep" => req[k].lk \in LockIds /\ req[k].lk # i
      BY <1>2 DEF IInv, SleepersOf
    <3> QED BY <1>9, <1>11, <2>1, <2>3, <3>1
  <2> QED BY <2>2, <2>3
<1>16. DdObjsOf(ddObjs, waiters)'
  BY <1>1, <1>10 DEF IInv, DdObjsOf
<1>17. CompatibleOf(mode, holder, holders)'
  <2>1. \A x \in Objs : \A j \in Members(holders[x]) : j \in LockIds /\ j # i
    BY <1>4, <1>2, <1>12 DEF IsList, LockAt
  <2> QED BY <1>1, <1>9, <2>1 DEF IInv, CompatibleOf
<1>18. HeirOf(thr)'
  BY <1>11 DEF IInv, HeirOf
<1> QED BY <1>8, <1>13, <1>14, <1>15, <1>16, <1>17, <1>18 DEF IInv

\* A request that has to wait keeps the invariant.
LEMMA WaitsStep ==
    ASSUME IInv, NEW l \in Lockers, NEW o \in Objs, NEW m \in Modes,
           GetWaits(l, o, m)
    PROVE  IInv'
<1>1. PICK i \in FreeLocks : Enqueue(i, l, o, m, QueueAction(l, o, m), NoLock, "idle")
  BY DEF GetWaits
<1>2. QueueAction(l, o, m) \in {"HEAD", "SECOND", "TAIL"}
  BY DEF GetWaits, QueueAction
<1>3. thr[l] # "sleep" /\ inabort' \in [Lockers -> BOOLEAN]
  BY DEF GetWaits, NewRequest, MayRequest, Idle, IInv, TypeOK
<1> QED BY <1>1, <1>2, <1>3, EnqueueStep

\* The references to a lock are no part of the conjuncts but the type.
LEMMA ReferenceStep ==
    ASSUME IInv, refcount' \in [LockIds -> Nat],
           UNCHANGED <<status, mode, holder, obj, objVars, needDD, lockerVars,
                       mtx, thrVars>>
    PROVE  IInv'
<1> USE DEF objVars, lockerVars, thrVars
<1>1. TypeOK'
  BY DEF IInv, TypeOK
<1>2. /\ ListsOf(status, mode, holder, obj, holders, waiters, heldby)'
      /\ SleepersOf(status, holder, obj, thr, req)'
      /\ WakeupOf(status, mtx, thr, req)'
      /\ DdObjsOf(ddObjs, waiters)'
      /\ CompatibleOf(mode, holder, holders)'
      /\ HeirOf(thr)'
  BY DEF IInv
<1> QED BY <1>1, <1>2 DEF IInv

\* Taking and giving back a reference change no lock.
LEMMA ReferenceActions ==
    ASSUME IInv, NEW l \in Lockers,
           \/ \E o \in Objs, m \in Modes : GetAgain(l, o, m)
           \/ \E i \in LockIds : PutReference(l, i)
    PROVE  IInv'
<1>1. CASE \E o \in Objs, m \in Modes : GetAgain(l, o, m)
  <2>1. refcount' \in [LockIds -> Nat]
    <3>1. PICK i : refcount' = [refcount EXCEPT ![i] = @ + 1]
      BY <1>1 DEF GetAgain
    <3>2. refcount \in [LockIds -> Nat]
      BY DEF IInv, TypeOK
    <3>3. CASE i \in LockIds
      BY <3>1, <3>2, <3>3
    <3>4. CASE i \notin LockIds
      <4>1. refcount' = refcount
        BY <3>1, <3>2, <3>4
      <4> QED BY <3>2, <4>1
    <3> QED BY <3>3, <3>4
  <2> QED BY <1>1, <2>1, ReferenceStep DEF GetAgain
<1>2. CASE \E i \in LockIds : PutReference(l, i)
  <2>1. refcount' \in [LockIds -> Nat]
    BY <1>2 DEF PutReference, IInv, TypeOK
  <2> QED BY <1>2, <2>1, ReferenceStep DEF PutReference
<1> QED BY <1>1, <1>2

\* Upgrading lock u at once: no holder of another family conflicts, or the
\* locker already has a lock of the wanted mode.
LEMMA UpgradeNowStep ==
    ASSUME IInv, NEW l \in Lockers, thr[l] # "sleep", NEW u \in Members(heldby[l]),
           NEW m \in Modes, UpgradeNow(l, u, m), UNCHANGED thr,
           inabort' \in [Lockers -> BOOLEAN]
    PROVE  IInv'
<1> USE DEF UpgradeNow, objVars
<1>1. /\ u \in LockIds /\ status[u] = "HELD" /\ holder[u] = l /\ obj[u] \in Objs
      /\ u \in Members(holders[obj[u]])
      /\ \A x \in Objs \ {obj[u]} : u \notin Members(holders[x])
  BY HeldLock
<1>2. TypeOK'
  <2>1. nwrites' \in [Lockers -> Int]
    <3>1. IsWrite(m) \in Int
      BY DEF IsWrite
    <3> QED BY <3>1 DEF IInv, TypeOK
  <2>2. mode' \in [LockIds -> Modes \cup {"N"}]
    BY DEF IInv, TypeOK
  <2> QED BY <2>1, <2>2 DEF IInv, TypeOK
<1>3. \A j \in LockIds : mode'[j] = IF j = u THEN m ELSE mode[j]
  BY DEF IInv, TypeOK
<1>4. ListsOf(status, mode, holder, obj, holders, waiters, heldby)'
  BY <1>3 DEF IInv, ListsOf, LockAt
<1>5. /\ SleepersOf(status, holder, obj, thr, req)'
      /\ WakeupOf(status, mtx, thr, req)'
      /\ DdObjsOf(ddObjs, waiters)'
      /\ HeirOf(thr)'
  BY DEF IInv
<1>6. CompatibleOf(mode, holder, holders)'
  <2> SUFFICES ASSUME NEW x \in Objs,
                      NEW a \in Members(holders[x]), NEW b \in Members(holders[x]),
                      holder[a] # holder[b], Unrelated(holder[a], holder[b])
               PROVE  ~ConflictsWith(mode'[a], mode'[b])
    BY DEF CompatibleOf
  <2>1. a \in LockIds /\ b \in LockIds
    BY DEF IInv, TypeOK, IsListArray, IsList
  <2>2. ASSUME NEW j \in Members(holders[obj[u]]), holder[j] # l,
               Unrelated(l, holder[j]) \/ Unrelated(holder[j], l)
        PROVE  ~ConflictsWith(mode[j], m) /\ ~ConflictsWith(m, mode[j])
    <3>1. CASE ~HolderConflict(l, obj[u], m)
      BY <1>1, <2>2, <3>1, NoConflict
    <3>2. CASE SameHeld(l, obj[u], m) # {}
      <4>1. PICK i \in Members(holders[obj[u]]) : holder[i] = l /\ mode[i] = m
        BY <3>2 DEF SameHeld, Scanned
      <4> QED BY <1>1, <2>2, <4>1 DEF IInv, CompatibleOf, Unrelated
    <3> QED BY <3>1, <3>2
  <2>3. CASE a # u /\ b # u
    BY <1>3, <2>1, <2>3 DEF IInv, CompatibleOf
  <2>4. CASE a = u \/ b = u
    BY <1>1, <1>3, <2>1, <2>2, <2>4
  <2> QED BY <2>3, <2>4
<1> QED BY <1>2, <1>4, <1>5, <1>6 DEF IInv

\* An upgrade, made at once or waited for, keeps the invariant.
LEMMA UpgradeActions ==
    ASSUME IInv, NEW l \in Lockers,
           \/ \E i \in LockIds, m \in Modes : Upgrade(l, i, m)
           \/ UpgradeWrite(l)
    PROVE  IInv'
<1>1. CASE \E i \in LockIds, m \in Modes : Upgrade(l, i, m)
  <2>1. PICK u \in LockIds, m \in Modes : Upgrade(l, u, m)
    BY <1>1
  <2>2. /\ thr[l] # "sleep" /\ u \in Members(heldby[l]) /\ obj[u] \in Objs
        /\ inabort' \in [Lockers -> BOOLEAN]
    BY <2>1, HeldLock DEF Upgrade, Idle, IInv, TypeOK
  <2>3. CASE UpgradeNow(l, u, m) /\ UNCHANGED thr
    BY <2>2, <2>3, UpgradeNowStep
  <2>4. CASE UpgradeWaits(l, u, m, "idle")
    <3>1. PICK i \in FreeLocks : Enqueue(i, l, obj[u], m, "HEAD", u, "idle")
      BY <2>4 DEF UpgradeWaits
    <3> QED BY <2>2, <3>1, EnqueueStep
  <2> QED BY <2>1, <2>3, <2>4 DEF Upgrade
<1>2. CASE UpgradeWrite(l)
  <2> DEFINE u == FirstIn(heldby[l], WasWriteLocks(l))
  <2>1. u \in WasWriteLocks(l)
    <3>1. IsList(heldby[l], LockIds) /\ WasWriteLocks(l) \subseteq Members(heldby[l])
      BY DEF IInv, TypeOK, IsListArray, WasWriteLocks
    <3> QED BY <1>2, <3>1, FirstInMember DEF UpgradeWrite
  <2>2. /\ thr[l] # "sleep" /\ u \in Members(heldby[l]) /\ obj[u] \in Objs
        /\ "W" \in Modes /\ inabort' \in [Lockers -> BOOLEAN]
    <3>1. thr[l] = "upgrade" /\ inabort' = [inabort EXCEPT ![l] = TRUE]
      BY <1>2 DEF UpgradeWrite
    <3>2. u \in Members(heldby[l]) /\ mode[u] = "WW"
      BY <2>1 DEF WasWriteLocks
    <3>3. obj[u] \in Objs /\ "WW" \in Modes
      BY <3>1, <3>2, HeldLock
    <3> QED BY <3>1, <3>2, <3>3, ModeAssumption DEF IInv, TypeOK
  <2>3. (UpgradeNow(l, u, "W") /\ UNCHANGED thr) \/ UpgradeWaits(l, u, "W", "upgrade")
    BY <1>2 DEF UpgradeWrite
  <2> HIDE DEF u
  <2>4. CASE UpgradeNow(l, u, "W") /\ UNCHANGED thr
    BY <2>2, <2>4, UpgradeNowStep
  <2>5. CASE UpgradeWaits(l, u, "W", "upgrade")
    <3>1. PICK i \in FreeLocks : Enqueue(i, l, obj[u], "W", "HEAD", u, "upgrade")
      BY <2>5 DEF UpgradeWaits
    <3> QED BY <2>2, <3>1, EnqueueStep
  <2> QED BY <2>3, <2>4, <2>5
<1> QED BY <1>1, <1>2
-----------------------------------------------------------------------------
(* Steps that release, downgrade or hand on a lock.                        *)

\* The lists and their types as the list theorems need them.
LEMMA ListTypes ==
    ASSUME TypeOK
    PROVE  /\ IsFiniteSet(LockIds)
           /\ \A x \in Objs : IsList(holders[x], LockIds) /\ IsList(waiters[x], LockIds)
           /\ \A k \in Lockers : IsList(heldby[k], LockIds)
           /\ \A x \in Objs : Members(holders[x]) \subseteq LockIds
           /\ \A x \in Objs : Members(waiters[x]) \subseteq LockIds
           /\ IsListArray(holders, Objs, LockIds) /\ IsListArray(waiters, Objs, LockIds)
           /\ IsListArray(heldby, Lockers, LockIds)
BY IdAssumption DEF TypeOK, IsListArray, IsList

\* The type of the variables a promotion changes.
LEMMA PromoteType ==
    ASSUME NEW o, NEW st \in [LockIds -> Statuses], NEW md, NEW hd, NEW hs, NEW ws,
           NEW mx \in [Lockers -> {"locked", "unlocked"}], NEW dd \in SUBSET Objs,
           Promote(o, st, md, hd, hs, ws, mx, dd)
    PROVE  /\ status' \in [LockIds -> Statuses]
           /\ mtx' \in [Lockers -> {"locked", "unlocked"}]
           /\ ddObjs' \subseteq Objs
BY DEF Promote, Woken, Unqueued, Statuses

\* Lock i leaves the lists and is recycled, and its object is promoted on.
Frees(l, i) ==
    /\ Promote(obj[i], [status EXCEPT ![i] = "FREE"], mode, holder,
               RemoveAll(holders[obj[i]], {i}), waiters[obj[i]], mtx, ddObjs)
    /\ mode' = [mode EXCEPT ![i] = "N"]
    /\ holder' = [holder EXCEPT ![i] = NoLocker]
    /\ obj' = [obj EXCEPT ![i] = NoObj]
    /\ heldby' = [heldby EXCEPT ![l] = RemoveAll(heldby[l], {i})]
    /\ refcount' \in [LockIds -> Nat] /\ needDD' \in BOOLEAN
    /\ nlocks' \in [Lockers -> Int] /\ nwrites' \in [Lockers -> Int]
    /\ UNCHANGED <<dirty, inabort, thr, req>>

\* The lock a locker releases becomes free, and its waiters are promoted.
LEMMA FreeStep ==
    ASSUME IInv, NEW l \in Lockers, thr[l] # "sleep", NEW i \in Members(heldby[l]),
           Frees(l, i)
    PROVE  IInv'
<1> DEFINE o == obj[i]
           st == [status EXCEPT ![i] = "FREE"]
           hs == RemoveAll(holders[o], {i})
           ws == waiters[o]
           hss == [holders EXCEPT ![o] = hs]
           wss == [waiters EXCEPT ![o] = ws]
<1>1. /\ i \in LockIds /\ status[i] = "HELD" /\ holder[i] = l /\ o \in Objs
      /\ i \in Members(holders[o])
      /\ \A x \in Objs : i \notin Members(waiters[x])
      /\ \A x \in Objs \ {o} : i \notin Members(holders[x])
      /\ \A k \in Lockers \ {l} : i \notin Members(heldby[k])
  BY HeldLock
<1>2. /\ TypeOK /\ ListsOf(status, mode, holder, obj, holders, waiters, heldby)
      /\ SleepersOf(status, holder, obj, thr, req)
      /\ WakeupOf(status, mtx, thr, req) /\ DdObjsOf(ddObjs, waiters)
      /\ CompatibleOf(mode, holder, holders)
  BY DEF IInv
<1>3. IsList(hs, LockIds) /\ Members(hs) = Members(holders[o]) \ {i} /\ IsList(ws, LockIds)
  BY <1>1, <1>2, ListTypes, RemoveAllType
<1>4. /\ IsList(RemoveAll(heldby[l], {i}), LockIds)
      /\ Members(RemoveAll(heldby[l], {i})) = Members(heldby[l]) \ {i}
  BY <1>2, ListTypes, RemoveAllType
<1>5. \A j \in LockIds :
        /\ st[j] = IF j = i THEN "FREE" ELSE status[j]
        /\ mode'[j] = IF j = i THEN "N" ELSE mode[j]
        /\ holder'[j] = IF j = i THEN NoLocker ELSE holder[j]
        /\ obj'[j] = IF j = i THEN NoObj ELSE obj[j]
  BY <1>2 DEF TypeOK, Frees
<1>6. /\ \A x \in Objs : \A j : j \in Members(hss[x]) <=>
           j \in Members(holders[x]) /\ j # i
      /\ \A x \in Objs : wss[x] = waiters[x]
      /\ \A k \in Lockers : \A j : j \in Members(heldby'[k]) <=>
           j \in Members(heldby[k]) /\ j # i
  BY <1>1, <1>2, <1>3, <1>4, ListTypes DEF IsListArray, Frees
<1>7. /\ Promote(o, st, mode, holder, hss[o], wss[o], mtx, ddObjs)
      /\ hss[o] = hs /\ wss[o] = ws
      /\ \A x \in Objs : x # o => hss[x] = holders[x] /\ wss[x] = waiters[x]
      /\ IsListArray(hss, Objs, LockIds) /\ IsListArray(wss, Objs, LockIds)
  BY <1>1, <1>2, <1>3, ListTypes DEF IsListArray, Frees
<1>8. st \in [LockIds -> Statuses]
  BY <1>2 DEF TypeOK, Statuses
<1>0. thr' = thr /\ req' = req
  BY DEF Frees
<1> HIDE DEF st, hs, ws, hss, wss, o
<1>9. ListsOf(st, mode', holder', obj', hss, wss, heldby')
  <2>1. LockAt(i, st, mode', holder', obj', hss, wss, heldby')
    BY <1>1, <1>5, <1>6 DEF LockAt
  <2>2. \A j \in LockIds \ {i} : SameLists(j, status, mode, holder, obj, holders,
            waiters, heldby, st, mode', holder', obj', hss, wss, heldby')
    BY <1>5, <1>6 DEF SameLists
  <2> QED BY <1>1, <1>2, <2>1, <2>2, ListsChange
<1>10. SleepersOf(st, holder', obj', thr', req')
  BY <1>0, <1>1, <1>2, <1>5 DEF SleepersOf
<1>11. WakeupOf(st, mtx, thr', req')
  BY <1>0, <1>1, <1>2, <1>5 DEF WakeupOf, SleepersOf
<1>12. DdObjsOf(ddObjs, wss)
  BY <1>2, <1>6 DEF DdObjsOf
<1>13. CompatibleOf(mode', holder', hss)
  <2>1. \A x \in Objs : \A j \in Members(hss[x]) :
          /\ j \in Members(holders[x]) /\ mode'[j] = mode[j] /\ holder'[j] = holder[j]
    BY <1>2, <1>5, <1>6, ListTypes
  <2> QED BY <1>2, <2>1 DEF CompatibleOf
<1>14. \A j \in Members(hss[o]) \cup Members(wss[o]) :
         mode'[j] = mode[j] /\ holder'[j] = holder[j]
  BY <1>1, <1>2, <1>5, <1>6, ListTypes
<1>15. /\ ListsOf(status, mode, holder, obj, holders, waiters, heldby)'
       /\ SleepersOf(status, holder, obj, thr, req)'
       /\ WakeupOf(status, mtx, thr, req)'
       /\ DdObjsOf(ddObjs, waiters)'
       /\ CompatibleOf(mode, holder, holders)'
       /\ IsListArray(holders, Objs, LockIds)'
       /\ IsListArray(waiters, Objs, LockIds)'
  <2>1. IsListArray(holders, Objs, LockIds) /\ IsListArray(waiters, Objs, LockIds)
    BY <1>2, ListTypes
  <2> QED BY <1>1, <1>7, <1>9, <1>10, <1>11, <1>12, <1>13, <1>14, <2>1,
             PromotePreserves
<1>16. TypeOK'
  <2>1. /\ status' \in [LockIds -> Statuses] /\ ddObjs' \subseteq Objs
        /\ mtx' \in [Lockers -> {"locked", "unlocked"}]
    BY <1>2, <1>7, <1>8, PromoteType DEF TypeOK
  <2>2. IsListArray(heldby', Lockers, LockIds)
    BY <1>2, <1>4, ListTypes DEF IsListArray, Frees
  <2> QED BY <1>2, <1>15, <2>1, <2>2 DEF TypeOK, Frees
<1>17. HeirOf(thr)'
  BY <1>0 DEF IInv, HeirOf
<1> QED BY <1>15, <1>16, <1>17 DEF IInv

\* A release keeps the invariant.
LEMMA ReleaseStep ==
    ASSUME IInv, NEW l \in Lockers, thr[l] # "sleep", NEW i \in Members(heldby[l]),
           Release(l, i), UNCHANGED <<dirty, inabort, thrVars>>
    PROVE  IInv'
<1>1. TypeOK /\ IsWrite(mode[i]) \in Int
  BY DEF IInv, IsWrite
<1>2. refcount' \in [LockIds -> Nat]
  BY <1>1 DEF Release, Recycle, TypeOK
<1>3. needDD' \in BOOLEAN
  BY <1>1 DEF Release, StateChanged, TypeOK
<1>4. nlocks' \in [Lockers -> Int] /\ nwrites' \in [Lockers -> Int]
  BY <1>1 DEF Release, TypeOK
<1> QED BY <1>2, <1>3, <1>4, FreeStep DEF Release, Recycle, thrVars, Frees

\* The releases of one lock, of the read locks and of all locks keep it.
LEMMA ReleaseActions ==
    ASSUME IInv, NEW l \in Lockers,
           (\E i \in LockIds : Put(l, i)) \/ ReleaseRead(l) \/ ReleaseNext(l)
    PROVE  IInv'
<1>0. IsList(heldby[l], LockIds)
  BY ListTypes DEF IInv
<1>1. CASE \E i \in LockIds : Put(l, i)
  BY <1>1, ReleaseStep DEF Put, Idle
<1>2. CASE ReleaseRead(l)
  <2>1. FirstIn(heldby[l], ReadLocks(l)) \in Members(heldby[l])
    BY <1>0, <1>2, FirstInMember DEF ReleaseRead, ReadLocks
  <2> QED BY <1>2, <2>1, ReleaseStep DEF ReleaseRead
<1>3. CASE ReleaseNext(l)
  <2>1. FirstIn(heldby[l], Members(heldby[l])) \in Members(heldby[l])
    BY <1>0, <1>3, FirstInMember DEF ReleaseNext
  <2> QED BY <1>3, <2>1, ReleaseStep DEF ReleaseNext
<1> QED BY <1>1, <1>2, <1>3

\* A weaker mode conflicts with no lock the stronger one did not.
LEMMA DowngradeStep ==
    ASSUME IInv, NEW l \in Lockers, NEW i \in LockIds, NEW m \in Modes,
           Downgrade(l, i, m)
    PROVE  IInv'
<1> DEFINE o == obj[i]
<1>1. thr[l] # "sleep" /\ i \in Members(heldby[l]) /\ <<mode[i], m>> \in Downgrades
  BY DEF Downgrade, Idle
<1>2. o \in Objs /\ status[i] = "HELD" /\ mode[i] \in Modes
  BY <1>1, HeldLock
<1>3. /\ TypeOK /\ ListsOf(status, mode, holder, obj, holders, waiters, heldby)
      /\ SleepersOf(status, holder, obj, thr, req)
      /\ WakeupOf(status, mtx, thr, req) /\ DdObjsOf(ddObjs, waiters)
      /\ CompatibleOf(mode, holder, holders)
  BY DEF IInv
<1>4. /\ Promote(o, status, mode', holder, holders[o], waiters[o], mtx, ddObjs)
      /\ mode' = [mode EXCEPT ![i] = m]
      /\ UNCHANGED <<holder, obj, refcount, needDD, heldby, nlocks, dirty, inabort,
                     thr, req>>
  BY DEF Downgrade, thrVars
<1>6. \A j \in LockIds : mode'[j] = IF j = i THEN m ELSE mode[j]
  BY <1>3, <1>4 DEF TypeOK
<1>7. ListsOf(status, mode', holder', obj', holders, waiters, heldby')
  BY <1>3, <1>4, <1>6 DEF ListsOf, LockAt
<1>8. CompatibleOf(mode', holder', holders)
  <2> SUFFICES ASSUME NEW x \in Objs, NEW a \in Members(holders[x]),
                      NEW b \in Members(holders[x]),
                      holder[a] # holder[b], Unrelated(holder[a], holder[b])
               PROVE  ~ConflictsWith(mode'[a], mode'[b])
    BY <1>4 DEF CompatibleOf
  <2>1. a \in LockIds /\ b \in LockIds
    BY <1>3, ListTypes
  <2>2. mode[a] \in Modes /\ mode[b] \in Modes
    BY <1>3, <2>1 DEF ListsOf, LockAt
  <2>3. ~ConflictsWith(mode[a], mode[b])
    BY <1>3 DEF CompatibleOf
  <2>4. \A k \in Modes : m \in Conflicts[k] => mode[i] \in Conflicts[k]
    BY <1>1, DowngradeAssumption
  <2> QED BY <1>6, <2>1, <2>2, <2>3, <2>4, ModeAssumption DEF ConflictsWith
<1> HIDE DEF o
<1>9. /\ ListsOf(status, mode, holder, obj, holders, waiters, heldby)'
      /\ SleepersOf(status, holder, obj, thr, req)'
      /\ WakeupOf(status, mtx, thr, req)'
      /\ DdObjsOf(ddObjs, waiters)'
      /\ CompatibleOf(mode, holder, holders)'
      /\ IsListArray(holders, Objs, LockIds)'
      /\ IsListArray(waiters, Objs, LockIds)'
  BY <1>2, <1>3, <1>4, <1>7, <1>8, ListTypes, PromotePreserves
<1>10. TypeOK'
  <2>1. /\ status' \in [LockIds -> Statuses] /\ ddObjs' \subseteq Objs
        /\ mtx' \in [Lockers -> {"locked", "unlocked"}]
    BY <1>3, <1>4, PromoteType DEF TypeOK
  <2>2. nwrites' \in [Lockers -> Int]
    <3>1. IsWrite(mode[i]) \in Int
      BY DEF IsWrite
    <3> QED BY <1>3, <3>1 DEF Downgrade, TypeOK
  <2>3. mode' \in [LockIds -> Modes \cup {"N"}]
    BY <1>3, <1>4 DEF TypeOK
  <2> QED BY <1>3, <1>4, <1>9, <2>1, <2>2, <2>3 DEF TypeOK
<1>11. HeirOf(thr)'
  BY <1>4 DEF IInv, HeirOf
<1> QED BY <1>9, <1>10, <1>11 DEF IInv
\* Whoever is no relation of a parent is none of its child either.
LEMMA Heirs ==
    ASSUME NEW l \in Lockers, Parent[l] # NoLocker, NEW h \in Lockers, h # l,
           h # Parent[l], Unrelated(Parent[l], h) \/ Unrelated(h, Parent[l])
    PROVE  Unrelated(l, h) /\ Unrelated(h, l)
<1>1. /\ Parent[l] \in Lockers /\ l \notin FamilyRoots
      /\ Ancestors[l] = {Parent[l]} \cup Ancestors[Parent[l]]
  BY FamilyAssumption
<1>2. l \in Ancestors[h] => Parent[l] \in Ancestors[h]
  BY <1>1, FamilyAssumption
<1>3. ~SameFamily(l, h)
  BY <1>1, <1>2 DEF Unrelated, SameFamily
<1>4. ~SameFamily(h, l)
  BY <1>1, <1>2 DEF Unrelated, SameFamily
<1> QED BY <1>3, <1>4 DEF Unrelated

\* Lock i of l becomes a lock of l's parent.
HandsOn(l, i) ==
    /\ holder' = [holder EXCEPT ![i] = Parent[l]]
    /\ heldby' = [heldby EXCEPT ![l] = RemoveAll(heldby[l], {i}),
                                ![Parent[l]] = InsertHead(heldby[Parent[l]], i)]
    /\ Promote(obj[i], status, mode, holder', holders[obj[i]], waiters[obj[i]], mtx, ddObjs)
    /\ nlocks' \in [Lockers -> Int] /\ nwrites' \in [Lockers -> Int]
    /\ UNCHANGED <<mode, obj, refcount, needDD, dirty, inabort, thr, req>>

\* A lock that becomes the parent's keeps the invariant.
LEMMA HandsOnStep ==
    ASSUME IInv, NEW l \in Lockers, thr[l] = "inherit", NEW i \in Members(heldby[l]),
           HandsOn(l, i)
    PROVE  IInv'
<1> DEFINE o == obj[i]
           p == Parent[l]
<1>1. /\ i \in LockIds /\ status[i] = "HELD" /\ holder[i] = l /\ o \in Objs
      /\ i \in Members(holders[o]) /\ mode[i] \in Modes
      /\ \A k \in Lockers \ {l} : i \notin Members(heldby[k])
  BY HeldLock
<1>2. /\ TypeOK /\ ListsOf(status, mode, holder, obj, holders, waiters, heldby)
      /\ SleepersOf(status, holder, obj, thr, req)
      /\ WakeupOf(status, mtx, thr, req) /\ DdObjsOf(ddObjs, waiters)
      /\ CompatibleOf(mode, holder, holders)
  BY DEF IInv
<1>3. p \in Lockers /\ p # NoLocker /\ p # l
  BY FamilyAssumption DEF IInv, HeirOf
<1>4. /\ IsList(RemoveAll(heldby[l], {i}), LockIds)
      /\ Members(RemoveAll(heldby[l], {i})) = Members(heldby[l]) \ {i}
      /\ IsList(InsertHead(heldby[p], i), LockIds)
      /\ Members(InsertHead(heldby[p], i)) = Members(heldby[p]) \cup {i}
  BY <1>1, <1>2, <1>3, ListTypes, RemoveAllType, InsertHeadType
<1>5. \A j \in LockIds : holder'[j] = IF j = i THEN p ELSE holder[j]
  BY <1>2 DEF HandsOn, TypeOK
<1>6. \A k \in Lockers : \A j : j \in Members(heldby'[k]) <=>
          IF j = i THEN k = p ELSE j \in Members(heldby[k])
  BY <1>1, <1>2, <1>3, <1>4, ListTypes DEF IsListArray, HandsOn
<1>7. /\ Promote(o, status, mode, holder', holders[o], waiters[o], mtx, ddObjs)
      /\ mode' = mode /\ obj' = obj /\ thr' = thr /\ req' = req
  BY DEF HandsOn
<1> HIDE DEF o, p
<1>8. ListsOf(status, mode', holder', obj', holders, waiters, heldby')
  <2>1. LockAt(i, status, mode', holder', obj', holders, waiters, heldby')
    <3>1. LockAt(i, status, mode, holder, obj, holders, waiters, heldby)
      BY <1>1, <1>2 DEF ListsOf
    <3> QED BY <1>1, <1>3, <1>5, <1>6, <1>7, <3>1 DEF LockAt
  <2>2. \A j \in LockIds \ {i} : SameLists(j, status, mode, holder, obj, holders,
            waiters, heldby, status, mode', holder', obj', holders, waiters, heldby')
    BY <1>5, <1>6, <1>7 DEF SameLists
  <2> QED BY <1>1, <1>2, <2>1, <2>2, ListsChange
<1>9. SleepersOf(status, holder', obj', thr', req')
  BY <1>1, <1>2, <1>5, <1>7 DEF SleepersOf
<1>10. WakeupOf(status, mtx, thr', req')
  BY <1>2, <1>7
<1>11. CompatibleOf(mode', holder', holders)
  <2> SUFFICES ASSUME NEW x \in Objs, NEW a \in Members(holders[x]),
                      NEW b \in Members(holders[x]),
                      holder'[a] # holder'[b], Unrelated(holder'[a], holder'[b])
               PROVE  ~ConflictsWith(mode[a], mode[b])
    BY <1>7 DEF CompatibleOf
  <2>1. a \in LockIds /\ b \in LockIds /\ holder[a] \in Lockers /\ holder[b] \in Lockers
    BY <1>2, ListTypes DEF ListsOf, LockAt
  <2>2. SameFamily(p, l)
    BY <1>3, FamilyAssumption DEF SameFamily, p
  <2>3. holder[a] # holder[b] /\ Unrelated(holder[a], holder[b])
    <3>1. CASE a = i
      BY <1>1, <1>3, <1>5, <2>1, <2>2, <3>1, Heirs DEF Unrelated, p
    <3>2. CASE b = i
      BY <1>1, <1>3, <1>5, <2>1, <2>2, <3>2, Heirs DEF Unrelated, p
    <3>3. CASE a # i /\ b # i
      BY <1>5, <2>1, <3>3
    <3> QED BY <3>1, <3>2, <3>3
  <2> QED BY <1>2, <2>3 DEF CompatibleOf
<1>12. /\ ListsOf(status, mode, holder, obj, holders, waiters, heldby)'
       /\ SleepersOf(status, holder, obj, thr, req)'
       /\ WakeupOf(status, mtx, thr, req)'
       /\ DdObjsOf(ddObjs, waiters)'
       /\ CompatibleOf(mode, holder, holders)'
       /\ IsListArray(holders, Objs, LockIds)'
       /\ IsListArray(waiters, Objs, LockIds)'
  BY <1>1, <1>2, <1>7, <1>8, <1>9, <1>10, <1>11, ListTypes, PromotePreserves
<1>13. TypeOK'
  <2>1. /\ status' \in [LockIds -> Statuses] /\ ddObjs' \subseteq Objs
        /\ mtx' \in [Lockers -> {"locked", "unlocked"}]
    BY <1>2, <1>7, PromoteType DEF TypeOK
  <2>2. IsListArray(heldby', Lockers, LockIds)
    BY <1>2, <1>3, <1>4, ListTypes DEF IsListArray, HandsOn, p
  <2>3. holder' \in [LockIds -> Lockers \cup {NoLocker}]
    BY <1>2, <1>3 DEF TypeOK, HandsOn, p
  <2> QED BY <1>2, <1>12, <2>1, <2>2, <2>3 DEF TypeOK, HandsOn
<1>14. HeirOf(thr)'
  BY <1>7 DEF IInv, HeirOf
<1> QED BY <1>12, <1>13, <1>14 DEF IInv

\* A child's lock is handed on, or merged with one the parent has.
LEMMA InheritStep ==
    ASSUME IInv, NEW l \in Lockers, InheritNext(l)
    PROVE  IInv'
<1> DEFINE i == FirstIn(heldby[l], Members(heldby[l]))
           j == FirstIn(holders[obj[i]], Merge(i))
<1>1. i \in Members(heldby[l])
  <2>1. IsList(heldby[l], LockIds)
    BY ListTypes DEF IInv
  <2> QED BY <2>1, FirstInMember DEF InheritNext
<1>2. thr[l] = "inherit" /\ UNCHANGED <<needDD, dirty, inabort, thr, req>>
  BY DEF InheritNext, thrVars
<1>3. TypeOK /\ IsWrite(mode[i]) \in Int
  BY DEF IInv, IsWrite
<1>4. CASE Merge(i) # {}
  <2>1. /\ refcount' = [refcount EXCEPT ![j] = @ + refcount[i], ![i] = 0]
        /\ mode' = [mode EXCEPT ![i] = "N"] /\ holder' = [holder EXCEPT ![i] = NoLocker]
        /\ obj' = [obj EXCEPT ![i] = NoObj]
        /\ heldby' = [heldby EXCEPT ![l] = RemoveAll(heldby[l], {i})]
        /\ Promote(obj[i], [status EXCEPT ![i] = "FREE"], mode, holder,
                   RemoveAll(holders[obj[i]], {i}), waiters[obj[i]], mtx, ddObjs)
        /\ UNCHANGED <<nlocks, nwrites>>
    BY <1>4 DEF InheritNext
  <2>2. i \in LockIds /\ j \in LockIds
    <3>1. i \in LockIds /\ obj[i] \in Objs
      BY <1>1, <1>2, HeldLock
    <3>2. IsList(holders[obj[i]], LockIds) /\ Merge(i) \subseteq Members(holders[obj[i]])
      BY <1>3, <3>1, ListTypes DEF Merge
    <3>3. j \in Merge(i)
      BY <1>4, <3>2, FirstInMember
    <3> QED BY <3>1, <3>2, <3>3 DEF IsList
  <2>3. refcount' \in [LockIds -> Nat]
    <3> HIDE DEF i, j
    <3> QED BY <1>3, <2>1, <2>2 DEF TypeOK
  <2>4. Frees(l, i)
    BY <1>2, <1>3, <2>1, <2>3 DEF Frees, TypeOK
  <2> QED BY <1>1, <1>2, <2>4, FreeStep
<1>5. CASE Merge(i) = {}
  <2>1. /\ holder' = [holder EXCEPT ![i] = Parent[l]]
        /\ heldby' = [heldby EXCEPT ![l] = RemoveAll(heldby[l], {i}),
                                    ![Parent[l]] = InsertHead(heldby[Parent[l]], i)]
        /\ nlocks' = [nlocks EXCEPT ![Parent[l]] = @ + 1]
        /\ nwrites' = [nwrites EXCEPT ![Parent[l]] = @ + IsWrite(mode[i])]
        /\ Promote(obj[i], status, mode, holder', holders[obj[i]], waiters[obj[i]],
                   mtx, ddObjs)
        /\ UNCHANGED <<mode, obj, refcount>>
    BY <1>5 DEF InheritNext
  <2>2. nlocks' \in [Lockers -> Int] /\ nwrites' \in [Lockers -> Int]
    <3>1. Parent[l] \in Lockers
      BY <1>2, FamilyAssumption DEF IInv, HeirOf
    <3>2. nlocks \in [Lockers -> Int] /\ nwrites \in [Lockers -> Int]
      BY <1>3 DEF TypeOK
    <3> HIDE DEF i
    <3> QED BY <1>3, <2>1, <3>1, <3>2
  <2>3. HandsOn(l, i)
    BY <1>2, <2>1, <2>2 DEF HandsOn
  <2> QED BY <1>1, <1>2, <2>3, HandsOnStep
<1> QED BY <1>4, <1>5
-----------------------------------------------------------------------------
(* Waking up, and the deadlock detector.                                   *)

\* The lock a locker sleeps for is its own, and no other sleeper's business.
LEMMA SleepLock ==
    ASSUME IInv, NEW l \in Lockers, thr[l] = "sleep", NEW i, i = req[l].lk
    PROVE  /\ i \in LockIds /\ holder[i] = l /\ status[i] \notin {"FREE", "HELD"}
           /\ obj[i] \in Objs /\ mode[i] \in Modes
           /\ LockAt(i, status, mode, holder, obj, holders, waiters, heldby)
           /\ \A k \in Lockers \ {l} : thr[k] = "sleep" =>
                req[k].lk \in LockIds \ {i}
           /\ \A k \in Lockers : thr[k] = "sleep" => req[k].upg # i
           /\ req[l].back \in {"idle", "upgrade"}
<1>1. i \in LockIds /\ holder[i] = l /\ status[i] \notin {"FREE", "HELD"}
  BY DEF IInv, SleepersOf
<1>2. LockAt(i, status, mode, holder, obj, holders, waiters, heldby)
  BY <1>1 DEF IInv, ListsOf
<1>3. obj[i] \in Objs /\ mode[i] \in Modes
  BY <1>1, <1>2 DEF LockAt
<1>4. \A k \in Lockers : thr[k] = "sleep" => req[k].upg # i
  BY <1>1, IdAssumption DEF IInv, SleepersOf
<1>5. \A k \in Lockers \ {l} : thr[k] = "sleep" => req[k].lk \in LockIds \ {i}
  BY <1>1 DEF IInv, SleepersOf
<1>6. req[l].back \in {"idle", "upgrade"}
  BY DEF IInv, TypeOK, Reqs
<1> QED BY <1>1, <1>2, <1>3, <1>4, <1>5, <1>6

\* After a locker got up, and its lock is held or free, the others' sleep is
\* as it was.
LEMMA WakeSleepers ==
    ASSUME IInv, NEW l \in Lockers, thr[l] = "sleep",
           NEW st, NEW hd, NEW ob, NEW mx, NEW th, NEW rq,
           \A j \in LockIds \ {req[l].lk} :
               st[j] = status[j] /\ hd[j] = holder[j] /\ ob[j] = obj[j],
           st[req[l].lk] \in {"FREE", "HELD"},
           \A k \in Lockers \ {l} : th[k] = thr[k] /\ rq[k] = req[k] /\ mx[k] = mtx[k],
           th[l] # "sleep", mx[l] = "locked"
    PROVE  SleepersOf(st, hd, ob, th, rq) /\ WakeupOf(st, mx, th, rq)
<1> DEFINE i == req[l].lk
<1>1. /\ i \in LockIds /\ holder[i] = l
      /\ \A k \in Lockers \ {l} : thr[k] = "sleep" => req[k].lk \in LockIds \ {i}
      /\ \A k \in Lockers : thr[k] = "sleep" => req[k].upg # i
  BY SleepLock
<1>2. /\ SleepersOf(status, holder, obj, thr, req) /\ WakeupOf(status, mtx, thr, req)
      /\ ListsOf(status, mode, holder, obj, holders, waiters, heldby)
  BY DEF IInv
<1>3. \A j \in LockIds : st[j] \notin {"FREE", "HELD"} =>
        th[hd[j]] = "sleep" /\ rq[hd[j]].lk = j
  <2> SUFFICES ASSUME NEW j \in LockIds, st[j] \notin {"FREE", "HELD"}
               PROVE  th[hd[j]] = "sleep" /\ rq[hd[j]].lk = j
    OBVIOUS
  <2>1. /\ j # i /\ st[j] = status[j] /\ hd[j] = holder[j] /\ holder[j] \in Lockers
        /\ thr[holder[j]] = "sleep" /\ req[holder[j]].lk = j
    BY <1>2 DEF SleepersOf, ListsOf, LockAt
  <2>2. holder[j] # l
    BY <2>1
  <2> QED BY <2>1, <2>2
<1>4. ASSUME NEW k \in Lockers, th[k] = "sleep"
      PROVE  /\ rq[k].lk \in LockIds
             /\ hd[rq[k].lk] = k
             /\ st[rq[k].lk] \notin {"FREE", "HELD"}
             /\ rq[k].upg # NoLock =>
                  /\ rq[k].upg \in LockIds
                  /\ hd[rq[k].upg] = k
                  /\ st[rq[k].upg] = "HELD"
                  /\ ob[rq[k].upg] = ob[rq[k].lk]
  BY <1>1, <1>2, <1>4 DEF SleepersOf
<1>5. WakeupOf(st, mx, th, rq)
  BY <1>1, <1>2 DEF WakeupOf
<1> QED BY <1>3, <1>4, <1>5 DEF SleepersOf

\* A granted waiter that takes its lock keeps the invariant.
LEMMA WakeGrantedStep ==
    ASSUME IInv, NEW l \in Lockers, WakeGranted(l)
    PROVE  IInv'
<1> DEFINE i == req[l].lk
<1>1. /\ thr[l] = "sleep" /\ status[i] = "PENDING" /\ i \in LockIds
      /\ req[l].back \in {"idle", "upgrade"}
  BY SleepLock DEF WakeGranted, Awake
<1>2. /\ status' = [status EXCEPT ![i] = "HELD"]
      /\ mtx' = [mtx EXCEPT ![l] = "locked"]
      /\ thr' = [thr EXCEPT ![l] = "idle"] /\ req' = [req EXCEPT ![l] = NoReq]
      /\ UNCHANGED <<mode, holder, obj, refcount, holders, waiters, ddObjs, needDD,
                     heldby, inabort>>
      /\ Count(l, mode[i])
  BY DEF WakeGranted, objVars
<1>3. TypeOK /\ ListsOf(status, mode, holder, obj, holders, waiters, heldby)
  BY DEF IInv
<1>4. /\ \A j \in LockIds : status'[j] = IF j = i THEN "HELD" ELSE status[j]
      /\ \A k \in Lockers : /\ thr'[k] = IF k = l THEN "idle" ELSE thr[k]
                            /\ req'[k] = IF k = l THEN NoReq ELSE req[k]
                            /\ mtx'[k] = IF k = l THEN "locked" ELSE mtx[k]
  BY <1>2, <1>3 DEF TypeOK
<1>5. TypeOK'
  <2>1. nlocks' \in [Lockers -> Int] /\ nwrites' \in [Lockers -> Int]
        /\ dirty' \in [Lockers -> BOOLEAN]
    BY <1>2, <1>3 DEF Count, TypeOK, IsWrite
  <2> QED BY <1>2, <1>3, <2>1 DEF TypeOK, Statuses, ThrStates, Reqs, NoReq
<1> HIDE DEF i
<1>6. ListsOf(status, mode, holder, obj, holders, waiters, heldby)'
  BY <1>1, <1>2, <1>3, <1>4 DEF ListsOf, LockAt
<1>7. SleepersOf(status', holder', obj', thr', req') /\ WakeupOf(status', mtx', thr', req')
  <2>1. /\ \A j \in LockIds \ {req[l].lk} :
             status'[j] = status[j] /\ holder'[j] = holder[j] /\ obj'[j] = obj[j]
        /\ status'[req[l].lk] \in {"FREE", "HELD"}
        /\ \A k \in Lockers \ {l} : thr'[k] = thr[k] /\ req'[k] = req[k] /\ mtx'[k] = mtx[k]
        /\ thr'[l] # "sleep" /\ mtx'[l] = "locked"
    BY <1>1, <1>2, <1>4 DEF i
  <2> QED BY <1>1, <2>1, WakeSleepers
<1>8. DdObjsOf(ddObjs, waiters)' /\ CompatibleOf(mode, holder, holders)'
  BY <1>2 DEF IInv
<1>9. HeirOf(thr)'
  BY <1>4 DEF IInv, HeirOf
<1> QED BY <1>5, <1>6, <1>7, <1>8, <1>9 DEF IInv

\* A victim that gives its request up keeps the invariant.
LEMMA WakeAbortedStep ==
    ASSUME IInv, NEW l \in Lockers, WakeAborted(l)
    PROVE  IInv'
<1> DEFINE i == req[l].lk
<1>1. /\ thr[l] = "sleep" /\ status[i] = "ABORTED" /\ i \in LockIds /\ holder[i] = l
      /\ LockAt(i, status, mode, holder, obj, holders, waiters, heldby)
  BY SleepLock DEF WakeAborted, Awake
<1>2. /\ status' = [status EXCEPT ![i] = "FREE"] /\ mode' = [mode EXCEPT ![i] = "N"]
      /\ holder' = [holder EXCEPT ![i] = NoLocker] /\ obj' = [obj EXCEPT ![i] = NoObj]
      /\ refcount' = [refcount EXCEPT ![i] = 0]
      /\ heldby' = [heldby EXCEPT ![l] = RemoveAll(heldby[l], {i})]
      /\ mtx' = [mtx EXCEPT ![l] = "locked"]
      /\ thr' = [thr EXCEPT ![l] = "deadlock"] /\ req' = [req EXCEPT ![l] = NoReq]
      /\ UNCHANGED <<holders, waiters, ddObjs, needDD, nlocks, nwrites, dirty, inabort>>
  BY DEF WakeAborted, Recycle, objVars
<1>3. TypeOK /\ ListsOf(status, mode, holder, obj, holders, waiters, heldby)
  BY DEF IInv
<1>4. /\ IsList(RemoveAll(heldby[l], {i}), LockIds)
      /\ Members(RemoveAll(heldby[l], {i})) = Members(heldby[l]) \ {i}
  BY <1>3, ListTypes, RemoveAllType
<1>5. /\ \A j \in LockIds :
           /\ status'[j] = IF j = i THEN "FREE" ELSE status[j]
           /\ mode'[j] = IF j = i THEN "N" ELSE mode[j]
           /\ holder'[j] = IF j = i THEN NoLocker ELSE holder[j]
           /\ obj'[j] = IF j = i THEN NoObj ELSE obj[j]
      /\ \A k \in Lockers : /\ thr'[k] = IF k = l THEN "deadlock" ELSE thr[k]
                            /\ req'[k] = IF k = l THEN NoReq ELSE req[k]
                            /\ mtx'[k] = IF k = l THEN "locked" ELSE mtx[k]
  BY <1>2, <1>3 DEF TypeOK
<1>6. \A k \in Lockers : \A j : j \in Members(heldby'[k]) <=>
          j \in Members(heldby[k]) /\ (j # i \/ k # l)
  BY <1>2, <1>3, <1>4, ListTypes DEF IsListArray
<1>7. TypeOK'
  <2>1. IsListArray(heldby', Lockers, LockIds)
    BY <1>2, <1>3, <1>4, ListTypes DEF IsListArray
  <2> QED BY <1>2, <1>3, <2>1 DEF TypeOK, Statuses, ThrStates, Reqs, NoReq
<1> HIDE DEF i
<1>8. ListsOf(status, mode, holder, obj, holders, waiters, heldby)'
  <2>1. LockAt(i, status', mode', holder', obj', holders', waiters', heldby')
    <3>1. status'[i] = "FREE"
      BY <1>1, <1>5
    <3>2. /\ \A x \in Objs : i \notin Members(holders'[x])
          /\ \A x \in Objs : i \notin Members(waiters'[x])
      BY <1>1, <1>2 DEF LockAt
    <3>3. \A k \in Lockers : i \notin Members(heldby'[k])
      BY <1>1, <1>6 DEF LockAt
    <3> QED BY <3>1, <3>2, <3>3 DEF LockAt
  <2>2. \A j \in LockIds \ {i} : SameLists(j, status, mode, holder, obj, holders,
            waiters, heldby, status', mode', holder', obj', holders', waiters', heldby')
    BY <1>2, <1>5, <1>6 DEF SameLists
  <2>3. ListsOf(status', mode', holder', obj', holders', waiters', heldby')
    BY <1>1, <1>3, <2>1, <2>2, ListsChange
  <2> QED BY <2>3
<1>9. SleepersOf(status', holder', obj', thr', req') /\ WakeupOf(status', mtx', thr', req')
  BY <1>1, <1>5, WakeSleepers DEF i
<1>10. DdObjsOf(ddObjs, waiters)'
  BY <1>2 DEF IInv
<1>11. CompatibleOf(mode, holder, holders)'
  <2>1. \A x \in Objs : \A j \in Members(holders[x]) : j \in LockIds /\ j # i
    BY <1>1, <1>3, ListTypes DEF LockAt
  <2> QED BY <1>2, <1>5, <2>1 DEF IInv, CompatibleOf
<1>12. HeirOf(thr)'
  BY <1>5 DEF IInv, HeirOf
<1> QED BY <1>7, <1>8, <1>9, <1>10, <1>11, <1>12 DEF IInv
\* The upgraded lock takes over the mode of the one that waited for it.
LEMMA WakeUpgradedStep ==
    ASSUME IInv, NEW l \in Lockers, WakeUpgraded(l)
    PROVE  IInv'
<1> DEFINE i == req[l].lk
           u == req[l].upg
           o == obj[i]
<1>1. /\ thr[l] = "sleep" /\ status[i] = "PENDING" /\ i \in LockIds /\ holder[i] = l
      /\ o \in Objs /\ mode[i] \in Modes /\ req[l].back \in {"idle", "upgrade"}
      /\ LockAt(i, status, mode, holder, obj, holders, waiters, heldby)
  BY SleepLock DEF WakeUpgraded, Awake
<1>2. /\ u \in LockIds /\ u # i /\ holder[u] = l /\ status[u] = "HELD" /\ obj[u] = o
  BY <1>1 DEF WakeUpgraded, IInv, SleepersOf
<1>3. /\ status' = [status EXCEPT ![i] = "FREE"]
      /\ mode' = [mode EXCEPT ![u] = mode[i], ![i] = "N"]
      /\ holder' = [holder EXCEPT ![i] = NoLocker] /\ obj' = [obj EXCEPT ![i] = NoObj]
      /\ refcount' = [refcount EXCEPT ![i] = 0]
      /\ holders' = [holders EXCEPT ![o] = RemoveAll(holders[o], {i})]
      /\ heldby' = [heldby EXCEPT ![l] = RemoveAll(heldby[l], {i})]
      /\ mtx' = [mtx EXCEPT ![l] = "locked"]
      /\ thr' = [thr EXCEPT ![l] = req[l].back] /\ req' = [req EXCEPT ![l] = NoReq]
      /\ UNCHANGED <<waiters, ddObjs, needDD, nlocks, dirty, inabort>>
  BY DEF WakeUpgraded
<1>4. TypeOK /\ ListsOf(status, mode, holder, obj, holders, waiters, heldby)
  BY DEF IInv
<1>5. /\ IsList(RemoveAll(heldby[l], {i}), LockIds)
      /\ Members(RemoveAll(heldby[l], {i})) = Members(heldby[l]) \ {i}
      /\ IsList(RemoveAll(holders[o], {i}), LockIds)
      /\ Members(RemoveAll(holders[o], {i})) = Members(holders[o]) \ {i}
  BY <1>1, <1>4, ListTypes, RemoveAllType
<1>6. /\ \A j \in LockIds :
           /\ status'[j] = IF j = i THEN "FREE" ELSE status[j]
           /\ mode'[j] = IF j = i THEN "N" ELSE IF j = u THEN mode[i] ELSE mode[j]
           /\ holder'[j] = IF j = i THEN NoLocker ELSE holder[j]
           /\ obj'[j] = IF j = i THEN NoObj ELSE obj[j]
      /\ \A k \in Lockers : /\ thr'[k] = IF k = l THEN req[l].back ELSE thr[k]
                            /\ req'[k] = IF k = l THEN NoReq ELSE req[k]
                            /\ mtx'[k] = IF k = l THEN "locked" ELSE mtx[k]
  BY <1>2, <1>3, <1>4 DEF TypeOK
<1>7. /\ \A k \in Lockers : \A j : j \in Members(heldby'[k]) <=>
           j \in Members(heldby[k]) /\ (j # i \/ k # l)
      /\ \A x \in Objs : \A j : j \in Members(holders'[x]) <=>
           j \in Members(holders[x]) /\ (j # i \/ x # o)
  BY <1>1, <1>3, <1>4, <1>5, ListTypes DEF IsListArray
<1>8. TypeOK'
  <2>1. IsListArray(heldby', Lockers, LockIds) /\ IsListArray(holders', Objs, LockIds)
    BY <1>1, <1>3, <1>4, <1>5, ListTypes DEF IsListArray
  <2>2. nwrites' \in [Lockers -> Int]
    <3>1. IsWrite(mode[i]) \in Int
      BY DEF IsWrite
    <3>2. nwrites' = [nwrites EXCEPT ![l] = @ +
             (IF IsWrite(mode[u]) = 0 THEN IsWrite(mode[i]) ELSE 0)]
      BY DEF WakeUpgraded
    <3>3. (IF IsWrite(mode[u]) = 0 THEN IsWrite(mode[i]) ELSE 0) \in Int
      BY <3>1
    <3> HIDE DEF i, u
    <3> QED BY <1>4, <3>2, <3>3 DEF TypeOK
  <2>3. thr' \in [Lockers -> ThrStates] /\ req' \in [Lockers -> Reqs]
    BY <1>1, <1>3, <1>4 DEF TypeOK, ThrStates, Reqs, NoReq
  <2>4. /\ status' \in [LockIds -> Statuses] /\ mode' \in [LockIds -> Modes \cup {"N"}]
        /\ holder' \in [LockIds -> Lockers \cup {NoLocker}]
        /\ obj' \in [LockIds -> Objs \cup {NoObj}] /\ refcount' \in [LockIds -> Nat]
    BY <1>1, <1>3, <1>4 DEF TypeOK, Statuses
  <2> QED BY <1>3, <1>4, <2>1, <2>2, <2>3, <2>4 DEF TypeOK
<1> HIDE DEF i, u, o
<1>9. ListsOf(status, mode, holder, obj, holders, waiters, heldby)'
  <2>1. LockAt(i, status', mode', holder', obj', holders', waiters', heldby')
    <3>1. status'[i] = "FREE"
      BY <1>1, <1>6
    <3>2. /\ \A x \in Objs : i \notin Members(holders'[x])
          /\ \A x \in Objs : i \notin Members(waiters'[x])
      BY <1>1, <1>3, <1>7 DEF LockAt, o
    <3>3. \A k \in Lockers : i \notin Members(heldby'[k])
      BY <1>1, <1>7 DEF LockAt
    <3> QED BY <3>1, <3>2, <3>3 DEF LockAt
  <2>2. \A j \in LockIds \ {i} :
          LockAt(j, status', mode', holder', obj', holders', waiters', heldby')
    <3> SUFFICES ASSUME NEW j \in LockIds, j # i
                 PROVE  LockAt(j, status', mode', holder', obj', holders', waiters', heldby')
      OBVIOUS
    <3>1. LockAt(j, status, mode, holder, obj, holders, waiters, heldby)
      BY <1>4 DEF ListsOf
    <3>2. /\ status'[j] = status[j] /\ holder'[j] = holder[j] /\ obj'[j] = obj[j]
          /\ (mode'[j] = mode[j] \/ mode'[j] \in Modes)
      BY <1>1, <1>6
    <3>3. /\ \A k \in Lockers : j \in Members(heldby'[k]) <=> j \in Members(heldby[k])
          /\ \A x \in Objs : j \in Members(holders'[x]) <=> j \in Members(holders[x])
          /\ waiters' = waiters
      BY <1>3, <1>7
    <3>4. status'[j] # "FREE" =>
            holder'[j] \in Lockers /\ obj'[j] \in Objs /\ mode'[j] \in Modes
      BY <3>1, <3>2 DEF LockAt
    <3>5. /\ \A k \in Lockers :
               j \in Members(heldby'[k]) <=> status'[j] # "FREE" /\ holder'[j] = k
          /\ \A x \in Objs :
               j \in Members(holders'[x]) <=>
                 obj'[j] = x /\ status'[j] \in {"HELD", "PENDING"}
          /\ \A x \in Objs :
               j \in Members(waiters'[x]) <=>
                 obj'[j] = x /\ status'[j] \in {"WAITING", "EXPIRED"}
      BY <3>1, <3>2, <3>3 DEF LockAt
    <3> QED BY <3>4, <3>5 DEF LockAt
  <2> QED BY <2>1, <2>2 DEF ListsOf
<1>10. SleepersOf(status', holder', obj', thr', req') /\ WakeupOf(status', mtx', thr', req')
  <2>1. /\ \A j \in LockIds \ {req[l].lk} :
             status'[j] = status[j] /\ holder'[j] = holder[j] /\ obj'[j] = obj[j]
        /\ status'[req[l].lk] \in {"FREE", "HELD"}
    BY <1>1, <1>6 DEF i
  <2>2. \A k \in Lockers \ {l} : thr'[k] = thr[k] /\ req'[k] = req[k] /\ mtx'[k] = mtx[k]
    BY <1>6
  <2>3. thr[l] = "sleep" /\ thr'[l] # "sleep" /\ mtx'[l] = "locked"
    BY <1>1, <1>6
  <2> QED BY <2>1, <2>2, <2>3, WakeSleepers
<1>11. DdObjsOf(ddObjs, waiters)'
  BY <1>3 DEF IInv
<1>12. CompatibleOf(mode, holder, holders)'
  <2> SUFFICES ASSUME NEW x \in Objs,
                      NEW a \in Members(holders'[x]), NEW b \in Members(holders'[x]),
                      holder'[a] # holder'[b], Unrelated(holder'[a], holder'[b])
               PROVE  ~ConflictsWith(mode'[a], mode'[b])
    BY DEF CompatibleOf
  <2>1. /\ a \in LockIds /\ a \in Members(holders[x]) /\ a # i
        /\ b \in LockIds /\ b \in Members(holders[x]) /\ b # i
        /\ holder[a] # holder[b] /\ Unrelated(holder[a], holder[b])
        /\ (a = u \/ b = u => i \in Members(holders[x]))
    <3>1. a \in Members(holders[x]) /\ b \in Members(holders[x])
      BY <1>7
    <3>2. a \in LockIds /\ b \in LockIds
      BY <1>4, <3>1, ListTypes
    <3>3. a # i /\ b # i
      BY <1>1, <1>7 DEF LockAt, o
    <3>4. a = u \/ b = u => x = o
      BY <1>2, <1>4, <3>1, <3>2 DEF ListsOf, LockAt
    <3>5. i \in Members(holders[o])
      BY <1>1 DEF LockAt, o
    <3> QED BY <1>6, <3>1, <3>2, <3>3, <3>4, <3>5
  <2>2. \A y \in Objs : \A c, d \in Members(holders[y]) :
          holder[c] # holder[d] /\ Unrelated(holder[c], holder[d])
          => ~ConflictsWith(mode[c], mode[d])
    BY DEF IInv, CompatibleOf
  <2>3. mode'[a] = (IF a = u THEN mode[i] ELSE mode[a])
        /\ mode'[b] = (IF b = u THEN mode[i] ELSE mode[b])
    BY <1>6, <2>1
  <2>4. CASE a # u /\ b # u
    BY <2>1, <2>2, <2>3, <2>4
  <2>5. CASE a = u /\ b # u
    BY <1>1, <1>2, <2>1, <2>2, <2>3, <2>5
  <2>6. CASE a # u /\ b = u
    BY <1>1, <1>2, <2>1, <2>2, <2>3, <2>6
  <2>7. CASE a = u /\ b = u
    BY <2>1, <2>7
  <2> QED BY <2>4, <2>5, <2>6, <2>7
<1>13. HeirOf(thr)'
  BY <1>1, <1>6 DEF IInv, HeirOf
<1> QED BY <1>8, <1>9, <1>10, <1>11, <1>12, <1>13 DEF IInv

\* Lock i leaves its queue, and the waiters behind it may be let in, when its
\* locker gives up the wait (it is FREE) or the detector answers it (ABORTED).
Dequeues(i, st, ws, mx) ==
    /\ status[i] \in {"WAITING", "EXPIRED"}
    /\ ws = RemoveAll(waiters[obj[i]], {i})
    /\ st \in [LockIds -> Statuses] /\ mx \in [Lockers -> {"locked", "unlocked"}]
    /\ \A j \in LockIds \ {i} :
         /\ st[j] = status[j] /\ mode'[j] = mode[j]
         /\ holder'[j] = holder[j] /\ obj'[j] = obj[j]
         /\ \A k \in Lockers : j \in Members(heldby'[k]) <=> j \in Members(heldby[k])
    /\ \/ st[i] = "FREE" /\ \A k \in Lockers : i \notin Members(heldby'[k])
       \/ /\ st[i] = "ABORTED"
          /\ mode'[i] = mode[i] /\ holder'[i] = holder[i] /\ obj'[i] = obj[i]
          /\ \A k \in Lockers : i \in Members(heldby'[k]) <=> i \in Members(heldby[k])
    /\ SleepersOf(st, holder', obj', thr', req')
    /\ WakeupOf(st, mx, thr', req')
    /\ Promote(obj[i], st, mode, holder, holders[obj[i]], ws, mx,
               IF Members(ws) = {} THEN ddObjs \ {obj[i]} ELSE ddObjs)

\* Taking a waiter out of its queue and promoting those behind it keeps it.
LEMMA DequeueStep ==
    ASSUME IInv, NEW l \in Lockers, thr[l] = "sleep", NEW st, NEW ws, NEW mx,
           Dequeues(req[l].lk, st, ws, mx)
    PROVE  /\ ListsOf(status, mode, holder, obj, holders, waiters, heldby)'
           /\ SleepersOf(status, holder, obj, thr, req)'
           /\ WakeupOf(status, mtx, thr, req)'
           /\ DdObjsOf(ddObjs, waiters)'
           /\ CompatibleOf(mode, holder, holders)'
           /\ IsListArray(holders, Objs, LockIds)'
           /\ IsListArray(waiters, Objs, LockIds)'
           /\ status' \in [LockIds -> Statuses] /\ ddObjs' \subseteq Objs
           /\ mtx' \in [Lockers -> {"locked", "unlocked"}]
<1> DEFINE i == req[l].lk
           o == obj[i]
           wss == [waiters EXCEPT ![o] = ws]
           dd == IF Members(ws) = {} THEN ddObjs \ {o} ELSE ddObjs
<1>1. /\ i \in LockIds /\ holder[i] = l /\ o \in Objs /\ mode[i] \in Modes
      /\ LockAt(i, status, mode, holder, obj, holders, waiters, heldby)
  BY SleepLock
<1>2. /\ TypeOK /\ ListsOf(status, mode, holder, obj, holders, waiters, heldby)
      /\ DdObjsOf(ddObjs, waiters) /\ CompatibleOf(mode, holder, holders)
  BY DEF IInv
<1>3. IsList(ws, LockIds) /\ Members(ws) = Members(waiters[o]) \ {i}
  <2>1. IsList(waiters[o], LockIds) /\ IsFiniteSet(LockIds)
    BY <1>1, <1>2, ListTypes
  <2>2. ws = RemoveAll(waiters[o], {i})
    BY DEF Dequeues
  <2> QED BY <2>1, <2>2, RemoveAllType
<1>4. /\ IsListArray(wss, Objs, LockIds) /\ wss[o] = ws
      /\ \A x \in Objs : x # o => wss[x] = waiters[x]
  BY <1>1, <1>2, <1>3, ListTypes DEF IsListArray
<1>5. dd \in SUBSET Objs /\ Promote(o, st, mode, holder, holders[o], wss[o], mx, dd)
  BY <1>2, <1>4 DEF Dequeues, TypeOK
<1>0. SleepersOf(st, holder', obj', thr', req') /\ WakeupOf(st, mx, thr', req')
  BY DEF Dequeues
<1>15. \A j \in LockIds \ {i} : mode'[j] = mode[j] /\ holder'[j] = holder[j]
  BY DEF Dequeues
<1> HIDE DEF i, o, wss, dd
<1>6. \A x \in Objs : \A j : j \in Members(wss[x]) <=> j \in Members(waiters[x]) /\ j # i
  <2> SUFFICES ASSUME NEW x \in Objs, NEW j
               PROVE  j \in Members(wss[x]) <=> j \in Members(waiters[x]) /\ j # i
    OBVIOUS
  <2>1. CASE x = o
    BY <1>3, <1>4, <2>1
  <2>2. CASE x # o
    BY <1>1, <1>4, <2>2 DEF LockAt, o
  <2> QED BY <2>1, <2>2
<1>7. \A x \in Objs : i \notin Members(holders[x])
  BY <1>1 DEF LockAt, Dequeues, i
<1>8. ListsOf(st, mode', holder', obj', holders, wss, heldby')
  <2>1. LockAt(i, st, mode', holder', obj', holders, wss, heldby')
    <3>0. \/ st[i] = "FREE" /\ \A k \in Lockers : i \notin Members(heldby'[k])
          \/ /\ st[i] = "ABORTED"
             /\ mode'[i] = mode[i] /\ holder'[i] = holder[i] /\ obj'[i] = obj[i]
             /\ \A k \in Lockers : i \in Members(heldby'[k]) <=> i \in Members(heldby[k])
      BY DEF Dequeues, i
    <3>3. status[i] # "FREE"
      BY DEF Dequeues, i
    <3>1. CASE st[i] = "FREE"
      BY <1>6, <1>7, <3>0, <3>1 DEF LockAt
    <3>2. CASE st[i] = "ABORTED"
      BY <1>1, <1>6, <1>7, <3>0, <3>2, <3>3 DEF LockAt
    <3> QED BY <3>0, <3>1, <3>2
  <2>2. \A j \in LockIds \ {i} : SameLists(j, status, mode, holder, obj, holders,
            waiters, heldby, st, mode', holder', obj', holders, wss, heldby')
    BY <1>6 DEF SameLists, Dequeues, i
  <2> QED BY <1>1, <1>2, <2>1, <2>2, ListsChange
<1>9. DdObjsOf(dd, wss)
  <2>1. \A x \in Objs : x # o => (x \in dd <=> x \in ddObjs) /\ wss[x] = waiters[x]
    BY <1>4 DEF dd
  <2>2. o \in dd <=> Members(wss[o]) # {}
    BY <1>1, <1>2, <1>3, <1>4 DEF dd, DdObjsOf
  <2> QED BY <1>2, <1>5, <2>1, <2>2 DEF DdObjsOf
<1>10. CompatibleOf(mode', holder', holders)
  <2>1. \A x \in Objs : \A j \in Members(holders[x]) :
          mode'[j] = mode[j] /\ holder'[j] = holder[j]
    BY <1>2, <1>7, <1>15, ListTypes
  <2> QED BY <1>2, <2>1 DEF CompatibleOf
<1>11. \A j \in Members(holders[o]) \cup Members(wss[o]) :
         mode'[j] = mode[j] /\ holder'[j] = holder[j]
  <2>1. ASSUME NEW j \in Members(holders[o]) \cup Members(wss[o])
        PROVE  j \in LockIds \ {i}
    <3>1. j # i
      BY <1>1, <1>6, <1>7
    <3>2. j \in Members(holders[o]) \/ j \in Members(waiters[o])
      BY <1>1, <1>6
    <3> QED BY <1>1, <1>2, <3>1, <3>2, ListTypes
  <2> QED BY <1>15, <2>1
<1>12. IsListArray(holders, Objs, LockIds) /\ IsListArray(waiters, Objs, LockIds)
  BY <1>2, ListTypes
<1>13. /\ status' \in [LockIds -> Statuses] /\ ddObjs' \subseteq Objs
       /\ mtx' \in [Lockers -> {"locked", "unlocked"}]
  BY <1>5, PromoteType DEF Dequeues
<1>14. /\ ListsOf(status, mode, holder, obj, holders, waiters, heldby)'
       /\ SleepersOf(status, holder, obj, thr, req)'
       /\ WakeupOf(status, mtx, thr, req)'
       /\ DdObjsOf(ddObjs, waiters)'
       /\ CompatibleOf(mode, holder, holders)'
       /\ IsListArray(holders, Objs, LockIds)'
       /\ IsListArray(waiters, Objs, LockIds)'
  BY <1>0, <1>1, <1>4, <1>5, <1>8, <1>9, <1>10, <1>11, <1>12, PromotePreserves
<1> QED BY <1>13, <1>14

\* A timed-out request that leaves the queue keeps the invariant.
LEMMA WakeExpiredStep ==
    ASSUME IInv, NEW l \in Lockers, WakeExpired(l)
    PROVE  IInv'
<1> DEFINE i == req[l].lk
           st == [status EXCEPT ![i] = "FREE"]
           ws == RemoveAll(waiters[obj[i]], {i})
           mx == [mtx EXCEPT ![l] = "locked"]
<1>1. /\ thr[l] = "sleep" /\ status[i] = "EXPIRED" /\ i \in LockIds /\ holder[i] = l
      /\ obj[i] \in Objs /\ req[l].back \in {"idle", "upgrade"}
      /\ LockAt(i, status, mode, holder, obj, holders, waiters, heldby)
  BY SleepLock DEF WakeExpired, Awake
<1>2. /\ mode' = [mode EXCEPT ![i] = "N"] /\ holder' = [holder EXCEPT ![i] = NoLocker]
      /\ obj' = [obj EXCEPT ![i] = NoObj] /\ refcount' = [refcount EXCEPT ![i] = 0]
      /\ heldby' = [heldby EXCEPT ![l] = RemoveAll(heldby[l], {i})]
      /\ thr' = [thr EXCEPT ![l] = req[l].back] /\ req' = [req EXCEPT ![l] = NoReq]
      /\ UNCHANGED <<nlocks, nwrites, dirty, inabort>>
      /\ Promote(obj[i], st, mode, holder, holders[obj[i]], ws, mx,
                 IF Members(ws) = {} THEN ddObjs \ {obj[i]} ELSE ddObjs)
  BY DEF WakeExpired, Recycle, Unqueued
<1>3. TypeOK /\ needDD' \in BOOLEAN
  BY DEF IInv, TypeOK, WakeExpired, StateChanged
<1>4. /\ IsList(RemoveAll(heldby[l], {i}), LockIds)
      /\ Members(RemoveAll(heldby[l], {i})) = Members(heldby[l]) \ {i}
  BY <1>3, ListTypes, RemoveAllType
<1>5. /\ \A j \in LockIds :
           /\ st[j] = IF j = i THEN "FREE" ELSE status[j]
           /\ mode'[j] = IF j = i THEN "N" ELSE mode[j]
           /\ holder'[j] = IF j = i THEN NoLocker ELSE holder[j]
           /\ obj'[j] = IF j = i THEN NoObj ELSE obj[j]
      /\ \A k \in Lockers : /\ thr'[k] = IF k = l THEN req[l].back ELSE thr[k]
                            /\ req'[k] = IF k = l THEN NoReq ELSE req[k]
                            /\ mx[k] = IF k = l THEN "locked" ELSE mtx[k]
      /\ st \in [LockIds -> Statuses] /\ mx \in [Lockers -> {"locked", "unlocked"}]
  BY <1>2, <1>3 DEF TypeOK, Statuses
<1>6. \A k \in Lockers : \A j : j \in Members(heldby'[k]) <=>
          j \in Members(heldby[k]) /\ (j # i \/ k # l)
  BY <1>2, <1>3, <1>4, ListTypes DEF IsListArray
<1>7. \A k \in Lockers : i \notin Members(heldby'[k])
  BY <1>1, <1>6 DEF LockAt
<1> HIDE DEF st, mx
<1>8. SleepersOf(st, holder', obj', thr', req') /\ WakeupOf(st, mx, thr', req')
  <2>1. /\ \A j \in LockIds \ {req[l].lk} :
             st[j] = status[j] /\ holder'[j] = holder[j] /\ obj'[j] = obj[j]
        /\ st[req[l].lk] \in {"FREE", "HELD"}
        /\ \A k \in Lockers \ {l} : thr'[k] = thr[k] /\ req'[k] = req[k] /\ mx[k] = mtx[k]
        /\ thr'[l] # "sleep" /\ mx[l] = "locked"
    BY <1>1, <1>5
  <2> QED BY <1>1, <2>1, WakeSleepers
<1>9. Dequeues(i, st, ws, mx)
  <2>1. /\ status[i] \in {"WAITING", "EXPIRED"} /\ st[i] = "FREE"
        /\ st \in [LockIds -> Statuses] /\ mx \in [Lockers -> {"locked", "unlocked"}]
    BY <1>1, <1>5
  <2>2. \A j \in LockIds \ {i} :
          /\ st[j] = status[j] /\ mode'[j] = mode[j]
          /\ holder'[j] = holder[j] /\ obj'[j] = obj[j]
          /\ \A k \in Lockers : j \in Members(heldby'[k]) <=> j \in Members(heldby[k])
    BY <1>5, <1>6
  <2>3. Promote(obj[i], st, mode, holder, holders[obj[i]], ws, mx,
                IF Members(ws) = {} THEN ddObjs \ {obj[i]} ELSE ddObjs)
    BY <1>2
  <2> QED BY <1>7, <1>8, <2>1, <2>2, <2>3 DEF Dequeues
<1>10. /\ ListsOf(status, mode, holder, obj, holders, waiters, heldby)'
       /\ SleepersOf(status, holder, obj, thr, req)'
       /\ WakeupOf(status, mtx, thr, req)'
       /\ DdObjsOf(ddObjs, waiters)'
       /\ CompatibleOf(mode, holder, holders)'
       /\ IsListArray(holders, Objs, LockIds)'
       /\ IsListArray(waiters, Objs, LockIds)'
       /\ status' \in [LockIds -> Statuses] /\ ddObjs' \subseteq Objs
       /\ mtx' \in [Lockers -> {"locked", "unlocked"}]
  BY <1>1, <1>9, DequeueStep
<1>11. TypeOK'
  <2>1. IsListArray(heldby', Lockers, LockIds)
    BY <1>2, <1>3, <1>4, ListTypes DEF IsListArray
  <2>2. thr' \in [Lockers -> ThrStates] /\ req' \in [Lockers -> Reqs]
    BY <1>1, <1>2, <1>3 DEF TypeOK, ThrStates, Reqs, NoReq
  <2>3. /\ mode' \in [LockIds -> Modes \cup {"N"}]
        /\ holder' \in [LockIds -> Lockers \cup {NoLocker}]
        /\ obj' \in [LockIds -> Objs \cup {NoObj}] /\ refcount' \in [LockIds -> Nat]
    BY <1>2, <1>3 DEF TypeOK
  <2> QED BY <1>2, <1>3, <1>10, <2>1, <2>2, <2>3 DEF TypeOK
<1>12. HeirOf(thr)'
  BY <1>1, <1>5 DEF IInv, HeirOf
<1> QED BY <1>10, <1>11, <1>12 DEF IInv

\* The detector answers a waiting lock, whose locker sleeps on.
LEMMA DdAbortStep ==
    ASSUME IInv, NEW l \in Lockers, DdAbort(l)
    PROVE  IInv'
<1> DEFINE i == req[l].lk
           st == [status EXCEPT ![i] = "ABORTED"]
           ws == RemoveAll(waiters[obj[i]], {i})
           mx == [mtx EXCEPT ![l] = "unlocked"]
<1>1. /\ thr[l] = "sleep" /\ status[i] = "WAITING" /\ i \in LockIds /\ holder[i] = l
      /\ \A k \in Lockers : thr[k] = "sleep" => req[k].upg # i
      /\ \A k \in Lockers \ {l} : thr[k] = "sleep" => req[k].lk \in LockIds \ {i}
  BY SleepLock DEF DdAbort
<1>2. /\ UNCHANGED <<mode, holder, obj, refcount, needDD, heldby, nlocks, nwrites, dirty,
                     inabort, thr, req>>
      /\ Promote(obj[i], st, mode, holder, holders[obj[i]], ws, mx,
                 IF Members(ws) = {} THEN ddObjs \ {obj[i]} ELSE ddObjs)
  BY DEF DdAbort, Unqueued, lockerVars, thrVars
<1>3. TypeOK /\ SleepersOf(status, holder, obj, thr, req) /\ WakeupOf(status, mtx, thr, req)
  BY DEF IInv
<1>4. /\ \A j \in LockIds : st[j] = IF j = i THEN "ABORTED" ELSE status[j]
      /\ \A k \in Lockers : mx[k] = IF k = l THEN "unlocked" ELSE mtx[k]
      /\ st \in [LockIds -> Statuses] /\ mx \in [Lockers -> {"locked", "unlocked"}]
  BY <1>3 DEF TypeOK, Statuses
<1> HIDE DEF st, mx
<1>5. SleepersOf(st, holder', obj', thr', req')
  <2>1. holder' = holder /\ obj' = obj /\ thr' = thr /\ req' = req
    BY <1>2
  <2>2. /\ \A j \in LockIds : st[j] \notin {"FREE", "HELD"} <=> status[j] \notin {"FREE", "HELD"}
        /\ \A j \in LockIds : st[j] = "HELD" <=> status[j] = "HELD"
    BY <1>1, <1>4
  <2>3. \A j \in LockIds : st[j] \notin {"FREE", "HELD"} =>
          thr[holder[j]] = "sleep" /\ req[holder[j]].lk = j
    BY <1>3, <2>2 DEF SleepersOf
  <2>4. \A k \in Lockers : thr[k] = "sleep" =>
          /\ req[k].lk \in LockIds /\ holder[req[k].lk] = k
          /\ st[req[k].lk] \notin {"FREE", "HELD"}
          /\ req[k].upg # NoLock =>
               /\ req[k].upg \in LockIds /\ holder[req[k].upg] = k
               /\ st[req[k].upg] = "HELD" /\ obj[req[k].upg] = obj[req[k].lk]
    BY <1>3, <2>2 DEF SleepersOf
  <2> QED BY <2>1, <2>3, <2>4 DEF SleepersOf
<1>6. WakeupOf(st, mx, thr', req')
  <2> SUFFICES ASSUME NEW k \in Lockers
               PROVE  mx[k] = "unlocked" <=>
                        thr[k] = "sleep" /\ st[req[k].lk] \in {"PENDING", "ABORTED", "EXPIRED"}
    BY <1>2 DEF WakeupOf
  <2>1. CASE k = l
    BY <1>1, <1>4, <2>1
  <2>2. CASE k # l
    BY <1>1, <1>3, <1>4, <2>2 DEF WakeupOf
  <2> QED BY <2>1, <2>2
<1>7. Dequeues(i, st, ws, mx)
  BY <1>1, <1>2, <1>4, <1>5, <1>6 DEF Dequeues
<1>8. /\ ListsOf(status, mode, holder, obj, holders, waiters, heldby)'
      /\ SleepersOf(status, holder, obj, thr, req)'
      /\ WakeupOf(status, mtx, thr, req)'
      /\ DdObjsOf(ddObjs, waiters)'
      /\ CompatibleOf(mode, holder, holders)'
      /\ IsListArray(holders, Objs, LockIds)'
      /\ IsListArray(waiters, Objs, LockIds)'
      /\ status' \in [LockIds -> Statuses] /\ ddObjs' \subseteq Objs
      /\ mtx' \in [Lockers -> {"locked", "unlocked"}]
  BY <1>1, <1>7, DequeueStep
<1>9. TypeOK'
  BY <1>2, <1>3, <1>8 DEF TypeOK
<1>10. HeirOf(thr)'
  BY <1>2 DEF IInv, HeirOf
<1> QED BY <1>8, <1>9, <1>10 DEF IInv

\* Expired waiters stay on their queue and are woken.
LEMMA DdExpireStep ==
    ASSUME IInv, NEW o \in Objs, DdExpire(o)
    PROVE  IInv'
<1>1. PICK S \in SUBSET Expirable(o) \ {{}} :
        /\ status' = [i \in LockIds |-> IF i \in S THEN "EXPIRED" ELSE status[i]]
        /\ mtx' = Woken(S, holder, mtx)
        /\ UNCHANGED <<mode, holder, obj, refcount, holders, waiters, ddObjs, needDD,
                       heldby, nlocks, nwrites, dirty, inabort, thr, req>>
  BY DEF DdExpire, objVars, lockerVars, thrVars
<1>2. /\ TypeOK /\ ListsOf(status, mode, holder, obj, holders, waiters, heldby)
      /\ SleepersOf(status, holder, obj, thr, req) /\ WakeupOf(status, mtx, thr, req)
  BY DEF IInv
<1>3. \A i \in S : i \in LockIds /\ status[i] = "WAITING" /\ holder[i] \in Lockers
                   /\ thr[holder[i]] = "sleep" /\ req[holder[i]].lk = i
  <2>1. \A i \in S : i \in LockIds /\ status[i] = "WAITING"
    BY <1>2, ListTypes DEF Expirable, Waiting
  <2> QED BY <1>2, <2>1 DEF ListsOf, LockAt, SleepersOf
<1>4. /\ \A i \in LockIds : status'[i] = IF i \in S THEN "EXPIRED" ELSE status[i]
      /\ \A l \in Lockers :
           mtx'[l] = IF \E i \in S : holder[i] = l THEN "unlocked" ELSE mtx[l]
  BY <1>1 DEF Woken
<1>5. TypeOK'
  BY <1>1, <1>2 DEF TypeOK, Woken, Statuses
<1>6. ListsOf(status, mode, holder, obj, holders, waiters, heldby)'
  BY <1>1, <1>2, <1>3, <1>4 DEF ListsOf, LockAt
<1>7. SleepersOf(status, holder, obj, thr, req)'
  BY <1>1, <1>2, <1>3, <1>4 DEF SleepersOf
<1>8. WakeupOf(status, mtx, thr, req)'
  <2> SUFFICES ASSUME NEW l \in Lockers
               PROVE  mtx'[l] = "unlocked" <=>
                        /\ thr[l] = "sleep"
                        /\ status'[req[l].lk] \in {"PENDING", "ABORTED", "EXPIRED"}
    BY <1>1 DEF WakeupOf
  <2>1. CASE \E i \in S : holder[i] = l
    BY <1>3, <1>4, <2>1
  <2>2. CASE ~ \E i \in S : holder[i] = l
    <3>1. thr[l] = "sleep" => req[l].lk \in LockIds /\ req[l].lk \notin S
      BY <1>2, <2>2 DEF SleepersOf
    <3> QED BY <1>2, <1>4, <2>2, <3>1 DEF WakeupOf
  <2> QED BY <2>1, <2>2
<1>9. DdObjsOf(ddObjs, waiters)' /\ CompatibleOf(mode, holder, holders)' /\ HeirOf(thr)'
  BY <1>1 DEF IInv
<1> QED BY <1>5, <1>6, <1>7, <1>8, <1>9 DEF IInv

\* Nothing but need_dd changes when the detector starts, or nothing at all.
LEMMA NeedStep ==
    ASSUME IInv, DdStart \/ UNCHANGED vars
    PROVE  IInv'
<1>1. /\ UNCHANGED <<lockVars, objVars, lockerVars, mtx, thrVars>>
      /\ needDD' \in BOOLEAN
  BY DEF DdStart, vars, IInv, TypeOK
<1> USE <1>1 DEF lockVars, objVars, lockerVars, thrVars
<1>2. TypeOK'
  BY DEF IInv, TypeOK
<1>3. /\ ListsOf(status, mode, holder, obj, holders, waiters, heldby)'
      /\ SleepersOf(status, holder, obj, thr, req)'
      /\ WakeupOf(status, mtx, thr, req)'
      /\ DdObjsOf(ddObjs, waiters)'
      /\ CompatibleOf(mode, holder, holders)'
      /\ HeirOf(thr)'
  BY DEF IInv
<1> QED BY <1>2, <1>3 DEF IInv

-----------------------------------------------------------------------------
(* The theorems.                                                           *)

\* The region starts with every lock free and every list empty.
LEMMA InitIInv == Init => IInv
<1> SUFFICES ASSUME Init
             PROVE  IInv
  OBVIOUS
<1> USE DEF Init
<1>1. IsList(EmptyList, LockIds) /\ Members(EmptyList) = {}
  BY EmptyListType
<1>2. TypeOK
  <2>1. /\ IsListArray(holders, Objs, LockIds) /\ IsListArray(waiters, Objs, LockIds)
        /\ IsListArray(heldby, Lockers, LockIds)
    BY <1>1 DEF IsListArray
  <2>2. /\ status \in [LockIds -> Statuses] /\ mode \in [LockIds -> Modes \cup {"N"}]
        /\ holder \in [LockIds -> Lockers \cup {NoLocker}]
        /\ obj \in [LockIds -> Objs \cup {NoObj}] /\ refcount \in [LockIds -> Nat]
    BY DEF Statuses
  <2>3. /\ nlocks \in [Lockers -> Int] /\ nwrites \in [Lockers -> Int]
        /\ dirty \in [Lockers -> BOOLEAN] /\ inabort \in [Lockers -> BOOLEAN]
    OBVIOUS
  <2>4. /\ mtx \in [Lockers -> {"locked", "unlocked"}] /\ thr \in [Lockers -> ThrStates]
        /\ req \in [Lockers -> Reqs]
    BY DEF ThrStates, Reqs, NoReq
  <2> QED BY <2>1, <2>2, <2>3, <2>4 DEF TypeOK
<1>3. ListsOf(status, mode, holder, obj, holders, waiters, heldby)
  BY <1>1 DEF ListsOf, LockAt
<1>4. SleepersOf(status, holder, obj, thr, req)
  BY DEF SleepersOf
<1>5. WakeupOf(status, mtx, thr, req)
  BY DEF WakeupOf
<1>6. DdObjsOf(ddObjs, waiters)
  BY <1>1 DEF DdObjsOf
<1>7. CompatibleOf(mode, holder, holders)
  BY <1>1 DEF CompatibleOf
<1>8. HeirOf(thr)
  BY DEF HeirOf
<1> QED BY <1>2, <1>3, <1>4, <1>5, <1>6, <1>7, <1>8 DEF IInv

\* Every step keeps the invariant.
LEMMA NextIInv == IInv /\ [Next]_vars => IInv'
<1> SUFFICES ASSUME IInv, [Next]_vars
             PROVE  IInv'
  OBVIOUS
<1>1. ASSUME NEW l \in Lockers, LockerStep(l)
      PROVE  IInv'
  <2>1. CASE Begin(l) \/ Commit(l) \/ Abort(l) \/ ReadReleased(l)
             \/ WritesUpgraded(l) \/ Undone(l) \/ End(l)
    BY <2>1, ThreadActions
  <2>2. CASE \E o \in Objs, m \in Modes : GetAgain(l, o, m)
    BY <2>2, ReferenceActions
  <2>3. CASE \E o \in Objs, m \in Modes : GetGranted(l, o, m)
    BY <2>3, GrantedStep
  <2>4. CASE \E o \in Objs, m \in Modes : GetWaits(l, o, m)
    BY <2>4, WaitsStep
  <2>5. CASE \E i \in LockIds : PutReference(l, i)
    BY <2>5, ReferenceActions
  <2>6. CASE (\E i \in LockIds : Put(l, i)) \/ ReleaseRead(l) \/ ReleaseNext(l)
    BY <2>6, ReleaseActions
  <2>7. CASE \E i \in LockIds, m \in Modes : Downgrade(l, i, m)
    BY <2>7, DowngradeStep
  <2>8. CASE (\E i \in LockIds, m \in Modes : Upgrade(l, i, m)) \/ UpgradeWrite(l)
    BY <2>8, UpgradeActions
  <2>9. CASE InheritNext(l)
    BY <2>9, InheritStep
  <2>10. CASE WakeGranted(l)
    BY <2>10, WakeGrantedStep
  <2>11. CASE WakeUpgraded(l)
    BY <2>11, WakeUpgradedStep
  <2>12. CASE WakeAborted(l)
    BY <2>12, WakeAbortedStep
  <2>13. CASE WakeExpired(l)
    BY <2>13, WakeExpiredStep
  <2> QED BY <1>1, <2>1, <2>2, <2>3, <2>4, <2>5, <2>6, <2>7, <2>8, <2>9, <2>10,
             <2>11, <2>12, <2>13 DEF LockerStep
<1>2. ASSUME NEW l \in Lockers, DdAbort(l)
      PROVE  IInv'
  BY <1>2, DdAbortStep
<1>3. ASSUME NEW o \in Objs, DdExpire(o)
      PROVE  IInv'
  BY <1>3, DdExpireStep
<1>4. CASE DdStart \/ UNCHANGED vars
  BY <1>4, NeedStep
<1> QED BY <1>1, <1>2, <1>3, <1>4 DEF Next

\* The inductive invariant holds of every reachable state.
THEOREM Invariant == Spec => []IInv
BY InitIInv, NextIInv, PTL DEF Spec

\* Every variable keeps its type.
THEOREM TypeCorrect == Spec => []TypeOK
BY Invariant, IInvMeaning, PTL

\* The granted locks of unrelated lockers never conflict.
THEOREM GrantsCompatible == Spec => []Compatible
BY Invariant, IInvMeaning, PTL

\* A locker's mutex is unlocked exactly when its request was answered: no
\* wake-up of __lock_promote, __dd_abort or __dd_build is lost, none is left over.
THEOREM WakeupsExact == Spec => []WakeupExact
BY Invariant, IInvMeaning, PTL

\* No lock structure is lost, or on a list its status does not call for.
THEOREM NoLockLost == Spec => []ListsExact
BY Invariant, IInvMeaning, PTL

\* A lock being upgraded stays held by its locker until the upgrade is answered.
THEOREM SleepersConsistent == Spec => []SleepersExact
BY Invariant, IInvMeaning, PTL

\* The deadlock detector visits exactly the objects with waiters.
THEOREM DetectorSeesWaiters == Spec => []DdObjsExact
BY Invariant, IInvMeaning, PTL

-----------------------------------------------------------------------------
(***************************************************************************)
(* The queues and the counts.                                              *)
(*                                                                         *)
(* The second inductive invariant, QInv, adds to IInv what the order of    *)
(* the waiters' queue and the counters of a locker rest on.  That nobody   *)
(* waits for nothing is not inductive alone: a granted upgrade replaces    *)
(* the mode a waiter was blocked by (Upgrading), and a merged or inherited *)
(* lock the locker it was blocked by (Families).                           *)
(***************************************************************************)

\* The lock in the first place of the queue, if it waits, is blocked.
FirstBlocked(o) ==
    \A i \in Members(waiters[o]) :
        waiters[o][i] = 1 /\ status[i] = "WAITING" =>
            BlockedBy(i, Members(holders[o]), mode, holder)

\* Every queue has a lock in each place, and a first waiter that is blocked.
Queued == \A o \in Objs : IsQueue(waiters[o]) /\ FirstBlocked(o)

\* A lock of mode a keeps out whatever one of mode b does, and writes if it does.
Stronger(a, b) ==
    /\ \A m \in Modes : b \in Conflicts[m] => a \in Conflicts[m]
    /\ b \in WriteModes => a \in WriteModes

\* A waiting upgrade asks for no weaker a mode than the one it replaces.
Upgrading ==
    \A l \in Lockers : thr[l] = "sleep" /\ req[l].upg # NoLock =>
        Stronger(mode[req[l].lk], mode[req[l].upg])

\* The locks, and the write locks, that locker l holds.
HeldOf(l, st, hd) == {i \in LockIds : st[i] = "HELD" /\ hd[i] = l}

WritesOf(l, st, md, hd) == {i \in HeldOf(l, st, hd) : md[i] \in WriteModes}

\* The counters of a locker that neither hands its locks on nor ended.
Counted ==
    \A l \in Lockers : thr[l] \notin {"inherit", "none"} =>
        /\ nlocks[l] = Cardinality(HeldOf(l, status, holder))
        /\ nwrites[l] = Cardinality(WritesOf(l, status, mode, holder))

\* A transaction's parent can do nothing else until it ended, only a child
\* hands its locks on, and an ended locker has none.
Families ==
    \A l \in Lockers :
        /\ thr[l] # "none" /\ Parent[l] # NoLocker /\ Parent[l] \notin FamilyRoots
             => thr[Parent[l]] = "idle"
        /\ thr[l] = "inherit" => Parent[l] \notin FamilyRoots
        /\ thr[l] = "none" => Members(heldby[l]) = {}

\* The second inductive invariant.
QInv == IInv /\ Queued /\ Upgrading /\ Counted /\ Families

-----------------------------------------------------------------------------
(* Counting.                                                               *)

\* Two finite sets that agree on everything but x.
LEMMA OneChange ==
    ASSUME NEW S, IsFiniteSet(S), NEW T, IsFiniteSet(T), NEW x,
           \A j : j # x => (j \in S <=> j \in T)
    PROVE  Cardinality(T) = Cardinality(S) + (IF x \in T THEN 1 ELSE 0)
                                           - (IF x \in S THEN 1 ELSE 0)
<1>1. Cardinality(S) \in Nat /\ Cardinality(T) \in Nat
  BY FS_CardinalityType
<1>2. CASE x \in S <=> x \in T
  <2>1. S = T
    BY <1>2
  <2> QED BY <1>1, <1>2, <2>1
<1>3. CASE x \notin S /\ x \in T
  <2>1. T = S \cup {x}
    BY <1>3
  <2> QED BY <1>1, <1>3, <2>1, FS_AddElement
<1>4. CASE x \in S /\ x \notin T
  <2>1. S = T \cup {x}
    BY <1>4
  <2> QED BY <1>1, <1>4, <2>1, FS_AddElement
<1> QED BY <1>2, <1>3, <1>4

\* What lock x adds to the counts of locker l.
HeldBit(x, l, st, hd) == IF st[x] = "HELD" /\ hd[x] = l THEN 1 ELSE 0

WriteBit(x, l, st, md, hd) ==
    IF st[x] = "HELD" /\ hd[x] = l /\ md[x] \in WriteModes THEN 1 ELSE 0

\* Only lock x is held by another locker, or in another mode, than before.
OnlyHeld(x) ==
    \A j \in LockIds \ {x} :
        /\ status'[j] = "HELD" <=> status[j] = "HELD"
        /\ status[j] = "HELD" => mode'[j] = mode[j] /\ holder'[j] = holder[j]

\* One lock changes: the numbers of locks change by what it was and is.
LEMMA CountStep ==
    ASSUME NEW x \in LockIds, OnlyHeld(x), NEW l
    PROVE  /\ Cardinality(HeldOf(l, status', holder')) =
                Cardinality(HeldOf(l, status, holder))
                  + HeldBit(x, l, status', holder') - HeldBit(x, l, status, holder)
           /\ Cardinality(WritesOf(l, status', mode', holder')) =
                Cardinality(WritesOf(l, status, mode, holder))
                  + WriteBit(x, l, status', mode', holder')
                  - WriteBit(x, l, status, mode, holder)
<1> DEFINE H == HeldOf(l, status, holder)
           H2 == HeldOf(l, status', holder')
           W == WritesOf(l, status, mode, holder)
           W2 == WritesOf(l, status', mode', holder')
<1>1. /\ H \in SUBSET LockIds /\ H2 \in SUBSET LockIds
      /\ W \in SUBSET LockIds /\ W2 \in SUBSET LockIds
  BY DEF HeldOf, WritesOf
<1>2. \A j : j # x => (j \in H <=> j \in H2) /\ (j \in W <=> j \in W2)
  BY DEF HeldOf, WritesOf, OnlyHeld
<1>3. /\ HeldBit(x, l, status, holder) = IF x \in H THEN 1 ELSE 0
      /\ HeldBit(x, l, status', holder') = IF x \in H2 THEN 1 ELSE 0
      /\ WriteBit(x, l, status, mode, holder) = IF x \in W THEN 1 ELSE 0
      /\ WriteBit(x, l, status', mode', holder') = IF x \in W2 THEN 1 ELSE 0
  BY DEF HeldOf, WritesOf, HeldBit, WriteBit
<1> HIDE DEF H, H2, W, W2
<1>4. IsFiniteSet(H) /\ IsFiniteSet(H2) /\ IsFiniteSet(W) /\ IsFiniteSet(W2)
  BY <1>1, FS_Subset, IdAssumption
<1>5. Cardinality(H2) = Cardinality(H) + (IF x \in H2 THEN 1 ELSE 0)
                                       - (IF x \in H THEN 1 ELSE 0)
  BY <1>2, <1>4, OneChange
<1>6. Cardinality(W2) = Cardinality(W) + (IF x \in W2 THEN 1 ELSE 0)
                                       - (IF x \in W THEN 1 ELSE 0)
  BY <1>2, <1>4, OneChange
<1> QED BY <1>3, <1>5, <1>6 DEF H, H2, W, W2

\* A step that changes the counters by what became of one lock keeps them exact.
LEMMA CountedStep ==
    ASSUME Counted, NEW x \in LockIds, OnlyHeld(x),
           \A l \in Lockers : thr'[l] \notin {"inherit", "none"} =>
               /\ thr[l] \notin {"inherit", "none"}
               /\ nlocks'[l] = nlocks[l] + HeldBit(x, l, status', holder')
                                         - HeldBit(x, l, status, holder)
               /\ nwrites'[l] = nwrites[l] + WriteBit(x, l, status', mode', holder')
                                           - WriteBit(x, l, status, mode, holder)
    PROVE  Counted'
<1> SUFFICES ASSUME NEW l \in Lockers, thr'[l] \notin {"inherit", "none"}
             PROVE  /\ nlocks'[l] = Cardinality(HeldOf(l, status', holder'))
                    /\ nwrites'[l] = Cardinality(WritesOf(l, status', mode', holder'))
  BY DEF Counted
<1>1. /\ nlocks[l] = Cardinality(HeldOf(l, status, holder))
      /\ nwrites[l] = Cardinality(WritesOf(l, status, mode, holder))
  BY DEF Counted
<1> QED BY <1>1, CountStep

\* No lock is granted, given back or changed.
LEMMA CountedKept ==
    ASSUME Counted,
           \A j \in LockIds :
               /\ status'[j] = "HELD" <=> status[j] = "HELD"
               /\ status[j] = "HELD" => mode'[j] = mode[j] /\ holder'[j] = holder[j],
           \A l \in Lockers : thr'[l] \notin {"inherit", "none"} =>
               /\ thr[l] \notin {"inherit", "none"}
               /\ nlocks'[l] = nlocks[l] /\ nwrites'[l] = nwrites[l]
    PROVE  Counted'
<1> SUFFICES ASSUME NEW l \in Lockers, thr'[l] \notin {"inherit", "none"}
             PROVE  /\ nlocks'[l] = Cardinality(HeldOf(l, status', holder'))
                    /\ nwrites'[l] = Cardinality(WritesOf(l, status', mode', holder'))
  BY DEF Counted
<1>1. HeldOf(l, status', holder') = HeldOf(l, status, holder)
  BY DEF HeldOf
<1>2. WritesOf(l, status', mode', holder') = WritesOf(l, status, mode, holder)
  BY DEF HeldOf, WritesOf
<1> QED BY <1>1, <1>2 DEF Counted

-----------------------------------------------------------------------------
(* Families.                                                               *)

\* A step of one locker's thread keeps the families as they were described.
LEMMA FamiliesStep ==
    ASSUME TypeOK, Families, NEW l \in Lockers, NEW v, thr' = [thr EXCEPT ![l] = v],
           thr[l] = "none" /\ v # "none" /\ Parent[l] # NoLocker =>
               thr[Parent[l]] = "idle",
           v = "inherit" => Parent[l] \notin FamilyRoots,
           thr[l] = "idle" /\ v # "idle" => ChildrenResolved(l),
           \A k \in Lockers : thr'[k] = "none" => Members(heldby'[k]) = {}
    PROVE  Families'
<1>1. \A k \in Lockers : thr'[k] = IF k = l THEN v ELSE thr[k]
  BY DEF TypeOK
<1> SUFFICES ASSUME NEW k \in Lockers
             PROVE  /\ thr'[k] # "none" /\ Parent[k] # NoLocker
                         /\ Parent[k] \notin FamilyRoots
                         => thr'[Parent[k]] = "idle"
                    /\ thr'[k] = "inherit" => Parent[k] \notin FamilyRoots
  BY DEF Families
<1>2. Parent[k] # NoLocker => Parent[k] \in Lockers /\ Parent[k] # k
  BY FamilyAssumption
<1>3. thr'[k] = "inherit" => Parent[k] \notin FamilyRoots
  BY <1>1 DEF Families
<1>4. ASSUME thr'[k] # "none", Parent[k] # NoLocker, Parent[k] \notin FamilyRoots
      PROVE  thr'[Parent[k]] = "idle"
  <2>1. CASE k = l
    BY <1>1, <1>2, <1>4, <2>1 DEF Families
  <2>2. CASE k # l /\ Parent[k] # l
    BY <1>1, <1>2, <1>4, <2>2 DEF Families
  <2>3. CASE k # l /\ Parent[k] = l
    BY <1>1, <1>2, <1>4, <2>3 DEF Families, ChildrenResolved
  <2> QED BY <2>1, <2>2, <2>3
<1> QED BY <1>3, <1>4

-----------------------------------------------------------------------------
(* The queues.                                                             *)

\* What the order of a queue says of the waiters a promotion leaves.
LEMMA PromoteOrder ==
    ASSUME NEW st, NEW md, NEW hd, NEW hs, NEW ws, IsList(ws, LockIds), IsQueue(ws),
           NEW P, P = Promotable(st, md, hd, hs, ws),
           NEW j \in Waiting(st, ws) \ P
    PROVE  /\ \A i \in P : ws[i] < ws[j]
           /\ (\A i \in Waiting(st, ws) \ P : ws[j] <= ws[i]) =>
                BlockedBy(j, Members(hs) \cup P, md, hd)
<1>1. /\ \A i \in Members(ws) : ws[i] \in Nat
      /\ \A i, k \in Members(ws) : ws[i] = ws[k] => i = k
      /\ Waiting(st, ws) \subseteq Members(ws) /\ P \subseteq Waiting(st, ws)
  BY DEF IsList, IsQueue, Waiting, Promotable
<1>2. \A i \in P : \A k \in AheadOf(i, st, ws) \cup {i} :
        ~BlockedBy(k, Members(hs) \cup AheadOf(k, st, ws), md, hd)
  BY DEF Promotable
<1>3. PICK k \in AheadOf(j, st, ws) \cup {j} :
        BlockedBy(k, Members(hs) \cup AheadOf(k, st, ws), md, hd)
  BY DEF Promotable
<1>4. ASSUME NEW i \in P PROVE ws[i] < ws[j]
  <2> SUFFICES ASSUME ws[j] <= ws[i] PROVE FALSE
    BY <1>1
  <2>1. k \in AheadOf(i, st, ws)
    BY <1>1, <1>3 DEF AheadOf
  <2> QED BY <1>2, <1>3, <2>1
<1>5. ASSUME \A i \in Waiting(st, ws) \ P : ws[j] <= ws[i]
      PROVE  BlockedBy(j, Members(hs) \cup P, md, hd)
  <2>1. AheadOf(j, st, ws) \subseteq P
    BY <1>1, <1>5 DEF AheadOf
  <2>2. k = j
    BY <1>2, <1>3, <2>1
  <2> QED BY <1>3, <2>1, <2>2 DEF BlockedBy
<1> QED BY <1>4, <1>5

\* Lock x, whose request is answered or given up, or which is released,
\* downgraded or handed on, and the promotion that follows on its object.
Promoting(x, st, md, hd, hs, ws, mx, dd) ==
    /\ x \in LockIds /\ obj[x] \in Objs
    /\ \/ status[x] = "HELD" /\ st[x] \in {"HELD", "FREE"} /\ ws = waiters[obj[x]]
       \/ st[x] \in {"FREE", "ABORTED"} /\ ws = RemoveAll(waiters[obj[x]], {x})
    /\ hs = holders[obj[x]] \/ hs = RemoveAll(holders[obj[x]], {x})
    /\ \A j \in LockIds \ {x} :
         /\ st[j] = status[j] /\ mode'[j] = mode[j]
         /\ holder'[j] = holder[j] /\ obj'[j] = obj[j]
    /\ \A j \in Members(hs) \cup Members(ws) : mode'[j] = md[j] /\ holder'[j] = hd[j]
    /\ Promote(obj[x], st, md, hd, hs, ws, mx, dd)

PromotingStep ==
    \E x, st, md, hd, hs, ws, mx, dd : Promoting(x, st, md, hd, hs, ws, mx, dd)

\* Where the lists and the statuses are around such a step.
LEMMA PromotingFacts ==
    ASSUME IInv, Queued, NEW x, NEW st, NEW md, NEW hd, NEW hs, NEW ws, NEW mx, NEW dd,
           Promoting(x, st, md, hd, hs, ws, mx, dd),
           NEW o, o = obj[x], NEW P, P = Promotable(st, md, hd, hs, ws)
    PROVE  /\ o \in Objs /\ IsList(hs, LockIds) /\ IsList(ws, LockIds) /\ IsQueue(ws)
           /\ \A i \in Members(ws) : i \in LockIds /\ i \in Members(waiters[o])
           /\ \A i, j \in Members(ws) : ws[i] <= ws[j] <=> waiters[o][i] <= waiters[o][j]
           /\ \A j \in Members(waiters[o]) : j # x => j \in Members(ws)
           /\ x \notin Waiting(st, ws)
           /\ P \subseteq Waiting(st, ws)
           /\ status' = [i \in LockIds |-> IF i \in P THEN "PENDING" ELSE st[i]]
           /\ Members(holders'[o]) = Members(hs) \cup P
           /\ waiters'[o] = RemoveAll(ws, P)
           /\ \A y \in Objs : y # o => holders'[y] = holders[y] /\ waiters'[y] = waiters[y]
<1>1. /\ TypeOK /\ o \in Objs /\ x \in LockIds
      /\ st[x] # "WAITING" /\ Promote(o, st, md, hd, hs, ws, mx, dd)
      /\ ws = waiters[o] \/ ws = RemoveAll(waiters[o], {x})
      /\ hs = holders[o] \/ hs = RemoveAll(holders[o], {x})
  BY DEF IInv, Promoting
<1>2. /\ IsFiniteSet(LockIds) /\ IsList(holders[o], LockIds) /\ IsList(waiters[o], LockIds)
      /\ IsQueue(waiters[o])
      /\ IsListArray(holders, Objs, LockIds) /\ IsListArray(waiters, Objs, LockIds)
  BY <1>1, ListTypes DEF Queued
<1>3. IsList(hs, LockIds)
  BY <1>1, <1>2, RemoveAllType
<1>4. /\ IsList(ws, LockIds) /\ IsQueue(ws)
      /\ \A i \in Members(ws) : i \in Members(waiters[o])
      /\ \A i, j \in Members(ws) : ws[i] <= ws[j] <=> waiters[o][i] <= waiters[o][j]
      /\ \A j \in Members(waiters[o]) : j # x => j \in Members(ws)
  <2>1. CASE ws = waiters[o]
    BY <1>2, <2>1
  <2>2. CASE ws = RemoveAll(waiters[o], {x})
    <3>1. /\ IsList(ws, LockIds) /\ Members(ws) = Members(waiters[o]) \ {x}
      BY <1>2, <2>2, RemoveAllType
    <3>2. /\ IsQueue(ws)
          /\ \A i, j \in Members(waiters[o]) \ {x} :
               ws[i] <= ws[j] <=> waiters[o][i] <= waiters[o][j]
      BY <1>2, <2>2, RemoveAllQueue
    <3> QED BY <3>1, <3>2
  <2> QED BY <1>1, <2>1, <2>2
<1>5. Promoted(P, o, st, md, hd, hs, ws, mx, dd)
  BY <1>1, <1>2, <1>3, <1>4, PromoteEffect
<1>6. waiters'[o] = RemoveAll(ws, P)
  BY <1>1, <1>2 DEF Promote, IsListArray
<1>7. x \notin Waiting(st, ws)
  BY <1>1 DEF Waiting
<1>8. \A i \in Members(ws) : i \in LockIds
  BY <1>4 DEF IsList
<1> QED BY <1>1, <1>3, <1>4, <1>5, <1>6, <1>7, <1>8 DEF Promoted

\* A promotion leaves a queue whose first waiter is blocked.
LEMMA PromotingQueued ==
    ASSUME IInv, Queued, PromotingStep
    PROVE  Queued'
<1>1. PICK x, st, md, hd, hs, ws, mx, dd : Promoting(x, st, md, hd, hs, ws, mx, dd)
  BY DEF PromotingStep
<1> DEFINE o == obj[x]
           P == Promotable(st, md, hd, hs, ws)
<1>2. /\ o \in Objs /\ IsList(hs, LockIds) /\ IsList(ws, LockIds) /\ IsQueue(ws)
      /\ \A i \in Members(ws) : i \in LockIds /\ i \in Members(waiters[o])
      /\ x \notin Waiting(st, ws)
      /\ P \subseteq Waiting(st, ws)
      /\ status' = [i \in LockIds |-> IF i \in P THEN "PENDING" ELSE st[i]]
      /\ Members(holders'[o]) = Members(hs) \cup P
      /\ waiters'[o] = RemoveAll(ws, P)
      /\ \A y \in Objs : y # o => holders'[y] = holders[y] /\ waiters'[y] = waiters[y]
  BY <1>1, PromotingFacts
<1>3. /\ x \in LockIds
      /\ \A j \in LockIds \ {x} :
           /\ st[j] = status[j] /\ mode'[j] = mode[j]
           /\ holder'[j] = holder[j] /\ obj'[j] = obj[j]
      /\ \A j \in Members(hs) \cup Members(ws) : mode'[j] = md[j] /\ holder'[j] = hd[j]
  BY <1>1 DEF Promoting
<1>4. IsFiniteSet(LockIds) /\ P = Promotable(st, md, hd, hs, ws)
  BY IdAssumption
<1>5. TypeOK /\ ListsOf(status, mode, holder, obj, holders, waiters, heldby)
  BY DEF IInv
<1>0. o = obj[x]
  OBVIOUS
<1> HIDE DEF o, P
<1>6. IsQueue(waiters'[o]) /\ Members(waiters'[o]) = Members(ws) \ P
      /\ \A i, j \in Members(ws) \ P : waiters'[o][i] <= waiters'[o][j] <=> ws[i] <= ws[j]
  BY <1>2, <1>4, RemoveAllType, RemoveAllQueue
<1>7. \A i \in Members(waiters'[o]) :
        waiters'[o][i] = 1 /\ status'[i] = "WAITING" =>
            BlockedBy(i, Members(holders'[o]), mode', holder')
  <2> SUFFICES ASSUME NEW i \in Members(waiters'[o]), waiters'[o][i] = 1,
                      status'[i] = "WAITING"
               PROVE  BlockedBy(i, Members(holders'[o]), mode', holder')
    OBVIOUS
  <2>1. i \in Members(ws) \ P /\ i \in LockIds
    BY <1>2, <1>6
  <2>2. i \in Waiting(st, ws) \ P
    BY <1>2, <2>1 DEF Waiting
  <2>3. \A j \in Members(waiters'[o]) : 1 <= waiters'[o][j]
    BY <1>6 DEF IsQueue
  <2>4. \A j \in Waiting(st, ws) \ P : ws[i] <= ws[j]
    BY <1>6, <2>1, <2>3 DEF Waiting
  <2>5. BlockedBy(i, Members(hs) \cup P, md, hd)
    BY <1>2, <1>4, <2>2, <2>4, PromoteOrder
  <2> QED BY <1>2, <1>3, <2>1, <2>5 DEF BlockedBy, Waiting
<1>8. ASSUME NEW y \in Objs, y # o
      PROVE  /\ IsQueue(waiters'[y])
             /\ \A i \in Members(waiters'[y]) :
                  waiters'[y][i] = 1 /\ status'[i] = "WAITING" =>
                      BlockedBy(i, Members(holders'[y]), mode', holder')
  <2>1. IsQueue(waiters[y]) /\ FirstBlocked(y)
        /\ holders'[y] = holders[y] /\ waiters'[y] = waiters[y]
    BY <1>2, <1>8 DEF Queued
  <2>2. \A i \in Members(waiters[y]) \cup Members(holders[y]) :
          /\ i \in LockIds /\ i # x
          /\ mode'[i] = mode[i] /\ holder'[i] = holder[i] /\ st[i] = status[i]
    <3>1. \A i \in Members(waiters[y]) \cup Members(holders[y]) : i \in LockIds
      BY <1>5, ListTypes
    <3>2. x \notin Members(waiters[y]) /\ x \notin Members(holders[y])
      BY <1>0, <1>2, <1>3, <1>5, <1>8 DEF ListsOf, LockAt
    <3> QED BY <1>3, <3>1, <3>2
  <2>3. \A i \in Members(waiters[y]) : status'[i] = "WAITING" => status[i] = "WAITING"
    BY <1>2, <2>2
  <2> QED BY <2>1, <2>2, <2>3 DEF FirstBlocked, BlockedBy
<1> QED BY <1>6, <1>7, <1>8 DEF Queued, FirstBlocked

\* Promotion lets the waiters in in the order of the queue.
LEMMA PromotingInOrder ==
    ASSUME IInv, Queued, PromotingStep, NEW i \in LockIds, NEW j \in LockIds
    PROVE  InOrder(i, j)
<1>1. PICK x, st, md, hd, hs, ws, mx, dd : Promoting(x, st, md, hd, hs, ws, mx, dd)
  BY DEF PromotingStep
<1> DEFINE o == obj[x]
           P == Promotable(st, md, hd, hs, ws)
<1>2. /\ o \in Objs /\ IsList(ws, LockIds) /\ IsQueue(ws)
      /\ \A k \in Members(ws) : k \in LockIds /\ k \in Members(waiters[o])
      /\ \A k, n \in Members(ws) : ws[k] <= ws[n] <=> waiters[o][k] <= waiters[o][n]
      /\ \A n \in Members(waiters[o]) : n # x => n \in Members(ws)
      /\ x \notin Waiting(st, ws) /\ P \subseteq Waiting(st, ws)
      /\ status' = [k \in LockIds |-> IF k \in P THEN "PENDING" ELSE st[k]]
  BY <1>1, PromotingFacts
<1>3. /\ x \in LockIds /\ st[x] # "WAITING"
      /\ status[x] = "HELD" \/ st[x] \in {"FREE", "ABORTED"}
      /\ \A n \in LockIds \ {x} : st[n] = status[n] /\ obj'[n] = obj[n]
  BY <1>1 DEF Promoting
<1>4. P = Promotable(st, md, hd, hs, ws)
  OBVIOUS
<1>5. ListsOf(status, mode, holder, obj, holders, waiters, heldby) /\ TypeOK
  BY DEF IInv
<1> HIDE DEF o, P
<1> SUFFICES ASSUME ~Granted(i), Granted(i)', status[j] = "WAITING",
                    status'[j] = "WAITING", obj[j] = obj'[i]
             PROVE  status[i] = "WAITING" /\ waiters[obj'[i]][i] < waiters[obj'[i]][j]
  BY DEF InOrder
<1>6. i \in P
  BY <1>2, <1>3 DEF Granted
<1>7. i # x /\ status[i] = "WAITING" /\ obj'[i] = o
  <2>1. i # x /\ i \in Members(waiters[o]) /\ st[i] = "WAITING"
    BY <1>2, <1>6 DEF Waiting
  <2> QED BY <1>2, <1>3, <1>5, <2>1 DEF ListsOf, LockAt
<1>8. j \in Waiting(st, ws) \ P
  <2>1. j \in Members(waiters[o])
    BY <1>2, <1>5, <1>7 DEF ListsOf, LockAt
  <2>2. j \notin P /\ st[j] = "WAITING" /\ j # x
    BY <1>2, <1>3
  <2> QED BY <1>2, <2>1, <2>2 DEF Waiting
<1>9. ws[i] < ws[j]
  BY <1>2, <1>4, <1>6, <1>8, PromoteOrder
<1>10. /\ ws[i] \in Nat /\ ws[j] \in Nat /\ i \in Members(ws) /\ j \in Members(ws)
       /\ waiters[o][i] \in Nat /\ waiters[o][j] \in Nat
  <2>1. i \in Members(ws) /\ j \in Members(ws)
    BY <1>2, <1>6, <1>8 DEF Waiting
  <2>2. IsList(waiters[o], LockIds)
    BY <1>2, <1>5, ListTypes
  <2> QED BY <1>2, <2>1, <2>2 DEF IsList
<1> QED BY <1>2, <1>7, <1>9, <1>10

-----------------------------------------------------------------------------
(* Steps that promote nobody.                                              *)

\* What is shown of every step.
QStep ==
    /\ Queued' /\ Upgrading' /\ Counted' /\ Families'
    /\ \A i, j \in LockIds : InOrder(i, j)

\* Nobody is granted anything.
LEMMA NothingGranted ==
    ASSUME \A i \in LockIds : status'[i] \in {"HELD", "PENDING"} =>
               status[i] \in {"HELD", "PENDING"},
           NEW i \in LockIds, NEW j \in LockIds
    PROVE  InOrder(i, j)
BY DEF InOrder, Granted

\* The queues are what they were, and in the place of every granted lock is
\* one of the same locker that conflicts with as much.
LEMMA QueuesKept ==
    ASSUME IInv, IInv', Queued, waiters' = waiters,
           \A i \in LockIds : status'[i] = "WAITING" =>
               /\ status[i] = "WAITING"
               /\ mode'[i] = mode[i] /\ holder'[i] = holder[i],
           \A o \in Objs : \A h \in Members(holders[o]) :
               \E g \in Members(holders'[o]) :
                   /\ holder'[g] = holder[h]
                   /\ mode'[g] = mode[h] \/ Stronger(mode'[g], mode[h])
    PROVE  Queued'
<1> SUFFICES ASSUME NEW o \in Objs, NEW i \in Members(waiters[o]),
                    waiters[o][i] = 1, status'[i] = "WAITING"
             PROVE  BlockedBy(i, Members(holders'[o]), mode', holder')
  BY DEF Queued, FirstBlocked
<1>1. /\ TypeOK /\ ListsOf(status, mode, holder, obj, holders, waiters, heldby)
      /\ i \in LockIds /\ Members(holders[o]) \subseteq LockIds
  <2>1. TypeOK /\ ListsOf(status, mode, holder, obj, holders, waiters, heldby)
    BY DEF IInv
  <2> QED BY <2>1, ListTypes
<1>2. status[i] = "WAITING" /\ mode'[i] = mode[i] /\ holder'[i] = holder[i]
  BY <1>1
<1>3. BlockedBy(i, Members(holders[o]), mode, holder)
  BY <1>2 DEF Queued, FirstBlocked
<1>4. PICK h \in Members(holders[o]) :
        /\ holder[h] # holder[i] /\ ConflictsWith(mode[h], mode[i])
        /\ ~SameFamily(holder[h], holder[i])
  BY <1>3 DEF BlockedBy
<1>5. PICK g \in Members(holders'[o]) :
        holder'[g] = holder[h] /\ (mode'[g] = mode[h] \/ Stronger(mode'[g], mode[h]))
  OBVIOUS
<1>6. mode[h] \in Modes /\ mode[i] \in Modes
  BY <1>1 DEF ListsOf, LockAt
<1>7. mode'[g] \in Modes
  <2>1. TypeOK' /\ ListsOf(status', mode', holder', obj', holders', waiters', heldby')
    BY DEF IInv
  <2>2. g \in LockIds
    BY <2>1 DEF TypeOK, IsListArray, IsList
  <2> QED BY <2>1, <2>2 DEF ListsOf, LockAt
<1>8. ConflictsWith(mode'[g], mode[i])
  BY <1>4, <1>5, <1>6, <1>7, ModeAssumption DEF ConflictsWith, Stronger
<1> QED BY <1>2, <1>4, <1>5, <1>8 DEF BlockedBy

\* Who sleeps for an upgrade did so before, and its locks have their modes.
LEMMA UpgradingKept ==
    ASSUME Upgrading,
           \A k \in Lockers : thr'[k] = "sleep" /\ req'[k].upg # NoLock =>
               /\ thr[k] = "sleep" /\ req'[k] = req[k]
               /\ mode'[req[k].lk] = mode[req[k].lk]
               /\ mode'[req[k].upg] = mode[req[k].upg]
    PROVE  Upgrading'
BY DEF Upgrading

\* Neither threads nor lists change but by leaving a list.
LEMMA FamiliesKept ==
    ASSUME Families, thr' = thr,
           \A k \in Lockers : thr[k] = "none" /\ Members(heldby[k]) = {} =>
               Members(heldby'[k]) = {}
    PROVE  Families'
BY DEF Families

\* Nothing happens to the queues when no lock and no list changes.
LEMMA QuietLocks ==
    ASSUME IInv, Queued, UNCHANGED <<lockVars, objVars>>
    PROVE  Queued' /\ \A i, j \in LockIds : InOrder(i, j)
<1>1. Queued'
  BY DEF Queued, FirstBlocked, lockVars, objVars
<1>2. \A i, j \in LockIds : InOrder(i, j)
  BY NothingGranted DEF lockVars
<1> QED BY <1>1, <1>2

\* The steps of a transaction from its begin to its end.
LEMMA ThreadQueue ==
    ASSUME QInv, NEW l \in Lockers,
           \/ Begin(l) \/ Commit(l) \/ Abort(l) \/ ReadReleased(l)
           \/ WritesUpgraded(l) \/ Undone(l) \/ End(l)
    PROVE  QStep
<1>1. PICK v \in ThrStates \ {"sleep"} :
        /\ thr' = [thr EXCEPT ![l] = v]
        /\ thr[l] = "none" /\ v # "none" /\ Parent[l] # NoLocker =>
             thr[Parent[l]] = "idle"
        /\ v = "inherit" => Parent[l] \notin FamilyRoots
        /\ thr[l] = "idle" /\ v # "idle" => ChildrenResolved(l)
        /\ v = "none" => Members(heldby[l]) = {}
        /\ thr[l] # "sleep"
        /\ v \notin {"inherit", "none"} =>
             \/ thr[l] \notin {"inherit", "none"} /\ UNCHANGED <<nlocks, nwrites>>
             \/ /\ thr[l] = "none"
                /\ nlocks' = [nlocks EXCEPT ![l] = 0]
                /\ nwrites' = [nwrites EXCEPT ![l] = 0]
        /\ v \in {"inherit", "none"} => UNCHANGED <<nlocks, nwrites>>
  <2> USE DEF ThrStates, lockerVars
  <2>1. CASE Begin(l)
    <3> WITNESS "idle" \in ThrStates \ {"sleep"}
    <3> QED BY <2>1 DEF Begin
  <2>2. CASE Commit(l)
    <3>1. PICK v \in {"putread", "putall", "inherit"} :
            thr' = [thr EXCEPT ![l] = v] /\ (v = "inherit" => Parent[l] \notin FamilyRoots)
      <4>1. CASE Parent[l] = NoLocker
        BY <2>2, <4>1 DEF Commit
      <4>2. CASE Parent[l] # NoLocker /\ Parent[l] \in FamilyRoots
        BY <2>2, <4>2 DEF Commit
      <4>3. CASE Parent[l] # NoLocker /\ Parent[l] \notin FamilyRoots
        BY <2>2, <4>3 DEF Commit
      <4> QED BY <4>1, <4>2, <4>3
    <3> QED BY <2>2, <3>1 DEF Commit, Idle
  <2>3. CASE Abort(l)
    <3>1. PICK v \in {"upwrite", "putall"} : thr' = [thr EXCEPT ![l] = v]
      BY <2>3 DEF Abort
    <3> QED BY <2>3, <3>1 DEF Abort
  <2>4. CASE ReadReleased(l)
    <3>1. PICK v \in {"putall", "upgrade", "undo"} : thr' = [thr EXCEPT ![l] = v]
      BY <2>4 DEF ReadReleased
    <3> QED BY <2>4, <3>1 DEF ReadReleased
  <2>5. CASE WritesUpgraded(l)
    BY <2>5 DEF WritesUpgraded
  <2>6. CASE Undone(l)
    BY <2>6 DEF Undone
  <2>7. CASE End(l)
    BY <2>7 DEF End
  <2> QED BY <2>1, <2>2, <2>3, <2>4, <2>5, <2>6, <2>7
<1>2. UNCHANGED <<lockVars, objVars, needDD, heldby, mtx, req>>
  BY DEF Begin, Commit, Abort, ReadReleased, WritesUpgraded, Undone, End, lockerVars
<1>3. /\ IInv /\ TypeOK /\ Queued /\ Upgrading /\ Counted /\ Families
      /\ ListsOf(status, mode, holder, obj, holders, waiters, heldby)
  BY DEF QInv, IInv
<1>4. \A k \in Lockers : thr'[k] = IF k = l THEN v ELSE thr[k]
  BY <1>1, <1>3 DEF TypeOK
<1>5. Queued' /\ \A i, j \in LockIds : InOrder(i, j)
  BY <1>2, <1>3, QuietLocks
<1>6. Upgrading'
  BY <1>1, <1>2, <1>3, <1>4, UpgradingKept DEF lockVars
<1>7. Families'
  <2>1. \A k \in Lockers : thr'[k] = "none" => Members(heldby'[k]) = {}
    BY <1>1, <1>2, <1>3, <1>4 DEF Families
  <2> QED BY <1>1, <1>3, <2>1, FamiliesStep
<1>8. Counted'
  <2>1. /\ HeldOf(l, status, holder)' = HeldOf(l, status, holder)
        /\ \A k : HeldOf(k, status', holder') = HeldOf(k, status, holder)
        /\ \A k : WritesOf(k, status', mode', holder') = WritesOf(k, status, mode, holder)
    BY <1>2 DEF lockVars
  <2> SUFFICES ASSUME NEW k \in Lockers, thr'[k] \notin {"inherit", "none"}
               PROVE  /\ nlocks'[k] = Cardinality(HeldOf(k, status, holder))
                      /\ nwrites'[k] = Cardinality(WritesOf(k, status, mode, holder))
    BY <2>1 DEF Counted
  <2>2. CASE thr[k] \notin {"inherit", "none"} /\ nlocks'[k] = nlocks[k]
             /\ nwrites'[k] = nwrites[k]
    BY <1>3, <2>2 DEF Counted
  <2>3. CASE k = l /\ thr[l] = "none" /\ nlocks'[l] = 0 /\ nwrites'[l] = 0
    <3>1. Members(heldby[l]) = {}
      BY <1>3, <2>3 DEF Families
    <3>2. HeldOf(l, status, holder) = {}
      BY <1>3, <3>1 DEF HeldOf, ListsOf, LockAt
    <3>3. WritesOf(l, status, mode, holder) = {}
      BY <3>2 DEF WritesOf
    <3> QED BY <2>3, <3>2, <3>3, FS_EmptySet
  <2>4. \/ thr[k] \notin {"inherit", "none"} /\ nlocks'[k] = nlocks[k]
           /\ nwrites'[k] = nwrites[k]
        \/ k = l /\ thr[l] = "none" /\ nlocks'[l] = 0 /\ nwrites'[l] = 0
    BY <1>1, <1>3, <1>4 DEF TypeOK
  <2> QED BY <2>2, <2>3, <2>4
<1> QED BY <1>5, <1>6, <1>7, <1>8 DEF QStep

\* References, the detector's start and stuttering leave all this alone.
LEMMA QuietQueue ==
    ASSUME QInv, UNCHANGED <<status, mode, holder, obj, objVars, lockerVars, thrVars>>
    PROVE  QStep
<1> USE DEF objVars, lockerVars, thrVars
<1>1. Queued /\ Upgrading /\ Counted /\ Families
  BY DEF QInv
<1>2. Queued'
  BY <1>1 DEF Queued, FirstBlocked
<1>3. Upgrading'
  BY <1>1 DEF Upgrading
<1>4. Counted'
  BY <1>1, CountedKept
<1>5. Families'
  BY <1>1 DEF Families
<1>6. \A i, j \in LockIds : InOrder(i, j)
  BY NothingGranted
<1> QED BY <1>2, <1>3, <1>4, <1>5, <1>6 DEF QStep

\* The fields of the other locks, and the mode of the locks that a sleeping
\* locker refers to, when one lock of a locker that is awake is changed.
LEMMA AwakeLock ==
    ASSUME IInv, NEW l \in Lockers, thr[l] # "sleep", NEW x \in LockIds,
           status[x] = "FREE" \/ holder[x] = l, NEW k \in Lockers, thr[k] = "sleep"
    PROVE  /\ req[k].lk \in LockIds /\ req[k].lk # x /\ req[k].upg # x
           /\ req[k].upg # NoLock => req[k].upg \in LockIds
<1>1. SleepersOf(status, holder, obj, thr, req) /\ k # l
  BY DEF IInv
<1>2. x # NoLock
  BY IdAssumption
<1> QED BY <1>1, <1>2 DEF SleepersOf

\* A request granted at once is granted past no waiter it conflicts with.
LEMMA GrantedQueue ==
    ASSUME QInv, IInv', NEW l \in Lockers, NEW o \in Objs, NEW m \in Modes,
           GetGranted(l, o, m)
    PROVE  QStep
<1>1. PICK i \in FreeLocks :
        /\ Allocate(i, l, o, m, "HELD")
        /\ holders' = [holders EXCEPT ![o] = InsertTail(holders[o], i)]
  BY DEF GetGranted
<1>2. i \in LockIds /\ status[i] = "FREE" /\ IsFiniteSet(LockIds)
  BY IdAssumption DEF FreeLocks
<1>3. /\ UNCHANGED <<waiters, ddObjs, needDD, inabort, mtx, thr, req>>
      /\ thr[l] = "idle" /\ QueueAction(l, o, m) = "GRANT"
      /\ nlocks' = [nlocks EXCEPT ![l] = @ + 1]
      /\ nwrites' = [nwrites EXCEPT ![l] = @ + IsWrite(m)]
  BY DEF GetGranted, thrVars, NewRequest, MayRequest, Idle, Count
<1>4. /\ IInv /\ TypeOK /\ Queued /\ Upgrading /\ Counted /\ Families
      /\ ListsOf(status, mode, holder, obj, holders, waiters, heldby)
  BY DEF QInv, IInv
<1>5. \A j \in LockIds :
        /\ status'[j] = IF j = i THEN "HELD" ELSE status[j]
        /\ mode'[j] = IF j = i THEN m ELSE mode[j]
        /\ holder'[j] = IF j = i THEN l ELSE holder[j]
        /\ obj'[j] = IF j = i THEN o ELSE obj[j]
  BY <1>1, <1>4 DEF Allocate, TypeOK
<1>6. /\ \A x \in Objs : Members(holders[x]) \subseteq LockIds /\ i \notin Members(holders[x])
      /\ \A x \in Objs : Members(holders[x]) \subseteq Members(holders'[x])
      /\ \A k \in Lockers \ {l} : heldby'[k] = heldby[k]
  <2>1. Members(InsertTail(holders[o], i)) = Members(holders[o]) \cup {i}
    BY <1>2, <1>4, ListTypes, InsertTailType
  <2>2. holders \in [Objs -> {holders[x] : x \in Objs}]
        /\ heldby \in [Lockers -> {heldby[x] : x \in Lockers}]
    BY <1>4 DEF TypeOK, IsListArray
  <2> QED BY <1>1, <1>2, <1>4, <2>1, <2>2, ListTypes DEF Allocate, ListsOf, LockAt
<1>7. Queued'
  <2>1. \A x \in Objs : \A h \in Members(holders[x]) :
          /\ h \in Members(holders'[x]) /\ holder'[h] = holder[h] /\ mode'[h] = mode[h]
    BY <1>5, <1>6
  <2>2. \A j \in LockIds : status'[j] = "WAITING" =>
          status[j] = "WAITING" /\ mode'[j] = mode[j] /\ holder'[j] = holder[j]
    BY <1>5
  <2> QED BY <1>3, <1>4, <2>1, <2>2, QueuesKept
<1>8. Upgrading'
  <2>1. \A k \in Lockers : thr'[k] = "sleep" /\ req'[k].upg # NoLock =>
          /\ thr[k] = "sleep" /\ req'[k] = req[k]
          /\ mode'[req[k].lk] = mode[req[k].lk]
          /\ mode'[req[k].upg] = mode[req[k].upg]
    BY <1>2, <1>3, <1>4, <1>5, AwakeLock
  <2> QED BY <1>4, <2>1, UpgradingKept
<1>9. Counted'
  <2>1. OnlyHeld(i)
    BY <1>5 DEF OnlyHeld
  <2>2. \A k \in Lockers :
          /\ nlocks'[k] = nlocks[k] + HeldBit(i, k, status', holder')
                                    - HeldBit(i, k, status, holder)
          /\ nwrites'[k] = nwrites[k] + WriteBit(i, k, status', mode', holder')
                                      - WriteBit(i, k, status, mode, holder)
    BY <1>2, <1>3, <1>4, <1>5 DEF HeldBit, WriteBit, IsWrite, TypeOK
  <2> QED BY <1>2, <1>3, <1>4, <2>1, <2>2, CountedStep
<1>10. Families'
  <2>1. \A k \in Lockers : thr[k] = "none" /\ Members(heldby[k]) = {} =>
          Members(heldby'[k]) = {}
    BY <1>3, <1>6
  <2> QED BY <1>3, <1>4, <2>1, FamiliesKept
<1>11. ASSUME NEW a \in LockIds, NEW j \in LockIds
       PROVE  InOrder(a, j)
  <2> SUFFICES ASSUME ~Granted(a), Granted(a)', status[j] = "WAITING",
                      status'[j] = "WAITING", obj[j] = obj'[a],
                      holder[j] # holder'[a], ConflictsWith(mode[j], mode'[a])
               PROVE  \/ \E h \in Members(holders[o]) :
                           holder[h] = holder'[a] \/ SameFamily(holder[h], holder'[a])
                      \/ mode'[a] = "DR"
    <3>1. ~Granted(a) /\ Granted(a)' => obj'[a] = o
      BY <1>5 DEF Granted
    <3> QED BY <3>1 DEF InOrder
  <2>1. a = i /\ obj'[a] = o /\ holder'[a] = l /\ mode'[a] = m
    BY <1>2, <1>5 DEF Granted
  <2>2. WaiterConflict(l, o, m)
    BY <1>4, <2>1 DEF WaiterConflict, ListsOf, LockAt
  <2>3. IHold(l, o, m) \/ m = "DR"
    BY <1>3, <2>2 DEF QueueAction
  <2>4. CASE IHold(l, o, m)
    BY <2>1, <2>4 DEF IHold, Scanned
  <2> QED BY <2>1, <2>3, <2>4
<1> QED BY <1>7, <1>8, <1>9, <1>10, <1>11 DEF QStep

\* A new waiter is the first one only if a holder keeps it out.
LEMMA EnqueueQueue ==
    ASSUME QInv, IInv', NEW l \in Lockers, NEW o \in Objs, NEW m \in Modes,
           thr[l] \notin {"sleep", "none", "inherit"},
           thr[l] = "idle" => ChildrenResolved(l), NEW i \in FreeLocks,
           NEW action \in {"HEAD", "SECOND", "TAIL"},
           action = "HEAD" => HolderConflict(l, o, m),
           action = "SECOND" => Members(waiters[o]) # {},
           action = "TAIL" => HolderConflict(l, o, m) \/ Members(waiters[o]) # {},
           NEW u, u # NoLock => u \in Members(heldby[l]) /\ Stronger(m, mode[u]),
           NEW back, Enqueue(i, l, o, m, action, u, back)
    PROVE  QStep
<1>1. /\ Allocate(i, l, o, m, "WAITING")
      /\ waiters' = [waiters EXCEPT ![o] = Enqueued(waiters[o], i, action)]
      /\ thr' = [thr EXCEPT ![l] = "sleep"]
      /\ req' = [req EXCEPT ![l] = [lk |-> i, upg |-> u, back |-> back]]
      /\ UNCHANGED <<holders, nlocks, nwrites, dirty, mtx>>
  BY DEF Enqueue
<1>2. i \in LockIds /\ status[i] = "FREE" /\ IsFiniteSet(LockIds)
  BY IdAssumption DEF FreeLocks
<1>3. /\ IInv /\ TypeOK /\ Queued /\ Upgrading /\ Counted /\ Families
      /\ ListsOf(status, mode, holder, obj, holders, waiters, heldby)
  BY DEF QInv, IInv
<1>4. /\ \A j \in LockIds :
           /\ status'[j] = IF j = i THEN "WAITING" ELSE status[j]
           /\ mode'[j] = IF j = i THEN m ELSE mode[j]
           /\ holder'[j] = IF j = i THEN l ELSE holder[j]
      /\ \A k \in Lockers :
           /\ thr'[k] = IF k = l THEN "sleep" ELSE thr[k]
           /\ req'[k] = IF k = l THEN [lk |-> i, upg |-> u, back |-> back] ELSE req[k]
           /\ k # l => heldby'[k] = heldby[k]
  <2>1. heldby \in [Lockers -> {heldby[x] : x \in Lockers}]
    BY <1>3 DEF TypeOK, IsListArray
  <2> QED BY <1>1, <1>2, <1>3, <2>1 DEF Allocate, TypeOK
<1>5. /\ IsList(waiters[o], LockIds) /\ IsQueue(waiters[o]) /\ FirstBlocked(o)
      /\ \A x \in Objs : Members(holders[x]) \subseteq LockIds /\ i \notin Members(holders[x])
      /\ \A x \in Objs : Members(waiters[x]) \subseteq LockIds /\ i \notin Members(waiters[x])
      /\ waiters'[o] = Enqueued(waiters[o], i, action)
      /\ \A x \in Objs : x # o => waiters'[x] = waiters[x]
  <2>1. waiters \in [Objs -> {waiters[x] : x \in Objs}]
    BY <1>3 DEF TypeOK, IsListArray
  <2> QED BY <1>1, <1>2, <1>3, <2>1, ListTypes DEF ListsOf, LockAt, Queued
<1>6. /\ IsQueue(waiters'[o])
      /\ Members(waiters'[o]) = Members(waiters[o]) \cup {i}
      /\ \A j \in Members(waiters[o]) : waiters'[o][j] = 1 => waiters[o][j] = 1
      /\ waiters'[o][i] = 1 => HolderConflict(l, o, m)
  <2> DEFINE q == waiters[o]
  <2>0. /\ IsFiniteSet(LockIds) /\ IsList(q, LockIds) /\ IsQueue(q)
        /\ i \in LockIds /\ i \notin Members(q)
    BY <1>2, <1>5
  <2> HIDE DEF q
  <2>1. /\ IsQueue(InsertHead(q, i)) /\ IsQueue(InsertTail(q, i))
        /\ Members(q) # {} => IsQueue(InsertSecond(q, i))
        /\ \A j \in Members(q) :
             /\ InsertHead(q, i)[j] # 1
             /\ InsertTail(q, i)[j] = q[j]
             /\ InsertSecond(q, i)[j] = 1 <=> q[j] = 1
        /\ InsertSecond(q, i)[i] # 1
        /\ Members(q) # {} => InsertTail(q, i)[i] # 1
    BY <2>0, InsertQueue
  <2>2. CASE action = "HEAD"
    <3>1. waiters'[o] = InsertHead(q, i)
      BY <1>5, <2>2 DEF Enqueued, q
    <3>2. Members(InsertHead(q, i)) = Members(q) \cup {i}
      BY <2>0, InsertHeadType
    <3> QED BY <2>1, <2>2, <3>1, <3>2 DEF q
  <2>3. CASE action = "SECOND"
    <3>1. waiters'[o] = InsertSecond(q, i)
      BY <1>5, <2>3 DEF Enqueued, q
    <3>2. Members(InsertSecond(q, i)) = Members(q) \cup {i}
      BY <2>0, InsertSecondType
    <3> QED BY <2>1, <2>3, <3>1, <3>2 DEF q
  <2>4. CASE action = "TAIL"
    <3>1. waiters'[o] = InsertTail(q, i)
      BY <1>5, <2>4 DEF Enqueued, q
    <3>2. Members(InsertTail(q, i)) = Members(q) \cup {i}
      BY <2>0, InsertTailType
    <3> QED BY <2>1, <2>4, <3>1, <3>2 DEF q
  <2> QED BY <2>2, <2>3, <2>4
<1>7. Queued'
  <2> SUFFICES ASSUME NEW x \in Objs
               PROVE  /\ IsQueue(waiters'[x])
                      /\ \A j \in Members(waiters'[x]) :
                           waiters'[x][j] = 1 /\ status'[j] = "WAITING" =>
                               BlockedBy(j, Members(holders[x]), mode', holder')
    BY <1>1 DEF Queued, FirstBlocked
  <2>1. \A j \in LockIds \ {i} : BlockedBy(j, Members(holders[x]), mode, holder) =>
                                 BlockedBy(j, Members(holders[x]), mode', holder')
    BY <1>4, <1>5 DEF BlockedBy
  <2>2. \A j \in Members(waiters[x]) :
          waiters[x][j] = 1 /\ status'[j] = "WAITING" =>
              BlockedBy(j, Members(holders[x]), mode', holder')
    BY <1>3, <1>4, <1>5, <2>1 DEF Queued, FirstBlocked
  <2>3. CASE x # o
    BY <1>3, <1>5, <2>2, <2>3 DEF Queued
  <2>4. CASE x = o
    <3>1. HolderConflict(l, o, m) => BlockedBy(i, Members(holders[o]), mode', holder')
      BY <1>2, <1>4, <1>5 DEF HolderConflict, Conflicting, BlockedBy
    <3> QED BY <1>6, <2>2, <2>4, <3>1
  <2> QED BY <2>3, <2>4
<1>8. Upgrading'
  <2> SUFFICES ASSUME NEW k \in Lockers, thr'[k] = "sleep", req'[k].upg # NoLock
               PROVE  Stronger(mode'[req'[k].lk], mode'[req'[k].upg])
    BY DEF Upgrading
  <2>1. CASE k = l
    <3>1. req'[k].lk = i /\ req'[k].upg = u
      BY <1>4, <2>1
    <3>2. u \in LockIds /\ u # i
      BY <1>2, <1>3, <2>1, <3>1, HeldLock
    <3> QED BY <1>2, <1>4, <3>1, <3>2
  <2>2. CASE k # l
    <3>1. thr[k] = "sleep" /\ req'[k] = req[k]
      BY <1>4, <2>2
    <3>2. /\ req[k].lk \in LockIds /\ req[k].lk # i
          /\ req[k].upg \in LockIds /\ req[k].upg # i
      BY <1>2, <1>3, <3>1, AwakeLock
    <3> QED BY <1>3, <1>4, <3>1, <3>2 DEF Upgrading
  <2> QED BY <2>1, <2>2
<1>9. Counted'
  <2>1. \A j \in LockIds :
          /\ status'[j] = "HELD" <=> status[j] = "HELD"
          /\ status[j] = "HELD" => mode'[j] = mode[j] /\ holder'[j] = holder[j]
    BY <1>2, <1>4
  <2> QED BY <1>1, <1>3, <1>4, <2>1, CountedKept
<1>10. Families'
  <2>1. \A k \in Lockers : thr'[k] = "none" => Members(heldby'[k]) = {}
    BY <1>3, <1>4 DEF Families
  <2> QED BY <1>1, <1>3, <2>1, FamiliesStep
<1>11. \A a, j \in LockIds : InOrder(a, j)
  <2>1. \A a \in LockIds : status'[a] \in {"HELD", "PENDING"} =>
          status[a] \in {"HELD", "PENDING"}
    BY <1>4
  <2> QED BY <2>1, NothingGranted
<1> QED BY <1>7, <1>8, <1>9, <1>10, <1>11 DEF QStep

\* A request that has to wait joins the queue behind whoever it must.
LEMMA WaitsQueue ==
    ASSUME QInv, IInv', NEW l \in Lockers, NEW o \in Objs, NEW m \in Modes,
           GetWaits(l, o, m)
    PROVE  QStep
<1>1. PICK i \in FreeLocks : Enqueue(i, l, o, m, QueueAction(l, o, m), NoLock, "idle")
  BY DEF GetWaits
<1>2. /\ QueueAction(l, o, m) \in {"HEAD", "SECOND", "TAIL"}
      /\ QueueAction(l, o, m) = "HEAD" => HolderConflict(l, o, m)
      /\ QueueAction(l, o, m) = "SECOND" => Members(waiters[o]) # {}
      /\ QueueAction(l, o, m) = "TAIL" =>
           HolderConflict(l, o, m) \/ Members(waiters[o]) # {}
  <2>1. WaiterConflict(l, o, m) => Members(waiters[o]) # {}
    BY DEF WaiterConflict
  <2> QED BY <2>1 DEF GetWaits, QueueAction
<1>3. thr[l] = "idle" /\ ChildrenResolved(l)
  BY DEF GetWaits, NewRequest, MayRequest, Idle
<1> QED BY <1>1, <1>2, <1>3, EnqueueQueue

\* A lock upgraded at once keeps out whom it kept out.
LEMMA UpgradeNowQueue ==
    ASSUME QInv, IInv', NEW l \in Lockers, thr[l] \notin {"sleep", "none", "inherit"},
           NEW u \in Members(heldby[l]), NEW m \in Modes, Stronger(m, mode[u]),
           UpgradeNow(l, u, m), UNCHANGED thr
    PROVE  QStep
<1> USE DEF objVars
<1>1. /\ IInv /\ TypeOK /\ Queued /\ Upgrading /\ Counted /\ Families
  BY DEF QInv, IInv
<1>2. u \in LockIds /\ status[u] = "HELD" /\ holder[u] = l
  BY <1>1, HeldLock
<1>3. /\ UNCHANGED <<status, holder, obj, holders, waiters, heldby, nlocks, req>>
      /\ nwrites' = [nwrites EXCEPT
                       ![l] = @ + (IF IsWrite(mode[u]) = 0 THEN IsWrite(m) ELSE 0)]
      /\ \A j \in LockIds : mode'[j] = IF j = u THEN m ELSE mode[j]
  BY <1>1 DEF UpgradeNow, TypeOK
<1>4. Queued'
  <2>1. \A j \in LockIds : status'[j] = "WAITING" =>
          status[j] = "WAITING" /\ mode'[j] = mode[j] /\ holder'[j] = holder[j]
    BY <1>2, <1>3
  <2>2. \A x \in Objs : \A h \in Members(holders[x]) :
          /\ h \in Members(holders'[x]) /\ holder'[h] = holder[h]
          /\ mode'[h] = mode[h] \/ Stronger(mode'[h], mode[h])
    BY <1>1, <1>3, ListTypes
  <2> QED BY <1>1, <1>3, <2>1, <2>2, QueuesKept
<1>5. Upgrading'
  <2>1. \A k \in Lockers : thr'[k] = "sleep" /\ req'[k].upg # NoLock =>
          /\ thr[k] = "sleep" /\ req'[k] = req[k]
          /\ mode'[req[k].lk] = mode[req[k].lk]
          /\ mode'[req[k].upg] = mode[req[k].upg]
    BY <1>1, <1>2, <1>3, AwakeLock
  <2> QED BY <1>1, <2>1, UpgradingKept
<1>6. Counted'
  <2>1. OnlyHeld(u)
    BY <1>3 DEF OnlyHeld
  <2>2. \A k \in Lockers :
          /\ nlocks'[k] = nlocks[k] + HeldBit(u, k, status', holder')
                                    - HeldBit(u, k, status, holder)
          /\ nwrites'[k] = nwrites[k] + WriteBit(u, k, status', mode', holder')
                                      - WriteBit(u, k, status, mode, holder)
    BY <1>1, <1>2, <1>3 DEF HeldBit, WriteBit, IsWrite, TypeOK, Stronger
  <2> QED BY <1>1, <1>2, <2>1, <2>2, CountedStep
<1>7. Families'
  BY <1>1, <1>3, FamiliesKept
<1>8. \A i, j \in LockIds : InOrder(i, j)
  BY <1>3, NothingGranted
<1> QED BY <1>4, <1>5, <1>6, <1>7, <1>8 DEF QStep

\* An upgrade is made at once or waits at the head of the queue.
LEMMA UpgradeQueue ==
    ASSUME QInv, IInv', NEW l \in Lockers,
           \/ \E i \in LockIds, m \in Modes : Upgrade(l, i, m)
           \/ UpgradeWrite(l)
    PROVE  QStep
<1>0. IInv /\ IsList(heldby[l], LockIds)
  BY ListTypes DEF QInv, IInv
<1>1. CASE \E i \in LockIds, m \in Modes : Upgrade(l, i, m)
  <2>1. PICK u \in LockIds, m \in Modes : Upgrade(l, u, m)
    BY <1>1
  <2>2. /\ thr[l] = "idle" /\ ChildrenResolved(l) /\ u \in Members(heldby[l])
        /\ <<mode[u], m>> \in Upgrades
        /\ (UpgradeNow(l, u, m) /\ UNCHANGED thr) \/ UpgradeWaits(l, u, m, "idle")
    BY <2>1 DEF Upgrade, Idle
  <2>3. mode[u] \in Modes /\ obj[u] \in Objs
    BY <1>0, <2>2, HeldLock
  <2>4. Stronger(m, mode[u])
    <3>1. mode[u] \in WriteModes => m \in WriteModes
      BY <2>2, WriteAssumption
    <3>2. \A k \in Modes : mode[u] \in Conflicts[k] => m \in Conflicts[k]
      BY <2>2, <2>3, UpgradeAssumption
    <3> QED BY <3>1, <3>2 DEF Stronger
  <2>5. CASE UpgradeNow(l, u, m) /\ UNCHANGED thr
    BY <2>2, <2>4, <2>5, UpgradeNowQueue
  <2>6. CASE UpgradeWaits(l, u, m, "idle")
    <3>1. PICK i \in FreeLocks : Enqueue(i, l, obj[u], m, "HEAD", u, "idle")
      BY <2>6 DEF UpgradeWaits
    <3>2. HolderConflict(l, obj[u], m)
      BY <2>6 DEF UpgradeWaits
    <3> QED BY <2>2, <2>3, <2>4, <3>1, <3>2, EnqueueQueue
  <2> QED BY <2>2, <2>5, <2>6
<1>2. CASE UpgradeWrite(l)
  <2> DEFINE u == FirstIn(heldby[l], WasWriteLocks(l))
  <2>1. u \in WasWriteLocks(l)
    <3>1. WasWriteLocks(l) \subseteq Members(heldby[l])
      BY DEF WasWriteLocks
    <3> QED BY <1>0, <1>2, <3>1, FirstInMember DEF UpgradeWrite
  <2>2. /\ thr[l] = "upgrade" /\ u \in Members(heldby[l]) /\ mode[u] = "WW"
        /\ (UpgradeNow(l, u, "W") /\ UNCHANGED thr) \/ UpgradeWaits(l, u, "W", "upgrade")
    BY <1>2, <2>1 DEF UpgradeWrite, WasWriteLocks
  <2> HIDE DEF u
  <2>3. mode[u] \in Modes /\ obj[u] \in Objs /\ "W" \in Modes
    <3>1. mode[u] \in Modes /\ obj[u] \in Objs
      BY <1>0, <2>2, HeldLock
    <3> QED BY <2>2, <3>1, ModeAssumption
  <2>4. Stronger("W", mode[u])
    BY <2>2, <2>3, UpgradeAssumption DEF Stronger, WriteModes
  <2>5. CASE UpgradeNow(l, u, "W") /\ UNCHANGED thr
    BY <2>2, <2>3, <2>4, <2>5, UpgradeNowQueue
  <2>6. CASE UpgradeWaits(l, u, "W", "upgrade")
    <3>1. PICK i \in FreeLocks : Enqueue(i, l, obj[u], "W", "HEAD", u, "upgrade")
      BY <2>6 DEF UpgradeWaits
    <3>2. HolderConflict(l, obj[u], "W")
      BY <2>6 DEF UpgradeWaits
    <3> QED BY <2>2, <2>3, <2>4, <3>1, <3>2, EnqueueQueue
  <2> QED BY <2>2, <2>5, <2>6
<1> QED BY <1>1, <1>2

-----------------------------------------------------------------------------
(* Waking up, and expiry.                                                  *)

\* After a locker got up the locks the other sleepers refer to are as before.
LEMMA OthersSleep ==
    ASSUME IInv, NEW l \in Lockers, thr[l] = "sleep", NEW k \in Lockers, k # l,
           thr[k] = "sleep"
    PROVE  /\ req[k].lk \in LockIds /\ req[k].lk # req[l].lk /\ req[k].upg # req[l].lk
           /\ holder[req[k].lk] = k
           /\ req[k].upg # NoLock => req[k].upg \in LockIds /\ holder[req[k].upg] = k
<1>1. SleepersOf(status, holder, obj, thr, req)
  BY DEF IInv
<1>2. req[k].lk \in LockIds /\ req[k].lk # req[l].lk /\ req[k].upg # req[l].lk
  BY SleepLock
<1> QED BY <1>1, <1>2 DEF SleepersOf

\* A locker that sleeps is in a transaction.
LEMMA AwakeFamilies ==
    ASSUME TypeOK, Families, NEW l \in Lockers, thr[l] = "sleep",
           NEW v \in {"idle", "upgrade", "deadlock"}, thr' = [thr EXCEPT ![l] = v],
           \A k \in Lockers \ {l} : Members(heldby'[k]) = Members(heldby[k])
    PROVE  Families'
<1>1. \A k \in Lockers : thr'[k] = "none" => Members(heldby'[k]) = {}
  BY DEF Families, TypeOK
<1> QED BY <1>1, FamiliesStep

\* A granted waiter takes its lock.
LEMMA WakeGrantedQueue ==
    ASSUME QInv, IInv', NEW l \in Lockers, WakeGranted(l)
    PROVE  QStep
<1> DEFINE i == req[l].lk
<1>1. /\ IInv /\ TypeOK /\ Queued /\ Upgrading /\ Counted /\ Families
  BY DEF QInv, IInv
<1>2. /\ thr[l] = "sleep" /\ status[i] = "PENDING" /\ i \in LockIds /\ holder[i] = l
      /\ mode[i] \in Modes
  BY <1>1, SleepLock DEF WakeGranted, Awake
<1>3. /\ thr' = [thr EXCEPT ![l] = "idle"] /\ req' = [req EXCEPT ![l] = NoReq]
      /\ UNCHANGED <<mode, holder, obj, holders, waiters, heldby>>
      /\ nlocks' = [nlocks EXCEPT ![l] = @ + 1]
      /\ nwrites' = [nwrites EXCEPT ![l] = @ + IsWrite(mode[i])]
      /\ \A j \in LockIds : status'[j] = IF j = i THEN "HELD" ELSE status[j]
      /\ \A k \in Lockers : /\ thr'[k] = IF k = l THEN "idle" ELSE thr[k]
                            /\ req'[k] = IF k = l THEN NoReq ELSE req[k]
  BY <1>1 DEF WakeGranted, objVars, Count, TypeOK
<1> HIDE DEF i
<1>4. Queued'
  <2>1. \A j \in LockIds : status'[j] = "WAITING" =>
          status[j] = "WAITING" /\ mode'[j] = mode[j] /\ holder'[j] = holder[j]
    BY <1>3
  <2>2. \A x \in Objs : \A h \in Members(holders[x]) :
          /\ h \in Members(holders'[x]) /\ holder'[h] = holder[h] /\ mode'[h] = mode[h]
    BY <1>3
  <2> QED BY <1>1, <1>3, <2>1, <2>2, QueuesKept
<1>5. Upgrading'
  <2>1. \A k \in Lockers : thr'[k] = "sleep" => thr[k] = "sleep" /\ req'[k] = req[k]
    BY <1>3
  <2> QED BY <1>1, <1>3, <2>1, UpgradingKept
<1>6. Counted'
  <2>1. OnlyHeld(i)
    BY <1>3 DEF OnlyHeld
  <2>2. \A k \in Lockers :
          /\ nlocks'[k] = nlocks[k] + HeldBit(i, k, status', holder')
                                    - HeldBit(i, k, status, holder)
          /\ nwrites'[k] = nwrites[k] + WriteBit(i, k, status', mode', holder')
                                      - WriteBit(i, k, status, mode, holder)
    BY <1>1, <1>2, <1>3 DEF HeldBit, WriteBit, IsWrite, TypeOK
  <2>3. \A k \in Lockers : thr'[k] \notin {"inherit", "none"} =>
          thr[k] \notin {"inherit", "none"}
    BY <1>2, <1>3
  <2> QED BY <1>1, <1>2, <2>1, <2>2, <2>3, CountedStep
<1>7. Families'
  BY <1>1, <1>2, <1>3, AwakeFamilies
<1>8. ASSUME NEW a \in LockIds, NEW j \in LockIds
      PROVE  InOrder(a, j)
  BY <1>2, <1>3 DEF InOrder, Granted
<1> QED BY <1>4, <1>5, <1>6, <1>7, <1>8 DEF QStep

\* The upgraded lock keeps out whom it and the lock that waited for it did.
LEMMA WakeUpgradedQueue ==
    ASSUME QInv, IInv', NEW l \in Lockers, WakeUpgraded(l)
    PROVE  QStep
<1> DEFINE i == req[l].lk
           u == req[l].upg
           o == obj[i]
<1>1. /\ IInv /\ TypeOK /\ Queued /\ Upgrading /\ Counted /\ Families
      /\ ListsOf(status, mode, holder, obj, holders, waiters, heldby)
  BY DEF QInv, IInv
<1>2. /\ thr[l] = "sleep" /\ status[i] = "PENDING" /\ i \in LockIds /\ holder[i] = l
      /\ o \in Objs /\ mode[i] \in Modes /\ req[l].back \in {"idle", "upgrade"}
      /\ u # NoLock
  BY <1>1, SleepLock DEF WakeUpgraded, Awake
<1>3. /\ u \in LockIds /\ u # i /\ holder[u] = l /\ status[u] = "HELD" /\ obj[u] = o
      /\ Stronger(mode[i], mode[u])
  BY <1>1, <1>2 DEF IInv, SleepersOf, Upgrading
<1>4. /\ thr' = [thr EXCEPT ![l] = req[l].back]
      /\ holders' = [holders EXCEPT ![o] = RemoveAll(holders[o], {i})]
      /\ heldby' = [heldby EXCEPT ![l] = RemoveAll(heldby[l], {i})]
      /\ nwrites' = [nwrites EXCEPT ![l] = @ +
               (IF IsWrite(mode[u]) = 0 THEN IsWrite(mode[i]) ELSE 0)]
      /\ UNCHANGED <<waiters, nlocks>>
      /\ \A j \in LockIds :
           /\ status'[j] = IF j = i THEN "FREE" ELSE status[j]
           /\ mode'[j] = IF j = i THEN "N" ELSE IF j = u THEN mode[i] ELSE mode[j]
           /\ holder'[j] = IF j = i THEN NoLocker ELSE holder[j]
      /\ \A k \in Lockers : /\ thr'[k] = IF k = l THEN req[l].back ELSE thr[k]
                            /\ req'[k] = IF k = l THEN NoReq ELSE req[k]
  BY <1>1, <1>3 DEF WakeUpgraded, TypeOK
<1> HIDE DEF i, u, o
<1>5. /\ \A x \in Objs : Members(holders'[x]) = Members(holders[x]) \ {i}
      /\ \A k \in Lockers \ {l} : heldby'[k] = heldby[k]
      /\ \A x \in Objs : Members(holders[x]) \subseteq LockIds
      /\ u \in Members(holders[o])
      /\ \A x \in Objs : i \in Members(holders[x]) => x = o
  <2>1. Members(RemoveAll(holders[o], {i})) = Members(holders[o]) \ {i}
    BY <1>1, <1>2, ListTypes, RemoveAllType
  <2>2. /\ holders \in [Objs -> {holders[x] : x \in Objs}]
        /\ heldby \in [Lockers -> {heldby[x] : x \in Lockers}]
    BY <1>1 DEF TypeOK, IsListArray
  <2>3. /\ u \in Members(holders[o])
        /\ \A x \in Objs : i \in Members(holders[x]) => x = o
    BY <1>1, <1>2, <1>3 DEF ListsOf, LockAt, o
  <2>4. \A x \in Objs : Members(holders[x]) \subseteq LockIds
    BY <1>1, ListTypes
  <2> QED BY <1>2, <1>4, <2>1, <2>2, <2>3, <2>4
<1>6. Queued'
  <2>1. \A j \in LockIds : status'[j] = "WAITING" =>
          status[j] = "WAITING" /\ mode'[j] = mode[j] /\ holder'[j] = holder[j]
    BY <1>2, <1>3, <1>4
  <2>2. ASSUME NEW x \in Objs, NEW h \in Members(holders[x])
        PROVE  \E g \in Members(holders'[x]) :
                   /\ holder'[g] = holder[h]
                   /\ mode'[g] = mode[h] \/ Stronger(mode'[g], mode[h])
    <3>1. CASE h = i
      <4>1. x = o /\ u \in Members(holders'[x])
        BY <1>2, <1>3, <1>5, <3>1
      <4> QED BY <1>2, <1>3, <1>4, <3>1, <4>1
    <3>2. CASE h # i
      <4>1. h \in Members(holders'[x]) /\ h \in LockIds
        BY <1>5, <3>2
      <4> QED BY <1>3, <1>4, <3>2, <4>1
    <3> QED BY <3>1, <3>2
  <2> QED BY <1>1, <1>4, <2>1, <2>2, QueuesKept
<1>7. Upgrading'
  <2>1. \A k \in Lockers : thr'[k] = "sleep" /\ req'[k].upg # NoLock =>
          /\ thr[k] = "sleep" /\ req'[k] = req[k]
          /\ mode'[req[k].lk] = mode[req[k].lk]
          /\ mode'[req[k].upg] = mode[req[k].upg]
    <3> SUFFICES ASSUME NEW k \in Lockers, thr'[k] = "sleep", req'[k].upg # NoLock
                 PROVE  /\ thr[k] = "sleep" /\ req'[k] = req[k]
                        /\ mode'[req[k].lk] = mode[req[k].lk]
                        /\ mode'[req[k].upg] = mode[req[k].upg]
      OBVIOUS
    <3>1. k # l /\ thr[k] = "sleep" /\ req'[k] = req[k]
      BY <1>2, <1>4
    <3>2. /\ req[k].lk \in LockIds /\ req[k].lk # i /\ holder[req[k].lk] = k
          /\ req[k].upg \in LockIds /\ req[k].upg # i /\ holder[req[k].upg] = k
      BY <1>1, <1>2, <3>1, OthersSleep DEF i
    <3> QED BY <1>3, <1>4, <3>1, <3>2
  <2> QED BY <1>1, <2>1, UpgradingKept
<1>8. Counted'
  <2>1. OnlyHeld(u)
    BY <1>2, <1>3, <1>4 DEF OnlyHeld
  <2>2. \A k \in Lockers :
          /\ nlocks'[k] = nlocks[k] + HeldBit(u, k, status', holder')
                                    - HeldBit(u, k, status, holder)
          /\ nwrites'[k] = nwrites[k] + WriteBit(u, k, status', mode', holder')
                                      - WriteBit(u, k, status, mode, holder)
    BY <1>1, <1>2, <1>3, <1>4 DEF HeldBit, WriteBit, IsWrite, TypeOK, Stronger
  <2>3. \A k \in Lockers : thr'[k] \notin {"inherit", "none"} =>
          thr[k] \notin {"inherit", "none"}
    BY <1>2, <1>4
  <2> QED BY <1>1, <1>3, <2>1, <2>2, <2>3, CountedStep
<1>9. Families'
  BY <1>1, <1>2, <1>4, <1>5, AwakeFamilies
<1>10. \A a, j \in LockIds : InOrder(a, j)
  <2>1. \A a \in LockIds : status'[a] \in {"HELD", "PENDING"} =>
          status[a] \in {"HELD", "PENDING"}
    BY <1>4
  <2> QED BY <2>1, NothingGranted
<1> QED BY <1>6, <1>7, <1>8, <1>9, <1>10 DEF QStep

\* A victim gives its request up.
LEMMA WakeAbortedQueue ==
    ASSUME QInv, IInv', NEW l \in Lockers, WakeAborted(l)
    PROVE  QStep
<1> DEFINE i == req[l].lk
<1>1. /\ IInv /\ TypeOK /\ Queued /\ Upgrading /\ Counted /\ Families
  BY DEF QInv, IInv
<1>2. /\ thr[l] = "sleep" /\ status[i] = "ABORTED" /\ i \in LockIds
      /\ LockAt(i, status, mode, holder, obj, holders, waiters, heldby)
  BY <1>1, SleepLock DEF WakeAborted, Awake
<1>3. /\ thr' = [thr EXCEPT ![l] = "deadlock"]
      /\ UNCHANGED <<holders, waiters, nlocks, nwrites>>
      /\ \A j \in LockIds :
           /\ status'[j] = IF j = i THEN "FREE" ELSE status[j]
           /\ mode'[j] = IF j = i THEN "N" ELSE mode[j]
           /\ holder'[j] = IF j = i THEN NoLocker ELSE holder[j]
      /\ \A k \in Lockers : /\ thr'[k] = IF k = l THEN "deadlock" ELSE thr[k]
                            /\ req'[k] = IF k = l THEN NoReq ELSE req[k]
                            /\ k # l => heldby'[k] = heldby[k]
  <2>1. heldby \in [Lockers -> {heldby[x] : x \in Lockers}]
    BY <1>1 DEF TypeOK, IsListArray
  <2> QED BY <1>1, <2>1 DEF WakeAborted, Recycle, objVars, TypeOK
<1> HIDE DEF i
<1>4. Queued'
  <2>1. \A j \in LockIds : status'[j] = "WAITING" =>
          status[j] = "WAITING" /\ mode'[j] = mode[j] /\ holder'[j] = holder[j]
    BY <1>3
  <2>2. \A x \in Objs : \A h \in Members(holders[x]) :
          /\ h \in Members(holders'[x]) /\ holder'[h] = holder[h] /\ mode'[h] = mode[h]
    <3>1. \A x \in Objs : \A h \in Members(holders[x]) : h \in LockIds /\ h # i
      BY <1>1, <1>2, ListTypes DEF LockAt
    <3> QED BY <1>3, <3>1
  <2> QED BY <1>1, <1>3, <2>1, <2>2, QueuesKept
<1>5. Upgrading'
  <2>1. \A k \in Lockers : thr'[k] = "sleep" /\ req'[k].upg # NoLock =>
          /\ thr[k] = "sleep" /\ req'[k] = req[k]
          /\ mode'[req[k].lk] = mode[req[k].lk]
          /\ mode'[req[k].upg] = mode[req[k].upg]
    BY <1>1, <1>2, <1>3, OthersSleep DEF i
  <2> QED BY <1>1, <2>1, UpgradingKept
<1>6. Counted'
  <2>1. \A j \in LockIds :
          /\ status'[j] = "HELD" <=> status[j] = "HELD"
          /\ status[j] = "HELD" => mode'[j] = mode[j] /\ holder'[j] = holder[j]
    BY <1>2, <1>3
  <2> QED BY <1>1, <1>2, <1>3, <2>1, CountedKept
<1>7. Families'
  BY <1>1, <1>2, <1>3, AwakeFamilies
<1>8. \A a, j \in LockIds : InOrder(a, j)
  <2>1. \A a \in LockIds : status'[a] \in {"HELD", "PENDING"} =>
          status[a] \in {"HELD", "PENDING"}
    BY <1>3
  <2> QED BY <2>1, NothingGranted
<1> QED BY <1>4, <1>5, <1>6, <1>7, <1>8 DEF QStep

\* The detector marks the requests that timed out.
LEMMA DdExpireQueue ==
    ASSUME QInv, IInv', NEW o \in Objs, DdExpire(o)
    PROVE  QStep
<1>1. /\ IInv /\ TypeOK /\ Queued /\ Upgrading /\ Counted /\ Families
  BY DEF QInv, IInv
<1>2. PICK S \in SUBSET Expirable(o) \ {{}} :
        /\ status' = [i \in LockIds |-> IF i \in S THEN "EXPIRED" ELSE status[i]]
        /\ UNCHANGED <<mode, holder, holders, waiters, heldby, nlocks, nwrites, thr, req>>
  BY DEF DdExpire, objVars, lockerVars, thrVars
<1>3. \A i \in LockIds : status'[i] = status[i] \/
          (status[i] = "WAITING" /\ status'[i] = "EXPIRED")
  BY <1>2 DEF Expirable, Waiting
<1>4. Queued'
  <2>1. \A j \in LockIds : status'[j] = "WAITING" =>
          status[j] = "WAITING" /\ mode'[j] = mode[j] /\ holder'[j] = holder[j]
    BY <1>2, <1>3
  <2>2. \A x \in Objs : \A h \in Members(holders[x]) :
          /\ h \in Members(holders'[x]) /\ holder'[h] = holder[h] /\ mode'[h] = mode[h]
    BY <1>2
  <2> QED BY <1>1, <1>2, <2>1, <2>2, QueuesKept
<1>5. Upgrading' /\ Families'
  BY <1>1, <1>2 DEF Upgrading, Families
<1>6. Counted'
  <2>1. \A j \in LockIds :
          /\ status'[j] = "HELD" <=> status[j] = "HELD"
          /\ status[j] = "HELD" => mode'[j] = mode[j] /\ holder'[j] = holder[j]
    BY <1>2, <1>3
  <2> QED BY <1>1, <1>2, <2>1, CountedKept
<1>7. \A a, j \in LockIds : InOrder(a, j)
  <2>1. \A a \in LockIds : status'[a] \in {"HELD", "PENDING"} =>
          status[a] \in {"HELD", "PENDING"}
    BY <1>3
  <2> QED BY <2>1, NothingGranted
<1> QED BY <1>4, <1>5, <1>6, <1>7 DEF QStep

-----------------------------------------------------------------------------
(* Steps that promote.                                                     *)

\* A promotion grants nothing yet: its locks are counted when their lockers
\* wake up.
LEMMA PromotingHeld ==
    ASSUME QInv, NEW x, NEW st, NEW md, NEW hd, NEW hs, NEW ws, NEW mx, NEW dd,
           Promoting(x, st, md, hd, hs, ws, mx, dd)
    PROVE  /\ x \in LockIds /\ OnlyHeld(x) /\ status'[x] = st[x]
           /\ Queued' /\ \A i, j \in LockIds : InOrder(i, j)
           /\ \A j \in LockIds \ {x} : mode'[j] = mode[j] /\ holder'[j] = holder[j]
<1> DEFINE P == Promotable(st, md, hd, hs, ws)
<1>1. IInv /\ Queued /\ PromotingStep
  BY DEF QInv, PromotingStep
<1>2. Queued' /\ \A i, j \in LockIds : InOrder(i, j)
  BY <1>1, PromotingQueued, PromotingInOrder
<1>3. /\ P \subseteq Waiting(st, ws) /\ x \notin Waiting(st, ws)
      /\ status' = [i \in LockIds |-> IF i \in P THEN "PENDING" ELSE st[i]]
  BY <1>1, PromotingFacts
<1>4. /\ x \in LockIds
      /\ \A j \in LockIds \ {x} :
           st[j] = status[j] /\ mode'[j] = mode[j] /\ holder'[j] = holder[j]
  BY DEF Promoting
<1> HIDE DEF P
<1>5. OnlyHeld(x) /\ status'[x] = st[x]
  BY <1>3, <1>4 DEF OnlyHeld, Waiting
<1> QED BY <1>2, <1>4, <1>5

\* The queue, the sleepers and the families after a lock of a locker that is
\* awake was changed and its object promoted on.
LEMMA ChangedLock ==
    ASSUME QInv, NEW l \in Lockers, thr[l] \notin {"sleep", "none"},
           NEW i \in Members(heldby[l]),
           NEW st, NEW md, NEW hd, NEW hs, NEW mx, NEW dd,
           Promoting(i, st, md, hd, hs, waiters[obj[i]], mx, dd),
           UNCHANGED <<thr, req>>,
           \A k \in Lockers : thr[k] = "none" => Members(heldby'[k]) \subseteq Members(heldby[k])
    PROVE  /\ Queued' /\ Upgrading' /\ Families'
           /\ \A a, j \in LockIds : InOrder(a, j)
<1>1. /\ IInv /\ TypeOK /\ Upgrading /\ Families
  BY DEF QInv, IInv
<1>2. i \in LockIds /\ holder[i] = l
  BY <1>1, HeldLock
<1>3. /\ Queued' /\ \A a, j \in LockIds : InOrder(a, j)
      /\ \A j \in LockIds \ {i} : mode'[j] = mode[j] /\ holder'[j] = holder[j]
  BY PromotingHeld
<1>4. Upgrading'
  <2>1. \A k \in Lockers : thr'[k] = "sleep" /\ req'[k].upg # NoLock =>
          /\ thr[k] = "sleep" /\ req'[k] = req[k]
          /\ mode'[req[k].lk] = mode[req[k].lk]
          /\ mode'[req[k].upg] = mode[req[k].upg]
    BY <1>1, <1>2, <1>3, AwakeLock
  <2> QED BY <1>1, <2>1, UpgradingKept
<1>5. Families'
  <2>1. \A k \in Lockers : thr[k] = "none" /\ Members(heldby[k]) = {} =>
          Members(heldby'[k]) = {}
    OBVIOUS
  <2> QED BY <1>1, <2>1, FamiliesKept
<1> QED BY <1>3, <1>4, <1>5

\* The arguments of the promotion when lock i of l is released.
LEMMA FreesPromotes ==
    ASSUME IInv, NEW l \in Lockers, thr[l] # "sleep", NEW i \in Members(heldby[l]),
           Frees(l, i)
    PROVE  /\ Promoting(i, [status EXCEPT ![i] = "FREE"], mode, holder,
                        RemoveAll(holders[obj[i]], {i}), waiters[obj[i]], mtx, ddObjs)
           /\ \A k \in Lockers : Members(heldby'[k]) \subseteq Members(heldby[k])
<1> DEFINE o == obj[i]
           st == [status EXCEPT ![i] = "FREE"]
           hs == RemoveAll(holders[o], {i})
<1>1. /\ i \in LockIds /\ status[i] = "HELD" /\ o \in Objs
      /\ \A x \in Objs : i \notin Members(waiters[x])
  BY HeldLock
<1>2. TypeOK
  BY DEF IInv
<1>3. /\ Members(hs) = Members(holders[o]) \ {i}
      /\ Members(RemoveAll(heldby[l], {i})) = Members(heldby[l]) \ {i}
      /\ Members(holders[o]) \subseteq LockIds /\ Members(waiters[o]) \subseteq LockIds
  BY <1>1, <1>2, ListTypes, RemoveAllType
<1>4. /\ \A j \in LockIds \ {i} :
           /\ st[j] = status[j] /\ mode'[j] = mode[j]
           /\ holder'[j] = holder[j] /\ obj'[j] = obj[j]
      /\ st[i] = "FREE"
      /\ heldby' = [heldby EXCEPT ![l] = RemoveAll(heldby[l], {i})]
      /\ Promote(o, st, mode, holder, hs, waiters[o], mtx, ddObjs)
  BY <1>1, <1>2 DEF Frees, TypeOK
<1>5. \A k \in Lockers : Members(heldby'[k]) \subseteq Members(heldby[k])
  <2>1. heldby \in [Lockers -> {heldby[x] : x \in Lockers}]
    BY <1>2 DEF TypeOK, IsListArray
  <2> QED BY <1>3, <1>4, <2>1
<1> HIDE DEF o, st, hs
<1>6. \A j \in Members(hs) \cup Members(waiters[o]) : j \in LockIds \ {i}
  BY <1>1, <1>3
<1>7. Promoting(i, st, mode, holder, hs, waiters[o], mtx, ddObjs)
  BY <1>1, <1>4, <1>6 DEF Promoting, o, hs
<1> QED BY <1>5, <1>7 DEF o, st, hs

\* A lock is released, and the waiters it kept out are promoted.
LEMMA ReleaseQueue ==
    ASSUME QInv, NEW l \in Lockers, thr[l] \notin {"sleep", "none"},
           NEW i \in Members(heldby[l]),
           Release(l, i), UNCHANGED <<dirty, inabort, thrVars>>
    PROVE  QStep
<1>1. /\ IInv /\ TypeOK /\ Counted
  BY DEF QInv, IInv
<1>2. i \in LockIds /\ status[i] = "HELD" /\ holder[i] = l /\ mode[i] \in Modes
  BY <1>1, HeldLock
<1>3. Frees(l, i)
  <2>1. IsWrite(mode[i]) \in Int
    BY DEF IsWrite
  <2>2. refcount' \in [LockIds -> Nat]
    BY <1>1 DEF Release, Recycle, TypeOK
  <2>3. needDD' \in BOOLEAN
    BY <1>1 DEF Release, StateChanged, TypeOK
  <2>4. nlocks' \in [Lockers -> Int] /\ nwrites' \in [Lockers -> Int]
    BY <1>1, <2>1 DEF Release, TypeOK
  <2> QED BY <2>2, <2>3, <2>4 DEF Release, Recycle, thrVars, Frees
<1> DEFINE st == [status EXCEPT ![i] = "FREE"]
           hs == RemoveAll(holders[obj[i]], {i})
<1>4. /\ Promoting(i, st, mode, holder, hs, waiters[obj[i]], mtx, ddObjs)
      /\ \A k \in Lockers : Members(heldby'[k]) \subseteq Members(heldby[k])
  BY <1>1, <1>3, FreesPromotes
<1>5. thr' = thr /\ req' = req /\ st[i] = "FREE"
      /\ nlocks' = [nlocks EXCEPT ![l] = @ - 1]
      /\ nwrites' = [nwrites EXCEPT ![l] = @ - IsWrite(mode[i])]
  BY <1>1, <1>2 DEF Release, thrVars, TypeOK
<1> HIDE DEF st, hs
<1>6. /\ Queued' /\ Upgrading' /\ Families'
      /\ \A a, j \in LockIds : InOrder(a, j)
  BY <1>4, <1>5, ChangedLock
<1>7. Counted'
  <2>1. OnlyHeld(i) /\ status'[i] = "FREE"
    BY <1>4, <1>5, PromotingHeld
  <2>2. \A k \in Lockers :
          /\ nlocks'[k] = nlocks[k] + HeldBit(i, k, status', holder')
                                    - HeldBit(i, k, status, holder)
          /\ nwrites'[k] = nwrites[k] + WriteBit(i, k, status', mode', holder')
                                      - WriteBit(i, k, status, mode, holder)
    BY <1>1, <1>2, <1>5, <2>1 DEF HeldBit, WriteBit, IsWrite, TypeOK
  <2> QED BY <1>1, <1>2, <1>5, <2>1, <2>2, CountedStep
<1> QED BY <1>6, <1>7 DEF QStep

\* The releases of one lock, of the read locks and of all locks.
LEMMA ReleasesQueue ==
    ASSUME QInv, NEW l \in Lockers,
           (\E i \in LockIds : Put(l, i)) \/ ReleaseRead(l) \/ ReleaseNext(l)
    PROVE  QStep
<1>0. IsList(heldby[l], LockIds)
  BY ListTypes DEF QInv, IInv
<1>1. CASE \E i \in LockIds : Put(l, i)
  BY <1>1, ReleaseQueue DEF Put, Idle
<1>2. CASE ReleaseRead(l)
  <2>1. FirstIn(heldby[l], ReadLocks(l)) \in Members(heldby[l])
    BY <1>0, <1>2, FirstInMember DEF ReleaseRead, ReadLocks
  <2> QED BY <1>2, <2>1, ReleaseQueue DEF ReleaseRead
<1>3. CASE ReleaseNext(l)
  <2>1. FirstIn(heldby[l], Members(heldby[l])) \in Members(heldby[l])
    BY <1>0, <1>3, FirstInMember DEF ReleaseNext
  <2> QED BY <1>3, <2>1, ReleaseQueue DEF ReleaseNext
<1> QED BY <1>1, <1>2, <1>3

\* A weaker mode lets waiters in.
LEMMA DowngradeQueue ==
    ASSUME QInv, NEW l \in Lockers, NEW i \in LockIds, NEW m \in Modes,
           Downgrade(l, i, m)
    PROVE  QStep
<1>1. /\ IInv /\ TypeOK /\ Counted
  BY DEF QInv, IInv
<1>2. thr[l] = "idle" /\ i \in Members(heldby[l]) /\ <<mode[i], m>> \in Downgrades
  BY DEF Downgrade, Idle
<1>3. /\ status[i] = "HELD" /\ holder[i] = l /\ mode[i] \in Modes /\ obj[i] \in Objs
  BY <1>1, <1>2, HeldLock
<1>4. m \in WriteModes => mode[i] \in WriteModes
  BY <1>2, WriteAssumption
<1>5. /\ UNCHANGED <<holder, obj, heldby, nlocks, thr, req>>
      /\ mode' = [mode EXCEPT ![i] = m]
      /\ nwrites' = [nwrites EXCEPT ![l] =
                       @ - (IF IsWrite(m) = 0 THEN IsWrite(mode[i]) ELSE 0)]
      /\ Promote(obj[i], status, mode', holder, holders[obj[i]], waiters[obj[i]],
                 mtx, ddObjs)
  BY DEF Downgrade, thrVars
<1>6. \A j \in LockIds : mode'[j] = IF j = i THEN m ELSE mode[j]
  BY <1>1, <1>5 DEF TypeOK
<1>7. Promoting(i, status, mode', holder, holders[obj[i]], waiters[obj[i]], mtx, ddObjs)
  BY <1>3, <1>5, <1>6 DEF Promoting
<1>8. /\ Queued' /\ Upgrading' /\ Families'
      /\ \A a, j \in LockIds : InOrder(a, j)
  BY <1>2, <1>5, <1>7, ChangedLock
<1>9. Counted'
  <2>1. OnlyHeld(i) /\ status'[i] = "HELD"
    BY <1>3, <1>7, PromotingHeld
  <2>2. \A k \in Lockers :
          /\ nlocks'[k] = nlocks[k] + HeldBit(i, k, status', holder')
                                    - HeldBit(i, k, status, holder)
          /\ nwrites'[k] = nwrites[k] + WriteBit(i, k, status', mode', holder')
                                      - WriteBit(i, k, status, mode, holder)
    BY <1>1, <1>3, <1>4, <1>5, <1>6, <2>1 DEF HeldBit, WriteBit, IsWrite, TypeOK
  <2> QED BY <1>1, <1>5, <2>1, <2>2, CountedStep
<1> QED BY <1>8, <1>9 DEF QStep

\* A child in __lock_inherit_locks has a parent that is idle.
LEMMA HeirIdle ==
    ASSUME QInv, NEW l \in Lockers, thr[l] = "inherit"
    PROVE  Parent[l] \in Lockers /\ Parent[l] # l /\ thr[Parent[l]] = "idle"
BY FamilyAssumption DEF QInv, IInv, HeirOf, Families

\* A child's lock becomes its parent's, or is merged with one the parent has.
LEMMA InheritQueue ==
    ASSUME QInv, NEW l \in Lockers, InheritNext(l)
    PROVE  QStep
<1> DEFINE i == FirstIn(heldby[l], Members(heldby[l]))
           j == FirstIn(holders[obj[i]], Merge(i))
           p == Parent[l]
<1>1. /\ IInv /\ TypeOK /\ Counted
  BY DEF QInv, IInv
<1>2. thr[l] = "inherit" /\ UNCHANGED <<needDD, dirty, inabort, thr, req>>
  BY DEF InheritNext, thrVars
<1>3. i \in Members(heldby[l])
  <2>1. IsList(heldby[l], LockIds)
    BY <1>1, ListTypes
  <2> QED BY <2>1, FirstInMember DEF InheritNext
<1>4. /\ i \in LockIds /\ status[i] = "HELD" /\ holder[i] = l /\ mode[i] \in Modes
      /\ obj[i] \in Objs
  BY <1>1, <1>2, <1>3, HeldLock
<1>5. p \in Lockers /\ p # l /\ thr[p] = "idle"
  BY <1>2, HeirIdle
<1>6. CASE Merge(i) # {}
  <2>1. /\ refcount' = [refcount EXCEPT ![j] = @ + refcount[i], ![i] = 0]
        /\ mode' = [mode EXCEPT ![i] = "N"] /\ holder' = [holder EXCEPT ![i] = NoLocker]
        /\ obj' = [obj EXCEPT ![i] = NoObj]
        /\ heldby' = [heldby EXCEPT ![l] = RemoveAll(heldby[l], {i})]
        /\ Promote(obj[i], [status EXCEPT ![i] = "FREE"], mode, holder,
                   RemoveAll(holders[obj[i]], {i}), waiters[obj[i]], mtx, ddObjs)
        /\ UNCHANGED <<nlocks, nwrites>>
    BY <1>6 DEF InheritNext
  <2>2. refcount' \in [LockIds -> Nat]
    <3>1. IsList(holders[obj[i]], LockIds) /\ Merge(i) \subseteq Members(holders[obj[i]])
      BY <1>1, <1>4, ListTypes DEF Merge
    <3>2. j \in Merge(i)
      BY <1>6, <3>1, FirstInMember
    <3>3. j \in LockIds
      BY <3>1, <3>2 DEF IsList
    <3> HIDE DEF i, j
    <3> QED BY <1>1, <1>4, <2>1, <3>3 DEF TypeOK
  <2>3. Frees(l, i)
    BY <1>1, <1>2, <2>1, <2>2 DEF Frees, TypeOK
  <2> HIDE DEF i, j
  <2> DEFINE st == [status EXCEPT ![i] = "FREE"]
             hs == RemoveAll(holders[obj[i]], {i})
  <2>4. /\ Promoting(i, st, mode, holder, hs, waiters[obj[i]], mtx, ddObjs)
        /\ \A k \in Lockers : Members(heldby'[k]) \subseteq Members(heldby[k])
    BY <1>1, <1>2, <1>3, <2>3, FreesPromotes
  <2>5. st[i] = "FREE"
    BY <1>1, <1>4 DEF TypeOK
  <2> HIDE DEF st, hs
  <2>6. /\ Queued' /\ Upgrading' /\ Families'
        /\ \A a, b \in LockIds : InOrder(a, b)
    BY <1>2, <1>3, <2>4, ChangedLock
  <2>7. Counted'
    <3>1. OnlyHeld(i) /\ status'[i] = "FREE"
      BY <2>4, <2>5, PromotingHeld
    <3>2. \A k \in Lockers : thr'[k] \notin {"inherit", "none"} =>
            /\ thr[k] \notin {"inherit", "none"} /\ k # l
            /\ nlocks'[k] = nlocks[k] /\ nwrites'[k] = nwrites[k]
      BY <1>2, <2>1
    <3>3. \A k \in Lockers \ {l} :
            /\ nlocks[k] \in Int /\ nwrites[k] \in Int
            /\ HeldBit(i, k, status', holder') = 0 /\ HeldBit(i, k, status, holder) = 0
            /\ WriteBit(i, k, status', mode', holder') = 0
            /\ WriteBit(i, k, status, mode, holder) = 0
      BY <1>1, <1>4, <3>1 DEF HeldBit, WriteBit, TypeOK
    <3>4. \A k \in Lockers : thr'[k] \notin {"inherit", "none"} =>
            /\ thr[k] \notin {"inherit", "none"}
            /\ nlocks'[k] = nlocks[k] + HeldBit(i, k, status', holder')
                                      - HeldBit(i, k, status, holder)
            /\ nwrites'[k] = nwrites[k] + WriteBit(i, k, status', mode', holder')
                                        - WriteBit(i, k, status, mode, holder)
      BY <3>2, <3>3
    <3> QED BY <1>1, <1>4, <3>1, <3>4, CountedStep
  <2> QED BY <2>6, <2>7 DEF QStep
<1>7. CASE Merge(i) = {}
  <2>1. /\ holder' = [holder EXCEPT ![i] = p]
        /\ heldby' = [heldby EXCEPT ![l] = RemoveAll(heldby[l], {i}),
                                    ![p] = InsertHead(heldby[p], i)]
        /\ nlocks' = [nlocks EXCEPT ![p] = @ + 1]
        /\ nwrites' = [nwrites EXCEPT ![p] = @ + IsWrite(mode[i])]
        /\ Promote(obj[i], status, mode, holder', holders[obj[i]], waiters[obj[i]],
                   mtx, ddObjs)
        /\ UNCHANGED <<mode, obj, refcount>>
    BY <1>7 DEF InheritNext
  <2> HIDE DEF i, p
  <2>2. \A k \in LockIds : holder'[k] = IF k = i THEN p ELSE holder[k]
    BY <1>1, <2>1 DEF TypeOK
  <2>3. Promoting(i, status, mode, holder', holders[obj[i]], waiters[obj[i]], mtx, ddObjs)
    BY <1>4, <2>1, <2>2 DEF Promoting
  <2>4. \A k \in Lockers : thr[k] = "none" => Members(heldby'[k]) \subseteq Members(heldby[k])
    <3>1. heldby \in [Lockers -> {heldby[x] : x \in Lockers}]
      BY <1>1 DEF TypeOK, IsListArray
    <3>2. \A k \in Lockers : thr[k] = "none" => heldby'[k] = heldby[k]
      BY <1>2, <1>5, <2>1, <3>1
    <3> QED BY <3>2
  <2>5. /\ Queued' /\ Upgrading' /\ Families'
        /\ \A a, b \in LockIds : InOrder(a, b)
    BY <1>2, <1>3, <2>3, <2>4, ChangedLock
  <2>6. Counted'
    <3>1. OnlyHeld(i) /\ status'[i] = "HELD"
      BY <1>4, <2>3, PromotingHeld
    <3>2. \A k \in Lockers : k # l =>
            /\ nlocks'[k] = nlocks[k] + HeldBit(i, k, status', holder')
                                      - HeldBit(i, k, status, holder)
            /\ nwrites'[k] = nwrites[k] + WriteBit(i, k, status', mode', holder')
                                        - WriteBit(i, k, status, mode, holder)
      BY <1>1, <1>4, <1>5, <2>1, <2>2, <3>1 DEF HeldBit, WriteBit, IsWrite, TypeOK
    <3>3. \A k \in Lockers : thr'[k] \notin {"inherit", "none"} =>
            thr[k] \notin {"inherit", "none"} /\ k # l
      BY <1>2
    <3> QED BY <1>1, <1>4, <3>1, <3>2, <3>3, CountedStep
  <2> QED BY <2>5, <2>6 DEF QStep
<1> QED BY <1>6, <1>7

\* A timed-out request leaves the queue, and those behind it are promoted.
LEMMA WakeExpiredQueue ==
    ASSUME QInv, NEW l \in Lockers, WakeExpired(l)
    PROVE  QStep
<1> DEFINE i == req[l].lk
           st == [status EXCEPT ![i] = "FREE"]
           ws == RemoveAll(waiters[obj[i]], {i})
           mx == [mtx EXCEPT ![l] = "locked"]
           dd == IF Members(ws) = {} THEN ddObjs \ {obj[i]} ELSE ddObjs
<1>1. /\ IInv /\ TypeOK /\ Upgrading /\ Counted /\ Families
  BY DEF QInv, IInv
<1>2. /\ thr[l] = "sleep" /\ status[i] = "EXPIRED" /\ i \in LockIds /\ holder[i] = l
      /\ obj[i] \in Objs /\ req[l].back \in {"idle", "upgrade"}
      /\ LockAt(i, status, mode, holder, obj, holders, waiters, heldby)
  BY <1>1, SleepLock DEF WakeExpired, Awake
<1>3. /\ mode' = [mode EXCEPT ![i] = "N"] /\ holder' = [holder EXCEPT ![i] = NoLocker]
      /\ obj' = [obj EXCEPT ![i] = NoObj]
      /\ heldby' = [heldby EXCEPT ![l] = RemoveAll(heldby[l], {i})]
      /\ thr' = [thr EXCEPT ![l] = req[l].back] /\ req' = [req EXCEPT ![l] = NoReq]
      /\ UNCHANGED <<nlocks, nwrites>>
      /\ Promote(obj[i], st, mode, holder, holders[obj[i]], ws, mx, dd)
  BY DEF WakeExpired, Recycle, Unqueued
<1>4. /\ \A j \in LockIds :
           /\ st[j] = IF j = i THEN "FREE" ELSE status[j]
           /\ mode'[j] = IF j = i THEN "N" ELSE mode[j]
           /\ holder'[j] = IF j = i THEN NoLocker ELSE holder[j]
           /\ obj'[j] = IF j = i THEN NoObj ELSE obj[j]
      /\ \A k \in Lockers : /\ thr'[k] = IF k = l THEN req[l].back ELSE thr[k]
                            /\ req'[k] = IF k = l THEN NoReq ELSE req[k]
                            /\ k # l => heldby'[k] = heldby[k]
  <2>1. heldby \in [Lockers -> {heldby[x] : x \in Lockers}]
    BY <1>1 DEF TypeOK, IsListArray
  <2> QED BY <1>1, <1>3, <2>1 DEF TypeOK
<1>5. \A j \in Members(holders[obj[i]]) \cup Members(ws) : j \in LockIds \ {i}
  <2>1. /\ Members(ws) = Members(waiters[obj[i]]) \ {i}
        /\ Members(waiters[obj[i]]) \subseteq LockIds
        /\ Members(holders[obj[i]]) \subseteq LockIds
    BY <1>1, <1>2, ListTypes, RemoveAllType
  <2>2. i \notin Members(holders[obj[i]])
    BY <1>2 DEF LockAt
  <2> QED BY <2>1, <2>2
<1>6. ws = RemoveAll(waiters[obj[i]], {i})
  OBVIOUS
<1> HIDE DEF i, st, ws, mx, dd
<1>7. Promoting(i, st, mode, holder, holders[obj[i]], ws, mx, dd)
  <2>1. Promote(obj[i], st, mode, holder, holders[obj[i]], ws, mx, dd)
    BY <1>3
  <2>2. /\ \A j \in LockIds \ {i} :
             /\ st[j] = status[j] /\ mode'[j] = mode[j]
             /\ holder'[j] = holder[j] /\ obj'[j] = obj[j]
        /\ st[i] = "FREE"
    BY <1>2, <1>4
  <2>3. \A j \in Members(holders[obj[i]]) \cup Members(ws) :
          mode'[j] = mode[j] /\ holder'[j] = holder[j]
    BY <1>5, <2>2
  <2> QED BY Zenon, <1>2, <1>6, <2>1, <2>2, <2>3 DEF Promoting
<1>8. /\ OnlyHeld(i) /\ status'[i] = "FREE"
      /\ Queued' /\ \A a, j \in LockIds : InOrder(a, j)
  BY <1>2, <1>4, <1>7, PromotingHeld
<1>9. Upgrading'
  <2>1. \A k \in Lockers : thr'[k] = "sleep" /\ req'[k].upg # NoLock =>
          /\ thr[k] = "sleep" /\ req'[k] = req[k]
          /\ mode'[req[k].lk] = mode[req[k].lk]
          /\ mode'[req[k].upg] = mode[req[k].upg]
    BY <1>1, <1>2, <1>4, OthersSleep DEF i
  <2> QED BY <1>1, <2>1, UpgradingKept
<1>10. Counted'
  <2>1. \A k \in Lockers :
          /\ nlocks'[k] = nlocks[k] + HeldBit(i, k, status', holder')
                                    - HeldBit(i, k, status, holder)
          /\ nwrites'[k] = nwrites[k] + WriteBit(i, k, status', mode', holder')
                                      - WriteBit(i, k, status, mode, holder)
    BY <1>1, <1>2, <1>3, <1>8 DEF HeldBit, WriteBit, TypeOK
  <2>2. \A k \in Lockers : thr'[k] \notin {"inherit", "none"} =>
          thr[k] \notin {"inherit", "none"}
    BY <1>2, <1>4
  <2> QED BY <1>1, <1>2, <1>8, <2>1, <2>2, CountedStep
<1>11. Families'
  BY <1>1, <1>2, <1>3, <1>4, AwakeFamilies
<1> QED BY <1>8, <1>9, <1>10, <1>11 DEF QStep

\* The detector takes a victim out of the queue and promotes those behind it.
LEMMA DdAbortQueue ==
    ASSUME QInv, NEW l \in Lockers, DdAbort(l)
    PROVE  QStep
<1> DEFINE i == req[l].lk
           st == [status EXCEPT ![i] = "ABORTED"]
           ws == RemoveAll(waiters[obj[i]], {i})
           mx == [mtx EXCEPT ![l] = "unlocked"]
           dd == IF Members(ws) = {} THEN ddObjs \ {obj[i]} ELSE ddObjs
<1>1. /\ IInv /\ TypeOK /\ Upgrading /\ Counted /\ Families
  BY DEF QInv, IInv
<1>2. status[i] = "WAITING" /\ i \in LockIds /\ obj[i] \in Objs
  BY <1>1, SleepLock DEF DdAbort
<1>3. /\ UNCHANGED <<mode, holder, obj, heldby, nlocks, nwrites, thr, req>>
      /\ Promote(obj[i], st, mode, holder, holders[obj[i]], ws, mx, dd)
  BY DEF DdAbort, Unqueued, lockerVars, thrVars
<1>4. \A j \in LockIds : st[j] = IF j = i THEN "ABORTED" ELSE status[j]
  BY <1>1 DEF TypeOK
<1>5. ws = RemoveAll(waiters[obj[i]], {i})
  OBVIOUS
<1> HIDE DEF i, st, ws, mx, dd
<1>6. Promoting(i, st, mode, holder, holders[obj[i]], ws, mx, dd)
  BY <1>2, <1>3, <1>4, <1>5 DEF Promoting
<1>7. /\ OnlyHeld(i) /\ status'[i] = "ABORTED"
      /\ Queued' /\ \A a, j \in LockIds : InOrder(a, j)
  BY <1>2, <1>4, <1>6, PromotingHeld
<1>8. Upgrading' /\ Families'
  BY <1>1, <1>3 DEF Upgrading, Families
<1>9. Counted'
  <2>1. \A j \in LockIds :
          /\ status'[j] = "HELD" <=> status[j] = "HELD"
          /\ status[j] = "HELD" => mode'[j] = mode[j] /\ holder'[j] = holder[j]
    BY <1>2, <1>3, <1>7 DEF OnlyHeld
  <2> QED BY <1>1, <1>3, <2>1, CountedKept
<1> QED BY <1>7, <1>8, <1>9 DEF QStep

-----------------------------------------------------------------------------
(* The theorems about the queues and the counts.                           *)

\* The queues start empty and the counters at zero.
LEMMA InitQInv == Init => QInv
<1> SUFFICES ASSUME Init
             PROVE  QInv
  OBVIOUS
<1>1. IInv
  BY InitIInv
<1>2. Members(EmptyList) = {}
  BY EmptyListType
<1>3. Queued
  BY <1>2 DEF Init, Queued, FirstBlocked, IsQueue
<1>4. Upgrading /\ Counted
  BY DEF Init, Upgrading, Counted
<1>5. Families
  BY <1>2 DEF Init, Families
<1> QED BY <1>1, <1>3, <1>4, <1>5 DEF QInv

\* Every step keeps the invariant, and grants in order.
LEMMA NextQInv ==
    QInv /\ [Next]_vars => QInv' /\ \A i, j \in LockIds : InOrder(i, j)
<1> SUFFICES ASSUME QInv, [Next]_vars
             PROVE  QInv' /\ \A i, j \in LockIds : InOrder(i, j)
  OBVIOUS
<1>0. IInv'
  BY NextIInv DEF QInv
<1>1. ASSUME NEW l \in Lockers, LockerStep(l)
      PROVE  QStep
  <2>1. CASE Begin(l) \/ Commit(l) \/ Abort(l) \/ ReadReleased(l)
             \/ WritesUpgraded(l) \/ Undone(l) \/ End(l)
    BY <2>1, ThreadQueue
  <2>2. CASE \E o \in Objs, m \in Modes : GetAgain(l, o, m)
    <3>1. UNCHANGED <<status, mode, holder, obj, objVars, lockerVars, thrVars>>
      BY <2>2 DEF GetAgain
    <3> QED BY <3>1, QuietQueue
  <2>3. CASE \E o \in Objs, m \in Modes : GetGranted(l, o, m)
    BY <1>0, <2>3, GrantedQueue
  <2>4. CASE \E o \in Objs, m \in Modes : GetWaits(l, o, m)
    BY <1>0, <2>4, WaitsQueue
  <2>5. CASE \E i \in LockIds : PutReference(l, i)
    <3>1. UNCHANGED <<status, mode, holder, obj, objVars, lockerVars, thrVars>>
      BY <2>5 DEF PutReference
    <3> QED BY <3>1, QuietQueue
  <2>6. CASE (\E i \in LockIds : Put(l, i)) \/ ReleaseRead(l) \/ ReleaseNext(l)
    BY <2>6, ReleasesQueue
  <2>7. CASE \E i \in LockIds, m \in Modes : Downgrade(l, i, m)
    BY <2>7, DowngradeQueue
  <2>8. CASE (\E i \in LockIds, m \in Modes : Upgrade(l, i, m)) \/ UpgradeWrite(l)
    BY <1>0, <2>8, UpgradeQueue
  <2>9. CASE InheritNext(l)
    BY <2>9, InheritQueue
  <2>10. CASE WakeGranted(l)
    BY <1>0, <2>10, WakeGrantedQueue
  <2>11. CASE WakeUpgraded(l)
    BY <1>0, <2>11, WakeUpgradedQueue
  <2>12. CASE WakeAborted(l)
    BY <1>0, <2>12, WakeAbortedQueue
  <2>13. CASE WakeExpired(l)
    BY <2>13, WakeExpiredQueue
  <2> QED BY <1>1, <2>1, <2>2, <2>3, <2>4, <2>5, <2>6, <2>7, <2>8, <2>9, <2>10,
             <2>11, <2>12, <2>13 DEF LockerStep
<1>2. ASSUME NEW l \in Lockers, DdAbort(l)
      PROVE  QStep
  BY <1>2, DdAbortQueue
<1>3. ASSUME NEW o \in Objs, DdExpire(o)
      PROVE  QStep
  BY <1>0, <1>3, DdExpireQueue
<1>4. CASE DdStart \/ UNCHANGED vars
  <2>1. UNCHANGED <<status, mode, holder, obj, objVars, lockerVars, thrVars>>
    BY <1>4 DEF DdStart, vars, lockVars
  <2>2. QStep
    BY <2>1, QuietQueue
  <2> QED BY <1>0, <2>2 DEF QStep, QInv
<1>5. QStep \/ DdStart \/ UNCHANGED vars
  BY <1>1, <1>2, <1>3 DEF Next
<1> QED BY <1>0, <1>4, <1>5 DEF QStep, QInv

\* What the invariant says of the queues and of the counts.
LEMMA QInvMeaning == QInv => NoStrandedWaiter /\ CountsExact
<1> SUFFICES ASSUME QInv
             PROVE  NoStrandedWaiter /\ CountsExact
  OBVIOUS
<1>1. /\ TypeOK /\ ListsOf(status, mode, holder, obj, holders, waiters, heldby)
      /\ Queued /\ Counted
  BY DEF QInv, IInv
<1>2. ASSUME NEW o \in Objs, Members(waiters[o]) # {},
             status[FirstIn(waiters[o], Members(waiters[o]))] = "WAITING"
      PROVE  BlockedBy(FirstIn(waiters[o], Members(waiters[o])),
                       Members(holders[o]), mode, holder)
  <2> DEFINE q == waiters[o]
             i == FirstIn(q, Members(q))
  <2>1. IsList(q, LockIds) /\ IsQueue(q) /\ FirstBlocked(o) /\ Members(q) # {}
    BY <1>1, <1>2, ListTypes DEF Queued
  <2>2. i \in Members(q) /\ \A j \in Members(q) : q[i] <= q[j]
    <3> HIDE DEF q
    <3> QED BY <2>1, FirstInMember
  <2> HIDE DEF i
  <2>3. q[i] = 1
    <3>1. q[i] >= 1 /\ q[i] \in Nat /\ \E j \in Members(q) : q[j] = 1
      BY <2>1, <2>2 DEF IsQueue, IsList
    <3> QED BY <2>2, <3>1
  <2> QED BY <1>2, <2>1, <2>2, <2>3 DEF FirstBlocked, i
<1>3. ASSUME NEW l \in Lockers, thr[l] \notin {"inherit", "none"}
      PROVE  LET held == {i \in Members(heldby[l]) : status[i] = "HELD"} IN
             /\ nlocks[l] = Cardinality(held)
             /\ nwrites[l] = Cardinality({i \in held : mode[i] \in WriteModes})
  <2>1. {i \in Members(heldby[l]) : status[i] = "HELD"} = HeldOf(l, status, holder)
    <3>1. Members(heldby[l]) \subseteq LockIds
      BY <1>1 DEF TypeOK, IsListArray, IsList
    <3> QED BY <1>1, <3>1 DEF HeldOf, ListsOf, LockAt
  <2>2. {i \in HeldOf(l, status, holder) : mode[i] \in WriteModes} =
            WritesOf(l, status, mode, holder)
    BY DEF WritesOf
  <2> QED BY <1>1, <1>3, <2>1, <2>2 DEF Counted
<1> QED BY <1>2, <1>3 DEF NoStrandedWaiter, CountsExact

\* The second inductive invariant holds of every reachable state.
THEOREM QueueInvariant == Spec => []QInv
BY InitQInv, NextQInv, PTL DEF Spec

\* The first waiter of an object is kept out by a granted lock of another
\* family: every release, downgrade, hand-over, abort and expiry promotes whom
\* it has to, however the queue was ordered by the requests that joined it.
THEOREM NobodyStranded == Spec => []NoStrandedWaiter
BY QueueInvariant, QInvMeaning, PTL

\* nlocks and nwrites of a locker are the numbers of locks and of write locks
\* it holds, whatever was upgraded, downgraded, merged or inherited.
THEOREM CountsCorrect == Spec => []CountsExact
BY QueueInvariant, QInvMeaning, PTL

\* A request is granted past a conflicting one that waits on only when it was
\* queued before it, when its family has a lock on the object already, or when
\* it is a dirty read: neither __lock_get_internal nor __lock_promote lets
\* anyone else overtake.
THEOREM NobodyOvertaken == Spec => NoOvertaking
<1>1. QInv /\ [Next]_vars => [\A i, j \in LockIds : InOrder(i, j)]_vars
  BY NextQInv
<1> QED BY <1>1, QueueInvariant, PTL DEF Spec, NoOvertaking
=============================================================================
