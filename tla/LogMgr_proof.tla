---------------------------- MODULE LogMgr_proof ----------------------------
(***************************************************************************)
(* Proofs about LogMgr, for any number of threads and files and any record *)
(* and buffer length the assumptions allow.                                *)
(***************************************************************************)
EXTENDS LogMgr, OrderFacts

(***************************************************************************)
(* Who holds what, and where committers wait.                              *)
(***************************************************************************)

Flying == {"sync", "store", "synced"}

InFlight == {t \in Threads : pc[t] \in Flying}

\* At p, for the reason y, a thread has the region lock.
HoldsRegion(p, y) ==
    \/ p \in {"append", "newfile", "writeout", "enter", "failed", "flush", "flushed"}
    \/ p \in Flying /\ y \notin {"commit", "api"}

HoldsFlush(p) == p \in {"sync", "store"}

\* What brings a thread of kind k to p.
RoleOK(p, k, y) ==
    /\ p = "append" => y \in {"put", "switch"} /\ k # "api"
    /\ p = "newfile" => y = "switch" /\ k # "api"
    /\ p = "writeout" => y = "commit" /\ k = "write"
    /\ p = "failed" => y = "commit" /\ k \in {"commit", "write"}
    /\ p = "lock" => y = "api"
    /\ p \in {"enter", "wait"} => y \in {"commit", "api"}
    /\ p \in {"flush", "flushed"} \cup Flying =>
         y \in {"switch", "commit", "api", "retry"}
    /\ y = "switch" => k # "api"
    /\ y = "commit" => k \in {"commit", "write", "ckp"}

Whys == {"put", "switch", "commit", "api", "retry"}

Jobs == [kind : PutKinds \cup {"api", "ckp"}, rec : Int \X Int, to : Int \X Int,
         why : Whys, ok : BOOLEAN, mark : Int \X Int]

Shape ==
    /\ pc \in [Threads -> PcStates] /\ job \in [Threads -> Jobs]
    /\ {region, mtxFlush} \subseteq Threads \cup {None}
    /\ woken \subseteq Threads /\ designated \subseteq woken
    /\ IsList(commits, Threads) /\ inFlush \in Int

Places ==
    \A t \in Threads :
        /\ RoleOK(pc[t], job[t].kind, job[t].why)
        /\ region = t <=> HoldsRegion(pc[t], job[t].why)
        /\ mtxFlush = t <=> HoldsFlush(pc[t])

Waiters ==
    /\ \A t \in Threads : pc[t] = "wait" <=> t \in Listed \cup woken
    /\ Listed \cap woken = {}

\* A listed committer has a flush to wait for.
FlushComing ==
    Listed # {} => \/ inFlush > 0
                   \/ \E t \in Threads : region = t /\ pc[t] \in {"flush", "flushed"}

Control ==
    Shape /\ Places /\ Waiters /\ FlushComing /\ InFlushExact

-----------------------------------------------------------------------------

Counted ==
    /\ IsFiniteSet(InFlight) /\ Cardinality(InFlight) \in Nat
    /\ IsFiniteSet(designated) /\ Cardinality(designated) \in Nat

LEMMA CountsAreNat == Shape => Counted
<1> SUFFICES ASSUME Shape PROVE Counted
  OBVIOUS
<1> USE DEF Counted
<1>1. InFlight \subseteq Threads /\ designated \subseteq Threads
  BY DEF InFlight, Shape
<1> QED BY <1>1, ThreadAssumption, FS_Subset, FS_CardinalityType

LEMMA CountsNextAreNat == Shape' => Counted'
BY CountsAreNat, PTL

LEMMA CountIs ==
    InFlushExact <=> inFlush = Cardinality(InFlight) + Cardinality(designated)
BY DEF InFlushExact, InFlight, Flying

LEMMA CountNextIs ==
    InFlushExact' <=> inFlush' = Cardinality(InFlight') + Cardinality(designated')
BY DEF InFlushExact, InFlight, Flying

\* The step of one thread that neither starts nor ends a flush, nor waits.
LEMMA QuietStep ==
    ASSUME Control, NEW t \in Threads, NEW p \in PcStates, NEW j \in Jobs,
           pc' = [pc EXCEPT ![t] = p], job' \in [Threads -> Jobs], job'[t] = j,
           \A u \in Threads \ {t} : job'[u] = job[u],
           UNCHANGED <<commits, woken, designated, inFlush>>,
           pc[t] # "wait", p # "wait", pc[t] \in Flying <=> p \in Flying,
           pc[t] \in {"flush", "flushed"} => p \in {"flush", "flushed"},
           RoleOK(p, j.kind, j.why),
           region' = (IF HoldsRegion(p, j.why) THEN t ELSE
                        IF region = t THEN None ELSE region),
           region # t => region = None \/ region' = region,
           mtxFlush' = (IF HoldsFlush(p) THEN t ELSE
                          IF mtxFlush = t THEN None ELSE mtxFlush),
           mtxFlush # t => mtxFlush = None \/ mtxFlush' = mtxFlush
    PROVE  Control'
<1> USE DEF Control
<1>1. pc \in [Threads -> PcStates] /\ job \in [Threads -> Jobs]
  BY DEF Shape
<1>2. pc'[t] = p
  BY <1>1
<1>3. \A u \in Threads \ {t} : pc'[u] = pc[u] /\ job'[u] = job[u]
  BY <1>1
<1>4. Shape'
  <2>1. pc' \in [Threads -> PcStates] /\ job' \in [Threads -> Jobs]
    BY <1>1
  <2>2. {region', mtxFlush'} \subseteq Threads \cup {None}
    BY DEF Shape
  <2> QED BY <2>1, <2>2 DEF Shape
<1>5. Places'
  <2> SUFFICES ASSUME NEW u \in Threads
               PROVE  /\ RoleOK(pc'[u], job'[u].kind, job'[u].why)
                      /\ region' = u <=> HoldsRegion(pc'[u], job'[u].why)
                      /\ mtxFlush' = u <=> HoldsFlush(pc'[u])
    BY DEF Places
  <2>1. CASE u = t
    BY <2>1, <1>2, ThreadAssumption
  <2>2. CASE u # t
    <3>1. /\ RoleOK(pc[u], job[u].kind, job[u].why)
          /\ region = u <=> HoldsRegion(pc[u], job[u].why)
          /\ mtxFlush = u <=> HoldsFlush(pc[u])
      BY DEF Places
    <3>2. region' = u <=> region = u
      BY <2>2, ThreadAssumption
    <3>3. mtxFlush' = u <=> mtxFlush = u
      BY <2>2, ThreadAssumption
    <3> QED BY <3>1, <3>2, <3>3, <2>2, <1>3
  <2> QED BY <2>1, <2>2
<1>6. Waiters'
  BY <1>2, <1>3 DEF Waiters, Listed
<1>7. InFlushExact'
  <2>1. InFlight' = InFlight
    BY <1>2, <1>3 DEF InFlight
  <2> QED BY <2>1, CountIs, CountNextIs
<1>8. FlushComing'
  <2> SUFFICES ASSUME Listed # {}, ~(inFlush > 0)
               PROVE  \E u \in Threads : region' = u /\ pc'[u] \in {"flush", "flushed"}
    BY DEF FlushComing, Listed
  <2>1. PICK u \in Threads : region = u /\ pc[u] \in {"flush", "flushed"}
    BY DEF FlushComing
  <2>2. CASE u = t
    BY <2>1, <2>2, <1>2 DEF HoldsRegion
  <2>3. CASE u # t
    BY <2>1, <2>3, <1>3, ThreadAssumption
  <2> QED BY <2>2, <2>3
<1> QED BY <1>4, <1>5, <1>6, <1>7, <1>8

-----------------------------------------------------------------------------
(* The steps that neither start nor end a flush.                           *)

LEMMA JobTypes ==
    ASSUME Shape, NEW t \in Threads
    PROVE  job[t] \in Jobs
BY DEF Shape

\* The job of a call that begins.
LEMMA CallType ==
    ASSUME NEW k \in PutKinds \cup {"api", "ckp"}, NEW to \in Int \X Int,
           NEW r \in Int \X Int, NEW y \in Whys
    PROVE  /\ Call(k, r, to, y) \in Jobs
           /\ Call(k, r, to, y).kind = k /\ Call(k, r, to, y).why = y
           /\ Call(k, r, to, y).to = to /\ Call(k, r, to, y).rec = r
<1>1. ZeroLsn \in Int \X Int
  BY DEF ZeroLsn
<1> QED BY <1>1 DEF Jobs, Call

LEMMA NoJobType ==
    NoJob \in Jobs /\ NoJob.kind = "append" /\ NoJob.why = "put"
<1>1. ZeroLsn \in Int \X Int /\ "append" \in PutKinds /\ "put" \in Whys
  BY DEF ZeroLsn, PutKinds, Whys
<1> QED BY <1>1, CallType DEF NoJob

LEMMA EnterControl ==
    ASSUME Control, NEW t \in Threads, NEW k \in Kinds \cup {"ckp"}, Enter(t, k),
           lsn \in Int \X Int, RecLen \in Int
    PROVE  Control'
<1> DEFINE p == IF Fits THEN "append" ELSE IF lsn[2] = 0 THEN "newfile" ELSE "flush"
           y == IF Fits THEN "put" ELSE "switch"
           j == Call(k, ZeroLsn, LastLsn, y)
<1>1. k \in PutKinds \cup {"ckp"}
  BY ThreadAssumption DEF Enter
<1>2. j \in Jobs /\ j.kind = k /\ j.why = y
  <2>1. LastLsn \in Int \X Int /\ ZeroLsn \in Int \X Int
    BY DEF LastLsn, ZeroLsn
  <2>2. y \in Whys
    BY DEF Whys
  <2> HIDE DEF y
  <2> QED BY <1>1, <2>1, <2>2, CallType
<1>3. p \in PcStates /\ RoleOK(p, k, y) /\ HoldsRegion(p, y) /\ ~HoldsFlush(p)
  BY <1>1 DEF PcStates, RoleOK, HoldsRegion, HoldsFlush, Flying, PutKinds
<1>4. pc[t] = "idle" /\ p # "wait" /\ p \notin Flying
  BY DEF Enter, Flying
<1>5. pc' = [pc EXCEPT ![t] = p] /\ job' = [job EXCEPT ![t] = j]
  BY DEF Enter, Go
<1>6. mtxFlush # t /\ region = None /\ region' = t /\ mtxFlush' = mtxFlush
  BY <1>4 DEF Enter, Control, Places, HoldsFlush
<1>7. UNCHANGED <<commits, woken, designated, inFlush>>
  BY DEF Enter, regionVars
<1> HIDE DEF p, j, y
<1>8. job' \in [Threads -> Jobs] /\ job'[t] = j /\ \A u \in Threads \ {t} : job'[u] = job[u]
  BY <1>2, <1>5 DEF Control, Shape
<1> QED BY <1>2, <1>3, <1>4, <1>5, <1>6, <1>7, <1>8, QuietStep DEF Flying

\* A thread that holds the region lock gives it back and is done.
LEMMA IdleControl ==
    ASSUME Control, NEW t \in Threads,
           pc[t] \in {"append", "writeout", "enter", "failed"},
           region' = None, Go(t, "idle"), job' = [job EXCEPT ![t] = NoJob],
           UNCHANGED <<commits, woken, designated, inFlush, mtxFlush>>
    PROVE  Control'
<1>1. pc' = [pc EXCEPT ![t] = "idle"] /\ "idle" \in PcStates
  BY DEF Go, PcStates
<1>2. job' \in [Threads -> Jobs] /\ job'[t] = NoJob
      /\ \A u \in Threads \ {t} : job'[u] = job[u]
  BY NoJobType DEF Control, Shape
<1>3. region = t /\ mtxFlush # t
  BY DEF Control, Places, HoldsRegion, HoldsFlush
<1>4. RoleOK("idle", NoJob.kind, NoJob.why) /\ ~HoldsRegion("idle", NoJob.why)
      /\ ~HoldsFlush("idle")
  BY NoJobType DEF RoleOK, HoldsRegion, HoldsFlush, Flying
<1> QED BY <1>1, <1>2, <1>3, <1>4, NoJobType, QuietStep DEF Flying

\* It keeps its job and goes on; it may take the region lock for that.
LEMMA GoesOn ==
    ASSUME Control, NEW t \in Threads, NEW p \in PcStates, Go(t, p), UNCHANGED job,
           UNCHANGED <<commits, woken, designated, inFlush, mtxFlush>>,
           pc[t] \in {"newfile", "writeout", "lock", "enter"},
           p \in {"append", "failed", "enter", "flush"},
           RoleOK(p, job[t].kind, job[t].why),
           region' = t, region \in {t, None}
    PROVE  Control'
<1>1. pc' = [pc EXCEPT ![t] = p]
  BY DEF Go
<1>2. job' \in [Threads -> Jobs] /\ job[t] \in Jobs
  BY DEF Control, Shape
<1>3. mtxFlush # t
  BY DEF Control, Places, HoldsFlush
<1>4. HoldsRegion(p, job[t].why) /\ ~HoldsFlush(p)
  BY DEF HoldsRegion, HoldsFlush
<1>5. p # "wait" /\ p \notin Flying /\ pc[t] \notin Flying /\ pc[t] # "wait"
  BY DEF Flying
<1> QED BY <1>1, <1>2, <1>3, <1>4, <1>5, QuietStep

LEMMA NewFileControl ==
    ASSUME Control, NEW t \in Threads, NewFile(t)
    PROVE  Control'
<1>1. RoleOK("append", job[t].kind, job[t].why) /\ region = t
  BY DEF NewFile, Control, Places, RoleOK, HoldsRegion, Flying
<1>2. "append" \in PcStates
  BY DEF PcStates
<1> QED BY <1>1, <1>2, GoesOn DEF NewFile, mutexVars

LEMMA PutRecordControl ==
    ASSUME Control, NEW t \in Threads, PutRecord(t), lsn \in Int \X Int
    PROVE  Control'
<1>1. region = t /\ job[t].kind # "api" /\ job[t].kind \in PutKinds \cup {"api", "ckp"}
  BY DEF PutRecord, Control, Places, RoleOK, HoldsRegion, Shape, Jobs
<1>2. UNCHANGED <<commits, woken, designated, inFlush, mtxFlush>>
  BY DEF PutRecord
<1>3. CASE job[t].kind = "append"
  <2>1. job' = [job EXCEPT ![t] = NoJob]
    BY <1>3 DEF PutRecord
  <2>2. pc[t] = "append" /\ region' = None /\ Go(t, "idle")
    BY <1>3 DEF PutRecord, Go
  <2> QED BY <1>2, <2>1, <2>2, IdleControl
<1>4. CASE job[t].kind # "append"
  <2> DEFINE p == IF job[t].kind = "write" THEN "writeout" ELSE "enter"
             j == Call(job[t].kind, lsn, lsn, "commit")
  <2>1. "commit" \in Whys
    BY DEF Whys
  <2>2. j \in Jobs /\ j.kind = job[t].kind /\ j.why = "commit"
    BY <1>1, <2>1, CallType
  <2>3. job' = [job EXCEPT ![t] = j]
    BY <1>4 DEF PutRecord
  <2>4. pc' = [pc EXCEPT ![t] = p]
    BY <1>4 DEF PutRecord, Go
  <2>5. RoleOK(p, job[t].kind, "commit") /\ p \in PcStates /\ HoldsRegion(p, "commit")
        /\ ~HoldsFlush(p) /\ p # "wait" /\ p \notin Flying
    BY <1>1, <1>4 DEF RoleOK, PcStates, PutKinds, HoldsRegion, HoldsFlush, Flying
  <2>6. region' = t /\ pc[t] = "append" /\ mtxFlush # t
    BY <1>4 DEF PutRecord, Control, Places, HoldsFlush
  <2> HIDE DEF j, p
  <2>7. job' \in [Threads -> Jobs] /\ job'[t] = j /\ \A u \in Threads \ {t} : job'[u] = job[u]
    BY <2>2, <2>3 DEF Control, Shape
  <2> QED BY <1>1, <1>2, <2>2, <2>4, <2>5, <2>6, <2>7, QuietStep DEF Flying
<1> QED BY <1>3, <1>4

LEMMA PutFailsControl ==
    ASSUME Control, NEW t \in Threads, PutFails(t)
    PROVE  Control'
BY IdleControl DEF PutFails, regionVars

LEMMA WriteOutControl ==
    ASSUME Control, NEW t \in Threads, WriteOut(t)
    PROVE  Control'
<1>1. Go(t, "idle")
  BY DEF WriteOut, Return, Go
<1> QED BY <1>1, IdleControl DEF WriteOut, Return

LEMMA WriteOutFailsControl ==
    ASSUME Control, NEW t \in Threads, WriteOutFails(t)
    PROVE  Control'
<1>1. RoleOK("failed", job[t].kind, job[t].why) /\ region = t
  BY DEF WriteOutFails, Control, Places, RoleOK, HoldsRegion, Flying
<1>2. "failed" \in PcStates
  BY DEF PcStates
<1> QED BY <1>1, <1>2, GoesOn DEF WriteOutFails, mutexVars, regionVars

LEMMA ApiFlushControl ==
    ASSUME Control, NEW t \in Threads, NEW r \in Slots, r \in Int \X Int, ApiFlush(t, r)
    PROVE  Control'
<1>1. UNCHANGED <<commits, woken, designated, inFlush, mtxFlush, region>>
  BY DEF ApiFlush, regionVars, mutexVars
<1>2. CASE UNCHANGED <<pc, job>>
  BY <1>1, <1>2 DEF Control, Shape, Places, Waiters, FlushComing, InFlushExact, Listed
<1>3. CASE ~UNCHANGED <<pc, job>>
  <2> DEFINE j == Call("api", r, r, "api")
  <2>1. pc[t] = "idle" /\ pc' = [pc EXCEPT ![t] = "lock"] /\ job' = [job EXCEPT ![t] = j]
    BY <1>3 DEF ApiFlush, Go
  <2>2. j \in Jobs /\ j.kind = "api" /\ j.why = "api"
    BY CallType DEF Whys
  <2>3. RoleOK("lock", "api", "api") /\ "lock" \in PcStates /\ ~HoldsFlush("lock")
        /\ ~HoldsRegion("lock", "api")
    BY DEF RoleOK, PcStates, HoldsRegion, HoldsFlush, Flying
  <2>4. region # t /\ mtxFlush # t
    BY <2>1 DEF Control, Places, HoldsRegion, HoldsFlush, Flying
  <2> HIDE DEF j
  <2>5. job' \in [Threads -> Jobs] /\ job'[t] = j /\ \A u \in Threads \ {t} : job'[u] = job[u]
    BY <2>1, <2>2 DEF Control, Shape
  <2>6. /\ pc[t] # "wait" /\ "lock" # "wait" /\ pc[t] \notin Flying /\ "lock" \notin Flying
        /\ pc[t] \notin {"flush", "flushed"}
    BY <2>1 DEF Flying
  <2>7. RoleOK("lock", j.kind, j.why) /\ ~HoldsRegion("lock", j.why)
    BY <2>2, <2>3
  <2> QED BY <1>1, <2>1, <2>2, <2>3, <2>4, <2>5, <2>6, <2>7, QuietStep
<1> QED BY <1>2, <1>3

LEMMA TakeRegionControl ==
    ASSUME Control, NEW t \in Threads, TakeRegion(t)
    PROVE  Control'
<1>1. RoleOK("enter", job[t].kind, job[t].why)
  BY DEF TakeRegion, Control, Places, RoleOK, Flying
<1>2. "enter" \in PcStates
  BY DEF PcStates
<1> QED BY <1>1, <1>2, GoesOn DEF TakeRegion, regionVars

LEMMA EnterFlushedControl ==
    ASSUME Control, NEW t \in Threads, EnterFlushed(t)
    PROVE  Control'
<1>1. Go(t, "idle")
  BY DEF EnterFlushed, Return, Go
<1> QED BY <1>1, IdleControl DEF EnterFlushed, Return, regionVars

LEMMA LeadControl ==
    ASSUME Control, NEW t \in Threads, Lead(t)
    PROVE  Control'
<1>1. RoleOK("flush", job[t].kind, job[t].why) /\ region = t
  BY DEF Lead, Control, Places, RoleOK, HoldsRegion, Flying
<1>2. "flush" \in PcStates
  BY DEF PcStates
<1> QED BY <1>1, <1>2, GoesOn DEF Lead, mutexVars, regionVars

LEMMA FailureIgnoredControl ==
    ASSUME Control, NEW t \in Threads, FailureIgnored(t)
    PROVE  Control'
<1>1. Go(t, "idle")
  BY DEF FailureIgnored, Return, Go
<1> QED BY <1>1, IdleControl DEF FailureIgnored, Return, regionVars

\* What a flush writes into its job.
LEMMA JobOutcome ==
    ASSUME Shape, NEW t \in Threads, NEW b \in BOOLEAN,
           job' = [job EXCEPT ![t].ok = b]
    PROVE  /\ job' \in [Threads -> Jobs]
           /\ \A u \in Threads \ {t} : job'[u] = job[u]
           /\ job'[t].kind = job[t].kind /\ job'[t].why = job[t].why
           /\ job'[t].rec = job[t].rec /\ job'[t].to = job[t].to
           /\ job'[t].mark = job[t].mark /\ job'[t].ok = b
<1>1. job \in [Threads -> Jobs] /\ job[t] \in Jobs
  BY DEF Shape
<1> DEFINE j == [job[t] EXCEPT !.ok = b]
<1>2. j \in Jobs /\ j.kind = job[t].kind /\ j.why = job[t].why /\ j.rec = job[t].rec
      /\ j.to = job[t].to /\ j.mark = job[t].mark /\ j.ok = b
  BY <1>1 DEF Jobs
<1>3. job' = [job EXCEPT ![t] = j]
  OBVIOUS
<1> HIDE DEF j
<1> QED BY <1>1, <1>2, <1>3

LEMMA JobMark ==
    ASSUME Shape, NEW t \in Threads, NEW m \in Int \X Int,
           job' = [job EXCEPT ![t].mark = m]
    PROVE  /\ job' \in [Threads -> Jobs]
           /\ \A u \in Threads \ {t} : job'[u] = job[u]
           /\ job'[t].kind = job[t].kind /\ job'[t].why = job[t].why
           /\ job'[t].rec = job[t].rec /\ job'[t].to = job[t].to
           /\ job'[t].mark = m /\ job'[t].ok = job[t].ok
<1>1. job \in [Threads -> Jobs] /\ job[t] \in Jobs
  BY DEF Shape
<1> DEFINE j == [job[t] EXCEPT !.mark = m]
<1>2. j \in Jobs /\ j.kind = job[t].kind /\ j.why = job[t].why /\ j.rec = job[t].rec
      /\ j.to = job[t].to /\ j.mark = m /\ j.ok = job[t].ok
  BY <1>1 DEF Jobs
<1>3. job' = [job EXCEPT ![t] = j]
  OBVIOUS
<1> HIDE DEF j
<1> QED BY <1>1, <1>2, <1>3

LEMMA JobTo ==
    ASSUME Shape, NEW t \in Threads, NEW l \in Int \X Int,
           job' = [job EXCEPT ![t].to = l]
    PROVE  /\ job' \in [Threads -> Jobs]
           /\ \A u \in Threads \ {t} : job'[u] = job[u]
           /\ job'[t].kind = job[t].kind /\ job'[t].why = job[t].why
           /\ job'[t].rec = job[t].rec /\ job'[t].to = l
           /\ job'[t].mark = job[t].mark /\ job'[t].ok = job[t].ok
<1>1. job \in [Threads -> Jobs] /\ job[t] \in Jobs
  BY DEF Shape
<1> DEFINE j == [job[t] EXCEPT !.to = l]
<1>2. j \in Jobs /\ j.kind = job[t].kind /\ j.why = job[t].why /\ j.rec = job[t].rec
      /\ j.to = l /\ j.mark = job[t].mark /\ j.ok = job[t].ok
  BY <1>1 DEF Jobs
<1>3. job' = [job EXCEPT ![t] = j]
  OBVIOUS
<1> HIDE DEF j
<1> QED BY <1>1, <1>2, <1>3

LEMMA JobSynced ==
    ASSUME Shape, NEW t \in Threads, NEW b \in BOOLEAN,
           job' = [job EXCEPT ![t].ok = b, ![t].mark = ZeroLsn]
    PROVE  /\ job' \in [Threads -> Jobs]
           /\ \A u \in Threads \ {t} : job'[u] = job[u]
           /\ job'[t].kind = job[t].kind /\ job'[t].why = job[t].why
           /\ job'[t].rec = job[t].rec /\ job'[t].to = job[t].to
           /\ job'[t].ok = b
<1>1. job \in [Threads -> Jobs] /\ job[t] \in Jobs
  BY DEF Shape
<1>2. ZeroLsn \in Int \X Int
  BY DEF ZeroLsn
<1> DEFINE i == [job[t] EXCEPT !.ok = b]
           j == [i EXCEPT !.mark = ZeroLsn]
<1>3. i \in Jobs /\ i.kind = job[t].kind /\ i.why = job[t].why /\ i.rec = job[t].rec
      /\ i.to = job[t].to /\ i.ok = b
  BY <1>1 DEF Jobs
<1>4. j \in Jobs /\ j.kind = i.kind /\ j.why = i.why /\ j.rec = i.rec
      /\ j.to = i.to /\ j.ok = i.ok
  <2> HIDE DEF i
  <2> QED BY <1>2, <1>3 DEF Jobs
<1>5. job' = [job EXCEPT ![t] = j]
  OBVIOUS
<1> HIDE DEF i, j
<1> QED BY <1>1, <1>3, <1>4, <1>5

LEMMA JobRetry ==
    ASSUME Shape, NEW t \in Threads,
           job' = [job EXCEPT ![t].to = job[t].rec, ![t].why = "retry"]
    PROVE  /\ job' \in [Threads -> Jobs]
           /\ \A u \in Threads \ {t} : job'[u] = job[u]
           /\ job'[t].kind = job[t].kind /\ job'[t].why = "retry"
           /\ job'[t].rec = job[t].rec /\ job'[t].to = job[t].rec
           /\ job'[t].ok = job[t].ok /\ job'[t].mark = job[t].mark
<1>1. job \in [Threads -> Jobs] /\ job[t] \in Jobs /\ job[t].rec \in Int \X Int
  BY DEF Shape, Jobs
<1> DEFINE i == [job[t] EXCEPT !.to = job[t].rec]
           j == [i EXCEPT !.why = "retry"]
<1>2. i \in Jobs /\ i.kind = job[t].kind /\ i.rec = job[t].rec /\ i.to = job[t].rec
      /\ i.ok = job[t].ok /\ i.mark = job[t].mark
  BY <1>1 DEF Jobs
<1>3. j \in Jobs /\ j.kind = i.kind /\ j.why = "retry" /\ j.rec = i.rec /\ j.to = i.to
      /\ j.ok = i.ok /\ j.mark = i.mark
  <2> HIDE DEF i
  <2> QED BY <1>2 DEF Jobs, Whys
<1>4. job' = [job EXCEPT ![t] = j]
  OBVIOUS
<1> HIDE DEF i, j
<1> QED BY <1>1, <1>2, <1>3, <1>4

-----------------------------------------------------------------------------
(* The steps of a flush.                                                   *)

\* A thread that flushes goes from place to place, for the same reason.
LEMMA FlushMoves ==
    ASSUME Control, NEW t \in Threads, NEW p \in PcStates, Go(t, p),
           job' \in [Threads -> Jobs], \A u \in Threads \ {t} : job'[u] = job[u],
           job'[t].kind = job[t].kind, job'[t].why = job[t].why,
           UNCHANGED <<commits, woken, designated, inFlush, region>>,
           \/ pc[t] = "flush" /\ p = "flushed" /\ UNCHANGED mtxFlush
           \/ pc[t] = "sync" /\ p = "store" /\ UNCHANGED mtxFlush
           \/ pc[t] \in {"sync", "store"} /\ p = "synced" /\ mtxFlush' = None
    PROVE  Control'
<1>1. pc' = [pc EXCEPT ![t] = p]
  BY DEF Go
<1> PICK j \in Jobs : j = job'[t]
  OBVIOUS
<1>2. RoleOK(p, j.kind, j.why)
  BY DEF Control, Places, RoleOK, Flying
<1>3. /\ region = t <=> HoldsRegion(pc[t], j.why)
      /\ mtxFlush = t <=> HoldsFlush(pc[t])
  BY DEF Control, Places
<1>4. HoldsRegion(p, j.why) <=> HoldsRegion(pc[t], j.why)
  BY DEF HoldsRegion, Flying
<1>5. region' = (IF HoldsRegion(p, j.why) THEN t ELSE
                   IF region = t THEN None ELSE region)
  BY <1>3, <1>4
<1>6. mtxFlush' = (IF HoldsFlush(p) THEN t ELSE IF mtxFlush = t THEN None ELSE mtxFlush)
  BY <1>3 DEF HoldsFlush
<1>7. mtxFlush # t => mtxFlush = None \/ mtxFlush' = mtxFlush
  BY <1>3 DEF HoldsFlush
<1>8. pc[t] # "wait" /\ p # "wait" /\ (pc[t] \in Flying <=> p \in Flying)
      /\ (pc[t] \in {"flush", "flushed"} => p \in {"flush", "flushed"})
  BY DEF Flying
<1> QED BY <1>1, <1>2, <1>5, <1>6, <1>7, <1>8, QuietStep

LEMMA FlushSkippedControl ==
    ASSUME Control, NEW t \in Threads, FlushSkipped(t)
    PROVE  Control'
<1>1. "flushed" \in PcStates
  BY DEF PcStates
<1> QED BY <1>1, JobOutcome, FlushMoves
        DEF FlushSkipped, mutexVars, regionVars, Control

LEMMA FlushWriteFailsControl ==
    ASSUME Control, NEW t \in Threads, FlushWriteFails(t)
    PROVE  Control'
<1>1. "flushed" \in PcStates
  BY DEF PcStates
<1> QED BY <1>1, JobOutcome, FlushMoves
        DEF FlushWriteFails, mutexVars, regionVars, Control

LEMMA SyncControl ==
    ASSUME Control, NEW t \in Threads, Sync(t)
    PROVE  Control'
<1>1. "store" \in PcStates
  BY DEF PcStates
<1> QED BY <1>1, FlushMoves DEF Sync, mutexVars, regionVars, Control, Shape

LEMMA StoreOffsetControl ==
    ASSUME Control, NEW t \in Threads, StoreOffset(t)
    PROVE  Control'
<1>1. "synced" \in PcStates
  BY DEF PcStates
<1> QED BY <1>1, JobSynced, FlushMoves DEF StoreOffset, regionVars, Control

LEMMA SyncFailsControl ==
    ASSUME Control, NEW t \in Threads, SyncFails(t)
    PROVE  Control'
<1>1. "synced" \in PcStates
  BY DEF PcStates
<1> QED BY <1>1, JobSynced, FlushMoves DEF SyncFails, regionVars, Control

\* A failed commit flushes its abort record.
LEMMA RetryControl ==
    ASSUME Control, NEW t \in Threads, pc[t] = "failed", Retry(t),
           UNCHANGED <<commits, woken, designated, inFlush, region, mtxFlush>>
    PROVE  Control'
<1>1. pc' = [pc EXCEPT ![t] = "flush"] /\ "flush" \in PcStates
  BY DEF Retry, Go, PcStates
<1>2. /\ job' \in [Threads -> Jobs]
      /\ \A u \in Threads \ {t} : job'[u] = job[u]
      /\ job'[t].kind = job[t].kind /\ job'[t].why = "retry"
  BY JobRetry DEF Control, Retry
<1> PICK j \in Jobs : j = job'[t]
  BY <1>2
<1>3. region = t /\ mtxFlush # t /\ job[t].kind \in {"commit", "write"}
  BY DEF Control, Places, HoldsRegion, HoldsFlush, RoleOK
<1>4. RoleOK("flush", j.kind, j.why) /\ HoldsRegion("flush", j.why) /\ ~HoldsFlush("flush")
  BY <1>2, <1>3 DEF RoleOK, HoldsRegion, HoldsFlush, Flying
<1> QED BY <1>1, <1>2, <1>3, <1>4, QuietStep DEF Flying

LEMMA AbortInBufferControl ==
    ASSUME Control, NEW t \in Threads, AbortInBuffer(t)
    PROVE  Control'
BY RetryControl DEF AbortInBuffer, mutexVars, regionVars

LEMMA AbortInFileControl ==
    ASSUME Control, NEW t \in Threads, AbortInFile(t)
    PROVE  Control'
BY RetryControl DEF AbortInFile, mutexVars, regionVars

\* Nobody is in a call: after a panic, a crash and at the beginning.
Nobody ==
    /\ region = None /\ mtxFlush = None /\ inFlush = 0 /\ commits = EmptyList
    /\ designated = {} /\ woken = {} /\ pc = [t \in Threads |-> "idle"]
    /\ job = [t \in Threads |-> NoJob]

LEMMA NobodyControl == Nobody => Control
<1> SUFFICES ASSUME Nobody PROVE Control
  OBVIOUS
<1> USE DEF Nobody
<1>1. Shape
  BY NoJobType, EmptyListType DEF Shape, PcStates
<1>2. Places
  BY NoJobType, ThreadAssumption
     DEF Places, RoleOK, HoldsRegion, HoldsFlush, Flying
<1>3. Listed = {}
  BY EmptyListType DEF Listed
<1>4. InFlushExact
  <2>1. InFlight = {}
    BY DEF InFlight, Flying
  <2>2. Cardinality({}) = 0
    BY FS_EmptySet
  <2> QED BY <2>1, <2>2, CountIs
<1> QED BY <1>1, <1>2, <1>3, <1>4 DEF Control, Waiters, FlushComing

LEMMA NobodyControlNext == Nobody' => Control'
BY NobodyControl, PTL

-----------------------------------------------------------------------------
(* The steps that count flushes and move committers.                       *)

LEMMA JoinControl ==
    ASSUME Control, NEW t \in Threads, Join(t)
    PROVE  Control'
<1> USE DEF Control
<1>1. /\ pc' = [pc EXCEPT ![t] = "wait"] /\ job' = job
      /\ commits' = InsertHead(commits, t) /\ region' = None
      /\ UNCHANGED <<inFlush, mtxFlush, designated, woken>>
      /\ pc[t] = "enter" /\ inFlush # 0
  BY DEF Join, Go
<1>2. pc \in [Threads -> PcStates] /\ IsList(commits, Threads)
  BY DEF Shape
<1>3. pc'[t] = "wait" /\ \A u \in Threads \ {t} : pc'[u] = pc[u]
  BY <1>1, <1>2
<1>4. IsList(commits', Threads) /\ Listed' = Listed \cup {t}
  BY <1>1, <1>2, InsertHeadType DEF Listed
<1>5. Shape'
  <2>1. pc' \in [Threads -> PcStates]
    BY <1>1, <1>2 DEF PcStates
  <2> QED BY <1>1, <1>4, <2>1 DEF Shape
<1>6. region = t /\ mtxFlush # t
  BY <1>1 DEF Places, HoldsRegion, HoldsFlush
<1>7. Places'
  <2> SUFFICES ASSUME NEW u \in Threads
               PROVE  /\ RoleOK(pc'[u], job'[u].kind, job'[u].why)
                      /\ region' = u <=> HoldsRegion(pc'[u], job'[u].why)
                      /\ mtxFlush' = u <=> HoldsFlush(pc'[u])
    BY DEF Places
  <2>0. RoleOK(pc[u], job[u].kind, job[u].why)
        /\ (region = u <=> HoldsRegion(pc[u], job[u].why))
        /\ (mtxFlush = u <=> HoldsFlush(pc[u]))
    BY DEF Places
  <2>1. CASE u = t
    <3>1. RoleOK("wait", job[t].kind, job[t].why)
      BY <2>0, <2>1, <1>1 DEF RoleOK, Flying
    <3>2. ~HoldsRegion("wait", job[t].why) /\ ~HoldsFlush("wait")
      BY DEF HoldsRegion, HoldsFlush, Flying
    <3> QED BY <2>1, <3>1, <3>2, <1>1, <1>3, <1>6, ThreadAssumption
  <2>2. CASE u # t
    BY <2>0, <2>2, <1>1, <1>3, <1>6, ThreadAssumption
  <2> QED BY <2>1, <2>2
<1>8. Waiters'
  <2>1. t \notin woken
    BY <1>1 DEF Waiters, Shape
  <2> QED BY <1>1, <1>3, <1>4, <2>1 DEF Waiters, Shape
<1>9. InFlushExact'
  <2>1. InFlight' = InFlight
    BY <1>1, <1>3 DEF InFlight, Flying
  <2> QED BY <1>1, <2>1, CountIs, CountNextIs
<1>10. FlushComing'
  <2>1. inFlush' > 0
    BY <1>1, CountIs, CountsAreNat DEF Counted
  <2> QED BY <2>1 DEF FlushComing
<1> QED BY <1>5, <1>7, <1>8, <1>9, <1>10

LEMMA FlushStartControl ==
    ASSUME Control, NEW t \in Threads, FlushStart(t),
           {bOff, wOff} \subseteq Int, fLsn \in Int \X Int
    PROVE  Control'
<1> USE DEF Control
<1> DEFINE n == IF MustWrite(job[t].to) THEN bOff ELSE 0
           m == SyncPoint(bOff - n, wOff + n, fLsn)
<1>1. /\ pc' = [pc EXCEPT ![t] = "sync"] /\ job' = [job EXCEPT ![t].mark = m]
      /\ mtxFlush' = t /\ region' = (IF MayRelease(t) THEN None ELSE region)
      /\ inFlush' = inFlush + 1
      /\ UNCHANGED <<commits, designated, woken>>
      /\ pc[t] = "flush" /\ mtxFlush = None
  BY DEF FlushStart, Go, FlushMutexFree
<1>2. m \in Int \X Int
  BY DEF SyncPoint
<1> HIDE DEF n, m
<1>3. /\ job' \in [Threads -> Jobs]
      /\ \A u \in Threads \ {t} : job'[u] = job[u]
      /\ job'[t].kind = job[t].kind /\ job'[t].why = job[t].why
  BY <1>1, <1>2, JobMark
<1>4. pc \in [Threads -> PcStates]
  BY DEF Shape
<1>5. pc'[t] = "sync" /\ \A u \in Threads \ {t} : pc'[u] = pc[u]
  BY <1>1, <1>4
<1>6. region = t
  BY <1>1 DEF Places, HoldsRegion
<1>7. Shape'
  <2>1. pc' \in [Threads -> PcStates]
    BY <1>1, <1>4 DEF PcStates
  <2> QED BY <1>1, <1>3, <2>1 DEF Shape
<1>8. Places'
  <2> SUFFICES ASSUME NEW u \in Threads
               PROVE  /\ RoleOK(pc'[u], job'[u].kind, job'[u].why)
                      /\ region' = u <=> HoldsRegion(pc'[u], job'[u].why)
                      /\ mtxFlush' = u <=> HoldsFlush(pc'[u])
    BY DEF Places
  <2>0. RoleOK(pc[u], job[u].kind, job[u].why)
        /\ (region = u <=> HoldsRegion(pc[u], job[u].why))
        /\ (mtxFlush = u <=> HoldsFlush(pc[u]))
    BY DEF Places
  <2>1. CASE u = t
    <3>1. RoleOK("sync", job[t].kind, job[t].why)
      BY <2>0, <2>1, <1>1 DEF RoleOK, Flying
    <3>2. HoldsFlush("sync") /\ (HoldsRegion("sync", job[t].why) <=> ~MayRelease(t))
      BY DEF HoldsRegion, HoldsFlush, Flying, MayRelease
    <3> QED BY <2>1, <3>1, <3>2, <1>1, <1>3, <1>5, <1>6, ThreadAssumption
  <2>2. CASE u # t
    BY <2>0, <2>2, <1>1, <1>3, <1>5, <1>6, ThreadAssumption
  <2> QED BY <2>1, <2>2
<1>9. Waiters'
  BY <1>1, <1>5 DEF Waiters, Listed
<1>10. InFlushExact'
  <2>1. InFlight' = InFlight \cup {t} /\ t \notin InFlight
    BY <1>1, <1>5 DEF InFlight, Flying
  <2>2. Cardinality(InFlight') = Cardinality(InFlight) + 1
    BY <2>1, CountsAreNat, FS_AddElement DEF Counted
  <2> QED BY <1>1, <2>2, CountIs, CountNextIs, CountsAreNat DEF Counted
<1>11. FlushComing'
  <2>1. inFlush' > 0
    BY <1>1, CountIs, CountsAreNat DEF Counted
  <2> QED BY <2>1 DEF FlushComing
<1> QED BY <1>7, <1>8, <1>9, <1>10, <1>11

LEMMA WakeControl ==
    ASSUME Control, NEW t \in Threads, Wake(t), tLsn \in Int \X Int
    PROVE  Control'
<1> USE DEF Control
<1>1. /\ pc[t] = "wait" /\ t \in woken /\ region = None
      /\ woken' = woken \ {t} /\ designated' = designated \ {t}
      /\ UNCHANGED <<commits, mtxFlush>>
  BY DEF Wake
<1>2. pc \in [Threads -> PcStates] /\ job \in [Threads -> Jobs]
  BY DEF Shape
<1>3. mtxFlush # t /\ RoleOK("wait", job[t].kind, job[t].why)
  BY <1>1 DEF Places, HoldsFlush
<1> DEFINE p == IF t \in designated THEN "flush" ELSE "idle"
<1>4. /\ pc' = [pc EXCEPT ![t] = p]
      /\ region' = (IF t \in designated THEN t ELSE None)
      /\ inFlush' = (IF t \in designated THEN inFlush - 1 ELSE inFlush)
  BY DEF Wake, Go, Return
<1>5. /\ job' \in [Threads -> Jobs] /\ \A u \in Threads \ {t} : job'[u] = job[u]
      /\ t \in designated => job'[t].kind = job[t].kind /\ job'[t].why = job[t].why
      /\ t \notin designated => job'[t] = NoJob
  <2>1. CASE t \in designated
    BY <2>1, JobTo DEF Wake
  <2>2. CASE t \notin designated
    <3>1. job' = [job EXCEPT ![t] = NoJob]
      BY <2>2 DEF Wake, Return
    <3> QED BY <2>2, <3>1, <1>2, NoJobType
  <2> QED BY <2>1, <2>2
<1>6. pc'[t] = p /\ \A u \in Threads \ {t} : pc'[u] = pc[u]
  BY <1>2, <1>4
<1>7. Shape'
  <2>1. p \in PcStates
    BY DEF PcStates
  <2>2. pc' \in [Threads -> PcStates]
    BY <1>2, <1>4, <2>1
  <2> QED BY <1>1, <1>4, <1>5, <2>2 DEF Shape
<1>8. Places'
  <2> SUFFICES ASSUME NEW u \in Threads
               PROVE  /\ RoleOK(pc'[u], job'[u].kind, job'[u].why)
                      /\ region' = u <=> HoldsRegion(pc'[u], job'[u].why)
                      /\ mtxFlush' = u <=> HoldsFlush(pc'[u])
    BY DEF Places
  <2>0. RoleOK(pc[u], job[u].kind, job[u].why)
        /\ (region = u <=> HoldsRegion(pc[u], job[u].why))
        /\ (mtxFlush = u <=> HoldsFlush(pc[u]))
    BY DEF Places
  <2>1. CASE u = t /\ t \in designated
    <3>1. RoleOK("flush", job[t].kind, job[t].why)
      BY <1>3 DEF RoleOK, Flying
    <3>2. HoldsRegion("flush", job[t].why) /\ ~HoldsFlush("flush")
      BY DEF HoldsRegion, HoldsFlush, Flying
    <3> QED BY <2>1, <3>1, <3>2, <1>1, <1>3, <1>4, <1>5, <1>6
  <2>2. CASE u = t /\ t \notin designated
    <3>1. RoleOK("idle", NoJob.kind, NoJob.why)
      BY NoJobType DEF RoleOK, Flying
    <3>2. ~HoldsRegion("idle", NoJob.why) /\ ~HoldsFlush("idle")
      BY DEF HoldsRegion, HoldsFlush, Flying
    <3> QED BY <2>2, <3>1, <3>2, <1>1, <1>3, <1>4, <1>5, <1>6, ThreadAssumption
  <2>3. CASE u # t
    BY <2>0, <2>3, <1>1, <1>4, <1>5, <1>6, ThreadAssumption
  <2> QED BY <2>1, <2>2, <2>3
<1>9. Waiters'
  <2>1. t \notin Listed
    BY <1>1 DEF Waiters
  <2> QED BY <1>1, <1>6, <2>1 DEF Waiters, Listed
<1>10. InFlushExact'
  <2>1. InFlight' = InFlight
    BY <1>1, <1>6 DEF InFlight, Flying
  <2>2. CASE t \in designated
    <3>1. Cardinality(designated') = Cardinality(designated) - 1
      BY <1>1, <2>2, CountsAreNat, FS_RemoveElement DEF Counted
    <3> QED BY <1>4, <2>1, <2>2, <3>1, CountIs, CountNextIs, CountsAreNat DEF Counted
  <2>3. CASE t \notin designated
    <3>1. designated' = designated
      BY <1>1, <2>3
    <3> QED BY <1>4, <2>1, <2>3, <3>1, CountIs, CountNextIs
  <2> QED BY <2>2, <2>3
<1>11. FlushComing'
  <2>1. CASE t \in designated
    <3>1. region' = t /\ pc'[t] = "flush"
      BY <2>1, <1>4, <1>6
    <3> QED BY <3>1 DEF FlushComing
  <2>2. CASE t \notin designated
    <3> SUFFICES ASSUME Listed # {} PROVE inFlush' > 0
      BY <1>1 DEF FlushComing, Listed
    <3> QED BY <2>2, <1>1, <1>4, ThreadAssumption DEF FlushComing
  <2> QED BY <2>1, <2>2
<1> QED BY <1>7, <1>8, <1>9, <1>10, <1>11

\* The end of a flush takes off the list whom it served and one more, if
\* anyone is left.
LEMMA LeaderChosen ==
    ASSUME Shape
    PROVE  /\ Served \subseteq Listed /\ NextLeader \subseteq Listed \ Served
           /\ IsFiniteSet(NextLeader)
           /\ Listed \subseteq Served => NextLeader = {} /\ Cardinality(NextLeader) = 0
           /\ ~(Listed \subseteq Served) => Cardinality(NextLeader) = 1
<1>1. Served \subseteq Listed
  BY DEF Served, Listed
<1>2. CASE Listed \subseteq Served
  <2>1. NextLeader = {}
    BY <1>2 DEF NextLeader, Listed
  <2>2. Cardinality({}) = 0 /\ IsFiniteSet({})
    BY FS_EmptySet
  <2> QED BY <1>1, <1>2, <2>1, <2>2
<1>3. CASE ~(Listed \subseteq Served)
  <2> DEFINE l == FirstIn(commits, Listed \ Served)
  <2>1. IsList(commits, Threads) /\ Listed = Members(commits)
    BY DEF Shape, Listed
  <2>2. l \in Listed \ Served
    BY <1>3, <2>1, FirstInMember
  <2>3. NextLeader = {l}
    BY <1>3 DEF NextLeader, Listed
  <2> HIDE DEF l
  <2> QED BY <1>1, <1>3, <2>2, <2>3, FS_Singleton
<1> QED BY <1>2, <1>3

LEMMA FlushDoneControl ==
    ASSUME Control, NEW t \in Threads, FlushDone(t)
    PROVE  Control'
<1> USE DEF Control
<1>1. /\ woken' = woken \cup Served \cup NextLeader
      /\ designated' = designated \cup NextLeader
      /\ commits' = RemoveAll(commits, Served \cup NextLeader)
      /\ inFlush' = inFlush + Cardinality(NextLeader)
                      - (IF pc[t] = "synced" THEN 1 ELSE 0)
      /\ pc[t] = "flushed" \/ (pc[t] = "synced" /\ region \in {t, None})
      /\ UNCHANGED mtxFlush
  BY DEF FlushDone
<1>2. pc \in [Threads -> PcStates] /\ job \in [Threads -> Jobs] /\ IsList(commits, Threads)
  BY DEF Shape
<1>3. mtxFlush # t /\ RoleOK(pc[t], job[t].kind, job[t].why) /\ region \in {t, None}
  BY <1>1 DEF Places, HoldsFlush, HoldsRegion
<1>4. PICK p \in {"newfile", "failed", "idle"} :
        /\ pc' = [pc EXCEPT ![t] = p]
        /\ region' = (IF p = "idle" THEN None ELSE t)
        /\ job' = (IF p = "idle" THEN [job EXCEPT ![t] = NoJob] ELSE job)
        /\ p = "newfile" => job[t].why = "switch"
        /\ p = "failed" => job[t].why = "commit" /\ job[t].kind = "commit"
  <2>1. \/ job[t].why = "switch" /\ region' = t /\ Go(t, "newfile") /\ UNCHANGED job
        \/ /\ job[t].why = "commit" /\ job[t].kind = "commit"
           /\ region' = t /\ Go(t, "failed") /\ UNCHANGED job
        \/ Return(t, "flushed") \/ Return(t, "refused") \/ Return(t, "nothing")
    BY Zenon DEF FlushDone
  <2>2. CASE job[t].why = "switch" /\ region' = t /\ Go(t, "newfile") /\ UNCHANGED job
    BY <2>2 DEF Go
  <2>3. CASE /\ job[t].why = "commit" /\ job[t].kind = "commit"
             /\ region' = t /\ Go(t, "failed") /\ UNCHANGED job
    BY <2>3 DEF Go
  <2>4. CASE Return(t, "flushed") \/ Return(t, "refused") \/ Return(t, "nothing")
    BY <2>4 DEF Return
  <2> QED BY <2>1, <2>2, <2>3, <2>4
<1>5. pc'[t] = p /\ \A u \in Threads \ {t} : pc'[u] = pc[u]
  BY <1>2, <1>4
<1>6. /\ job' \in [Threads -> Jobs] /\ \A u \in Threads \ {t} : job'[u] = job[u]
      /\ p = "idle" => job'[t] = NoJob
      /\ p # "idle" => job'[t] = job[t]
  BY <1>2, <1>4, NoJobType
<1>7. /\ Served \subseteq Listed /\ NextLeader \subseteq Listed \ Served
      /\ IsFiniteSet(NextLeader)
      /\ Listed \subseteq Served => NextLeader = {} /\ Cardinality(NextLeader) = 0
      /\ ~(Listed \subseteq Served) => Cardinality(NextLeader) = 1
  BY LeaderChosen
<1>8. IsList(commits', Threads) /\ Listed' = Listed \ (Served \cup NextLeader)
  BY <1>1, <1>2, RemoveAllType, ThreadAssumption DEF Listed
<1>9. \A u \in Listed \cup woken : u \in Threads /\ pc[u] = "wait" /\ u # t
  BY <1>1, <1>2 DEF Waiters, Shape, Listed, IsList
<1>10. Shape'
  <2>1. p \in PcStates
    BY <1>4 DEF PcStates
  <2>2. pc' \in [Threads -> PcStates]
    BY <1>2, <1>4, <2>1
  <2>3. inFlush' \in Int
    BY <1>1, <1>7 DEF Shape
  <2>4. woken' \subseteq Threads /\ designated' \subseteq woken'
    BY <1>1, <1>7, <1>9 DEF Shape
  <2> QED BY <1>1, <1>4, <1>6, <1>8, <2>2, <2>3, <2>4 DEF Shape
<1>11. Places'
  <2> SUFFICES ASSUME NEW u \in Threads
               PROVE  /\ RoleOK(pc'[u], job'[u].kind, job'[u].why)
                      /\ region' = u <=> HoldsRegion(pc'[u], job'[u].why)
                      /\ mtxFlush' = u <=> HoldsFlush(pc'[u])
    BY DEF Places
  <2>0. RoleOK(pc[u], job[u].kind, job[u].why)
        /\ (region = u <=> HoldsRegion(pc[u], job[u].why))
        /\ (mtxFlush = u <=> HoldsFlush(pc[u]))
    BY DEF Places
  <2>1. CASE u = t /\ p = "idle"
    <3>1. RoleOK("idle", NoJob.kind, NoJob.why)
      BY NoJobType DEF RoleOK, Flying
    <3>2. ~HoldsRegion("idle", NoJob.why) /\ ~HoldsFlush("idle")
      BY DEF HoldsRegion, HoldsFlush, Flying
    <3> QED BY <2>1, <3>1, <3>2, <1>1, <1>3, <1>4, <1>5, <1>6, ThreadAssumption
  <2>2. CASE u = t /\ p # "idle"
    <3>1. RoleOK(p, job[t].kind, job[t].why)
      BY <1>1, <1>3, <1>4, <2>2 DEF RoleOK, Flying
    <3>2. HoldsRegion(p, job[t].why) /\ ~HoldsFlush(p)
      BY <2>2, <1>4 DEF HoldsRegion, HoldsFlush, Flying
    <3> QED BY <2>2, <3>1, <3>2, <1>1, <1>3, <1>4, <1>5, <1>6, ThreadAssumption
  <2>3. CASE u # t
    BY <2>0, <2>3, <1>1, <1>3, <1>4, <1>5, <1>6, ThreadAssumption
  <2> QED BY <2>1, <2>2, <2>3
<1>12. Waiters'
  <2>1. Listed' \cup woken' = Listed \cup woken
    BY <1>1, <1>7, <1>8
  <2>2. Listed' \cap woken' = {}
    BY <1>1, <1>7, <1>8 DEF Waiters
  <2>3. \A u \in Threads : pc'[u] = "wait" <=> pc[u] = "wait"
    BY <1>1, <1>4, <1>5
  <2> QED BY <2>1, <2>2, <2>3 DEF Waiters
<1>13. InFlushExact' /\ FlushComing'
  <2>1. Cardinality(designated') = Cardinality(designated) + Cardinality(NextLeader)
    <3>1. designated \cap NextLeader = {}
      BY <1>7 DEF Waiters, Shape
    <3>2. Cardinality(designated \cup NextLeader) =
            Cardinality(designated) + Cardinality(NextLeader)
              - Cardinality(designated \cap NextLeader)
      BY <1>7, CountsAreNat, FS_Union DEF Counted
    <3>3. Cardinality(designated \cap NextLeader) = 0
      BY <3>1, FS_EmptySet
    <3>4. Cardinality(designated') = Cardinality(designated \cup NextLeader)
      BY <1>1
    <3>5. Cardinality(NextLeader) \in Nat /\ Cardinality(designated) \in Nat
      BY <1>7, CountsAreNat DEF Counted
    <3> QED BY <3>2, <3>3, <3>4, <3>5
  <2>2. Cardinality(InFlight') = Cardinality(InFlight) - (IF pc[t] = "synced" THEN 1 ELSE 0)
    <3>1. CASE pc[t] = "synced"
      <4>1. InFlight' = InFlight \ {t} /\ t \in InFlight
        BY <1>4, <1>5, <3>1 DEF InFlight, Flying
      <4>2. Cardinality(InFlight') = Cardinality(InFlight) - 1
        BY <4>1, CountsAreNat, FS_RemoveElement DEF Counted
      <4> QED BY <3>1, <4>2
    <3>2. CASE pc[t] # "synced"
      <4>1. InFlight' = InFlight
        BY <1>1, <1>4, <1>5, <3>2 DEF InFlight, Flying
      <4> QED BY <3>2, <4>1, CountsAreNat DEF Counted
    <3> QED BY <3>1, <3>2
  <2>3. InFlushExact'
    BY <1>1, <1>7, <2>1, <2>2, CountIs, CountNextIs, CountsAreNat DEF Counted
  <2>4. Cardinality(InFlight') \in Nat /\ Cardinality(designated') \in Nat
    BY <1>10, CountsNextAreNat DEF Counted
  <2>5. Listed' # {} => inFlush' > 0
    BY <1>7, <1>8, <2>1, <2>3, <2>4, CountNextIs, CountsAreNat DEF Counted
  <2> QED BY <2>3, <2>5 DEF FlushComing
<1> QED BY <1>10, <1>11, <1>12, <1>13

LEMMA AbortPanicsControl ==
    ASSUME Control, NEW t \in Threads, AbortPanics(t)
    PROVE  Control'
BY NobodyControlNext DEF AbortPanics, Panic, Nobody

LEMMA RestartControl ==
    ASSUME NEW c, NEW d, Restart(c, d)
    PROVE  Control'
BY NobodyControlNext DEF Restart, Nobody

(***************************************************************************)
(* Where the buffer lies in the log, and what each thread knows of it.     *)
(***************************************************************************)

\* Where records begin or end in a file.
Offsets == {k * RecLen : k \in 0 .. FileSize \div RecLen}

\* The calls that have a record to flush the log up to.
InCall == {"writeout", "lock", "enter", "wait", "flush", "flushed", "failed"} \cup Flying

\* The current file is full and there is room for another.
NextFileReady ==
    lsn[2] # 0 /\ lsn[1] + 1 \in Files /\ lsn[2] + RecLen > FileSize

MarkOK(j) ==
    /\ j.mark[1] = lsn[1] /\ j.mark[2] \in Offsets /\ j.mark[2] <= wOff
    /\ Before(j.to, j.mark)

\* What a thread at p with job j knows of the log.
CallOK(p, j) ==
    /\ p \in InCall => j.to \in Slots /\ Before(j.to, lsn)
    /\ p \in InCall /\ j.why # "switch" => j.rec \in Slots /\ Before(j.rec, lsn)
    /\ p = "append" => lsn[2] # 0 /\ lsn[2] + RecLen <= FileSize
    /\ p = "newfile" => lsn[2] = 0 \/ NextFileReady
    /\ p \in {"flush", "flushed"} \cup Flying /\ j.why = "switch" =>
         NextFileReady /\ j.to = LastLsn
    /\ p \in {"sync", "store"} => MarkOK(j)
    /\ p \in {"sync", "store"} /\ j.why = "switch" => bOff = 0
    /\ p = "newfile" \/ (p \in {"flushed", "synced"} /\ j.why = "switch" /\ j.ok) =>
         bOff = 0 /\ mtxFlush = None
    /\ p = "idle" => j = NoJob

\* The region's words.  f_lsn is left behind when the log was read anew.
Region ==
    /\ lsn \in Files \X Offsets /\ (lsn[2] = 0 => lsn[1] = 1)
    /\ bOff \in 0 .. BufSize - 1 /\ wOff \in Nat /\ wOff + bOff = lsn[2]
    /\ fLsn \in ({0} \cup Files) \X Offsets
    /\ bOff # 0 => fLsn[1] = lsn[1] /\ fLsn[2] <= wOff /\ wOff < fLsn[2] + RecLen
    /\ fLsn[1] # lsn[1] => mtxFlush = None /\ (lsn[2] = 0 \/ sLsn = lsn)
    /\ tLsn \in Slots /\ (tLsn = <<1, 0>> \/ Before(tLsn, lsn))

\* No reader finds one half of s_lsn new and the other old in a way that
\* matters.
WholeStores == SplitStores = FALSE \/ Files = {1}

\* Once it is stored, s_lsn is not past what has been written.
SyncPlace ==
    /\ sLsn \in ({0} \cup Files) \X Offsets /\ (sLsn[1] = 0 => sLsn = ZeroLsn)
    /\ (\A t \in Threads : pc[t] # "store") /\ up # "panic" =>
         sLsn[1] < lsn[1] \/ (sLsn[1] = lsn[1] /\ sLsn[2] <= wOff)
    /\ \A t \in Threads :
         /\ pc[t] = "sync" => ~Before(job[t].mark, sLsn)
         /\ pc[t] = "store" /\ WholeStores => ~Before(job[t].mark, sLsn)

\* Recovery is alone; nobody is in a call after a panic.
Mode ==
    /\ up \in {"up", "recovering", "panic"}
    /\ up = "panic" => \A t \in Threads : pc[t] = "idle"
    /\ up = "recovering" => \A t, u \in Threads :
         pc[t] # "idle" => job[t].kind = "ckp" /\ (u # t => pc[u] = "idle")
    /\ \A t \in Threads : job[t].kind = "ckp" => up = "recovering"

Calls == \A t \in Threads : CallOK(pc[t], job[t])
Targets == \A t \in Listed \cup designated : ~Before(tLsn, job[t].to)

Layout == Region /\ SyncPlace /\ Mode /\ Calls /\ Targets
-----------------------------------------------------------------------------
(* Offsets.                                                                *)

LEMMA OffsetFacts ==
    /\ Offsets \subseteq Nat /\ 0 \in Offsets /\ RecLen \in Offsets /\ FileSize \in Offsets
    /\ \A x \in Offsets : x <= FileSize
    /\ \A x, y \in Offsets : x < y => x + RecLen <= y
    /\ \A x \in Offsets : x + RecLen <= FileSize => x + RecLen \in Offsets
<1> DEFINE Q == FileSize \div RecLen
<1>1. RecLen \in Nat /\ RecLen > 0 /\ FileSize \in Nat /\ 2 * RecLen <= FileSize
  BY LenAssumption
<1>2. Q \in Nat /\ FileSize = Q * RecLen
  BY <1>1, LenAssumption
<1>3. Offsets = {k * RecLen : k \in 0 .. Q}
  BY DEF Offsets
<1> HIDE DEF Q
<1>4. \A k \in Nat : k * RecLen \in Nat
  BY <1>1
<1>7. \A k, l \in Nat : k <= l => k * RecLen <= l * RecLen
  BY <1>1
<1>8. 0 * RecLen = 0 /\ 1 * RecLen = RecLen
  BY <1>1
<1>5. \A k, l \in Nat : k < l => k * RecLen + RecLen <= l * RecLen
  BY <1>1
<1>6. \A k \in Nat : k * RecLen + RecLen = (k + 1) * RecLen
  BY <1>1
<1>9. Offsets \subseteq Nat /\ \A x \in Offsets : x <= FileSize
  BY <1>2, <1>3, <1>4, <1>7
<1>10. 0 \in Offsets /\ FileSize \in Offsets
  BY <1>2, <1>3, <1>8
<1>11. RecLen \in Offsets
  <2>1. Q # 0
    BY <1>1, <1>2, <1>8
  <2> QED BY <1>2, <1>3, <1>8, <2>1
<1>12. \A x, y \in Offsets : x < y => x + RecLen <= y
  <2> SUFFICES ASSUME NEW k \in 0 .. Q, NEW l \in 0 .. Q, k * RecLen < l * RecLen
               PROVE  k * RecLen + RecLen <= l * RecLen
    BY <1>3
  <2>1. k < l
    <3>1. CASE l <= k
      <4>1. l * RecLen <= k * RecLen
        BY <1>2, <1>7, <3>1
      <4> QED BY <1>2, <1>4, <4>1
    <3> QED BY <1>2, <3>1
  <2> QED BY <1>2, <1>5, <2>1
<1>13. \A x \in Offsets : x + RecLen <= FileSize => x + RecLen \in Offsets
  <2> SUFFICES ASSUME NEW k \in 0 .. Q, k * RecLen + RecLen <= Q * RecLen
               PROVE  k * RecLen + RecLen \in Offsets
    BY <1>2, <1>3
  <2>1. k # Q
    BY <1>1, <1>2, <1>4
  <2>2. k + 1 \in 0 .. Q
    BY <1>2, <2>1
  <2> QED BY <1>2, <1>3, <1>6, <2>2
<1> QED BY <1>9, <1>10, <1>11, <1>12, <1>13

LEMMA SlotFacts ==
    /\ \A s \in Slots : /\ s = <<s[1], s[2]>> /\ s[1] \in Files /\ s[2] \in Offsets
                        /\ s[2] + RecLen <= FileSize
    /\ \A f \in Files, x \in Offsets : x + RecLen <= FileSize => <<f, x>> \in Slots
    /\ <<1, 0>> \in Slots
    /\ \A x \in Offsets : x # 0 => x - RecLen \in Offsets
<1> DEFINE Q == FileSize \div RecLen
<1>1. RecLen \in Nat /\ RecLen > 0 /\ FileSize \in Nat
  BY LenAssumption
<1>2. Q \in Nat /\ FileSize = Q * RecLen
  BY <1>1, LenAssumption
<1>3. Offsets = {k * RecLen : k \in 0 .. Q} /\ Slots = Files \X {k * RecLen : k \in 0 .. Q - 1}
  BY DEF Offsets, Slots
<1> HIDE DEF Q
<1>4. \A k \in Nat : k * RecLen \in Nat
  BY <1>1
<1>5. \A k, l \in Nat : k <= l => k * RecLen <= l * RecLen
  BY <1>1
<1>6. \A k \in Nat : (k + 1) * RecLen = k * RecLen + RecLen
  BY <1>1
<1>7. \A k \in 0 .. Q - 1 : k * RecLen \in Offsets /\ k * RecLen + RecLen <= FileSize
  <2> SUFFICES ASSUME NEW k \in 0 .. Q - 1
               PROVE  k * RecLen \in Offsets /\ k * RecLen + RecLen <= Q * RecLen
    BY <1>2
  <2>1. k \in 0 .. Q /\ k + 1 <= Q /\ k \in Nat /\ k + 1 \in Nat
    BY <1>2
  <2>2. (k + 1) * RecLen <= Q * RecLen
    BY <1>2, <1>5, <2>1
  <2> QED BY <1>3, <1>6, <2>1, <2>2
<1>8. \A x \in Offsets : x + RecLen <= FileSize => \E k \in 0 .. Q - 1 : x = k * RecLen
  <2> SUFFICES ASSUME NEW k \in 0 .. Q, k * RecLen + RecLen <= Q * RecLen
               PROVE  k \in 0 .. Q - 1
    BY <1>2, <1>3
  <2>1. k # Q
    BY <1>1, <1>2, <1>4
  <2> QED BY <1>2, <2>1
<1>9. \A s \in Slots : /\ s = <<s[1], s[2]>> /\ s[1] \in Files /\ s[2] \in Offsets
                       /\ s[2] + RecLen <= FileSize
  BY <1>3, <1>7
<1>10. \A f \in Files, x \in Offsets : x + RecLen <= FileSize => <<f, x>> \in Slots
  BY <1>3, <1>8
<1>11. <<1, 0>> \in Slots
  BY <1>1, <1>10, OffsetFacts, LenAssumption, FileAssumption
<1>12. \A x \in Offsets : x # 0 => x - RecLen \in Offsets
  <2> SUFFICES ASSUME NEW k \in 0 .. Q, k * RecLen # 0
               PROVE  k * RecLen - RecLen \in Offsets
    BY <1>3
  <2>1. k # 0
    BY <1>1
  <2>2. k - 1 \in 0 .. Q /\ k - 1 \in Nat /\ (k - 1) + 1 = k
    BY <1>2, <2>1
  <2>3. ((k - 1) + 1) * RecLen = (k - 1) * RecLen + RecLen
    BY <1>6, <2>2
  <2>4. k * RecLen - RecLen = (k - 1) * RecLen
    BY <1>1, <1>4, <2>2, <2>3
  <2> QED BY <1>3, <2>2, <2>4
<1> QED BY <1>9, <1>10, <1>11, <1>12

\* What a step of t must leave for the calls of the others to hold.
LEMMA OthersKeep ==
    ASSUME Control, Region, Calls, NEW t \in Threads,
           \A u \in Threads \ {t} : pc'[u] = pc[u] /\ job'[u] = job[u],
           lsn' \in Nat \X Nat, wOff' \in Int,
           \/ region = t /\ lsn'[1] = lsn[1] /\ lsn'[2] >= lsn[2] /\ wOff' >= wOff
           \/ region = t /\ mtxFlush = None /\ lsn'[1] > lsn[1]
           \/ UNCHANGED <<lsn, bOff, wOff>> /\ (mtxFlush' \in {mtxFlush, None} \/ region = t)
    PROVE  \A u \in Threads \ {t} : CallOK(pc[u], job[u])'
<1> SUFFICES ASSUME NEW u \in Threads \ {t}
             PROVE  CallOK(pc[u], job[u])'
  OBVIOUS
<1> PICK p \in PcStates : p = pc[u] /\ p = pc'[u]
  BY DEF Control, Shape
<1> PICK j \in Jobs : j = job[u] /\ j = job'[u]
  BY DEF Control, Shape
<1>1. CallOK(p, j)
  BY DEF Calls
<1>2. CallOK(pc[u], job[u])' <=> CallOK(p, j)'
  BY DEF CallOK, MarkOK
<1>3. region = t => ~HoldsRegion(p, j.why)
  BY DEF Control, Places
<1>4. mtxFlush = None => p \notin {"sync", "store"}
  BY ThreadAssumption DEF Control, Places, HoldsFlush
<1>5. lsn \in Nat \X Nat /\ j.to \in Int \X Int /\ j.rec \in Int \X Int /\ j.mark \in Int \X Int
      /\ wOff \in Nat
  BY OffsetFacts, FileAssumption DEF Region, Jobs
<1>6. CASE region = t /\ lsn'[1] = lsn[1] /\ lsn'[2] >= lsn[2] /\ wOff' >= wOff
  BY <1>1, <1>2, <1>3, <1>5, <1>6 DEF CallOK, MarkOK, HoldsRegion, Before, InCall, Flying
<1>7. CASE region = t /\ mtxFlush = None /\ lsn'[1] > lsn[1]
  BY <1>1, <1>2, <1>3, <1>4, <1>5, <1>7 DEF CallOK, MarkOK, HoldsRegion, Before, InCall, Flying
<1>8. CASE UNCHANGED <<lsn, bOff, wOff>> /\ (mtxFlush' \in {mtxFlush, None} \/ region = t)
  <2>1. NextFileReady' <=> NextFileReady
    BY <1>8 DEF NextFileReady
  <2>2. LastLsn' = LastLsn
    BY <1>8 DEF LastLsn
  <2>3. MarkOK(j)' <=> MarkOK(j)
    BY <1>8 DEF MarkOK
  <2>4. p = "newfile" \/ (p \in {"flushed", "synced"} /\ j.why = "switch" /\ j.ok) =>
          HoldsRegion(p, j.why)
    BY DEF HoldsRegion, Flying
  <2>5. p = "newfile" \/ (p \in {"flushed", "synced"} /\ j.why = "switch" /\ j.ok) =>
          mtxFlush' = None
    BY <1>1, <1>3, <1>8, <2>4 DEF CallOK
  <2> QED BY <1>1, <1>2, <1>8, <2>1, <2>2, <2>3, <2>5 DEF CallOK
<1> QED BY <1>6, <1>7, <1>8

LEMMA RegionTypes ==
    ASSUME Region
    PROVE  /\ lsn \in Nat \X Nat /\ fLsn \in Nat \X Nat /\ tLsn \in Nat \X Nat
           /\ bOff \in Nat /\ wOff \in Nat /\ RecLen \in Nat /\ RecLen > 0
           /\ lsn[1] \in Files /\ lsn[2] \in Offsets /\ tLsn \in Slots
BY OffsetFacts, SlotFacts, FileAssumption, LenAssumption DEF Region

\* What recovery and a panic know of the threads.
LEMMA ModeStep ==
    ASSUME Shape, Mode, Calls, NEW t \in Threads,
           pc' \in [Threads -> PcStates], job' \in [Threads -> Jobs],
           \A u \in Threads \ {t} : pc'[u] = pc[u] /\ job'[u] = job[u],
           \/ pc[t] # "idle" /\ up' = up /\ job'[t].kind = job[t].kind
           \/ pc[t] # "idle" /\ pc'[t] = "idle" /\ job'[t] = NoJob
              /\ up' \in (IF job[t].kind = "ckp" THEN {"up", "panic"} ELSE {up})
           \/ up = "up" /\ up' = "up" /\ job'[t].kind # "ckp"
           \/ up = "recovering" /\ up' = up /\ job'[t].kind = "ckp"
              /\ \A u \in Threads : pc[u] = "idle"
    PROVE  Mode'
<1>1. NoJob.kind # "ckp"
  BY NoJobType
<1>2. \A u \in Threads : pc[u] = "idle" => job[u].kind # "ckp"
  BY <1>1 DEF Calls, CallOK
<1>3. CASE pc[t] # "idle" /\ up' = up /\ job'[t].kind = job[t].kind
  BY <1>3 DEF Mode
<1>4. CASE pc[t] # "idle" /\ pc'[t] = "idle" /\ job'[t] = NoJob
           /\ up' \in (IF job[t].kind = "ckp" THEN {"up", "panic"} ELSE {up})
  <2>1. CASE job[t].kind = "ckp"
    <3>1. \A u \in Threads \ {t} : pc[u] = "idle"
      BY <1>4, <2>1 DEF Mode
    <3>2. \A u \in Threads : pc'[u] = "idle" /\ job'[u].kind # "ckp"
      BY <1>1, <1>2, <1>4, <3>1
    <3> QED BY <1>4, <2>1, <3>2 DEF Mode
  <2>2. CASE job[t].kind # "ckp"
    BY <1>1, <1>4, <2>2 DEF Mode
  <2> QED BY <2>1, <2>2
<1>5. CASE up = "up" /\ up' = "up" /\ job'[t].kind # "ckp"
  BY <1>5 DEF Mode
<1>6. CASE up = "recovering" /\ up' = up /\ job'[t].kind = "ckp"
           /\ \A u \in Threads : pc[u] = "idle"
  BY <1>6 DEF Mode
<1> QED BY <1>3, <1>4, <1>5, <1>6

\* A step that leaves the buffer and the LSNs alone.
LEMMA SameRegion ==
    ASSUME Control, Layout, NEW t \in Threads,
           pc' \in [Threads -> PcStates], job' \in [Threads -> Jobs],
           \A u \in Threads \ {t} : pc'[u] = pc[u] /\ job'[u] = job[u],
           UNCHANGED <<lsn, bOff, wOff, fLsn, tLsn, sLsn>>,
           mtxFlush' \in {mtxFlush, None},
           Listed' \subseteq Listed \cup designated, designated' \subseteq Listed \cup designated,
           t \in (Listed \cup designated)' => job'[t].to = job[t].to,
           pc[t] # "store", pc'[t] \notin {"sync", "store"},
           up' # "panic" => up # "panic",
           Mode', CallOK(pc[t], job[t])'
    PROVE  Layout'
<1>1. Region'
  BY ThreadAssumption DEF Layout, Region
<1>2. SyncPlace'
  <2>1. \A u \in Threads : pc'[u] = "sync" => pc[u] = "sync" /\ job'[u] = job[u]
    OBVIOUS
  <2>2. \A u \in Threads : pc'[u] = "store" <=> pc[u] = "store"
    OBVIOUS
  <2>3. \A u \in Threads : pc'[u] = "store" => pc[u] = "store" /\ job'[u] = job[u]
    BY <2>2
  <2> QED BY <2>1, <2>2, <2>3 DEF Layout, SyncPlace, WholeStores
<1>3. Calls'
  <2>1. lsn' \in Nat \X Nat /\ wOff' \in Int
    BY RegionTypes DEF Layout
  <2>2. \A u \in Threads \ {t} : CallOK(pc[u], job[u])'
    BY <2>1, OthersKeep DEF Layout
  <2> QED BY <2>2 DEF Calls
<1>4. Targets'
  <2>1. \A v \in Listed \cup designated : v \in Threads /\ ~Before(tLsn, job[v].to)
    BY DEF Control, Shape, Listed, IsList, Layout, Targets
  <2>2. \A v \in (Listed \cup designated)' : job'[v].to = job[v].to /\ v \in Listed \cup designated
    BY <2>1
  <2> QED BY <2>1, <2>2 DEF Targets, Before
<1> QED BY <1>1, <1>2, <1>3, <1>4 DEF Layout

\* Before the first record nobody is flushing.
LEMMA EmptyLogIdle ==
    ASSUME Control, Region, Calls, lsn[2] = 0
    PROVE  mtxFlush = None /\ bOff = 0
<1>1. bOff = 0 /\ wOff = 0 /\ lsn[1] = 1
  BY RegionTypes DEF Region
<1>2. CASE mtxFlush # None
  <2>1. PICK u \in Threads : mtxFlush = u
    BY <1>2 DEF Control, Shape
  <2>2. pc[u] \in {"sync", "store"}
    BY <2>1 DEF Control, Places, HoldsFlush
  <2>3. MarkOK(job[u]) /\ job[u].to \in Slots
    BY <2>2 DEF Calls, CallOK, InCall, Flying
  <2>4. job[u].to[1] \in Nat /\ job[u].to[1] >= 1 /\ job[u].to[2] \in Nat
    BY <2>3, SlotFacts, OffsetFacts, FileAssumption
  <2>5. job[u].mark[1] = 1 /\ job[u].mark[2] \in Nat /\ job[u].mark[2] <= 0
        /\ Before(job[u].to, job[u].mark)
    BY <1>1, <2>3, OffsetFacts DEF MarkOK
  <2> QED BY <2>4, <2>5 DEF Before
<1> QED BY <1>1, <1>2

LEMMA LastSlot ==
    ASSUME Region, lsn[2] # 0
    PROVE  LastLsn \in Slots /\ Before(LastLsn, lsn)
<1>1. lsn[1] \in Files /\ lsn[2] \in Offsets /\ lsn[1] \in Nat /\ lsn[2] \in Nat
      /\ lsn[2] <= FileSize /\ RecLen \in Nat /\ RecLen > 0
  BY RegionTypes, OffsetFacts
<1>2. lsn[2] - RecLen \in Offsets /\ (lsn[2] - RecLen) + RecLen <= FileSize
  BY <1>1, SlotFacts
<1> QED BY <1>1, <1>2, SlotFacts DEF LastLsn, Before

LEMMA EnterLayout ==
    ASSUME Control, Layout, NEW t \in Threads, NEW k \in Kinds \cup {"ckp"}, Enter(t, k)
    PROVE  Layout'
<1> USE DEF Layout
<1>1. PICK p \in {"append", "newfile", "flush"} :
        p = IF Fits THEN "append" ELSE IF lsn[2] = 0 THEN "newfile" ELSE "flush"
  OBVIOUS
<1>2. PICK y \in Whys : y = IF Fits THEN "put" ELSE "switch"
  BY DEF Whys
<1>3. k \in PutKinds \cup {"ckp"} /\ pc[t] = "idle"
      /\ (\/ up = "up" /\ k # "ckp"
          \/ up = "recovering" /\ k = "ckp" /\ \A u \in Threads : pc[u] = "idle")
  <2>1. pc[t] = "idle"
    BY DEF Enter
  <2>2. CASE up = "up" /\ k \in Kinds \ {"api"}
    BY <2>1, <2>2, ThreadAssumption DEF PutKinds
  <2>3. CASE up = "recovering" /\ k = "ckp" /\ \A u \in Threads : pc[u] = "idle"
    BY <2>1, <2>3
  <2> QED BY <2>2, <2>3 DEF Enter
<1>4. PICK j \in Jobs : j = Call(k, ZeroLsn, LastLsn, y)
                        /\ j.kind = k /\ j.why = y /\ j.to = LastLsn
  <2>1. LastLsn \in Int \X Int /\ ZeroLsn \in Int \X Int
    BY RegionTypes DEF LastLsn, ZeroLsn
  <2> QED BY <1>3, <2>1, CallType
<1>5. pc' = [pc EXCEPT ![t] = p] /\ job' = [job EXCEPT ![t] = j]
  BY <1>1, <1>2, <1>4 DEF Enter, Go
<1>6. UNCHANGED <<lsn, bOff, wOff, fLsn, tLsn, sLsn, mtxFlush, commits, designated, up>>
  BY DEF Enter, regionVars, envVars
<1>7. /\ pc' \in [Threads -> PcStates] /\ job' \in [Threads -> Jobs]
      /\ \A u \in Threads \ {t} : pc'[u] = pc[u] /\ job'[u] = job[u]
      /\ pc'[t] = p /\ job'[t] = j
  BY <1>5 DEF Control, Shape, PcStates
<1>8. Mode'
  BY <1>3, <1>4, <1>6, <1>7, ModeStep DEF Control
<1>9. CallOK(p, j)
  <2>1. CASE p = "append"
    BY <1>1, <2>1 DEF CallOK, InCall, Flying, Fits
  <2>2. CASE p = "newfile"
    BY <1>1, <2>2, EmptyLogIdle DEF CallOK, InCall, Flying
  <2>3. CASE p = "flush"
    <3>1. lsn[2] # 0 /\ ~Fits
      BY <1>1, <2>3
    <3>2. NextFileReady
      BY <3>1, RegionTypes, LenAssumption DEF Enter, Fits, NextFileReady
    <3> QED BY <1>2, <1>4, <2>3, <3>1, <3>2, LastSlot DEF CallOK, InCall, Flying
  <2> QED BY <2>1, <2>2, <2>3
<1>10. CallOK(pc[t], job[t])'
  <2>1. CallOK(p, j)'
    BY <1>6, <1>9 DEF CallOK, MarkOK, NextFileReady, LastLsn
  <2> QED BY <1>7, <2>1 DEF CallOK, MarkOK
<1>11. t \notin (Listed \cup designated)'
  BY <1>3, <1>6 DEF Control, Waiters, Shape, Listed
<1>12. Listed' = Listed /\ designated' = designated
  BY <1>6 DEF Listed
<1> QED BY <1>3, <1>6, <1>7, <1>8, <1>10, <1>11, <1>12, SameRegion

\* Returning: nothing is known of an idle thread.
LEMMA IdleCall == CallOK("idle", NoJob)
BY DEF CallOK, InCall, Flying

LEMMA IdleCallNext ==
    ASSUME NEW t, pc'[t] = "idle", job'[t] = NoJob
    PROVE  CallOK(pc[t], job[t])'
BY DEF CallOK, MarkOK, InCall, Flying

\* A thread that holds the region lock is done.
LEMMA IdleLayout ==
    ASSUME Control, Layout, NEW t \in Threads,
           pc[t] \in {"append", "writeout", "enter", "failed"},
           Go(t, "idle"), job' = [job EXCEPT ![t] = NoJob],
           UNCHANGED <<lsn, bOff, wOff, fLsn, tLsn, sLsn, commits, designated, mtxFlush>>,
           up' \in (IF job[t].kind = "ckp" THEN {"up", "panic"} ELSE {up})
    PROVE  Layout'
<1> USE DEF Layout
<1>1. /\ pc' \in [Threads -> PcStates] /\ job' \in [Threads -> Jobs]
      /\ \A u \in Threads \ {t} : pc'[u] = pc[u] /\ job'[u] = job[u]
      /\ pc'[t] = "idle" /\ job'[t] = NoJob
  BY NoJobType DEF Go, Control, Shape, PcStates
<1>2. Mode'
  BY <1>1, ModeStep DEF Control
<1>3. CallOK(pc[t], job[t])'
  BY <1>1, IdleCallNext
<1>4. Listed' = Listed /\ designated' = designated /\ t \notin (Listed \cup designated)'
  BY DEF Control, Waiters, Shape, Listed
<1>5. up' # "panic" => up # "panic"
  BY DEF Mode
<1> QED BY <1>1, <1>2, <1>3, <1>4, <1>5, SameRegion

LEMMA PutFailsLayout ==
    ASSUME Control, Layout, NEW t \in Threads, PutFails(t)
    PROVE  Layout'
BY IdleLayout DEF PutFails, regionVars

LEMMA EnterFlushedLayout ==
    ASSUME Control, Layout, NEW t \in Threads, EnterFlushed(t)
    PROVE  Layout'
<1>1. Go(t, "idle")
  BY DEF EnterFlushed, Return, Go
<1>2. up' \in (IF job[t].kind = "ckp" THEN {"up", "panic"} ELSE {up})
  BY DEF EnterFlushed, Return
<1> QED BY <1>1, <1>2, IdleLayout DEF EnterFlushed, Return, regionVars

LEMMA FailureIgnoredLayout ==
    ASSUME Control, Layout, NEW t \in Threads, FailureIgnored(t)
    PROVE  Layout'
<1>1. Go(t, "idle")
  BY DEF FailureIgnored, Return, Go
<1>2. up' \in (IF job[t].kind = "ckp" THEN {"up", "panic"} ELSE {up})
  BY DEF FailureIgnored, Return
<1> QED BY <1>1, <1>2, IdleLayout DEF FailureIgnored, Return, regionVars

\* It keeps its job on its way through __log_flush_int or to its failure.
LEMMA GoesOnLayout ==
    ASSUME Control, Layout, NEW t \in Threads, NEW p \in {"failed", "enter", "flush"},
           pc[t] \in {"writeout", "lock", "enter"}, Go(t, p), UNCHANGED job,
           UNCHANGED <<lsn, bOff, wOff, fLsn, tLsn, sLsn, commits, designated, mtxFlush, up>>
    PROVE  Layout'
<1> USE DEF Layout
<1>1. /\ pc' \in [Threads -> PcStates] /\ job' \in [Threads -> Jobs]
      /\ \A u \in Threads \ {t} : pc'[u] = pc[u] /\ job'[u] = job[u]
      /\ pc'[t] = p /\ job'[t] = job[t]
  BY DEF Go, Control, Shape, PcStates
<1>2. Mode'
  BY <1>1, ModeStep DEF Control
<1>3. job[t].why # "switch"
  BY DEF Control, Places, RoleOK
<1> PICK j \in Jobs : j = job[t]
  BY DEF Control, Shape
<1>4. CallOK(p, j)
  BY <1>3 DEF Calls, CallOK, InCall, Flying
<1>5. CallOK(pc[t], job[t])'
  <2>1. CallOK(p, j)'
    BY <1>4 DEF CallOK, MarkOK, NextFileReady, LastLsn
  <2> QED BY <1>1, <2>1 DEF CallOK, MarkOK
<1>6. Listed' = Listed /\ designated' = designated /\ t \notin (Listed \cup designated)'
  BY DEF Control, Waiters, Shape, Listed
<1> QED BY <1>1, <1>2, <1>5, <1>6, SameRegion

LEMMA WriteOutFailsLayout ==
    ASSUME Control, Layout, NEW t \in Threads, WriteOutFails(t)
    PROVE  Layout'
BY GoesOnLayout DEF WriteOutFails, regionVars, mutexVars

LEMMA TakeRegionLayout ==
    ASSUME Control, Layout, NEW t \in Threads, TakeRegion(t)
    PROVE  Layout'
BY GoesOnLayout DEF TakeRegion, regionVars, envVars

LEMMA LeadLayout ==
    ASSUME Control, Layout, NEW t \in Threads, Lead(t)
    PROVE  Layout'
BY GoesOnLayout DEF Lead, regionVars, mutexVars, envVars

\* With mtx_flush free, s_lsn is not past what has been written.
LEMMA SyncedWritten ==
    ASSUME Control, Layout, NEW t \in Threads, pc[t] # "idle", mtxFlush = None
    PROVE  sLsn[1] < lsn[1] \/ (sLsn[1] = lsn[1] /\ sLsn[2] <= wOff)
<1>1. \A u \in Threads : pc[u] # "store"
  BY ThreadAssumption DEF Control, Places, HoldsFlush
<1>2. up # "panic"
  BY DEF Layout, Mode
<1> QED BY <1>1, <1>2 DEF Layout, SyncPlace

LEMMA AllSynced ==
    ASSUME Control, Layout, NEW t \in Threads, pc[t] # "idle", mtxFlush = None,
           lsn[2] # 0, AlreadyFlushed(LastLsn)
    PROVE  bOff = 0
<1>1. sLsn[1] < lsn[1] \/ (sLsn[1] = lsn[1] /\ sLsn[2] <= wOff)
  BY SyncedWritten
<1>2. lsn[1] \in Nat /\ lsn[2] \in Offsets /\ lsn[2] \in Nat /\ bOff \in Nat /\ wOff \in Nat
      /\ RecLen \in Nat /\ sLsn[1] \in Nat /\ sLsn[2] \in Offsets /\ sLsn[2] \in Nat
      /\ wOff + bOff = lsn[2]
  BY RegionTypes, OffsetFacts, FileAssumption DEF Layout, SyncPlace, Region
<1>3. sLsn[1] = lsn[1] /\ lsn[2] - RecLen < sLsn[2]
  BY <1>1, <1>2 DEF AlreadyFlushed, Before, LastLsn
<1>4. ~(sLsn[2] < lsn[2])
  <2>1. sLsn[2] < lsn[2] => sLsn[2] + RecLen <= lsn[2]
    BY <1>2, OffsetFacts
  <2> QED BY <1>2, <1>3, <2>1
<1> QED BY <1>1, <1>2, <1>3, <1>4

LEMMA FlushSkippedLayout ==
    ASSUME Control, Layout, NEW t \in Threads, FlushSkipped(t)
    PROVE  Layout'
<1> USE DEF Layout
<1>1. /\ pc[t] = "flush" /\ mtxFlush = None /\ AlreadyFlushed(job[t].to)
      /\ pc' = [pc EXCEPT ![t] = "flushed"]
      /\ UNCHANGED <<lsn, bOff, wOff, fLsn, tLsn, sLsn, commits, designated, mtxFlush, up>>
  BY DEF FlushSkipped, FlushMutexFree, Go, regionVars, mutexVars, envVars
<1>2. /\ job' \in [Threads -> Jobs] /\ \A u \in Threads \ {t} : job'[u] = job[u]
      /\ job'[t].kind = job[t].kind /\ job'[t].why = job[t].why /\ job'[t].rec = job[t].rec
      /\ job'[t].to = job[t].to
  BY JobOutcome DEF FlushSkipped, Control
<1>3. /\ pc' \in [Threads -> PcStates] /\ pc'[t] = "flushed"
      /\ \A u \in Threads \ {t} : pc'[u] = pc[u]
  BY <1>1 DEF Control, Shape, PcStates
<1>4. Mode'
  BY <1>1, <1>2, <1>3, ModeStep DEF Control
<1> PICK j \in Jobs : j = job'[t]
  BY <1>2
<1>5. CallOK("flush", job[t])
  BY <1>1 DEF Calls
<1>6. job[t].why = "switch" => bOff = 0
  BY <1>1, <1>5, AllSynced DEF CallOK, NextFileReady
<1>7. CallOK("flushed", j)
  BY <1>1, <1>2, <1>5, <1>6 DEF CallOK, InCall, Flying
<1>8. CallOK(pc[t], job[t])'
  <2>1. CallOK("flushed", j)'
    BY <1>1, <1>7 DEF CallOK, MarkOK, NextFileReady, LastLsn
  <2> QED BY <1>3, <2>1 DEF CallOK, MarkOK
<1>9. Listed' = Listed /\ designated' = designated
  BY <1>1 DEF Listed
<1> QED BY <1>1, <1>2, <1>3, <1>4, <1>8, <1>9, SameRegion

LEMMA FlushWriteFailsLayout ==
    ASSUME Control, Layout, NEW t \in Threads, FlushWriteFails(t)
    PROVE  Layout'
<1> USE DEF Layout
<1>1. /\ pc[t] = "flush"
      /\ pc' = [pc EXCEPT ![t] = "flushed"]
      /\ UNCHANGED <<lsn, bOff, wOff, fLsn, tLsn, sLsn, commits, designated, mtxFlush, up>>
  BY DEF FlushWriteFails, Go, regionVars, mutexVars
<1>2. /\ job' \in [Threads -> Jobs] /\ \A u \in Threads \ {t} : job'[u] = job[u]
      /\ job'[t].kind = job[t].kind /\ job'[t].why = job[t].why /\ job'[t].rec = job[t].rec
      /\ job'[t].to = job[t].to /\ job'[t].ok = FALSE
  BY JobOutcome DEF FlushWriteFails, Control
<1>3. /\ pc' \in [Threads -> PcStates] /\ pc'[t] = "flushed"
      /\ \A u \in Threads \ {t} : pc'[u] = pc[u]
  BY <1>1 DEF Control, Shape, PcStates
<1>4. Mode'
  BY <1>1, <1>2, <1>3, ModeStep DEF Control
<1> PICK j \in Jobs : j = job'[t]
  BY <1>2
<1>5. CallOK("flush", job[t])
  BY <1>1 DEF Calls
<1>7. CallOK("flushed", j)
  BY <1>1, <1>2, <1>5 DEF CallOK, InCall, Flying
<1>8. CallOK(pc[t], job[t])'
  <2>1. CallOK("flushed", j)'
    BY <1>1, <1>7 DEF CallOK, MarkOK, NextFileReady, LastLsn
  <2> QED BY <1>3, <2>1 DEF CallOK, MarkOK
<1>9. Listed' = Listed /\ designated' = designated
  BY <1>1 DEF Listed
<1> QED BY <1>1, <1>2, <1>3, <1>4, <1>8, <1>9, SameRegion

LEMMA SyncFailsLayout ==
    ASSUME Control, Layout, NEW t \in Threads, SyncFails(t)
    PROVE  Layout'
<1> USE DEF Layout
<1>1. /\ pc[t] = "sync" /\ mtxFlush' = None
      /\ pc' = [pc EXCEPT ![t] = "synced"]
      /\ UNCHANGED <<lsn, bOff, wOff, fLsn, tLsn, sLsn, commits, designated, up>>
  BY DEF SyncFails, Go, regionVars
<1>2. /\ job' \in [Threads -> Jobs] /\ \A u \in Threads \ {t} : job'[u] = job[u]
      /\ job'[t].kind = job[t].kind /\ job'[t].why = job[t].why /\ job'[t].rec = job[t].rec
      /\ job'[t].to = job[t].to /\ job'[t].ok = FALSE
  BY JobSynced DEF SyncFails, Control
<1>3. /\ pc' \in [Threads -> PcStates] /\ pc'[t] = "synced"
      /\ \A u \in Threads \ {t} : pc'[u] = pc[u]
  BY <1>1 DEF Control, Shape, PcStates
<1>4. Mode'
  BY <1>1, <1>2, <1>3, ModeStep DEF Control
<1> PICK j \in Jobs : j = job'[t]
  BY <1>2
<1>5. CallOK("sync", job[t])
  BY <1>1 DEF Calls
<1>7. CallOK("synced", j)
  BY <1>1, <1>2, <1>5 DEF CallOK, InCall, Flying
<1>8. CallOK(pc[t], job[t])'
  <2>1. CallOK("synced", j)'
    BY <1>1, <1>2, <1>7 DEF CallOK, MarkOK, NextFileReady, LastLsn
  <2> QED BY <1>3, <2>1 DEF CallOK, MarkOK
<1>9. Listed' = Listed /\ designated' = designated
  BY <1>1 DEF Listed
<1> QED BY <1>1, <1>2, <1>3, <1>4, <1>8, <1>9, SameRegion

LEMMA ApiFlushLayout ==
    ASSUME Control, Layout, NEW t \in Threads, NEW r \in Slots, ApiFlush(t, r)
    PROVE  Layout'
<1> USE DEF Layout
<1>1. /\ UNCHANGED <<lsn, bOff, wOff, fLsn, tLsn, sLsn, commits, designated, mtxFlush, up>>
      /\ pc[t] = "idle" /\ up = "up" /\ Before(r, lsn)
  BY DEF ApiFlush, regionVars, mutexVars, envVars
<1>2. r \in Int \X Int
  BY SlotFacts, OffsetFacts, FileAssumption
<1>3. PICK j \in Jobs : j = Call("api", r, r, "api") /\ j.kind = "api" /\ j.why = "api"
                        /\ j.to = r /\ j.rec = r
  BY <1>2, CallType DEF Whys
<1>4. \/ pc' = pc /\ job' = job
      \/ pc' = [pc EXCEPT ![t] = "lock"] /\ job' = [job EXCEPT ![t] = j]
  BY <1>3 DEF ApiFlush, Go
<1>5. /\ pc' \in [Threads -> PcStates] /\ job' \in [Threads -> Jobs]
      /\ \A u \in Threads \ {t} : pc'[u] = pc[u] /\ job'[u] = job[u]
      /\ \/ pc'[t] = "idle" /\ job'[t] = job[t]
         \/ pc'[t] = "lock" /\ job'[t] = j
  BY <1>1, <1>4 DEF Control, Shape, PcStates
<1>6. job[t] = NoJob
  BY <1>1 DEF Calls, CallOK
<1>7. Mode'
  BY <1>1, <1>3, <1>5, <1>6, ModeStep, NoJobType DEF Control
<1>8. CallOK(pc[t], job[t])'
  <2>1. CASE pc'[t] = "idle" /\ job'[t] = job[t]
    BY <1>6, <2>1, IdleCallNext
  <2>2. CASE pc'[t] = "lock" /\ job'[t] = j
    <3>1. CallOK("lock", j)
      BY <1>1, <1>3 DEF CallOK, InCall, Flying
    <3>2. CallOK("lock", j)'
      BY <1>1, <3>1 DEF CallOK, MarkOK, NextFileReady, LastLsn
    <3> QED BY <2>2, <3>2 DEF CallOK, MarkOK
  <2> QED BY <1>5, <2>1, <2>2
<1>9. Listed' = Listed /\ designated' = designated /\ t \notin (Listed \cup designated)'
  BY <1>1 DEF Control, Waiters, Shape, Listed
<1>10. pc'[t] \notin {"sync", "store"} /\ (up' # "panic" => up # "panic")
  BY <1>1, <1>5
<1> QED BY <1>1, <1>5, <1>7, <1>8, <1>9, <1>10, SameRegion

\* The abort record goes where the commit was.
LEMMA RetryLayout ==
    ASSUME Control, Layout, NEW t \in Threads, pc[t] = "failed", Retry(t),
           UNCHANGED <<lsn, bOff, wOff, fLsn, tLsn, sLsn, commits, designated, mtxFlush, up>>
    PROVE  Layout'
<1> USE DEF Layout
<1>1. /\ pc' \in [Threads -> PcStates] /\ pc'[t] = "flush"
      /\ \A u \in Threads \ {t} : pc'[u] = pc[u]
  BY DEF Retry, Go, Control, Shape, PcStates
<1>2. /\ job' \in [Threads -> Jobs] /\ \A u \in Threads \ {t} : job'[u] = job[u]
      /\ job'[t].kind = job[t].kind /\ job'[t].why = "retry" /\ job'[t].rec = job[t].rec
      /\ job'[t].to = job[t].rec
  BY JobRetry DEF Retry, Control
<1>3. Mode'
  BY <1>1, <1>2, ModeStep DEF Control
<1> PICK j \in Jobs : j = job'[t]
  BY <1>2
<1>4. CallOK("failed", job[t]) /\ job[t].why = "commit"
  BY DEF Calls, Control, Places, RoleOK
<1>5. CallOK("flush", j)
  BY <1>2, <1>4 DEF CallOK, InCall, Flying
<1>6. CallOK(pc[t], job[t])'
  <2>1. CallOK("flush", j)'
    BY <1>5 DEF CallOK, MarkOK, NextFileReady, LastLsn
  <2> QED BY <1>1, <2>1 DEF CallOK, MarkOK
<1>7. Listed' = Listed /\ designated' = designated /\ t \notin (Listed \cup designated)'
  BY DEF Control, Waiters, Shape, Listed
<1> QED BY <1>1, <1>2, <1>3, <1>6, <1>7, SameRegion

LEMMA AbortInBufferLayout ==
    ASSUME Control, Layout, NEW t \in Threads, AbortInBuffer(t)
    PROVE  Layout'
BY RetryLayout DEF AbortInBuffer, mutexVars, regionVars, envVars

LEMMA AbortInFileLayout ==
    ASSUME Control, Layout, NEW t \in Threads, AbortInFile(t)
    PROVE  Layout'
BY RetryLayout DEF AbortInFile, mutexVars, regionVars, envVars

\* What the woken committer flushes up to is in the log: its own record is,
\* and t_lsn has not moved back.
LEMMA WakeLayout ==
    ASSUME Control, Layout, NEW t \in Threads, Wake(t)
    PROVE  Layout'
<1> USE DEF Layout
<1>1. /\ pc[t] = "wait" /\ t \in woken /\ designated' = designated \ {t}
      /\ UNCHANGED <<lsn, bOff, wOff, fLsn, tLsn, sLsn, commits, mtxFlush>>
  BY DEF Wake
<1>2. Listed' = Listed /\ t \notin Listed
  BY <1>1 DEF Control, Waiters, Listed
<1>3. /\ pc' \in [Threads -> PcStates] /\ job' \in [Threads -> Jobs]
      /\ \A u \in Threads \ {t} : pc'[u] = pc[u] /\ job'[u] = job[u]
      /\ \/ /\ t \in designated /\ pc'[t] = "flush" /\ up' = up
            /\ job'[t].kind = job[t].kind /\ job'[t].why = job[t].why
            /\ job'[t].rec = job[t].rec /\ job'[t].to = tLsn
         \/ /\ pc'[t] = "idle" /\ job'[t] = NoJob
            /\ up' \in (IF job[t].kind = "ckp" THEN {"up", "panic"} ELSE {up})
  <2>1. CASE t \in designated
    <3>1. pc' = [pc EXCEPT ![t] = "flush"] /\ job' = [job EXCEPT ![t].to = tLsn] /\ up' = up
      BY <2>1 DEF Wake, Go
    <3>2. tLsn \in Int \X Int
      BY RegionTypes
    <3>3. /\ pc' \in [Threads -> PcStates] /\ pc'[t] = "flush"
          /\ \A u \in Threads \ {t} : pc'[u] = pc[u]
      BY <3>1 DEF Control, Shape, PcStates
    <3> QED BY <2>1, <3>1, <3>2, <3>3, JobTo DEF Control
  <2>2. CASE t \notin designated
    <3>1. pc' = [pc EXCEPT ![t] = "idle"] /\ job' = [job EXCEPT ![t] = NoJob]
          /\ up' \in (IF job[t].kind = "ckp" THEN {"up", "panic"} ELSE {up})
      BY <2>2 DEF Wake, Return
    <3> QED BY <3>1, NoJobType DEF Control, Shape, PcStates
  <2> QED BY <2>1, <2>2
<1>4. Mode'
  BY <1>1, <1>3, ModeStep DEF Control
<1>5. CallOK(pc[t], job[t])'
  <2>1. CASE /\ t \in designated /\ pc'[t] = "flush" /\ up' = up
             /\ job'[t].kind = job[t].kind /\ job'[t].why = job[t].why
             /\ job'[t].rec = job[t].rec /\ job'[t].to = tLsn
    <3> PICK j \in Jobs : j = job'[t]
      BY <1>3
    <3>1. CallOK("wait", job[t]) /\ job[t].why \in {"commit", "api"}
      BY <1>1 DEF Calls, Control, Places, RoleOK
    <3>2. job[t].to \in Slots /\ Before(job[t].to, lsn) /\ ~Before(tLsn, job[t].to)
      BY <2>1, <3>1 DEF CallOK, InCall, Targets
    <3>3. Before(tLsn, lsn)
      <4>1. job[t].to \in Nat \X Nat /\ job[t].to[1] >= 1
        BY <3>2, SlotFacts, OffsetFacts, FileAssumption
      <4>2. tLsn = <<1, 0>> \/ Before(tLsn, lsn)
        BY DEF Region
      <4> QED BY <3>2, <4>1, <4>2, RegionTypes DEF Before
    <3>4. CallOK("flush", j)
      BY <2>1, <3>1, <3>3, RegionTypes DEF CallOK, InCall, Flying
    <3>5. CallOK("flush", j)'
      BY <1>1, <3>4 DEF CallOK, MarkOK, NextFileReady, LastLsn
    <3> QED BY <2>1, <3>5 DEF CallOK, MarkOK
  <2>2. CASE pc'[t] = "idle" /\ job'[t] = NoJob
    BY <2>2, IdleCallNext
  <2> QED BY <1>3, <2>1, <2>2
<1>6. up' # "panic" => up # "panic"
  BY <1>1 DEF Mode
<1>7. pc'[t] \notin {"sync", "store"} /\ t \notin (Listed \cup designated)'
  BY <1>1, <1>2, <1>3
<1> QED BY <1>1, <1>2, <1>3, <1>4, <1>5, <1>6, <1>7, SameRegion

LEMMA FlushDoneLayout ==
    ASSUME Control, Layout, NEW t \in Threads, FlushDone(t)
    PROVE  Layout'
<1> USE DEF Layout
<1>1. /\ pc[t] \in {"flushed", "synced"} /\ designated' = designated \cup NextLeader
      /\ commits' = RemoveAll(commits, Served \cup NextLeader)
      /\ UNCHANGED <<lsn, bOff, wOff, fLsn, tLsn, sLsn, mtxFlush>>
  BY DEF FlushDone
<1>2. PICK p \in {"newfile", "failed", "idle"} :
        /\ pc' = [pc EXCEPT ![t] = p]
        /\ job' = (IF p = "idle" THEN [job EXCEPT ![t] = NoJob] ELSE job)
        /\ p = "newfile" => job[t].why = "switch" /\ job[t].ok
        /\ p = "failed" => job[t].why = "commit"
        /\ p # "idle" => up' = up
        /\ up' \in (IF job[t].kind = "ckp" THEN {up, "up", "panic"} ELSE {up})
        /\ p = "idle" => up' \in (IF job[t].kind = "ckp" THEN {"up", "panic"} ELSE {up})
  <2>1. \/ job[t].why = "switch" /\ job[t].ok /\ Go(t, "newfile") /\ UNCHANGED <<job, up>>
        \/ job[t].why = "commit" /\ Go(t, "failed") /\ UNCHANGED <<job, up>>
        \/ Return(t, "flushed") \/ Return(t, "refused") \/ Return(t, "nothing")
    BY Zenon DEF FlushDone
  <2>2. CASE job[t].why = "switch" /\ job[t].ok /\ Go(t, "newfile") /\ UNCHANGED <<job, up>>
    BY <2>2 DEF Go
  <2>3. CASE job[t].why = "commit" /\ Go(t, "failed") /\ UNCHANGED <<job, up>>
    BY <2>3 DEF Go
  <2>4. CASE Return(t, "flushed") \/ Return(t, "refused") \/ Return(t, "nothing")
    BY <2>4 DEF Return
  <2> QED BY <2>1, <2>2, <2>3, <2>4
<1>3. /\ pc' \in [Threads -> PcStates] /\ job' \in [Threads -> Jobs]
      /\ \A u \in Threads \ {t} : pc'[u] = pc[u] /\ job'[u] = job[u]
      /\ pc'[t] = p
      /\ p = "idle" => job'[t] = NoJob
      /\ p # "idle" => job'[t] = job[t]
  BY <1>2, NoJobType DEF Control, Shape, PcStates
<1>4. Mode'
  <2>1. pc[t] # "idle"
    BY <1>1
  <2> QED BY <1>2, <1>3, <2>1, ModeStep DEF Control
<1>5. CallOK(pc[t], job[t])'
  <2>1. CASE p = "idle"
    BY <1>3, <2>1, IdleCallNext
  <2>2. CASE p # "idle"
    <3> PICK j \in Jobs : j = job[t] /\ j = job'[t]
      BY <1>3, <2>2
    <3> PICK q \in {"flushed", "synced"} : q = pc[t]
      BY <1>1
    <3>1. CallOK(q, j)
      BY DEF Calls
    <3>2. CallOK(p, j)
      BY <1>2, <2>2, <3>1 DEF CallOK, InCall, Flying
    <3>3. CallOK(p, j)'
      BY <1>1, <3>2 DEF CallOK, MarkOK, NextFileReady, LastLsn
    <3> QED BY <1>3, <3>3 DEF CallOK, MarkOK
  <2> QED BY <2>1, <2>2
<1>6. Listed' \subseteq Listed /\ designated' \subseteq Listed \cup designated
  <2>1. NextLeader \subseteq Listed
    BY LeaderChosen DEF Control
  <2>2. Listed' = Listed \ (Served \cup NextLeader)
    BY <1>1, RemoveAllType, ThreadAssumption DEF Listed, Control, Shape
  <2> QED BY <1>1, <2>1, <2>2
<1>7. t \notin (Listed \cup designated)' /\ pc[t] # "store" /\ pc'[t] \notin {"sync", "store"}
  <2>1. t \notin Listed \cup designated
    BY <1>1 DEF Control, Waiters, Shape
  <2> QED BY <1>1, <1>2, <1>3, <1>6, <2>1
<1>8. up' # "panic" => up # "panic"
  BY <1>1 DEF Mode
<1> QED BY <1>1, <1>3, <1>4, <1>5, <1>6, <1>7, <1>8, SameRegion

\* s_lsn is stored at the end of an fsync only.
LEMMA SyncPlaceKept ==
    ASSUME Control, Layout, NEW t \in Threads, sLsn' = sLsn,
           lsn' \in Nat \X Nat, lsn'[1] = lsn[1], wOff' \in Nat, wOff' >= wOff,
           \A u \in Threads \ {t} : pc'[u] = pc[u] /\ job'[u] = job[u],
           pc[t] # "store", pc'[t] \notin {"sync", "store"},
           up' # "panic" => up # "panic"
    PROVE  SyncPlace'
<1>1. \A u \in Threads : pc'[u] = "sync" => pc[u] = "sync" /\ job'[u] = job[u]
  OBVIOUS
<1>2. \A u \in Threads : pc'[u] = "store" <=> pc[u] = "store"
  OBVIOUS
<1>3. \A u \in Threads : pc'[u] = "store" => pc[u] = "store" /\ job'[u] = job[u]
  BY <1>2
<1>4. wOff \in Nat /\ sLsn[2] \in Nat
  BY OffsetFacts DEF Layout, Region, SyncPlace
<1> QED BY <1>1, <1>2, <1>3, <1>4 DEF Layout, SyncPlace, WholeStores

LEMMA TargetsKept ==
    ASSUME Control, Layout, NEW t \in Threads, UNCHANGED <<tLsn, commits, designated>>,
           pc[t] # "wait", \A u \in Threads \ {t} : job'[u] = job[u]
    PROVE  Targets'
<1>1. Listed' = Listed /\ \A v \in Listed \cup designated : v \in Threads \ {t}
  BY DEF Control, Waiters, Shape, Listed, IsList
<1>2. \A v \in (Listed \cup designated)' : v \in Listed \cup designated /\ job'[v].to = job[v].to
  BY <1>1
<1> QED BY <1>2 DEF Layout, Targets, Before

LEMMA WriteOutLayout ==
    ASSUME Control, Layout, NEW t \in Threads, WriteOut(t)
    PROVE  Layout'
<1> USE DEF Layout
<1>1. /\ pc[t] = "writeout" /\ bOff' = 0 /\ wOff' = wOff + bOff
      /\ UNCHANGED <<lsn, fLsn, tLsn, sLsn, commits, mtxFlush, designated>>
      /\ pc' = [pc EXCEPT ![t] = "idle"] /\ job' = [job EXCEPT ![t] = NoJob]
  BY DEF WriteOut, Return
<1>2. up' = up /\ region = t /\ job[t].kind = "write"
  BY <1>1 DEF WriteOut, Return, Control, Places, RoleOK, HoldsRegion
<1>3. /\ pc' \in [Threads -> PcStates] /\ job' \in [Threads -> Jobs]
      /\ \A u \in Threads \ {t} : pc'[u] = pc[u] /\ job'[u] = job[u]
      /\ pc'[t] = "idle" /\ job'[t] = NoJob
  BY <1>1, NoJobType DEF Control, Shape, PcStates
<1>4. Region'
  BY <1>1, RegionTypes, LenAssumption DEF Region
<1>5. lsn' \in Nat \X Nat /\ wOff' \in Nat /\ wOff' >= wOff
  BY <1>1, RegionTypes
<1>6. SyncPlace'
  BY <1>1, <1>2, <1>3, <1>5, SyncPlaceKept
<1>7. Mode'
  BY <1>1, <1>2, <1>3, ModeStep DEF Control
<1>8. Calls'
  <2>1. CallOK(pc[t], job[t])'
    BY <1>3, IdleCallNext
  <2>2. \A u \in Threads \ {t} : CallOK(pc[u], job[u])'
    BY <1>1, <1>2, <1>3, <1>5, RegionTypes, OthersKeep
  <2> QED BY <2>1, <2>2 DEF Calls
<1>9. Targets'
  BY <1>1, <1>3, TargetsKept
<1> QED BY <1>4, <1>6, <1>7, <1>8, <1>9

\* __log_newfile begins with an empty buffer.
LEMMA NewFileLayout ==
    ASSUME Control, Layout, NEW t \in Threads, NewFile(t)
    PROVE  Layout'
<1> USE DEF Layout
<1>1. PICK f \in {lsn[1], lsn[1] + 1} :
        /\ f = IF lsn[2] = 0 THEN lsn[1] ELSE lsn[1] + 1
        /\ lsn' = <<f, RecLen>> /\ fLsn' = <<f, 0>>
  BY DEF NewFile
<1>2. /\ pc[t] = "newfile" /\ wOff' = 0 /\ bOff' = bOff + RecLen
      /\ UNCHANGED <<tLsn, commits, sLsn, mtxFlush, designated, job, up>>
      /\ pc' = [pc EXCEPT ![t] = "append"]
  BY DEF NewFile, mutexVars, envVars, Go
<1>3. bOff = 0 /\ mtxFlush = None /\ (lsn[2] = 0 \/ NextFileReady)
  BY <1>2 DEF Calls, CallOK
<1>4. f \in Files /\ f \in Nat /\ lsn[1] \in Nat /\ lsn[2] \in Nat
  BY <1>1, <1>3, RegionTypes, FileAssumption DEF NextFileReady
<1>5. /\ pc' \in [Threads -> PcStates] /\ pc'[t] = "append" /\ job' \in [Threads -> Jobs]
      /\ \A u \in Threads \ {t} : pc'[u] = pc[u] /\ job'[u] = job[u]
  BY <1>2 DEF Control, Shape, PcStates
<1>6. lsn' \in Nat \X Nat /\ lsn'[1] = f /\ lsn'[2] = RecLen /\ RecLen \in Nat /\ RecLen > 0
  BY <1>1, <1>4, LenAssumption
<1>7. Region'
  <2>1. lsn' \in Files \X Offsets /\ fLsn' \in ({0} \cup Files) \X Offsets
    BY <1>1, <1>4, OffsetFacts
  <2>2. bOff' \in 0 .. BufSize - 1 /\ wOff' \in Nat /\ wOff' + bOff' = lsn'[2]
    BY <1>2, <1>3, <1>6, LenAssumption
  <2>3. tLsn = <<1, 0>> \/ Before(tLsn, lsn)'
    BY <1>1, <1>2, <1>4, <1>6, RegionTypes DEF Region, Before
  <2> QED BY <2>1, <2>2, <2>3, <1>1, <1>2, <1>6 DEF Region
<1>8. sLsn[1] < f \/ (sLsn[1] = f /\ sLsn[2] = 0)
  <2>1. sLsn[1] < lsn[1] \/ (sLsn[1] = lsn[1] /\ sLsn[2] <= wOff)
    BY <1>2, <1>3, SyncedWritten
  <2>2. sLsn[1] \in Nat /\ sLsn[2] \in Nat
    BY OffsetFacts, FileAssumption DEF SyncPlace
  <2>3. lsn[2] = 0 => wOff = 0
    BY <1>3, RegionTypes DEF Region
  <2> QED BY <1>1, <1>4, <2>1, <2>2, <2>3
<1>9. SyncPlace'
  <2>1. \A u \in Threads : pc'[u] \notin {"sync", "store"}
    BY <1>3, <1>5, ThreadAssumption DEF Control, Places, HoldsFlush
  <2> QED BY <1>2, <1>6, <1>8, <2>1 DEF SyncPlace
<1>10. Mode'
  BY <1>2, <1>5, ModeStep DEF Control
<1>11. Calls'
  <2>1. CallOK(pc[t], job[t])'
    <3>1. lsn'[2] # 0 /\ lsn'[2] + RecLen <= FileSize
      BY <1>6, LenAssumption
    <3> QED BY <1>5, <3>1 DEF CallOK, MarkOK, InCall, Flying
  <2>2. region = t
    BY <1>2 DEF Control, Places, HoldsRegion
  <2>3. CASE lsn[2] = 0
    <3>1. lsn'[1] = lsn[1] /\ lsn'[2] >= lsn[2] /\ wOff' >= wOff
      BY <1>1, <1>2, <1>3, <1>6, <2>3, RegionTypes DEF Region
    <3> QED BY <1>2, <1>5, <1>6, <2>1, <2>2, <3>1, OthersKeep DEF Calls
  <2>4. CASE lsn[2] # 0
    <3>1. lsn'[1] > lsn[1]
      BY <1>1, <1>4, <1>6, <2>4
    <3> QED BY <1>2, <1>3, <1>5, <1>6, <2>1, <2>2, <3>1, OthersKeep DEF Calls
  <2> QED BY <2>3, <2>4
<1>12. Targets'
  BY <1>2, <1>5, TargetsKept
<1> QED BY <1>7, <1>9, <1>10, <1>11, <1>12

LEMMA PutRecordLayout ==
    ASSUME Control, Layout, NEW t \in Threads, PutRecord(t)
    PROVE  Layout'
<1> USE DEF Layout
<1>1. /\ pc[t] = "append" /\ lsn' = <<lsn[1], lsn[2] + RecLen>>
      /\ UNCHANGED <<tLsn, commits, sLsn, mtxFlush, designated, up>>
      /\ bOff' = (IF Overfull THEN bOff + RecLen - BufSize ELSE bOff + RecLen)
      /\ fLsn' = (IF bOff = 0 \/ (Overfull /\ bOff' > 0) THEN lsn ELSE fLsn)
      /\ wOff' = (IF Overfull THEN wOff + BufSize ELSE wOff)
  BY DEF PutRecord, envVars
<1>2. /\ lsn[2] # 0 /\ lsn[2] + RecLen <= FileSize /\ region = t /\ job[t].kind # "api"
      /\ job[t].kind \in PutKinds \cup {"api", "ckp"}
  BY <1>1 DEF Calls, CallOK, Control, Places, RoleOK, HoldsRegion, Shape, Jobs
<1>3. PICK p \in {"idle", "writeout", "enter"}, j \in Jobs :
        /\ pc' = [pc EXCEPT ![t] = p] /\ job' = [job EXCEPT ![t] = j]
        /\ \/ p = "idle" /\ j = NoJob /\ job[t].kind = "append"
           \/ p # "idle" /\ j.kind = job[t].kind /\ j.to = lsn /\ j.rec = lsn /\ j.why = "commit"
  <2>1. CASE job[t].kind = "append"
    BY <2>1, NoJobType DEF PutRecord, Go
  <2>2. CASE job[t].kind # "append"
    <3>1. lsn \in Int \X Int /\ "commit" \in Whys
      BY RegionTypes DEF Whys
    <3>2. PICK j \in Jobs : /\ j = Call(job[t].kind, lsn, lsn, "commit")
                            /\ j.kind = job[t].kind /\ j.to = lsn /\ j.rec = lsn
                            /\ j.why = "commit"
      BY <1>2, <3>1, CallType
    <3>3. job' = [job EXCEPT ![t] = j]
      BY <2>2, <3>2 DEF PutRecord
    <3>4. \E p \in {"writeout", "enter"} : pc' = [pc EXCEPT ![t] = p]
      BY <2>2 DEF PutRecord, Go
    <3> QED BY <3>2, <3>3, <3>4
  <2> QED BY <2>1, <2>2
<1>4. /\ pc' \in [Threads -> PcStates] /\ job' \in [Threads -> Jobs]
      /\ \A u \in Threads \ {t} : pc'[u] = pc[u] /\ job'[u] = job[u]
      /\ pc'[t] = p /\ job'[t] = j
  BY <1>3 DEF Control, Shape, PcStates
<1>5. /\ lsn' \in Nat \X Nat /\ lsn'[1] = lsn[1] /\ lsn'[2] = lsn[2] + RecLen
      /\ lsn[1] \in Nat /\ lsn[2] \in Nat /\ RecLen \in Nat /\ RecLen > 0
  BY <1>1, RegionTypes
<1>6. /\ bOff' \in 0 .. BufSize - 1 /\ wOff' \in Nat /\ wOff' + bOff' = lsn'[2] /\ wOff' >= wOff
      /\ Overfull => wOff' >= lsn[2] /\ wOff' + bOff' = lsn[2] + RecLen
      /\ ~Overfull => bOff' = bOff + RecLen /\ wOff' = wOff
  BY <1>1, <1>5, LenAssumption DEF Region, Overfull
<1>7. Region'
  <2>1. lsn' \in Files \X Offsets
    BY <1>1, <1>2, RegionTypes, OffsetFacts
  <2>2. fLsn' \in ({0} \cup Files) \X Offsets
    BY <1>1, RegionTypes DEF Region
  <2>3. fLsn'[1] = lsn'[1]
    BY <1>1, <1>5 DEF Region
  <2>4. bOff' # 0 => fLsn'[2] <= wOff' /\ wOff' < fLsn'[2] + RecLen
    <3>1. CASE Overfull /\ bOff' > 0
      BY <1>1, <1>5, <1>6, <3>1
    <3>2. CASE ~Overfull /\ bOff = 0
      BY <1>1, <1>5, <1>6, <3>2 DEF Region
    <3>3. CASE ~Overfull /\ bOff # 0
      BY <1>1, <1>6, <3>3 DEF Region
    <3> QED BY <1>6, <3>1, <3>2, <3>3
  <2>5. tLsn = <<1, 0>> \/ Before(tLsn, lsn)'
    BY <1>1, <1>5, RegionTypes DEF Region, Before
  <2> QED BY <1>1, <1>5, <1>6, <2>1, <2>2, <2>3, <2>4, <2>5, RegionTypes DEF Region
<1>8. SyncPlace'
  BY <1>1, <1>4, <1>5, <1>6, SyncPlaceKept
<1>9. Mode'
  BY <1>1, <1>3, <1>4, ModeStep DEF Control
<1>10. Calls'
  <2>1. CallOK(pc[t], job[t])'
    <3>1. CASE p = "idle"
      BY <1>3, <1>4, <3>1, IdleCallNext
    <3>2. CASE p # "idle"
      <4>1. lsn \in Slots
        BY <1>2, RegionTypes, SlotFacts, <1>5 DEF Region
      <4>2. Before(lsn, lsn')
        BY <1>5 DEF Before
      <4>3. j.to \in Slots /\ j.rec \in Slots /\ Before(j.to, lsn') /\ Before(j.rec, lsn')
        BY <1>3, <3>2, <4>1, <4>2
      <4> QED BY <1>3, <1>4, <3>2, <4>3 DEF CallOK, MarkOK, InCall, Flying, Before
    <3> QED BY <3>1, <3>2
  <2>2. \A u \in Threads \ {t} : CallOK(pc[u], job[u])'
    <3>1. lsn'[2] >= lsn[2]
      BY <1>5
    <3> QED BY <1>2, <1>4, <1>5, <1>6, <3>1, OthersKeep
  <2> QED BY <2>1, <2>2 DEF Calls
<1>11. Targets'
  BY <1>1, <1>4, TargetsKept
<1> QED BY <1>7, <1>8, <1>9, <1>10, <1>11

\* t_lsn covers the committer that joins and those that wait already.
LEMMA JoinLayout ==
    ASSUME Control, Layout, NEW t \in Threads, Join(t)
    PROVE  Layout'
<1> USE DEF Layout
<1>1. /\ pc[t] = "enter" /\ tLsn' = Goal(job[t].to) /\ commits' = InsertHead(commits, t)
      /\ UNCHANGED <<lsn, bOff, wOff, fLsn, sLsn, mtxFlush, designated, job, up>>
      /\ pc' = [pc EXCEPT ![t] = "wait"]
  BY DEF Join, Go, envVars
<1>2. /\ pc' \in [Threads -> PcStates] /\ job' \in [Threads -> Jobs]
      /\ \A u \in Threads \ {t} : pc'[u] = pc[u] /\ job'[u] = job[u]
      /\ pc'[t] = "wait" /\ job'[t] = job[t]
  BY <1>1 DEF Control, Shape, PcStates
<1> PICK j \in Jobs : j = job[t] /\ j = job'[t]
  BY <1>2
<1>3. CallOK("enter", j) /\ j.why # "switch"
  BY <1>1 DEF Calls, Control, Places, RoleOK
<1>4. j.to \in Slots /\ Before(j.to, lsn)
  BY <1>3 DEF CallOK, InCall
<1>5. tLsn' \in {tLsn, j.to} /\ ~Before(tLsn', j.to)
      /\ \A l \in Nat \X Nat : ~Before(tLsn, l) => ~Before(tLsn', l)
  <2>1. j.to \in Nat \X Nat /\ tLsn \in Nat \X Nat
    BY <1>4, SlotFacts, OffsetFacts, FileAssumption, RegionTypes
  <2>2. tLsn' = IF Before(tLsn, j.to) THEN j.to ELSE tLsn
    BY <1>1 DEF Goal
  <2> QED BY <2>1, <2>2 DEF Before
<1>6. Region'
  <2>1. tLsn' \in Slots /\ (tLsn' = <<1, 0>> \/ Before(tLsn', lsn'))
    BY <1>1, <1>4, <1>5 DEF Region
  <2> QED BY <1>1, <2>1 DEF Region, Before
<1>7. SyncPlace'
  <2>1. lsn' \in Nat \X Nat /\ lsn'[1] = lsn[1] /\ wOff' \in Nat /\ wOff' >= wOff
    BY <1>1, RegionTypes
  <2> QED BY <1>1, <1>2, <2>1, SyncPlaceKept
<1>8. Mode'
  BY <1>1, <1>2, ModeStep DEF Control
<1>9. Calls'
  <2>1. CallOK(pc[t], job[t])'
    <3>1. CallOK("wait", j)
      BY <1>3 DEF CallOK, InCall, Flying
    <3>2. CallOK("wait", j)'
      BY <1>1, <3>1 DEF CallOK, MarkOK, NextFileReady, LastLsn
    <3> QED BY <1>2, <3>2 DEF CallOK, MarkOK
  <2>2. \A u \in Threads \ {t} : CallOK(pc[u], job[u])'
    BY <1>1, <1>2, RegionTypes, OthersKeep
  <2> QED BY <2>1, <2>2 DEF Calls
<1>10. Targets'
  <2>1. Listed' = Listed \cup {t}
    BY <1>1, InsertHeadType DEF Listed, Control, Shape
  <2>2. \A v \in Listed \cup designated :
          /\ v \in Threads /\ job[v].to \in Nat \X Nat /\ ~Before(tLsn, job[v].to)
    <3> SUFFICES ASSUME NEW v \in Listed \cup designated
                 PROVE  v \in Threads /\ job[v].to \in Nat \X Nat
      BY DEF Targets
    <3>1. v \in Threads /\ pc[v] = "wait"
      BY DEF Control, Waiters, Shape, Listed, IsList
    <3>2. job[v].to \in Slots
      BY <3>1 DEF Calls, CallOK, InCall
    <3> QED BY <3>1, <3>2, SlotFacts, OffsetFacts, FileAssumption
  <2>3. \A v \in (Listed \cup designated)' : ~Before(tLsn', job[v].to)
    BY <1>1, <1>5, <2>1, <2>2
  <2> QED BY <1>1, <2>3 DEF Targets, Before
<1> QED BY <1>6, <1>7, <1>8, <1>9, <1>10

\* A flush that is to be made finds the buffer's first record in this file.
LEMMA FlushHere ==
    ASSUME Control, Layout, NEW t \in Threads, pc[t] = "flush", ~AlreadyFlushed(job[t].to)
    PROVE  fLsn[1] = lsn[1]
<1> SUFFICES ASSUME fLsn[1] # lsn[1] PROVE FALSE
  OBVIOUS
<1>1. lsn[2] = 0 \/ sLsn = lsn
  BY DEF Layout, Region
<1>2. job[t].to \in Slots /\ Before(job[t].to, lsn)
  BY DEF Layout, Calls, CallOK, InCall
<1>3. job[t].to \in Nat \X Nat /\ job[t].to[1] >= 1
  BY <1>2, SlotFacts, OffsetFacts, FileAssumption
<1>4. lsn[2] = 0 => lsn[1] = 1
  BY DEF Layout, Region
<1> QED BY <1>1, <1>2, <1>3, <1>4, RegionTypes DEF AlreadyFlushed, Before, Layout

\* The mark is where the records that are written end: the end of the log if
\* the buffer is empty, else the first record with a unit in the buffer.
LEMMA MarkPlace ==
    ASSUME Control, Layout, NEW t \in Threads, FlushStart(t)
    PROVE  /\ job' \in [Threads -> Jobs] /\ \A u \in Threads \ {t} : job'[u] = job[u]
           /\ job'[t].kind = job[t].kind /\ job'[t].why = job[t].why
           /\ job'[t].rec = job[t].rec /\ job'[t].to = job[t].to
           /\ job'[t].ok = job[t].ok
           /\ fLsn[1] = lsn[1] /\ lsn' = lsn
           /\ \/ bOff' = 0 /\ wOff' = lsn[2] /\ job'[t].mark = lsn
              \/ /\ bOff # 0 /\ bOff' = bOff /\ wOff' = wOff /\ job'[t].mark = fLsn
                 /\ Before(job[t].to, fLsn)
<1> USE DEF Layout
<1>1. PICK n \in {0, bOff} : n = IF MustWrite(job[t].to) THEN bOff ELSE 0
  OBVIOUS
<1>2. /\ pc[t] = "flush" /\ bOff' = bOff - n /\ wOff' = wOff + n /\ lsn' = lsn
      /\ job' = [job EXCEPT ![t].mark = SyncPoint(bOff - n, wOff + n, fLsn)]
  BY <1>1 DEF FlushStart
<1>3. fLsn[1] = lsn[1]
  BY FlushHere DEF FlushStart
<1>4. /\ bOff \in Nat /\ wOff \in Nat /\ wOff + bOff = lsn[2] /\ lsn = <<lsn[1], lsn[2]>>
      /\ fLsn \in Nat \X Nat /\ lsn[1] \in Nat /\ lsn[2] \in Nat
  BY RegionTypes DEF Region
<1>5. PICK m \in Int \X Int : m = SyncPoint(bOff - n, wOff + n, fLsn)
  BY <1>3, <1>4 DEF SyncPoint
<1>6. job' = [job EXCEPT ![t].mark = m]
  BY <1>2, <1>5
<1>7. \/ bOff' = 0 /\ wOff' = lsn[2] /\ m = lsn
      \/ bOff # 0 /\ bOff' = bOff /\ wOff' = wOff /\ m = fLsn /\ Before(job[t].to, fLsn)
  BY <1>1, <1>2, <1>3, <1>4, <1>5 DEF SyncPoint, MustWrite
<1>8. /\ job' \in [Threads -> Jobs] /\ \A u \in Threads \ {t} : job'[u] = job[u]
      /\ job'[t].kind = job[t].kind /\ job'[t].why = job[t].why
      /\ job'[t].rec = job[t].rec /\ job'[t].to = job[t].to
      /\ job'[t].mark = m /\ job'[t].ok = job[t].ok
  BY <1>6, JobMark DEF Control
<1> QED BY <1>2, <1>3, <1>7, <1>8

LEMMA FlushStartLayout ==
    ASSUME Control, Layout, NEW t \in Threads, FlushStart(t)
    PROVE  Layout'
<1> USE DEF Layout
<1>1. /\ pc[t] = "flush" /\ mtxFlush = None /\ mtxFlush' = t
      /\ UNCHANGED <<lsn, fLsn, tLsn, sLsn, commits, designated, up>>
      /\ pc' = [pc EXCEPT ![t] = "sync"]
  BY DEF FlushStart, FlushMutexFree, Go, envVars
<1>2. /\ job' \in [Threads -> Jobs] /\ \A u \in Threads \ {t} : job'[u] = job[u]
      /\ job'[t].kind = job[t].kind /\ job'[t].why = job[t].why
      /\ job'[t].rec = job[t].rec /\ job'[t].to = job[t].to
  BY MarkPlace
<1>3. /\ fLsn[1] = lsn[1]
      /\ \/ bOff' = 0 /\ wOff' = lsn[2] /\ job'[t].mark = lsn
         \/ /\ bOff # 0 /\ bOff' = bOff /\ wOff' = wOff /\ job'[t].mark = fLsn
            /\ Before(job[t].to, fLsn)
  BY MarkPlace
<1>4. /\ pc' \in [Threads -> PcStates] /\ pc'[t] = "sync"
      /\ \A u \in Threads \ {t} : pc'[u] = pc[u]
  BY <1>1 DEF Control, Shape, PcStates
<1>5. /\ lsn \in Nat \X Nat /\ fLsn \in Nat \X Nat /\ wOff \in Nat /\ bOff \in Nat
      /\ wOff + bOff = lsn[2] /\ RecLen \in Nat /\ RecLen > 0
      /\ lsn[2] \in Offsets /\ fLsn[2] \in Offsets /\ Offsets \subseteq Nat
      /\ sLsn[1] \in Nat /\ sLsn[2] \in Offsets
      /\ bOff # 0 => fLsn[2] <= wOff /\ wOff < fLsn[2] + RecLen
  BY RegionTypes, OffsetFacts, FileAssumption DEF Region, SyncPlace
<1>6. wOff' \in Nat /\ wOff' >= wOff /\ bOff' \in Nat /\ wOff' + bOff' = lsn[2]
  BY <1>3, <1>5
<1>7. Region'
  <2>1. bOff' \in 0 .. BufSize - 1
    BY <1>3, <1>5, LenAssumption DEF Region
  <2>2. bOff' # 0 => bOff # 0 /\ wOff' = wOff
    BY <1>3
  <2>4. bOff' # 0 => fLsn[2] <= wOff' /\ wOff' < fLsn[2] + RecLen
    BY <1>5, <2>2
  <2>3. tLsn \in Slots /\ (tLsn = <<1, 0>> \/ Before(tLsn, lsn))
    BY DEF Region
  <2> QED BY <1>1, <1>3, <1>6, <2>1, <2>4, <2>3 DEF Region, Before
<1>8. PICK j \in Jobs : j = job'[t]
  BY <1>2
<1>9. CallOK("flush", job[t]) /\ region = t
  BY <1>1 DEF Calls, Control, Places, HoldsRegion
<1>10. j.mark[1] = lsn[1] /\ j.mark[2] \in Offsets /\ j.mark[2] <= wOff' /\ Before(j.to, j.mark)
  <2>1. Before(job[t].to, lsn)
    BY <1>9 DEF CallOK, InCall
  <2>2. CASE bOff' = 0 /\ wOff' = lsn[2] /\ job'[t].mark = lsn
    BY <1>2, <1>5, <1>8, <2>1, <2>2
  <2>3. CASE /\ bOff # 0 /\ bOff' = bOff /\ wOff' = wOff /\ job'[t].mark = fLsn
             /\ Before(job[t].to, fLsn)
    BY <1>2, <1>3, <1>5, <1>8, <2>3
  <2> QED BY <1>3, <2>2, <2>3
<1>11. ~Before(j.mark, sLsn)
  <2>1. sLsn[1] < lsn[1] \/ (sLsn[1] = lsn[1] /\ sLsn[2] <= wOff)
    BY <1>1, SyncedWritten
  <2>2. sLsn[2] \in Nat
    BY <1>5
  <2>3. CASE wOff' = lsn[2] /\ job'[t].mark = lsn
    BY <1>5, <1>6, <1>8, <2>1, <2>2, <2>3 DEF Before
  <2>4. CASE bOff # 0 /\ job'[t].mark = fLsn
    <3>1. sLsn[1] = lsn[1] => sLsn[2] <= fLsn[2]
      <4>1. fLsn[2] < sLsn[2] => fLsn[2] + RecLen <= sLsn[2]
        BY <1>5, OffsetFacts
      <4> QED BY <1>5, <2>1, <2>2, <2>4, <4>1
    <3> QED BY <1>3, <1>5, <1>8, <2>1, <2>2, <2>4, <3>1 DEF Before
  <2> QED BY <1>3, <2>3, <2>4
<1>12. SyncPlace'
  <2>1. \A u \in Threads \ {t} : pc'[u] \notin {"sync", "store"}
    BY <1>1, <1>4, ThreadAssumption DEF Control, Places, HoldsFlush
  <2>2. sLsn[1] < lsn[1] \/ (sLsn[1] = lsn[1] /\ sLsn[2] <= wOff)
    BY <1>1, SyncedWritten
  <2>3. sLsn[1] < lsn[1] \/ (sLsn[1] = lsn[1] /\ sLsn[2] <= wOff')
    <3>1. sLsn[2] \in Nat /\ wOff \in Nat /\ wOff' \in Nat /\ wOff' >= wOff
      BY <1>5, <1>6
    <3> QED BY <2>2, <3>1
  <2>4. \A u \in Threads : pc'[u] = "sync" => ~Before(job'[u].mark, sLsn)
    BY <1>8, <1>11, <2>1
  <2>5. \A u \in Threads : pc'[u] # "store"
    BY <1>4, <2>1
  <2> QED BY <1>1, <2>3, <2>4, <2>5 DEF SyncPlace, Before
<1>13. Mode'
  BY <1>1, <1>2, <1>4, ModeStep DEF Control
<1>14. Calls'
  <2>1. j.why = "switch" => bOff' = 0
    <3>1. j.why = "switch" => NextFileReady /\ j.to = LastLsn
      BY <1>2, <1>8, <1>9 DEF CallOK
    <3>2. bOff # 0 => fLsn[2] + RecLen <= lsn[2]
      BY <1>5, OffsetFacts
    <3> QED BY <1>2, <1>3, <1>5, <1>8, <3>1, <3>2 DEF LastLsn, Before
  <2>2. CallOK("sync", j)'
    <3>1. j.to \in Slots /\ Before(j.to, lsn)
      BY <1>2, <1>8, <1>9 DEF CallOK, InCall
    <3>2. j.why # "switch" => j.rec \in Slots /\ Before(j.rec, lsn)
      BY <1>2, <1>8, <1>9 DEF CallOK, InCall
    <3>3. j.why = "switch" => NextFileReady /\ j.to = LastLsn
      BY <1>2, <1>8, <1>9 DEF CallOK
    <3>4. NextFileReady' = NextFileReady /\ LastLsn' = LastLsn
      BY <1>1 DEF NextFileReady, LastLsn
    <3>5. Before(j.to, lsn') /\ (j.why # "switch" => Before(j.rec, lsn'))
      BY <1>1, <3>1, <3>2
    <3>6. MarkOK(j)'
      BY <1>1, <1>10 DEF MarkOK, Before
    <3> QED BY <2>1, <3>1, <3>2, <3>3, <3>4, <3>5, <3>6 DEF CallOK, Before
  <2>3. CallOK(pc[t], job[t])'
    BY <1>4, <1>8, <2>2 DEF CallOK, MarkOK
  <2>4. \A u \in Threads \ {t} : CallOK(pc[u], job[u])'
    BY <1>1, <1>2, <1>4, <1>5, <1>6, <1>9, OthersKeep
  <2> QED BY <2>3, <2>4 DEF Calls
<1>15. Targets'
  BY <1>1, <1>2, TargetsKept
<1> QED BY <1>7, <1>12, <1>13, <1>14, <1>15

\* Whoever holds mtx_flush is the only one to sync.
LEMMA OneSyncer ==
    ASSUME Control, Layout, NEW t \in Threads, pc[t] \in {"sync", "store"}
    PROVE  /\ mtxFlush = t /\ fLsn[1] = lsn[1] /\ up # "panic" /\ CallOK(pc[t], job[t])
           /\ MarkOK(job[t])
           /\ job[t].mark \in Nat \X Offsets /\ job[t].mark[1] \in Files
           /\ \A u \in Threads \ {t} : pc[u] \notin {"sync", "store"}
<1> USE DEF Layout
<1>1. mtxFlush = t /\ \A u \in Threads \ {t} : pc[u] \notin {"sync", "store"}
  BY DEF Control, Places, HoldsFlush
<1>2. fLsn[1] = lsn[1] /\ up # "panic"
  BY <1>1, ThreadAssumption DEF Region, Mode
<1>3. CallOK(pc[t], job[t]) /\ MarkOK(job[t])
  BY DEF Calls, CallOK
<1>4. job[t].mark \in Nat \X Offsets /\ job[t].mark[1] \in Files
  <2>1. job[t].mark \in Int \X Int
    BY DEF Control, Shape, Jobs
  <2> QED BY <1>3, <2>1, RegionTypes DEF MarkOK
<1> QED BY <1>1, <1>2, <1>3, <1>4

LEMMA SyncLayout ==
    ASSUME Control, Layout, NEW t \in Threads, Sync(t)
    PROVE  Layout'
<1> USE DEF Layout
<1>1. /\ pc[t] = "sync" /\ pc' = [pc EXCEPT ![t] = "store"]
      /\ sLsn' = <<job[t].mark[1], IF SplitStores THEN sLsn[2] ELSE job[t].mark[2]>>
      /\ UNCHANGED <<lsn, bOff, wOff, fLsn, tLsn, commits, mtxFlush, designated, job, up>>
  BY DEF Sync, regionVars, mutexVars, envVars, Go
<1>2. /\ pc' \in [Threads -> PcStates] /\ pc'[t] = "store" /\ job' \in [Threads -> Jobs]
      /\ \A u \in Threads \ {t} : pc'[u] = pc[u] /\ job'[u] = job[u]
  BY <1>1 DEF Control, Shape, PcStates
<1> PICK j \in Jobs : j = job[t] /\ j = job'[t]
  BY <1>1 DEF Control, Shape
<1>3. /\ mtxFlush = t /\ fLsn[1] = lsn[1] /\ up # "panic" /\ CallOK("sync", j) /\ MarkOK(j)
      /\ j.mark \in Nat \X Offsets /\ j.mark[1] \in Files
      /\ \A u \in Threads \ {t} : pc[u] \notin {"sync", "store"}
  BY <1>1, OneSyncer
<1>4. Region'
  BY <1>1, <1>3 DEF Region, Before
<1>5. SyncPlace'
  <2>1. sLsn' \in ({0} \cup Files) \X Offsets /\ sLsn'[1] # 0
    <3>1. sLsn[2] \in Offsets /\ j.mark[2] \in Offsets
      BY <1>3 DEF SyncPlace
    <3> QED BY <1>1, <1>3, <3>1, FileAssumption
  <2>2. WholeStores => ~Before(j.mark, sLsn')
    <3>0. /\ j.mark[1] \in Nat /\ j.mark[2] \in Nat /\ sLsn[1] \in Nat /\ sLsn[2] \in Nat
          /\ ~Before(j.mark, sLsn)
      BY <1>1, <1>3, OffsetFacts, FileAssumption DEF SyncPlace
    <3>1. CASE SplitStores = FALSE
      <4>1. sLsn' = <<j.mark[1], j.mark[2]>>
        BY <1>1, <3>1
      <4> QED BY <3>0, <4>1 DEF Before
    <3>2. CASE Files = {1} /\ SplitStores
      <4>1. sLsn' = <<1, sLsn[2]>> /\ j.mark[1] = 1
        BY <1>1, <1>3, <3>2
      <4>2. sLsn[1] = 1 \/ sLsn[2] = 0
        BY <3>2 DEF SyncPlace, ZeroLsn
      <4> QED BY <3>0, <4>1, <4>2 DEF Before
    <3> QED BY <3>1, <3>2, ThreadAssumption DEF WholeStores
  <2>3. \A u \in Threads \ {t} : pc'[u] \notin {"sync", "store"}
    BY <1>2, <1>3
  <2>4. \A u \in Threads : pc'[u] # "sync"
    BY <1>2, <2>3
  <2>5. \A u \in Threads : pc'[u] = "store" /\ WholeStores => ~Before(job'[u].mark, sLsn')
    BY <1>2, <2>2, <2>3
  <2> QED BY <1>1, <1>2, <2>1, <2>4, <2>5 DEF SyncPlace, WholeStores, Before
<1>6. Mode'
  BY <1>1, <1>2, ModeStep DEF Control
<1>7. Calls'
  <2>1. CallOK("store", j)
    BY <1>3 DEF CallOK, InCall, Flying
  <2>2. CallOK("store", j)'
    BY <1>1, <2>1 DEF CallOK, MarkOK, NextFileReady, LastLsn
  <2>3. CallOK(pc[t], job[t])'
    BY <1>2, <2>2 DEF CallOK, MarkOK
  <2>4. \A u \in Threads \ {t} : CallOK(pc[u], job[u])'
    BY <1>1, <1>2, RegionTypes, OthersKeep
  <2> QED BY <2>3, <2>4 DEF Calls
<1>8. Targets'
  BY <1>1, <1>2, TargetsKept
<1> QED BY <1>4, <1>5, <1>6, <1>7, <1>8

LEMMA StoreOffsetLayout ==
    ASSUME Control, Layout, NEW t \in Threads, StoreOffset(t)
    PROVE  Layout'
<1> USE DEF Layout
<1>1. /\ pc[t] = "store" /\ pc' = [pc EXCEPT ![t] = "synced"]
      /\ sLsn' = job[t].mark /\ mtxFlush' = None
      /\ UNCHANGED <<lsn, bOff, wOff, fLsn, tLsn, commits, designated, up>>
  BY DEF StoreOffset, regionVars, envVars, Go
<1>2. /\ job' \in [Threads -> Jobs] /\ \A u \in Threads \ {t} : job'[u] = job[u]
      /\ job'[t].kind = job[t].kind /\ job'[t].why = job[t].why
      /\ job'[t].rec = job[t].rec /\ job'[t].to = job[t].to
  BY JobSynced DEF StoreOffset, Control
<1>3. /\ pc' \in [Threads -> PcStates] /\ pc'[t] = "synced"
      /\ \A u \in Threads \ {t} : pc'[u] = pc[u]
  BY <1>1 DEF Control, Shape, PcStates
<1> PICK i \in Jobs : i = job[t]
  BY DEF Control, Shape
<1> PICK j \in Jobs : j = job'[t]
  BY <1>2
<1>4. /\ fLsn[1] = lsn[1] /\ CallOK("store", i) /\ MarkOK(i)
      /\ i.mark \in Nat \X Offsets /\ i.mark[1] \in Files
      /\ \A u \in Threads \ {t} : pc[u] \notin {"sync", "store"}
  BY <1>1, OneSyncer
<1>5. Region'
  BY <1>1, <1>4 DEF Region, Before
<1>6. SyncPlace'
  <2>1. sLsn' \in ({0} \cup Files) \X Offsets /\ sLsn'[1] # 0
    BY <1>1, <1>4, FileAssumption
  <2>2. sLsn'[1] = lsn[1] /\ sLsn'[2] <= wOff
    BY <1>1, <1>4 DEF MarkOK
  <2>3. \A u \in Threads : pc'[u] \notin {"sync", "store"}
    BY <1>3, <1>4
  <2> QED BY <1>1, <2>1, <2>2, <2>3 DEF SyncPlace
<1>7. Mode'
  BY <1>1, <1>2, <1>3, ModeStep DEF Control
<1>8. Calls'
  <2>1. CallOK(pc[t], job[t])'
    <3>1. j.to \in Slots /\ Before(j.to, lsn)
      BY <1>2, <1>4 DEF CallOK, InCall, Flying
    <3>2. j.why # "switch" => j.rec \in Slots /\ Before(j.rec, lsn)
      BY <1>2, <1>4 DEF CallOK, InCall, Flying
    <3>3. j.why = "switch" => NextFileReady /\ j.to = LastLsn /\ bOff = 0
      BY <1>2, <1>4 DEF CallOK, Flying
    <3>4. NextFileReady' = NextFileReady /\ LastLsn' = LastLsn
      BY <1>1 DEF NextFileReady, LastLsn
    <3>5. CallOK("synced", j)'
      BY <1>1, <3>1, <3>2, <3>3, <3>4 DEF CallOK, InCall, Flying, Before
    <3> QED BY <1>3, <3>5 DEF CallOK, MarkOK
  <2>2. \A u \in Threads \ {t} : CallOK(pc[u], job[u])'
    BY <1>1, <1>2, <1>3, RegionTypes, OthersKeep
  <2> QED BY <2>1, <2>2 DEF Calls
<1>9. Targets'
  BY <1>1, <1>2, TargetsKept
<1> QED BY <1>5, <1>6, <1>7, <1>8, <1>9

\* Nobody in a call: what is left are the region's words.
StoredPlace ==
    /\ sLsn \in ({0} \cup Files) \X Offsets /\ (sLsn[1] = 0 => sLsn = ZeroLsn)
    /\ up # "panic" => sLsn[1] < lsn[1] \/ (sLsn[1] = lsn[1] /\ sLsn[2] <= wOff)
    /\ up \in {"up", "recovering", "panic"}

LEMMA NobodyLayout == Nobody /\ Region /\ StoredPlace => Layout
<1> SUFFICES ASSUME Nobody, Region, StoredPlace PROVE Layout
  OBVIOUS
<1>1. \A t \in Threads : pc[t] = "idle" /\ job[t] = NoJob
  BY DEF Nobody
<1>2. Listed = {} /\ designated = {}
  BY EmptyListType DEF Listed, Nobody
<1>3. SyncPlace
  BY <1>1 DEF SyncPlace, StoredPlace
<1>4. Mode
  BY <1>1, NoJobType DEF Mode, StoredPlace
<1>5. Calls
  BY <1>1, IdleCall DEF Calls
<1> QED BY <1>2, <1>3, <1>4, <1>5 DEF Layout, Targets

LEMMA NobodyLayoutNext == Nobody' /\ Region' /\ StoredPlace' => Layout'
BY NobodyLayout, PTL

LEMMA InitLayout == Init => Nobody /\ Region /\ StoredPlace
<1> SUFFICES ASSUME Init PROVE Nobody /\ Region /\ StoredPlace
  OBVIOUS
<1>1. Nobody
  BY DEF Init, Nobody
<1>2. ZeroLsn = <<0, 0>> /\ 0 \in Offsets /\ 1 \in Files /\ <<1, 0>> \in Slots
  BY OffsetFacts, SlotFacts, FileAssumption DEF ZeroLsn
<1>3. Region
  BY <1>2, LenAssumption DEF Init, Region
<1>4. StoredPlace
  BY <1>2 DEF Init, StoredPlace
<1> QED BY <1>1, <1>3, <1>4

LEMMA AbortPanicsLayout ==
    ASSUME Control, Layout, NEW t \in Threads, AbortPanics(t)
    PROVE  Layout'
<1>1. Nobody' /\ up' = "panic"
  BY DEF AbortPanics, Panic, Nobody
<1>2. UNCHANGED <<lsn, bOff, wOff, fLsn, tLsn, sLsn>>
  BY DEF AbortPanics
<1>3. Region'
  BY <1>1, <1>2 DEF Layout, Region, Nobody, Before
<1>4. StoredPlace'
  BY <1>1, <1>2 DEF Layout, SyncPlace, StoredPlace
<1> QED BY <1>1, <1>3, <1>4, NobodyLayoutNext

\* Recovery ends the log at the end of a record, or at its beginning.
LEMMA LogEndPlace ==
    ASSUME NEW c
    PROVE  /\ LogEnd(c) \in Files \X Offsets
           /\ LogEnd(c)[2] = 0 => LogEnd(c)[1] = 1
<1> DEFINE F == {f \in Files : Readable(c[<<f, 0>>])}
           last == CHOOSE f \in F : \A g \in F : g <= f
           bad == {k \in 0 .. FileSize : <<last, k>> \in Slots /\ ~Readable(c[<<last, k>>])}
           first == CHOOSE k \in bad : \A j \in bad : k <= j
<1>1. LogEnd(c) = IF F = {} THEN <<1, 0>> ELSE <<last, IF bad = {} THEN FileSize ELSE first>>
  BY DEF LogEnd
<1>2. CASE F = {}
  BY <1>1, <1>2, OffsetFacts, FileAssumption
<1>3. CASE F # {}
  <2>1. last \in F
    <3>1. F \subseteq Nat /\ IsFiniteSet(F)
      BY FileAssumption, FS_Subset
    <3> HIDE DEF F
    <3>2. \E f \in F : \A g \in F : g <= f
      BY <1>3, <3>1, GreatestNat
    <3> QED BY <3>2
  <2>2. last \in Files /\ Readable(c[<<last, 0>>])
    BY <2>1
  <2> HIDE DEF last
  <2>3. bad # {} => first \in bad
    <3> SUFFICES ASSUME bad # {} PROVE first \in bad
      OBVIOUS
    <3>1. bad \subseteq Nat
      OBVIOUS
    <3> HIDE DEF bad
    <3>2. \E k \in bad : \A j \in bad : k <= j
      BY <3>1, LeastNat
    <3> QED BY <3>2
  <2>4. FileSize \in Offsets /\ FileSize # 0
    BY OffsetFacts, LenAssumption
  <2>5. bad # {} => first \in Offsets /\ first # 0
    <3> SUFFICES ASSUME bad # {} PROVE first \in Offsets /\ first # 0
      OBVIOUS
    <3>1. PICK k \in bad : k = first
      BY <2>3
    <3>2. <<last, k>> \in Slots /\ ~Readable(c[<<last, k>>])
      OBVIOUS
    <3>3. k \in Offsets
      BY <3>2, SlotFacts
    <3> HIDE DEF bad, first
    <3> QED BY <3>1, <3>2, <3>3, <2>2
  <2> HIDE DEF F, bad, first
  <2> QED BY <1>1, <1>3, <2>2, <2>4, <2>5
<1> QED BY <1>2, <1>3

LEMMA RestartLayout ==
    ASSUME NEW c, NEW d, Restart(c, d)
    PROVE  Layout'
<1> DEFINE end == LogEnd(c)
<1>1. /\ lsn' = end /\ sLsn' = (IF end[2] = 0 THEN ZeroLsn ELSE end)
      /\ bOff' = 0 /\ wOff' = end[2] /\ fLsn' = ZeroLsn /\ tLsn' = <<1, 0>>
      /\ mtxFlush' = None /\ up' \in {"up", "recovering"}
  BY DEF Restart
<1>2. Nobody'
  BY DEF Restart, Nobody
<1>3. end \in Files \X Offsets /\ (end[2] = 0 => end[1] = 1)
  BY LogEndPlace
<1>4. ZeroLsn = <<0, 0>> /\ 0 \in Offsets /\ 0 \notin Files /\ <<1, 0>> \in Slots
      /\ Offsets \subseteq Nat /\ Files \subseteq Nat
  BY OffsetFacts, SlotFacts, FileAssumption DEF ZeroLsn
<1> HIDE DEF end
<1>5. Region'
  <2>0. end[1] \in Files /\ end[2] \in Offsets
    BY <1>3
  <2>1. 0 \in 0 .. BufSize - 1 /\ end[2] \in Nat /\ end[1] # 0
    <3>1. 0 \in 0 .. BufSize - 1
      BY LenAssumption
    <3>2. end[2] \in Nat /\ end[1] # 0
      BY <1>4, <2>0
    <3> QED BY <3>1, <3>2
  <2>2. fLsn'[1] = 0 /\ fLsn'[2] = 0 /\ fLsn' \in ({0} \cup Files) \X Offsets
    BY <1>1, <1>4
  <2> QED BY <1>1, <1>3, <1>4, <2>1, <2>2 DEF Region
<1>6. StoredPlace'
  BY <1>1, <1>3, <1>4 DEF StoredPlace
<1> QED BY <1>2, <1>5, <1>6, NobodyLayoutNext

-----------------------------------------------------------------------------
(* Every step keeps the control and the layout.                            *)

\* The variables they are about.
placeVars == <<lsn, bOff, wOff, fLsn, sLsn, tLsn, inFlush, commits, region, mtxFlush,
               designated, woken, pc, job, up>>

LEMMA SamePlace ==
    ASSUME Control, Layout, UNCHANGED placeVars
    PROVE  Control' /\ Layout'
<1> USE DEF placeVars
<1>1. Control'
  BY DEF Control, Shape, Places, Waiters, FlushComing, InFlushExact, Listed
<1>2. Listed' = Listed /\ NextFileReady' = NextFileReady /\ LastLsn' = LastLsn
  BY DEF Listed, NextFileReady, LastLsn
<1>3. Region' /\ SyncPlace' /\ Mode' /\ Targets'
  BY <1>2 DEF Layout, Region, SyncPlace, Mode, Targets, Before, WholeStores
<1>4. Calls'
  <2> SUFFICES ASSUME NEW u \in Threads PROVE CallOK(pc[u], job[u])'
    BY DEF Calls
  <2> PICK p \in PcStates : p = pc[u] /\ p = pc'[u]
    BY DEF Control, Shape
  <2> PICK j \in Jobs : j = job[u] /\ j = job'[u]
    BY DEF Control, Shape
  <2>1. CallOK(p, j)
    BY DEF Layout, Calls
  <2>2. CallOK(p, j)'
    BY <1>2, <2>1 DEF CallOK, MarkOK
  <2> QED BY <2>2 DEF CallOK, MarkOK
<1> QED BY <1>1, <1>3, <1>4 DEF Layout

LEMMA StepPlace ==
    ASSUME Control, Layout, NEW t \in Threads, Step(t)
    PROVE  Control' /\ Layout'
<1>0. /\ lsn \in Int \X Int /\ tLsn \in Int \X Int /\ fLsn \in Int \X Int
      /\ {bOff, wOff} \subseteq Int
  BY RegionTypes DEF Layout
<1>1. CASE NewFile(t)
  BY <1>1, NewFileControl, NewFileLayout
<1>2. CASE PutRecord(t)
  BY <1>0, <1>2, PutRecordControl, PutRecordLayout
<1>3. CASE PutFails(t)
  BY <1>3, PutFailsControl, PutFailsLayout
<1>4. CASE WriteOut(t)
  BY <1>4, WriteOutControl, WriteOutLayout
<1>5. CASE WriteOutFails(t)
  BY <1>5, WriteOutFailsControl, WriteOutFailsLayout
<1>6. CASE TakeRegion(t)
  BY <1>6, TakeRegionControl, TakeRegionLayout
<1>7. CASE EnterFlushed(t)
  BY <1>7, EnterFlushedControl, EnterFlushedLayout
<1>8. CASE Join(t)
  BY <1>8, JoinControl, JoinLayout
<1>9. CASE Lead(t)
  BY <1>9, LeadControl, LeadLayout
<1>10. CASE Wake(t)
  BY <1>0, <1>10, WakeControl, WakeLayout
<1>11. CASE FlushSkipped(t)
  BY <1>11, FlushSkippedControl, FlushSkippedLayout
<1>12. CASE FlushStart(t)
  BY <1>0, <1>12, FlushStartControl, FlushStartLayout
<1>13. CASE FlushWriteFails(t)
  BY <1>13, FlushWriteFailsControl, FlushWriteFailsLayout
<1>14. CASE Sync(t)
  BY <1>14, SyncControl, SyncLayout
<1>15. CASE StoreOffset(t)
  BY <1>15, StoreOffsetControl, StoreOffsetLayout
<1>16. CASE SyncFails(t)
  BY <1>16, SyncFailsControl, SyncFailsLayout
<1>17. CASE FlushDone(t)
  BY <1>17, FlushDoneControl, FlushDoneLayout
<1>18. CASE FailureIgnored(t)
  BY <1>18, FailureIgnoredControl, FailureIgnoredLayout
<1>19. CASE AbortInBuffer(t)
  BY <1>19, AbortInBufferControl, AbortInBufferLayout
<1>20. CASE AbortInFile(t)
  BY <1>20, AbortInFileControl, AbortInFileLayout
<1>21. CASE AbortPanics(t)
  BY <1>21, AbortPanicsControl, AbortPanicsLayout
<1> QED BY <1>1, <1>2, <1>3, <1>4, <1>5, <1>6, <1>7, <1>8, <1>9, <1>10, <1>11,
           <1>12, <1>13, <1>14, <1>15, <1>16, <1>17, <1>18, <1>19, <1>20, <1>21
        DEF Step

LEMMA NextPlace ==
    ASSUME Control, Layout, Next
    PROVE  Control' /\ Layout'
<1>0. lsn \in Int \X Int /\ RecLen \in Int /\ Slots \subseteq Int \X Int
  BY RegionTypes, SlotFacts, OffsetFacts, FileAssumption DEF Layout
<1>1. CASE \E t \in Threads, k \in Kinds \cup {"ckp"} : Enter(t, k)
  BY <1>0, <1>1, EnterControl, EnterLayout
<1>2. CASE \E t \in Threads, r \in Slots : ApiFlush(t, r)
  BY <1>0, <1>2, ApiFlushControl, ApiFlushLayout
<1>3. CASE \E t \in Threads : Step(t)
  BY <1>3, StepPlace
<1>4. CASE AppCrash
  BY <1>4, RestartControl, RestartLayout DEF AppCrash
<1>5. CASE SystemCrash
  <2>1. PICK f \in Survivals :
          LET c == [s \in Slots |-> IF s \in Unsure THEN f[s] ELSE CHOOSE x \in disk[s] : TRUE]
          IN Restart(c, [s \in Slots |-> {c[s]}])
    BY <1>5 DEF SystemCrash
  <2> QED BY <2>1, RestartControl, RestartLayout
<1> QED BY <1>1, <1>2, <1>3, <1>4, <1>5 DEF Next

(***************************************************************************)
(* The records.                                                            *)
(***************************************************************************)

\* What the operating system holds is one of the things a crash may leave.
Kept ==
    /\ os \in [Slots -> Contents] /\ disk \in [Slots -> SUBSET Contents]
    /\ syncing \subseteq Slots
    /\ \A s \in Slots : os[s] \in disk[s]

Told == promised \subseteq Slots /\ wrote \subseteq Slots

Records ==
    mem \in [Slots -> Contents] /\ Kept /\ Told /\ failures \in Nat /\ crashes \in Nat

LEMMA ReachKept ==
    ASSUME Kept, NEW R, NEW m \in [Slots -> Contents], Reach(R, m)
    PROVE  Kept'
BY DEF Kept, Reach

\* The record of a call that puts one, or flushes for a page.
LEMMA CallRecord ==
    ASSUME Control, Layout, NEW t \in Threads, pc[t] \in InCall, job[t].why # "switch"
    PROVE  job[t].rec \in Slots
BY DEF Layout, Calls, CallOK

LEMMA ReturnTold ==
    ASSUME Told, NEW t, NEW told, Return(t, told),
           told \in {"flushed", "wrote"} => job[t].rec \in Slots
    PROVE  Told'
BY DEF Told, Return

LEMMA StepRecords ==
    ASSUME Control, Layout, Records, NEW t \in Threads, Step(t)
    PROVE  Records'
<1> USE DEF Records
<1>0. \A p \in {"writeout", "enter", "wait", "failed"} :
        pc[t] = p => p \in InCall /\ job[t].why # "switch"
  BY DEF Control, Places, RoleOK, InCall
<1>1. "rec" \in Contents /\ "abort" \in Contents /\ "bad" \in Contents
  BY DEF Contents
<1>2. CASE NewFile(t)
  <2>1. mem' \in [Slots -> Contents]
    BY <1>1, <1>2 DEF NewFile
  <2> QED BY <1>2, <2>1 DEF NewFile, envVars, toldVars, Kept, Told
<1>3. CASE PutRecord(t)
  <2>1. PICK m \in [Slots -> Contents] : m = [mem EXCEPT ![lsn] = "rec"]
    BY <1>1
  <2>2. mem' = m /\ (Reach(Completed(BufSize), m) \/ UNCHANGED <<os, disk, syncing>>)
    BY <1>3, <2>1 DEF PutRecord
  <2>3. Kept'
    BY <2>2, ReachKept DEF Kept
  <2> QED BY <1>3, <2>2, <2>3 DEF PutRecord, envVars, toldVars, Told
<1>4. CASE PutFails(t)
  <2>1. PICK m \in [Slots -> Contents] : m = [mem EXCEPT ![lsn] = "rec"]
    BY <1>1
  <2>2. Kept'
    BY <1>4, <2>1, ReachKept DEF PutFails, WriteFails
  <2> QED BY <1>4, <2>2 DEF PutFails, WriteFails, toldVars, Told
<1>5. CASE WriteOut(t)
  <2>1. job[t].rec \in Slots
    BY <1>0, <1>5, CallRecord DEF WriteOut
  <2>2. Kept' /\ Told'
    BY <1>5, <2>1, ReachKept, ReturnTold DEF WriteOut
  <2> QED BY <1>5, <2>2 DEF WriteOut
<1>6. CASE WriteOutFails(t)
  <2>1. Kept'
    BY <1>6, ReachKept DEF WriteOutFails, WriteFails
  <2> QED BY <1>6, <2>1 DEF WriteOutFails, WriteFails, toldVars, Told
<1>7. CASE EnterFlushed(t)
  <2>1. job[t].rec \in Slots
    BY <1>0, <1>7, CallRecord DEF EnterFlushed
  <2>2. Told'
    BY <1>7, <2>1, ReturnTold DEF EnterFlushed
  <2> QED BY <1>7, <2>2 DEF EnterFlushed, logVars, Kept
<1>8. CASE Wake(t)
  <2>1. job[t].rec \in Slots
    BY <1>0, <1>8, CallRecord DEF Wake
  <2>2. Told'
    <3>1. CASE t \in designated
      BY <1>8, <3>1 DEF Wake, toldVars, Told
    <3>2. CASE t \notin designated
      BY <1>8, <2>1, <3>2, ReturnTold DEF Wake
    <3> QED BY <3>1, <3>2
  <2> QED BY <1>8, <2>2 DEF Wake, logVars, Kept
<1>9. CASE FlushStart(t)
  <2>1. PICK R : /\ os' = [s \in Slots |-> IF s \in R THEN mem[s] ELSE os[s]]
                 /\ disk' = [s \in Slots |-> IF s \in R THEN disk[s] \cup {mem[s]} ELSE disk[s]]
                 /\ syncing' = {s \in Slots : s[1] = lsn[1] /\ os'[s] # "none"}
    BY <1>9, Zenon DEF FlushStart
  <2>2. Kept'
    BY <2>1 DEF Kept
  <2> QED BY <1>9, <2>2 DEF FlushStart, envVars, toldVars, Told
<1>10. CASE FlushWriteFails(t)
  <2>1. Kept'
    BY <1>10, ReachKept DEF FlushWriteFails, WriteFails
  <2> QED BY <1>10, <2>1 DEF FlushWriteFails, WriteFails, toldVars, Told
<1>11. CASE Sync(t)
  <2>1. Kept'
    BY <1>11 DEF Sync, Kept
  <2> QED BY <1>11, <2>1 DEF Sync, envVars, toldVars, Told
<1>12. CASE SyncFails(t)
  BY <1>12 DEF SyncFails, toldVars, Told, Kept
<1>13. CASE FlushDone(t)
  <2>1. \/ UNCHANGED toldVars
        \/ Return(t, "flushed") /\ job[t].why \in {"commit", "api"}
        \/ Return(t, "refused") \/ Return(t, "nothing")
    BY <1>13, Zenon DEF FlushDone
  <2>2. job[t].why \in {"commit", "api"} => job[t].rec \in Slots
    BY <1>13, CallRecord DEF FlushDone, InCall, Flying
  <2>3. Told'
    BY <2>1, <2>2, ReturnTold DEF Told, toldVars
  <2> QED BY <1>13, <2>3 DEF FlushDone, logVars, Kept
<1>14. CASE FailureIgnored(t)
  <2>1. job[t].rec \in Slots
    BY <1>0, <1>14, CallRecord DEF FailureIgnored
  <2>2. Told'
    BY <1>14, <2>1, ReturnTold DEF FailureIgnored
  <2> QED BY <1>14, <2>2 DEF FailureIgnored, logVars, Kept
<1>15. CASE AbortInBuffer(t)
  <2>1. mem' \in [Slots -> Contents]
    BY <1>1, <1>15 DEF AbortInBuffer
  <2> QED BY <1>15, <2>1 DEF AbortInBuffer, envVars, toldVars, Kept, Told
<1>16. CASE AbortInFile(t)
  <2>1. mem' \in [Slots -> Contents]
    BY <1>1, <1>16 DEF AbortInFile
  <2>2. PICK m \in [Slots -> Contents] : m = [mem EXCEPT ![job[t].rec] = "abort"]
    BY <1>1
  <2>3. Reach({job[t].rec}, m)
    BY <1>16, <2>2 DEF AbortInFile
  <2>4. Kept'
    BY <2>3, ReachKept
  <2> QED BY <1>16, <2>1, <2>4 DEF AbortInFile, envVars, toldVars, Told
<1>17. CASE AbortPanics(t)
  BY <1>17 DEF AbortPanics, Panic, toldVars, Kept, Told
<1>18. CASE TakeRegion(t) \/ Lead(t) \/ Join(t) \/ FlushSkipped(t) \/ StoreOffset(t)
  BY <1>18 DEF TakeRegion, Lead, Join, FlushSkipped, StoreOffset, logVars, envVars, toldVars,
               Kept, Told
<1> QED BY <1>2, <1>3, <1>4, <1>5, <1>6, <1>7, <1>8, <1>9, <1>10, <1>11, <1>12, <1>13,
           <1>14, <1>15, <1>16, <1>17, <1>18 DEF Step

\* The log region is built anew from what is found in the files.
LEMMA RestartRecords ==
    ASSUME NEW c \in [Slots -> Contents], NEW d \in [Slots -> SUBSET Contents], Restart(c, d)
    PROVE  mem' \in [Slots -> Contents] /\ Kept'
<1> DEFINE kept == [s \in Slots |-> IF Before(s, LogEnd(c)) THEN c[s] ELSE "none"]
<1>1. kept \in [Slots -> Contents]
  BY DEF Contents
<1>2. mem' = kept /\ os' = kept /\ disk' = [s \in Slots |-> d[s] \cup {kept[s]}] /\ syncing' = {}
  BY DEF Restart
<1> HIDE DEF kept
<1> QED BY <1>1, <1>2 DEF Kept

LEMMA NextRecords ==
    ASSUME Control, Layout, Records, Next
    PROVE  Records'
<1> USE DEF Records
<1>1. CASE \E t \in Threads, k \in Kinds \cup {"ckp"} : Enter(t, k)
  BY <1>1 DEF Enter, logVars, envVars, toldVars, Kept, Told
<1>2. CASE \E t \in Threads, r \in Slots : ApiFlush(t, r)
  <2>1. PICK t \in Threads, r \in Slots : ApiFlush(t, r)
    BY <1>2
  <2>2. promised' \subseteq Slots /\ UNCHANGED <<wrote, mem, os, disk, syncing, failures, crashes>>
    BY <2>1 DEF ApiFlush, logVars, envVars, Told
  <2> QED BY <2>2 DEF Kept, Told
<1>3. CASE \E t \in Threads : Step(t)
  BY <1>3, StepRecords
<1>4. CASE AppCrash
  BY <1>4, RestartRecords DEF AppCrash, Kept, Told
<1>5. CASE SystemCrash
  <2>1. PICK f \in Survivals :
          LET c == [s \in Slots |-> IF s \in Unsure THEN f[s] ELSE CHOOSE x \in disk[s] : TRUE]
          IN Restart(c, [s \in Slots |-> {c[s]}])
    BY <1>5 DEF SystemCrash
  <2> DEFINE c == [s \in Slots |-> IF s \in Unsure THEN f[s] ELSE CHOOSE x \in disk[s] : TRUE]
  <2>2. c \in [Slots -> Contents]
    <3> SUFFICES ASSUME NEW s \in Slots
                 PROVE  (IF s \in Unsure THEN f[s] ELSE CHOOSE x \in disk[s] : TRUE) \in Contents
      OBVIOUS
    <3>1. s \in Unsure => f[s] \in Contents
      BY DEF Survivals
    <3>2. disk[s] \subseteq Contents /\ os[s] \in disk[s]
      BY DEF Kept
    <3>3. (CHOOSE x \in disk[s] : TRUE) \in disk[s]
      BY <3>2
    <3> QED BY <3>1, <3>2, <3>3
  <2>3. Restart(c, [s \in Slots |-> {c[s]}])
    BY <2>1
  <2> HIDE DEF c
  <2>4. [s \in Slots |-> {c[s]}] \in [Slots -> SUBSET Contents]
    BY <2>2
  <2>5. mem' \in [Slots -> Contents] /\ Kept'
    BY <2>2, <2>3, <2>4, RestartRecords
  <2> QED BY <1>5, <2>5 DEF SystemCrash, Told
<1> QED BY <1>1, <1>2, <1>3, <1>4, <1>5 DEF Next

LEMMA InitRecords == Init => Records
BY DEF Init, Records, Kept, Told, Contents

(***************************************************************************)
(* What holds in every run, whatever fails.                                *)
(***************************************************************************)

Inv == Control /\ Layout /\ Records

\* The control of the calls, the layout of the log and the types of the
\* records are kept by every step of __log_put and __log_flush_int, by a
\* failing write or fsync, by a crash and by __log_recover.
THEOREM Invariant == Spec => []Inv
<1>1. Init => Inv
  <2> SUFFICES ASSUME Init PROVE Inv
    OBVIOUS
  <2> QED BY InitLayout, InitRecords, NobodyControl, NobodyLayout DEF Inv
<1>2. Inv /\ [Next]_vars => Inv'
  <2> SUFFICES ASSUME Inv, [Next]_vars PROVE Inv'
    OBVIOUS
  <2>1. CASE Next
    BY <2>1, NextPlace, NextRecords DEF Inv
  <2>2. CASE UNCHANGED vars
    <3>1. UNCHANGED placeVars
      BY <2>2 DEF vars, regionVars, mutexVars, envVars, placeVars
    <3>2. UNCHANGED <<mem, os, disk, syncing, promised, wrote, failures, crashes>>
      BY <2>2 DEF vars, logVars, envVars, toldVars
    <3>3. Records'
      BY <3>2 DEF Inv, Records, Kept, Told
    <3> QED BY <3>1, <3>3, SamePlace DEF Inv
  <2> QED BY <2>1, <2>2
<1> QED BY <1>1, <1>2, PTL DEF Spec

\* in_flush counts the flushes in progress and those promised to a woken
\* committer: __log_flush_int never lets a committer wait for nobody.
THEOREM FlushesCounted == Spec => []InFlushExact
<1>1. Inv => InFlushExact
  BY DEF Inv, Control
<1> QED BY <1>1, Invariant, PTL

\* A committer on the list has a flush to wait for, and t_lsn reaches its
\* record: nobody is left asleep by "done" of __log_flush_int.
THEOREM NobodyForgotten == Spec => []WaitersCovered
<1>1. Inv => WaitersCovered
  <2> SUFFICES ASSUME Inv PROVE WaitersCovered
    OBVIOUS
  <2> USE DEF Inv, Control, Layout
  <2>1. Listed # {} => \/ inFlush > 0
                       \/ \E t \in Threads : region = t /\ pc[t] \in {"flush", "flushed"}
    BY DEF FlushComing
  <2>2. Listed \subseteq Threads
    BY DEF Shape, Listed, IsList
  <2>3. \A t \in Listed : pc[t] = "wait" /\ t \notin woken
    BY <2>2 DEF Waiters
  <2>4. \A t \in Listed : ~Before(tLsn, job[t].to)
    BY DEF Targets
  <2>5. \A t \in Threads : pc[t] = "wait" => t \in Listed \cup woken
    BY DEF Waiters
  <2> QED BY <2>1, <2>3, <2>4, <2>5 DEF WaitersCovered
<1> QED BY <1>1, Invariant, PTL

\* Every variable keeps its type; w_off + b_off is where lsn says the next
\* record goes.
THEOREM TypeCorrect == Spec => []TypeOK
<1>1. Inv => TypeOK
  <2> SUFFICES ASSUME Inv PROVE TypeOK
    OBVIOUS
  <2> USE DEF Inv
  <2>1. {lsn, fLsn, sLsn, tLsn} \subseteq Lsns
    <3>1. Offsets \subseteq 0 .. FileSize
      BY OffsetFacts, LenAssumption
    <3>2. tLsn = <<tLsn[1], tLsn[2]>> /\ tLsn[1] \in Files /\ tLsn[2] \in Offsets
      BY SlotFacts DEF Layout, Region
    <3>3. tLsn \in Lsns
      BY <3>1, <3>2 DEF Lsns
    <3>4. {lsn, fLsn, sLsn} \subseteq Lsns
      BY <3>1 DEF Layout, Region, SyncPlace, Lsns
    <3> QED BY <3>3, <3>4
  <2>2. bOff \in 0 .. BufSize - 1 /\ wOff + bOff = lsn[2]
    BY DEF Layout, Region
  <2>3. inFlush \in 0 .. 2 * Cardinality(Threads)
    <3>1. Shape /\ InFlight \subseteq Threads /\ designated \subseteq Threads
      BY DEF Control, Shape, InFlight
    <3>2. /\ Cardinality(InFlight) <= Cardinality(Threads)
          /\ Cardinality(designated) <= Cardinality(Threads)
          /\ Cardinality(Threads) \in Nat
      BY <3>1, ThreadAssumption, FS_Subset, FS_CardinalityType
    <3>3. Cardinality(InFlight) \in Nat /\ Cardinality(designated) \in Nat
      BY <3>1, CountsAreNat DEF Counted
    <3>4. inFlush = Cardinality(InFlight) + Cardinality(designated)
      BY CountIs DEF Control
    <3> QED BY <3>2, <3>3, <3>4
  <2>4. /\ IsList(commits, Threads) /\ {region, mtxFlush} \subseteq Threads \cup {None}
        /\ designated \subseteq Threads /\ woken \subseteq Threads
        /\ pc \in [Threads -> PcStates]
    BY DEF Control, Shape
  <2>5. /\ mem \in [Slots -> Contents] /\ os \in [Slots -> Contents]
        /\ disk \in [Slots -> SUBSET Contents] /\ syncing \subseteq Slots
        /\ promised \subseteq Slots /\ wrote \subseteq Slots
    BY DEF Records, Kept, Told
  <2>6. up \in {"up", "recovering", "panic"}
    BY DEF Layout, Mode
  <2> QED BY <2>1, <2>2, <2>3, <2>4, <2>5, <2>6 DEF TypeOK
<1> QED BY <1>1, Invariant, PTL

LEMMA StepForward ==
    ASSUME Inv, WholeStores, Next, crashes' = crashes
    PROVE  ~Before(sLsn', sLsn)
<1> USE DEF Inv
<1>1. sLsn[1] \in Nat /\ sLsn[2] \in Nat /\ crashes \in Nat
  BY OffsetFacts, FileAssumption DEF Layout, SyncPlace, Records
<1>2. CASE sLsn' = sLsn
  BY <1>1, <1>2 DEF Before
<1>3. ASSUME NEW t \in Threads, Sync(t)
      PROVE  ~Before(sLsn', sLsn)
  <2> PICK j \in Jobs : j = job[t]
    BY DEF Control, Shape
  <2>1. /\ ~Before(j.mark, sLsn) /\ j.mark[1] \in Files /\ j.mark[2] \in Nat
        /\ sLsn' = <<j.mark[1], IF SplitStores THEN sLsn[2] ELSE j.mark[2]>>
        /\ j.mark[1] \in Nat
    BY <1>3, OneSyncer, OffsetFacts DEF Sync, Layout, SyncPlace
  <2>2. CASE SplitStores = FALSE
    BY <1>1, <2>1, <2>2 DEF Before
  <2>3. CASE SplitStores /\ Files = {1}
    BY <1>1, <2>1, <2>3 DEF Before
  <2> QED BY <2>2, <2>3, ThreadAssumption DEF WholeStores
<1>4. ASSUME NEW t \in Threads, StoreOffset(t)
      PROVE  ~Before(sLsn', sLsn)
  <2>1. sLsn' = job[t].mark /\ ~Before(job[t].mark, sLsn)
    BY <1>4 DEF StoreOffset, Layout, SyncPlace
  <2> QED BY <2>1
<1>5. CASE AppCrash \/ SystemCrash
  BY <1>1, <1>5 DEF AppCrash, SystemCrash
<1>6. CASE \E t \in Threads, k \in Kinds \cup {"ckp"} : Enter(t, k)
  BY <1>2, <1>6 DEF Enter
<1>7. CASE \E t \in Threads, r \in Slots : ApiFlush(t, r)
  BY <1>2, <1>7 DEF ApiFlush
<1>8. ASSUME NEW t \in Threads, Step(t)
      PROVE  Sync(t) \/ StoreOffset(t) \/ sLsn' = sLsn
  BY <1>8 DEF Step, NewFile, PutRecord, PutFails, WriteOut, WriteOutFails, TakeRegion,
              EnterFlushed, Join, Lead, Wake, FlushSkipped, FlushStart, FlushWriteFails,
              SyncFails, FlushDone, FailureIgnored, AbortInBuffer, AbortInFile, AbortPanics
<1> QED BY <1>2, <1>3, <1>4, <1>5, <1>6, <1>7, <1>8 DEF Next

\* s_lsn only moves forward while the environment is up, whoever syncs: the
\* check that ALREADY_FLUSHED makes with no lock cannot be taken back.  (A
\* 32-bit build stores its halves one by one, and they move back for a moment
\* when the file changes: this is about stores of one word, or one file.)
THEOREM SyncPointForward ==
    ASSUME WholeStores
    PROVE  Spec => SyncForward
<1>1. Inv /\ [Next]_vars => [crashes' = crashes => ~Before(sLsn', sLsn)]_vars
  BY StepForward
<1> QED BY <1>1, Invariant, PTL DEF Spec, SyncForward

(***************************************************************************)
(* What is on disk.                                                        *)
(***************************************************************************)

\* No write and no fsync fails.  Recovery takes the end of what it read for
\* the end of what is synced, in whichever file, and the halves of s_lsn are of
\* two files for a moment: with either there is one file.
Undisturbed ==
    MaxFailures = 0 /\ (Files = {1} \/ (SplitStores = FALSE /\ MaxCrashes = 0))

\* All of a record has been written.
Written(s) == s[1] < lsn[1] \/ (s[1] = lsn[1] /\ s[2] + RecLen <= wOff)

\* A system crash leaves it; it leaves all up to l, and all before l.
Hard(s) == disk[s] = {"rec"}
Sure(l) == \A s \in Slots : ~Before(l, s) => Hard(s)
HardBefore(l) == \A s \in Slots : Before(s, l) => Hard(s)

\* Each record is as it was put, wherever it has come to.
Content ==
    /\ mem = [s \in Slots |-> IF Before(s, lsn) THEN "rec" ELSE "none"]
    /\ os = [s \in Slots |-> IF Written(s) THEN "rec" ELSE "none"]
    /\ \A s \in Slots : disk[s] \subseteq {"none", "rec"}
    /\ syncing \subseteq {s \in Slots : Written(s)}

\* What a thread at p with job j may say about the disk.
SureOK(p, j) ==
    /\ j.ok /\ j.why # "retry" /\ p # "failed"
    /\ p \in {"lock", "enter", "wait"} => j.to = j.rec
    /\ p \in {"flush", "flushed"} \cup Flying /\ j.why # "switch" => ~Before(j.to, j.rec)
    /\ p = "sync" => \A s \in Slots : Before(s, j.mark) => s \in syncing \/ Hard(s)
    /\ p = "store" => HardBefore(j.mark)
    /\ p = "synced" => Sure(j.to) /\ HardBefore(sLsn)
    /\ p = "flushed" => Sure(j.to) /\ up = "up"
    /\ p = "newfile" => lsn[2] = 0 \/ Sure(LastLsn)
    /\ p = "wait" => up = "up"
    /\ up = "recovering" /\ p \in {"lock", "enter", "flush"} => ~AlreadyFlushed(j.to)

\* s_lsn and what callers were told is true of the disk.  What recovery read
\* is not all on disk before its checkpoint is flushed.
Synced ==
    /\ up = "up" => HardBefore(sLsn) /\ \A s \in Slots : s[1] < lsn[1] => Hard(s)
    /\ up = "up" \/ Files = {1}
    /\ \A t \in Threads : SureOK(pc[t], job[t])
    /\ \A t \in woken \ designated : Sure(job[t].to)
    /\ \A s \in promised : Sure(s)
    /\ \A s \in wrote : Written(s)

-----------------------------------------------------------------------------
(* Records reach the operating system in order.                            *)

\* Nothing that was written or hardened is lost by a step.
Grows ==
    \A s \in Slots : (Written(s) => Written(s)') /\ (Hard(s) => Hard(s)')

LEMMA SlotInts ==
    \A s \in Slots : /\ s[1] \in Nat /\ s[2] \in Nat /\ s[1] >= 1 /\ s[1] \in Files
                     /\ s[2] \in Offsets /\ s[2] + RecLen <= FileSize
BY SlotFacts, OffsetFacts, FileAssumption

\* The slots up to an offset.
LEMMA SlotEdge ==
    ASSUME NEW s \in Slots, NEW x \in Offsets
    PROVE  s[2] < x <=> s[2] + RecLen <= x
<1>1. s[2] \in Nat /\ s[2] \in Offsets /\ x \in Nat /\ RecLen \in Nat /\ RecLen > 0
  BY SlotInts, OffsetFacts, LenAssumption
<1>2. s[2] < x => s[2] + RecLen <= x
  BY <1>1, OffsetFacts
<1> QED BY <1>1, <1>2

\* If the buffer is empty, a record is in the log once it is written.
LEMMA WrittenBefore ==
    ASSUME Region, NEW s \in Slots
    PROVE  /\ Written(s) => Before(s, lsn)
           /\ bOff = 0 => (Before(s, lsn) <=> Written(s))
<1>1. /\ lsn[1] \in Nat /\ lsn[2] \in Nat /\ lsn[2] \in Offsets /\ wOff \in Nat /\ bOff \in Nat
      /\ wOff + bOff = lsn[2] /\ s[1] \in Nat /\ s[2] \in Nat /\ RecLen \in Nat /\ RecLen > 0
  BY RegionTypes, SlotInts DEF Region
<1>2. s[2] < lsn[2] <=> s[2] + RecLen <= lsn[2]
  BY <1>1, SlotEdge
<1> QED BY <1>1, <1>2 DEF Written, Before

\* A write of n units completes the records that end in it.
LEMMA CompletedEdge ==
    ASSUME Region, NEW n \in Nat, NEW s \in Slots
    PROVE  /\ s \in Completed(n) \/ Written(s) <=>
                s[1] < lsn[1] \/ (s[1] = lsn[1] /\ s[2] + RecLen <= wOff + n)
           /\ ~(s \in Completed(n) /\ Written(s))
           /\ s \in Completed(n) => Before(s, <<lsn[1], wOff + n>>)
<1>1. lsn[1] \in Nat /\ wOff \in Nat /\ s[1] \in Nat /\ s[2] \in Nat /\ RecLen \in Nat /\ RecLen > 0
  BY RegionTypes, SlotInts
<1> QED BY <1>1 DEF Completed, Written, Before

\* Such a write, of the records as they are.
LEMMA WriteContent ==
    ASSUME Region, Content, NEW n \in Nat, NEW m,
           \A s \in Completed(n) : m[s] = "rec",
           os' = [s \in Slots |-> IF s \in Completed(n) THEN m[s] ELSE os[s]],
           disk' = [s \in Slots |-> IF s \in Completed(n) THEN disk[s] \cup {m[s]} ELSE disk[s]],
           lsn'[1] = lsn[1], wOff' = wOff + n
    PROVE  /\ os' = [s \in Slots |-> IF Written(s)' THEN "rec" ELSE "none"]
           /\ \A s \in Slots : disk'[s] \subseteq {"none", "rec"}
           /\ Grows
<1>1. \A s \in Slots : Written(s)' <=> s \in Completed(n) \/ Written(s)
  BY CompletedEdge DEF Written
<1>2. \A s \in Slots : os'[s] = IF Written(s)' THEN "rec" ELSE "none"
  BY <1>1 DEF Content
<1>3. \A s \in Slots : disk'[s] \subseteq {"none", "rec"}
  BY DEF Content
<1>4. Grows
  BY <1>1 DEF Grows, Hard
<1> QED BY <1>2, <1>3, <1>4

\* A step that writes nothing.
LEMMA QuietContent ==
    ASSUME Content, UNCHANGED <<lsn, wOff, mem, os, disk, syncing>>
    PROVE  Content' /\ Grows
BY DEF Content, Grows, Written, Hard, Before

LEMMA NewFileContent ==
    ASSUME Control, Layout, Content, NEW t \in Threads, NewFile(t)
    PROVE  Content' /\ Grows /\ \A s \in Slots : s[1] < lsn'[1] => s[1] < lsn[1] \/ ~Before(LastLsn, s)
<1> USE DEF Layout
<1>1. PICK f \in {lsn[1], lsn[1] + 1} :
        /\ f = IF lsn[2] = 0 THEN lsn[1] ELSE lsn[1] + 1
        /\ lsn' = <<f, RecLen>> /\ mem' = [mem EXCEPT ![<<f, 0>>] = "rec"]
  BY DEF NewFile
<1>2. wOff' = 0 /\ UNCHANGED <<os, disk, syncing>> /\ bOff = 0 /\ (lsn[2] = 0 \/ NextFileReady)
  BY DEF NewFile, Calls, CallOK
<1>3. /\ lsn[1] \in Nat /\ lsn[2] \in Nat /\ lsn[2] \in Offsets /\ wOff = lsn[2] /\ f \in Files
      /\ RecLen \in Nat /\ RecLen > 0 /\ FileSize \in Nat /\ f \in Nat
  BY <1>1, <1>2, RegionTypes, LenAssumption, FileAssumption DEF Region, NextFileReady
<1>4. <<f, 0>> \in Slots
  BY <1>3, SlotFacts, OffsetFacts, LenAssumption
<1>5. \A s \in Slots : /\ Before(s, lsn') <=> Before(s, lsn) \/ s = <<f, 0>>
                       /\ Written(s)' <=> Written(s)
                       /\ s[1] < lsn'[1] => s[1] < lsn[1] \/ ~Before(LastLsn, s)
  <2> SUFFICES ASSUME NEW s \in Slots
               PROVE  /\ Before(s, lsn') <=> Before(s, lsn) \/ s = <<f, 0>>
                      /\ Written(s)' <=> Written(s)
                      /\ s[1] < lsn'[1] => s[1] < lsn[1] \/ ~Before(LastLsn, s)
    OBVIOUS
  <2>1. /\ s = <<s[1], s[2]>> /\ s[1] \in Nat /\ s[2] \in Nat /\ s[2] + RecLen <= FileSize
    BY SlotInts, SlotFacts
  <2>2. s[2] < RecLen <=> s[2] = 0
    <3>1. s[2] < RecLen <=> s[2] + RecLen <= RecLen
      BY SlotEdge, OffsetFacts
    <3> QED BY <1>3, <2>1, <3>1
  <2>3. s[2] < lsn[2] <=> s[2] + RecLen <= lsn[2]
    BY <1>3, SlotEdge
  <2>4. CASE lsn[2] = 0
    BY <1>1, <1>2, <1>3, <2>1, <2>2, <2>4 DEF Before, Written
  <2>5. CASE lsn[2] # 0 /\ lsn[2] + RecLen > FileSize
    <3>1. f = lsn[1] + 1 /\ lsn'[1] = f /\ lsn'[2] = RecLen
      BY <1>1, <2>5
    <3>2. s[2] < lsn[2]
      BY <1>3, <2>1, <2>5
    <3>3. Before(s, lsn) <=> s[1] <= lsn[1]
      BY <1>3, <2>1, <3>2 DEF Before
    <3>4. Before(s, lsn') <=> s[1] <= lsn[1] \/ (s[1] = f /\ s[2] = 0)
      BY <1>3, <2>1, <2>2, <3>1 DEF Before
    <3>5. Written(s)' <=> s[1] <= lsn[1]
      BY <1>2, <1>3, <2>1, <3>1 DEF Written
    <3>6. Written(s) <=> s[1] <= lsn[1]
      BY <1>3, <2>1, <2>3, <3>2 DEF Written
    <3>7. s[1] = lsn[1] => ~Before(LastLsn, s)
      BY <1>3, <2>1, <2>3, <3>2 DEF Before, LastLsn
    <3> QED BY <1>3, <2>1, <3>1, <3>3, <3>4, <3>5, <3>6, <3>7
  <2> QED BY <1>2, <2>4, <2>5 DEF NextFileReady
<1>6. mem' = [s \in Slots |-> IF Before(s, lsn') THEN "rec" ELSE "none"]
  BY <1>1, <1>4, <1>5 DEF Content
<1>7. Content'
  <2>1. os' = [s \in Slots |-> IF Written(s)' THEN "rec" ELSE "none"]
    BY <1>2, <1>5 DEF Content
  <2>2. syncing' \subseteq {s \in Slots : Written(s)'}
    BY <1>2, <1>5 DEF Content
  <2> QED BY <1>2, <1>6, <2>1, <2>2 DEF Content, Before
<1>8. Grows
  BY <1>2, <1>5 DEF Grows, Hard
<1> QED BY <1>5, <1>7, <1>8

LEMMA PutRecordContent ==
    ASSUME Control, Layout, Content, NEW t \in Threads, PutRecord(t)
    PROVE  Content' /\ Grows
<1> USE DEF Layout
<1>1. PICK m : m = [mem EXCEPT ![lsn] = "rec"]
  OBVIOUS
<1>2. /\ pc[t] = "append" /\ mem' = m /\ lsn' = <<lsn[1], lsn[2] + RecLen>>
      /\ \/ Overfull /\ wOff' = wOff + BufSize /\ Reach(Completed(BufSize), m)
         \/ ~Overfull /\ UNCHANGED <<wOff, os, disk, syncing>>
  BY <1>1 DEF PutRecord
<1>3. lsn[2] # 0 /\ lsn[2] + RecLen <= FileSize
  BY <1>2 DEF Calls, CallOK
<1>4. /\ lsn \in Slots /\ lsn = <<lsn[1], lsn[2]>> /\ lsn[1] \in Nat /\ lsn[2] \in Nat
      /\ lsn[2] \in Offsets /\ wOff \in Nat /\ bOff \in Nat /\ BufSize \in Nat /\ bOff < BufSize
      /\ wOff + bOff = lsn[2] /\ RecLen \in Nat /\ RecLen > 0
  BY <1>3, RegionTypes, SlotFacts, LenAssumption DEF Region
<1>5. \A s \in Slots : Before(s, lsn') <=> Before(s, lsn) \/ s = lsn
  <2> SUFFICES ASSUME NEW s \in Slots PROVE Before(s, lsn') <=> Before(s, lsn) \/ s = lsn
    OBVIOUS
  <2>1. s = <<s[1], s[2]>> /\ s[1] \in Nat /\ s[2] \in Nat /\ s[2] \in Offsets
    BY SlotInts, SlotFacts
  <2>2. lsn[2] < s[2] => lsn[2] + RecLen <= s[2]
    BY <1>4, <2>1, OffsetFacts
  <2>3. s[2] < lsn[2] + RecLen <=> s[2] <= lsn[2]
    BY <1>4, <2>1, <2>2
  <2> QED BY <1>2, <1>4, <2>1, <2>3 DEF Before
<1>6. mem' = [s \in Slots |-> IF Before(s, lsn') THEN "rec" ELSE "none"]
  BY <1>1, <1>2, <1>4, <1>5 DEF Content
<1>7. CASE Overfull /\ wOff' = wOff + BufSize /\ Reach(Completed(BufSize), m)
  <2>1. \A s \in Completed(BufSize) : m[s] = "rec"
    <3> SUFFICES ASSUME NEW s \in Completed(BufSize) PROVE m[s] = "rec"
      OBVIOUS
    <3>1. s \in Slots /\ s[1] = lsn[1] /\ s[2] + RecLen <= wOff + BufSize
      BY DEF Completed
    <3>2. wOff + BufSize <= lsn[2] + RecLen
      BY <1>4, <1>7 DEF Overfull
    <3>3. s[2] \in Nat /\ s[1] \in Nat
      BY <3>1, SlotInts
    <3>4. Before(s, lsn')
      BY <1>2, <1>4, <3>1, <3>2, <3>3 DEF Before
    <3> QED BY <1>2, <1>6, <3>1, <3>4
  <2>2. /\ os' = [s \in Slots |-> IF s \in Completed(BufSize) THEN m[s] ELSE os[s]]
        /\ disk' = [s \in Slots |-> IF s \in Completed(BufSize) THEN disk[s] \cup {m[s]} ELSE disk[s]]
        /\ syncing' = syncing \ Completed(BufSize)
    BY <1>7 DEF Reach
  <2>3. lsn'[1] = lsn[1] /\ wOff' = wOff + BufSize
    BY <1>2, <1>7
  <2>4. /\ os' = [s \in Slots |-> IF Written(s)' THEN "rec" ELSE "none"]
        /\ \A s \in Slots : disk'[s] \subseteq {"none", "rec"}
        /\ Grows
    BY <1>4, <2>1, <2>2, <2>3, WriteContent
  <2>5. syncing' \subseteq {s \in Slots : Written(s)'}
    <3>1. \A s \in syncing' : s \in Slots /\ s \in syncing /\ Written(s)
      BY <2>2 DEF Content
    <3> QED BY <2>4, <3>1 DEF Grows
  <2> QED BY <1>6, <2>4, <2>5 DEF Content, Before
<1>8. CASE ~Overfull /\ UNCHANGED <<wOff, os, disk, syncing>>
  <2>1. \A s : Written(s)' <=> Written(s)
    BY <1>2, <1>8 DEF Written
  <2> QED BY <1>6, <1>8, <2>1 DEF Content, Grows, Hard, Before
<1> QED BY <1>2, <1>7, <1>8

\* What is written of the buffer are records as they were put.
LEMMA BufferContent ==
    ASSUME Region, Content, NEW n \in Nat, n <= bOff
    PROVE  \A s \in Completed(n) : mem[s] = "rec"
<1> SUFFICES ASSUME NEW s \in Completed(n) PROVE mem[s] = "rec"
  OBVIOUS
<1>1. s \in Slots /\ Before(s, <<lsn[1], wOff + n>>)
  BY CompletedEdge DEF Completed
<1>2. s[1] \in Nat /\ s[2] \in Nat /\ lsn[1] \in Nat /\ lsn[2] \in Nat /\ wOff + n <= lsn[2]
      /\ wOff \in Nat
  BY <1>1, SlotInts, RegionTypes DEF Region
<1>3. Before(s, lsn)
  BY <1>1, <1>2 DEF Before
<1> QED BY <1>1, <1>3 DEF Content

LEMMA WriteOutContent ==
    ASSUME Control, Layout, Content, NEW t \in Threads, WriteOut(t)
    PROVE  Content' /\ Grows
<1> USE DEF Layout
<1>1. /\ UNCHANGED <<lsn, mem>> /\ wOff' = wOff + bOff
      /\ os' = [s \in Slots |-> IF s \in Completed(bOff) THEN mem[s] ELSE os[s]]
      /\ disk' = [s \in Slots |-> IF s \in Completed(bOff) THEN disk[s] \cup {mem[s]} ELSE disk[s]]
      /\ syncing' = syncing \ Completed(bOff)
  BY DEF WriteOut, Reach
<1>2. bOff \in Nat /\ bOff <= bOff /\ lsn'[1] = lsn[1]
  BY <1>1, RegionTypes
<1>3. /\ os' = [s \in Slots |-> IF Written(s)' THEN "rec" ELSE "none"]
      /\ \A s \in Slots : disk'[s] \subseteq {"none", "rec"}
      /\ Grows
  BY <1>1, <1>2, BufferContent, WriteContent
<1>4. syncing' \subseteq {s \in Slots : Written(s)'}
  BY <1>1, <1>3 DEF Content, Grows
<1> QED BY <1>1, <1>3, <1>4 DEF Content, Before

LEMMA FlushStartContent ==
    ASSUME Control, Layout, Content, NEW t \in Threads, FlushStart(t)
    PROVE  /\ Content' /\ Grows
           /\ \A s \in Slots : s[1] = lsn[1] /\ Written(s)' => s \in syncing'
<1> USE DEF Layout
<1>1. PICK n \in {0, bOff} : n = IF MustWrite(job[t].to) THEN bOff ELSE 0
  OBVIOUS
<1>2. /\ UNCHANGED <<lsn, mem>> /\ wOff' = wOff + n
      /\ os' = [s \in Slots |-> IF s \in Completed(n) THEN mem[s] ELSE os[s]]
      /\ disk' = [s \in Slots |-> IF s \in Completed(n) THEN disk[s] \cup {mem[s]} ELSE disk[s]]
      /\ syncing' = {s \in Slots : s[1] = lsn[1] /\ os'[s] # "none"}
  BY <1>1 DEF FlushStart
<1>3. n \in Nat /\ n <= bOff /\ lsn'[1] = lsn[1]
  BY <1>2, RegionTypes
<1>4. /\ os' = [s \in Slots |-> IF Written(s)' THEN "rec" ELSE "none"]
      /\ \A s \in Slots : disk'[s] \subseteq {"none", "rec"}
      /\ Grows
  BY <1>2, <1>3, BufferContent, WriteContent
<1>5. /\ syncing' \subseteq {s \in Slots : Written(s)'}
      /\ \A s \in Slots : s[1] = lsn[1] /\ Written(s)' => s \in syncing'
  BY <1>2, <1>4
<1> QED BY <1>2, <1>4, <1>5 DEF Content, Before

\* The fsync hardens what it set out to.
LEMMA SyncContent ==
    ASSUME Content, NEW t \in Threads, Sync(t)
    PROVE  Content' /\ Grows /\ \A s \in syncing : Hard(s)'
<1>1. /\ UNCHANGED <<lsn, wOff, mem, os>> /\ syncing' = {}
      /\ disk' = [s \in Slots |-> IF s \in syncing THEN {os[s]} ELSE disk[s]]
  BY DEF Sync, regionVars
<1>2. \A s \in syncing : s \in Slots /\ os[s] = "rec"
  BY DEF Content
<1>3. \A s \in Slots : disk'[s] \subseteq {"none", "rec"} /\ (s \in syncing => disk'[s] = {"rec"})
                       /\ (s \notin syncing => disk'[s] = disk[s])
  BY <1>1, <1>2 DEF Content
<1>4. \A s \in Slots : Written(s)' <=> Written(s)
  BY <1>1 DEF Written
<1>5. Content'
  BY <1>1, <1>3, <1>4 DEF Content, Before
<1> QED BY <1>2, <1>3, <1>4, <1>5 DEF Grows, Hard

\* Without failures, a thread writes the buffer, syncs, or leaves the log as it
\* is.
LEMMA StepContent ==
    ASSUME MaxFailures = 0, Inv, Content, NEW t \in Threads, pc[t] # "failed", Step(t)
    PROVE  Content' /\ Grows
<1> USE DEF Inv
<1>0. ~CanFail
  BY DEF CanFail, Records
<1>1. CASE NewFile(t)
  BY <1>1, NewFileContent
<1>2. CASE PutRecord(t)
  BY <1>2, PutRecordContent
<1>3. CASE WriteOut(t)
  BY <1>3, WriteOutContent
<1>4. CASE FlushStart(t)
  BY <1>4, FlushStartContent
<1>5. CASE Sync(t)
  BY <1>5, SyncContent
<1>6. CASE PutFails(t) \/ WriteOutFails(t) \/ FlushWriteFails(t) \/ SyncFails(t)
  BY <1>0, <1>6 DEF PutFails, WriteOutFails, FlushWriteFails, SyncFails, WriteFails
<1>7. CASE FailureIgnored(t) \/ AbortInBuffer(t) \/ AbortInFile(t) \/ AbortPanics(t)
  BY <1>7 DEF FailureIgnored, AbortInBuffer, AbortInFile, AbortPanics
<1>8. CASE \/ TakeRegion(t) \/ EnterFlushed(t) \/ Join(t) \/ Lead(t) \/ Wake(t)
           \/ FlushSkipped(t) \/ StoreOffset(t) \/ FlushDone(t)
  <2>1. UNCHANGED <<lsn, wOff, mem, os, disk, syncing>>
    BY <1>8 DEF TakeRegion, EnterFlushed, Join, Lead, Wake, FlushSkipped, StoreOffset, FlushDone,
                regionVars, logVars
  <2> QED BY <2>1, QuietContent
<1> QED BY <1>1, <1>2, <1>3, <1>4, <1>5, <1>6, <1>7, <1>8 DEF Step

-----------------------------------------------------------------------------
(* A log of one file after a crash.                                        *)

\* All that recovery keeps it has read; what is whole up to a record it reads
\* at least that far.
LEMMA LogEndReads ==
    ASSUME Files = {1}, NEW c
    PROVE  /\ LogEnd(c) = <<1, LogEnd(c)[2]>> /\ LogEnd(c)[2] \in Offsets
           /\ \A s \in Slots : Before(s, LogEnd(c)) => Readable(c[s])
           /\ \A s \in Slots : (\A r \in Slots : ~Before(s, r) => Readable(c[r])) =>
                Before(s, LogEnd(c))
<1> DEFINE F == {f \in Files : Readable(c[<<f, 0>>])}
           last == CHOOSE f \in F : \A g \in F : g <= f
           bad == {k \in 0 .. FileSize : <<last, k>> \in Slots /\ ~Readable(c[<<last, k>>])}
           first == CHOOSE k \in bad : \A j \in bad : k <= j
<1>1. LogEnd(c) = IF F = {} THEN <<1, 0>> ELSE <<last, IF bad = {} THEN FileSize ELSE first>>
  BY DEF LogEnd
<1>2. LogEnd(c) = <<1, LogEnd(c)[2]>> /\ LogEnd(c)[2] \in Offsets
  <2>1. LogEnd(c) \in Files \X Offsets
    BY LogEndPlace
  <2> QED BY <2>1
<1>3. \A s \in Slots : /\ s = <<1, s[2]>> /\ s[2] \in Nat /\ s[2] \in 0 .. FileSize
                       /\ s[2] < FileSize
  <2> SUFFICES ASSUME NEW s \in Slots
               PROVE  s = <<1, s[2]>> /\ s[2] \in Nat /\ s[2] \in 0 .. FileSize /\ s[2] < FileSize
    OBVIOUS
  <2>1. s = <<s[1], s[2]>> /\ s[1] \in Files /\ s[2] \in Nat /\ s[2] + RecLen <= FileSize
    BY SlotFacts, SlotInts
  <2> QED BY <2>1, LenAssumption
<1>4. CASE F = {}
  <2>1. ~Readable(c[<<1, 0>>]) /\ LogEnd(c) = <<1, 0>>
    BY <1>1, <1>4
  <2>2. \A s \in Slots : ~Before(s, LogEnd(c)) /\ ~Before(s, <<1, 0>>) /\ <<1, 0>> \in Slots
    <3> SUFFICES ASSUME NEW s \in Slots PROVE ~Before(s, <<1, 0>>)
      BY <2>1, SlotFacts
    <3>1. s[1] = 1 /\ s[2] \in Nat
      BY <1>3
    <3> QED BY <3>1 DEF Before
  <2> QED BY <1>2, <2>1, <2>2
<1>5. CASE F # {}
  <2>1. last = 1 /\ Readable(c[<<1, 0>>])
    <3>1. F = {1}
      BY <1>5
    <3> QED BY <3>1
  <2>2. bad = {k \in 0 .. FileSize : <<1, k>> \in Slots /\ ~Readable(c[<<1, k>>])}
    BY <2>1
  <2> HIDE DEF F, last
  <2>3. bad # {} => first \in bad /\ \A j \in bad : first <= j
    <3> SUFFICES ASSUME bad # {} PROVE first \in bad /\ \A j \in bad : first <= j
      OBVIOUS
    <3>1. bad \subseteq Nat
      BY <2>2
    <3> HIDE DEF bad
    <3>2. \E k \in bad : \A j \in bad : k <= j
      BY <3>1, LeastNat
    <3> QED BY <3>2
  <2> HIDE DEF first
  <2>4. PICK x \in Nat : LogEnd(c) = <<1, x>> /\ x = IF bad = {} THEN FileSize ELSE first
    <3>1. LogEnd(c) = <<1, IF bad = {} THEN FileSize ELSE first>>
      BY <1>1, <1>5, <2>1
    <3>2. bad = {} \/ first \in Nat
      BY <2>2, <2>3
    <3> HIDE DEF bad
    <3>3. (IF bad = {} THEN FileSize ELSE first) \in Nat
      BY <3>2, LenAssumption
    <3> QED BY <3>1, <3>3
  <2>5. \A s \in Slots : Before(s, LogEnd(c)) <=> s[2] < x
    <3> SUFFICES ASSUME NEW s \in Slots PROVE Before(s, <<1, x>>) <=> s[2] < x
      BY <2>4
    <3>1. s[1] = 1
      BY <1>3
    <3> QED BY <3>1 DEF Before
  <2>6. \A s \in Slots : Before(s, LogEnd(c)) => Readable(c[s])
    <3> SUFFICES ASSUME NEW s \in Slots, s[2] < x, ~Readable(c[s]) PROVE FALSE
      BY <2>5
    <3>1. s[2] \in bad
      BY <1>3, <2>2
    <3>2. first <= s[2] /\ x = first
      BY <2>3, <2>4, <3>1
    <3> QED BY <1>3, <3>2
  <2>7. ASSUME NEW s \in Slots, \A r \in Slots : ~Before(s, r) => Readable(c[r])
        PROVE  Before(s, LogEnd(c))
    <3>1. CASE bad = {}
      BY <1>3, <2>4, <2>5, <3>1
    <3>2. CASE bad # {}
      <4>1. PICK r \in Slots : r = <<1, x>> /\ ~Readable(c[r])
        BY <2>2, <2>3, <2>4, <3>2
      <4>2. Before(s, r)
        BY <2>7, <4>1
      <4>3. s[1] = 1
        BY <1>3
      <4> QED BY <2>4, <4>1, <4>2
    <3> QED BY <3>1, <3>2
  <2> QED BY <1>2, <2>6, <2>7
<1> QED BY <1>4, <1>5

\* Recovery keeps what was whole, up to the first record that was not.
LEMMA RestartContent ==
    ASSUME Files = {1}, NEW c \in [Slots -> {"none", "rec"}],
           NEW d \in [Slots -> SUBSET {"none", "rec"}], Restart(c, d)
    PROVE  /\ Content'
           /\ \A s \in Slots : (\A r \in Slots : ~Before(s, r) => c[r] = "rec") => Written(s)'
           /\ \A s \in Slots :
                (\A r \in Slots : ~Before(s, r) => c[r] = "rec" /\ d[r] = {"rec"}) => Sure(s)'
           /\ \A s \in Slots : ~(s[1] < lsn'[1])
           /\ up' = "up" => \A s \in Slots : ~Before(s, sLsn')
<1> PICK end : end = LogEnd(c)
  OBVIOUS
<1> DEFINE kept == [s \in Slots |-> IF Before(s, end) THEN c[s] ELSE "none"]
<1>1. /\ lsn' = end /\ wOff' = end[2] /\ mem' = kept /\ os' = kept /\ syncing' = {}
      /\ disk' = [s \in Slots |-> d[s] \cup {kept[s]}]
      /\ sLsn' = (IF end[2] = 0 THEN ZeroLsn ELSE end)
      /\ up' = (IF end[2] = 0 THEN "up" ELSE "recovering")
  BY DEF Restart
<1>2. /\ end = <<1, end[2]>> /\ end[2] \in Offsets /\ end[2] \in Nat
      /\ \A s \in Slots : Before(s, end) => c[s] = "rec"
      /\ \A s \in Slots : (\A r \in Slots : ~Before(s, r) => Readable(c[r])) => Before(s, end)
  BY LogEndReads, OffsetFacts DEF Readable
<1>3. \A s \in Slots : /\ s[1] = 1 /\ s[2] \in Nat /\ s[1] \in Nat
                       /\ Before(s, end) <=> s[2] < end[2]
                       /\ s[2] < end[2] <=> s[2] + RecLen <= end[2]
  <2> SUFFICES ASSUME NEW s \in Slots
               PROVE  /\ s[1] = 1 /\ s[2] \in Nat /\ s[1] \in Nat
                      /\ Before(s, end) <=> s[2] < end[2]
                      /\ s[2] < end[2] <=> s[2] + RecLen <= end[2]
    OBVIOUS
  <2>1. s[1] = 1 /\ s[2] \in Nat /\ s[1] \in Nat
    BY SlotInts
  <2>2. s[2] < end[2] <=> s[2] + RecLen <= end[2]
    BY <1>2, SlotEdge
  <2> QED BY <1>2, <2>1, <2>2 DEF Before
<1>4. \A s \in Slots : kept[s] = (IF Before(s, end) THEN "rec" ELSE "none")
  BY <1>2
<1>5. kept = [s \in Slots |-> IF Before(s, end) THEN "rec" ELSE "none"]
  BY <1>4
<1> HIDE DEF kept
<1>6. \A s \in Slots : Written(s)' <=> Before(s, end)
  BY <1>1, <1>2, <1>3 DEF Written
<1>7. Content'
  <2>1. mem' = [s \in Slots |-> IF Before(s, lsn') THEN "rec" ELSE "none"]
    BY <1>1, <1>5
  <2>2. os' = [s \in Slots |-> IF Written(s)' THEN "rec" ELSE "none"]
    BY <1>1, <1>5, <1>6
  <2>3. \A s \in Slots : disk'[s] \subseteq {"none", "rec"}
    BY <1>1, <1>4
  <2> QED BY <1>1, <2>1, <2>2, <2>3 DEF Content, Before
<1>8. ASSUME NEW s \in Slots, \A r \in Slots : ~Before(s, r) => c[r] = "rec"
      PROVE  \A r \in Slots : ~Before(s, r) => Before(r, end)
  <2>1. Before(s, end)
    BY <1>2, <1>8 DEF Readable
  <2> SUFFICES ASSUME NEW r \in Slots, ~Before(s, r) PROVE Before(r, end)
    OBVIOUS
  <2> QED BY <1>2, <1>3, <2>1 DEF Before
<1>9. \A s \in Slots : (\A r \in Slots : ~Before(s, r) => c[r] = "rec") => Written(s)'
  <2> SUFFICES ASSUME NEW s \in Slots, \A r \in Slots : ~Before(s, r) => c[r] = "rec"
               PROVE  Written(s)'
    OBVIOUS
  <2>1. ~Before(s, s)
    BY <1>3 DEF Before
  <2> QED BY <1>6, <1>8, <2>1
<1>10. \A s \in Slots :
         (\A r \in Slots : ~Before(s, r) => c[r] = "rec" /\ d[r] = {"rec"}) => Sure(s)'
  <2> SUFFICES ASSUME NEW s \in Slots, NEW r \in Slots, ~Before(s, r),
                      \A q \in Slots : ~Before(s, q) => c[q] = "rec" /\ d[q] = {"rec"}
               PROVE  disk'[r] = {"rec"}
    BY DEF Sure, Hard
  <2>1. Before(r, end)
    BY <1>8
  <2> QED BY <1>1, <1>4, <2>1
<1>11. \A s \in Slots : ~(s[1] < lsn'[1])
  BY <1>1, <1>2, <1>3
<1>12. up' = "up" => \A s \in Slots : ~Before(s, sLsn')
  <2> SUFFICES ASSUME up' = "up", NEW s \in Slots PROVE ~Before(s, sLsn')
    OBVIOUS
  <2>1. sLsn' = <<0, 0>>
    BY <1>1 DEF ZeroLsn
  <2> QED BY <1>3, <2>1 DEF Before
<1> QED BY <1>7, <1>9, <1>10, <1>11, <1>12

\* An idle thread says nothing.
LEMMA IdleSure ==
    ASSUME NEW t, pc'[t] = "idle", job'[t] = NoJob
    PROVE  SureOK(pc[t], job[t])'
BY DEF SureOK, NoJob, Call, Flying

\* Nobody is in a call after it.
LEMMA RestartSynced ==
    ASSUME Files = {1}, NEW c \in [Slots -> {"none", "rec"}],
           NEW d \in [Slots -> SUBSET {"none", "rec"}], Restart(c, d),
           \A s \in promised' : s \in Slots /\
             \A r \in Slots : ~Before(s, r) => c[r] = "rec" /\ d[r] = {"rec"},
           \A s \in wrote' : s \in Slots /\ \A r \in Slots : ~Before(s, r) => c[r] = "rec"
    PROVE  Content' /\ Synced'
<1>1. Content' /\ (\A s \in promised' : Sure(s)') /\ (\A s \in wrote' : Written(s)')
  BY RestartContent
<1>2. up' = "up" => HardBefore(sLsn)' /\ \A s \in Slots : s[1] < lsn'[1] => Hard(s)'
  BY RestartContent DEF HardBefore, Before
<1>3. \A t \in Threads : SureOK(pc[t], job[t])'
  BY IdleSure DEF Restart
<1>4. woken' = {}
  BY DEF Restart
<1> QED BY <1>1, <1>2, <1>3, <1>4 DEF Synced

LEMMA CrashSynced ==
    ASSUME Undisturbed, Inv, Content, Synced, AppCrash \/ SystemCrash
    PROVE  Content' /\ Synced'
<1> USE DEF Inv
<1>1. Files = {1}
  BY DEF Undisturbed, AppCrash, SystemCrash, Records
<1>2. \A s \in Slots : os[s] \in {"none", "rec"} /\ disk[s] \subseteq {"none", "rec"}
                       /\ os[s] \in disk[s]
  BY DEF Content, Records, Kept
<1>3. \A s \in promised : s \in Slots /\ \A r \in Slots : ~Before(s, r) => disk[r] = {"rec"}
  BY DEF Synced, Sure, Hard, Records, Told
<1>4. CASE AppCrash
  <2>1. Restart(os, disk) /\ promised' = promised /\ wrote' = wrote
    BY <1>4 DEF AppCrash
  <2>2. os \in [Slots -> {"none", "rec"}] /\ disk \in [Slots -> SUBSET {"none", "rec"}]
    BY <1>2 DEF Records, Kept
  <2>3. \A s \in promised' : s \in Slots /\
          \A r \in Slots : ~Before(s, r) => os[r] = "rec" /\ disk[r] = {"rec"}
    BY <1>2, <1>3, <2>1
  <2>4. \A s \in wrote' : s \in Slots /\ \A r \in Slots : ~Before(s, r) => os[r] = "rec"
    <3> SUFFICES ASSUME NEW s \in wrote, NEW r \in Slots, ~Before(s, r)
                 PROVE  s \in Slots /\ os[r] = "rec"
      BY <2>1 DEF Records, Told
    <3>1. s \in Slots /\ Written(s)
      BY DEF Synced, Records, Told
    <3>2. s[1] \in Nat /\ s[2] \in Nat /\ r[1] \in Nat /\ r[2] \in Nat /\ lsn[1] \in Nat
          /\ wOff \in Nat /\ RecLen \in Nat
      BY <3>1, SlotInts, RegionTypes DEF Layout
    <3>3. Written(r)
      BY <3>1, <3>2 DEF Written, Before
    <3> QED BY <3>1, <3>3 DEF Content
  <2> QED BY <1>1, <2>1, <2>2, <2>3, <2>4, RestartSynced
<1>5. CASE SystemCrash
  <2>1. PICK f \in Survivals :
          LET c == [s \in Slots |-> IF s \in Unsure THEN f[s] ELSE CHOOSE x \in disk[s] : TRUE]
          IN Restart(c, [s \in Slots |-> {c[s]}])
    BY <1>5 DEF SystemCrash
  <2> DEFINE c == [s \in Slots |-> IF s \in Unsure THEN f[s] ELSE CHOOSE x \in disk[s] : TRUE]
             d == [s \in Slots |-> {c[s]}]
  <2>2. \A s \in Slots : c[s] \in disk[s] /\ d[s] = {c[s]}
    <3> SUFFICES ASSUME NEW s \in Slots
                 PROVE  (IF s \in Unsure THEN f[s] ELSE CHOOSE x \in disk[s] : TRUE) \in disk[s]
      OBVIOUS
    <3>1. s \in Unsure => f[s] \in disk[s]
      BY DEF Survivals
    <3>2. (CHOOSE x \in disk[s] : TRUE) \in disk[s]
      BY <1>2
    <3> QED BY <3>1, <3>2
  <2>3. Restart(c, d)
    BY <2>1
  <2>4. c \in [Slots -> {"none", "rec"}] /\ d \in [Slots -> SUBSET {"none", "rec"}]
    <3>1. \A s \in Slots : c[s] \in {"none", "rec"} /\ d[s] \in SUBSET {"none", "rec"}
      <4> HIDE DEF c, d
      <4> QED BY <1>2, <2>2
    <3> QED BY <3>1
  <2>5. promised' = promised /\ wrote' = {}
    BY <1>5 DEF SystemCrash
  <2> HIDE DEF c, d
  <2>6. \A s \in promised' : s \in Slots /\
          \A r \in Slots : ~Before(s, r) => c[r] = "rec" /\ d[r] = {"rec"}
    BY <1>3, <2>2, <2>5
  <2> QED BY <1>1, <2>3, <2>4, <2>5, <2>6, RestartSynced
<1> QED BY <1>4, <1>5

-----------------------------------------------------------------------------
(* What is said of the disk stays true.                                    *)

\* What is before s_lsn is sure.
LEMMA SureFrom ==
    ASSUME NEW l \in Int \X Int, HardBefore(l), NEW r \in Slots, Before(r, l)
    PROVE  Sure(r)
<1> SUFFICES ASSUME NEW s \in Slots, ~Before(r, s) PROVE Before(s, l)
  BY DEF Sure, HardBefore
<1>1. r[1] \in Nat /\ r[2] \in Nat /\ s[1] \in Nat /\ s[2] \in Nat
  BY SlotInts
<1> QED BY <1>1 DEF Before

LEMMA SureUpTo ==
    ASSUME NEW l \in Slots, NEW r \in Slots, ~Before(l, r), Sure(l)
    PROVE  Sure(r)
<1> SUFFICES ASSUME NEW s \in Slots, ~Before(r, s) PROVE ~Before(l, s)
  BY DEF Sure
<1>1. r[1] \in Nat /\ r[2] \in Nat /\ s[1] \in Nat /\ s[2] \in Nat /\ l[1] \in Nat /\ l[2] \in Nat
  BY SlotInts
<1> QED BY <1>1 DEF Before

LEMMA SyncPointType ==
    ASSUME Inv
    PROVE  sLsn \in Int \X Int
<1>1. sLsn \in ({0} \cup Files) \X Offsets
  BY DEF Inv, Layout, SyncPlace
<1>2. {0} \cup Files \subseteq Int /\ Offsets \subseteq Int
  BY OffsetFacts, FileAssumption
<1> QED BY <1>1, <1>2

\* While the environment is up, what s_lsn says is flushed is.
LEMMA FlushedSure ==
    ASSUME Inv, Synced, up = "up", NEW r \in Slots, AlreadyFlushed(r)
    PROVE  Sure(r)
BY SyncPointType, SureFrom DEF Synced, AlreadyFlushed

LEMMA GrowsSure ==
    ASSUME Grows, NEW l
    PROVE  (Sure(l) => \A s \in Slots : ~Before(l, s) => Hard(s)')
           /\ (HardBefore(l) => \A s \in Slots : Before(s, l) => Hard(s)')
BY DEF Grows, Sure, HardBefore

\* The part of the other threads when t takes a step.
LEMMA OthersSure ==
    ASSUME Inv, Synced, Grows, NEW t \in Threads, NEW u \in Threads \ {t},
           pc'[u] = pc[u], job'[u] = job[u],
           sLsn' = sLsn \/ (HardBefore(sLsn)' /\ pc[t] # "idle"),
           lsn' = lsn \/ region = t,
           up' = up \/ (up = "recovering" /\ up' = "up" /\ pc[t] # "idle"),
           (\A s \in syncing : s \in syncing' \/ Hard(s)') \/ pc[u] # "sync"
    PROVE  SureOK(pc[u], job[u])'
<1> USE DEF Inv, Layout
<1> PICK p \in PcStates : p = pc[u] /\ p = pc'[u]
  BY DEF Control, Shape
<1> PICK j \in Jobs : j = job[u] /\ j = job'[u]
  BY DEF Control, Shape
<1>1. SureOK(p, j)
  BY DEF Synced
<1>2. p = "sync" => \A s \in Slots : Before(s, j.mark) => s \in syncing' \/ Hard(s)'
  BY <1>1 DEF SureOK, Grows
<1>3. p = "store" => \A s \in Slots : Before(s, j.mark) => Hard(s)'
  BY <1>1 DEF SureOK, HardBefore, Grows
<1>4. p \in {"synced", "flushed"} => \A s \in Slots : ~Before(j.to, s) => Hard(s)'
  BY <1>1 DEF SureOK, Sure, Grows
<1>5. p = "synced" => HardBefore(sLsn)'
  <2>1. CASE sLsn' = sLsn
    <3>1. p = "synced" => \A s \in Slots : Before(s, sLsn) => Hard(s)'
      BY <1>1, GrowsSure DEF SureOK
    <3> QED BY <2>1, <3>1 DEF HardBefore, Before
  <2> QED BY <2>1
<1>6. p \in {"flushed", "wait"} => up' = "up"
  BY <1>1 DEF SureOK
<1>7. p = "newfile" => lsn'[2] = 0 \/ Sure(LastLsn)'
  <2> SUFFICES ASSUME p = "newfile", lsn'[2] # 0 PROVE Sure(LastLsn)'
    OBVIOUS
  <2>1. region = u
    BY DEF Control, Places, HoldsRegion
  <2>2. lsn' = lsn /\ LastLsn' = LastLsn
    BY <2>1 DEF LastLsn
  <2>3. \A s \in Slots : ~Before(LastLsn, s) => Hard(s)'
    BY <1>1, <2>2, GrowsSure DEF SureOK
  <2> QED BY <2>2, <2>3 DEF Sure, Before
<1>8. up' = "recovering" /\ p \in {"lock", "enter", "flush"} => ~Before(j.to, sLsn')
  <2> SUFFICES ASSUME up' = "recovering", p \in {"lock", "enter", "flush"}
               PROVE  ~Before(j.to, sLsn')
    OBVIOUS
  <2>1. up = "recovering" /\ p # "idle"
    OBVIOUS
  <2>2. pc[t] = "idle"
    BY <2>1 DEF Mode
  <2>3. sLsn' = sLsn
    BY <2>2
  <2> QED BY <1>1, <2>1, <2>3 DEF SureOK, AlreadyFlushed
<1>9. SureOK(p, j)'
  <2>1. /\ j.ok /\ j.why # "retry" /\ p # "failed"
        /\ p \in {"lock", "enter", "wait"} => j.to = j.rec
        /\ p \in {"flush", "flushed"} \cup Flying /\ j.why # "switch" => ~Before(j.to, j.rec)
    BY <1>1 DEF SureOK
  <2> QED BY <1>2, <1>3, <1>4, <1>5, <1>6, <1>7, <1>8, <2>1
          DEF SureOK, Sure, HardBefore, Before, AlreadyFlushed
<1> QED BY <1>9 DEF SureOK

LEMMA SyncedStep ==
    ASSUME Inv, Synced, Grows, NEW t \in Threads,
           \A u \in Threads \ {t} : pc'[u] = pc[u] /\ job'[u] = job[u],
           SureOK(pc[t], job[t])',
           sLsn' = sLsn \/ (HardBefore(sLsn)' /\ pc[t] # "idle"),
           lsn' = lsn \/ region = t,
           \A s \in Slots : s[1] < lsn'[1] => s[1] < lsn[1] \/ Hard(s)',
           up' = up \/ (up = "recovering" /\ up' = "up" /\ pc[t] # "idle" /\ HardBefore(sLsn)),
           \/ \A s \in syncing : s \in syncing' \/ Hard(s)'
           \/ \A u \in Threads \ {t} : pc[u] # "sync",
           pc[t] = "wait" => t \notin woken',
           \A u \in woken' \ designated' :
             u \in woken \ designated \/ (u \in Threads \ {t} /\ Sure(job[u].to)),
           \A s \in promised' : s \in promised \/ Sure(s),
           \A s \in wrote' : s \in wrote \/ Written(s)'
    PROVE  Synced'
<1> USE DEF Inv, Layout
<1>1. \A u \in Threads : SureOK(pc[u], job[u])'
  BY OthersSure
<1>2. up' = "up" => HardBefore(sLsn)'
  <2>1. CASE sLsn' = sLsn
    <3>1. up' = "up" => \A s \in Slots : Before(s, sLsn) => Hard(s)'
      BY GrowsSure DEF Synced
    <3> QED BY <2>1, <3>1 DEF HardBefore, Before
  <2> QED BY <2>1
<1>3. up' = "up" => \A s \in Slots : s[1] < lsn'[1] => Hard(s)'
  <2> SUFFICES ASSUME up' = "up", NEW s \in Slots, s[1] < lsn'[1], s[1] < lsn[1] PROVE Hard(s)'
    OBVIOUS
  <2>1. CASE up = "up"
    BY <2>1 DEF Synced, Grows
  <2>2. CASE Files = {1}
    BY <2>2, SlotInts DEF Region
  <2> QED BY <2>1, <2>2 DEF Synced
<1>4. up' = "up" \/ Files = {1}
  BY DEF Synced
<1>5. \A u \in woken' \ designated' : \A s \in Slots : ~Before(job'[u].to, s) => Hard(s)'
  <2> SUFFICES ASSUME NEW u \in woken' \ designated'
               PROVE  \A s \in Slots : ~Before(job'[u].to, s) => Hard(s)'
    OBVIOUS
  <2>1. CASE u \in woken \ designated
    <3>1. u \in Threads /\ pc[u] = "wait" /\ u # t
      BY <2>1 DEF Control, Shape, Waiters
    <3> QED BY <2>1, <3>1, GrowsSure DEF Synced
  <2>2. CASE u \in Threads \ {t} /\ Sure(job[u].to)
    BY <2>2, GrowsSure
  <2> QED BY <2>1, <2>2
<1>6. \A s \in promised' : \A r \in Slots : ~Before(s, r) => Hard(r)'
  BY GrowsSure DEF Synced
<1>7. \A s \in wrote' : Written(s)'
  BY DEF Synced, Grows, Records, Told
<1> QED BY <1>1, <1>2, <1>3, <1>4, <1>5, <1>6, <1>7 DEF Synced, Sure, Before

\* A step of t that tells nobody anything and syncs nothing.
LEMMA QuietSynced ==
    ASSUME Inv, Synced, Grows, NEW t \in Threads, pc[t] # "wait",
           \A u \in Threads \ {t} : pc'[u] = pc[u] /\ job'[u] = job[u],
           SureOK(pc[t], job[t])', lsn' = lsn \/ (region = t /\ lsn'[1] = lsn[1]),
           syncing' = syncing, UNCHANGED <<sLsn, woken, designated, promised, wrote, up>>
    PROVE  Synced'
BY SyncedStep

\* A call goes on, or returns.
LEMMA GoesTo ==
    ASSUME Inv, NEW t \in Threads, NEW p, pc' = [pc EXCEPT ![t] = p],
           NEW j, job' = [job EXCEPT ![t] = j] \/ (job' = job /\ j = job[t])
    PROVE  /\ pc'[t] = p /\ job'[t] = j
           /\ \A u \in Threads \ {t} : pc'[u] = pc[u] /\ job'[u] = job[u]
BY DEF Inv, Control, Shape

LEMMA ReturnSure ==
    ASSUME Inv, NEW t \in Threads, NEW told, Return(t, told)
    PROVE  /\ SureOK(pc[t], job[t])'
           /\ \A u \in Threads \ {t} : pc'[u] = pc[u] /\ job'[u] = job[u]
<1>1. pc' = [pc EXCEPT ![t] = "idle"] /\ job' = [job EXCEPT ![t] = NoJob]
  BY DEF Return
<1>2. /\ pc'[t] = "idle" /\ job'[t] = NoJob
      /\ \A u \in Threads \ {t} : pc'[u] = pc[u] /\ job'[u] = job[u]
  BY <1>1, GoesTo
<1> QED BY <1>2, IdleSure

LEMMA EnterSynced ==
    ASSUME Inv, Content, Synced, NEW t \in Threads, NEW k, Enter(t, k)
    PROVE  Content' /\ Synced'
<1> DEFINE p == IF Fits THEN "append" ELSE IF lsn[2] = 0 THEN "newfile" ELSE "flush"
           y == IF Fits THEN "put" ELSE "switch"
           j == Call(k, ZeroLsn, LastLsn, y)
<1>1. /\ pc[t] = "idle" /\ UNCHANGED <<lsn, wOff, mem, os, disk, syncing, sLsn, woken, designated,
                                       promised, wrote, up>>
      /\ pc' = [pc EXCEPT ![t] = p] /\ job' = [job EXCEPT ![t] = j]
      /\ Fits \/ lsn[2] = 0 \/ lsn[1] + 1 \in Files
  BY DEF Enter, Go, regionVars, logVars, envVars, toldVars
<1>2. Content' /\ Grows
  BY <1>1, QuietContent
<1>3. j.ok = TRUE /\ j.why = y
  <2>1. j = Call(k, ZeroLsn, LastLsn, y)
    OBVIOUS
  <2> HIDE DEF j, y
  <2> QED BY <2>1 DEF Call
<1> HIDE DEF j
<1>4. /\ pc'[t] = p /\ job'[t] = j
      /\ \A u \in Threads \ {t} : pc'[u] = pc[u] /\ job'[u] = job[u]
  <2> HIDE DEF p
  <2> QED BY <1>1, GoesTo
<1>5. p = "flush" => up = "up" /\ y = "switch"
  <2> SUFFICES ASSUME p = "flush" PROVE up = "up"
    OBVIOUS
  <2>1. lsn[1] + 1 \in Files /\ lsn[1] \in Files /\ lsn[1] \in Nat
    BY <1>1, RegionTypes DEF Inv, Layout
  <2>2. Files # {1}
    BY <2>1
  <2> QED BY <2>2 DEF Synced
<1>6. p \in {"append", "newfile", "flush"} /\ (p = "newfile" => lsn[2] = 0)
  OBVIOUS
<1> HIDE DEF p, y
<1>7. SureOK(pc[t], job[t])'
  <2>1. y # "retry"
    BY DEF y
  <2> QED BY <1>1, <1>3, <1>4, <1>5, <1>6, <2>1 DEF SureOK, Flying
<1> QED BY <1>1, <1>2, <1>4, <1>7, QuietSynced

\* The check without the lock is safe.
LEMMA ApiFlushSynced ==
    ASSUME Inv, Content, Synced, NEW t \in Threads, NEW r \in Slots, ApiFlush(t, r)
    PROVE  Content' /\ Synced'
<1>1. /\ pc[t] = "idle" /\ up = "up" /\ UNCHANGED <<lsn, wOff, mem, os, disk, syncing, sLsn, woken,
                                                    designated, wrote, up>>
      /\ \/ AlreadyFlushed(r) /\ promised' = promised \cup {r} /\ UNCHANGED <<pc, job>>
         \/ /\ promised' = promised /\ pc' = [pc EXCEPT ![t] = "lock"]
            /\ job' = [job EXCEPT ![t] = Call("api", r, r, "api")]
  BY DEF ApiFlush, Go, regionVars, mutexVars, logVars, envVars
<1>2. Content' /\ Grows
  BY <1>1, QuietContent
<1>3. CASE AlreadyFlushed(r) /\ promised' = promised \cup {r} /\ UNCHANGED <<pc, job>>
  <2>1. Sure(r)
    BY <1>1, <1>3, FlushedSure
  <2>2. pc'[t] = "idle" /\ job'[t] = NoJob
    BY <1>1, <1>3 DEF Inv, Layout, Calls, CallOK
  <2>3. SureOK(pc[t], job[t])'
    BY <2>2, IdleSure
  <2> QED BY <1>1, <1>2, <1>3, <2>1, <2>3, SyncedStep
<1>4. CASE /\ promised' = promised /\ pc' = [pc EXCEPT ![t] = "lock"]
           /\ job' = [job EXCEPT ![t] = Call("api", r, r, "api")]
  <2> PICK j : j = Call("api", r, r, "api")
    OBVIOUS
  <2>1. j.ok = TRUE /\ j.why = "api" /\ j.to = r /\ j.rec = r
    BY DEF Call
  <2>2. /\ pc'[t] = "lock" /\ job'[t] = j
        /\ \A u \in Threads \ {t} : pc'[u] = pc[u] /\ job'[u] = job[u]
    BY <1>4, GoesTo
  <2>3. SureOK(pc[t], job[t])'
    BY <1>1, <2>1, <2>2 DEF SureOK, Flying
  <2> QED BY <1>1, <1>2, <1>4, <2>2, <2>3, QuietSynced
<1> QED BY <1>1, <1>3, <1>4

LEMMA NewFileSynced ==
    ASSUME MaxFailures = 0, Inv, Content, Synced, NEW t \in Threads, NewFile(t)
    PROVE  Synced'
<1>1. /\ pc[t] = "newfile" /\ pc' = [pc EXCEPT ![t] = "append"] /\ job' = job
      /\ UNCHANGED <<sLsn, woken, designated, syncing, up, promised, wrote>>
  BY DEF NewFile, Go, mutexVars, envVars, toldVars
<1>2. region = t /\ SureOK("newfile", job[t])
  BY <1>1 DEF Inv, Control, Places, HoldsRegion, Synced
<1>3. Grows /\ \A s \in Slots : s[1] < lsn'[1] => s[1] < lsn[1] \/ ~Before(LastLsn, s)
  BY NewFileContent DEF Inv
<1>4. \A s \in Slots : s[1] < lsn'[1] => s[1] < lsn[1] \/ Hard(s)'
  <2>1. CASE lsn[2] = 0
    <3>1. lsn'[1] = lsn[1]
      BY <2>1 DEF NewFile
    <3> QED BY <3>1
  <2>2. CASE Sure(LastLsn)
    BY <1>3, <2>2 DEF Sure, Grows
  <2> QED BY <1>2, <2>1, <2>2 DEF SureOK
<1>5. /\ pc'[t] = "append" /\ job'[t] = job[t]
      /\ \A u \in Threads \ {t} : pc'[u] = pc[u] /\ job'[u] = job[u]
  BY <1>1, GoesTo
<1>6. SureOK(pc[t], job[t])'
  BY <1>2, <1>5 DEF SureOK, Flying
<1> QED BY <1>1, <1>2, <1>3, <1>4, <1>5, <1>6, SyncedStep

LEMMA PutRecordSynced ==
    ASSUME MaxFailures = 0, Inv, Content, Synced, NEW t \in Threads, PutRecord(t)
    PROVE  Synced'
<1> USE DEF Inv, Layout
<1>1. /\ pc[t] = "append" /\ lsn' = <<lsn[1], lsn[2] + RecLen>>
      /\ UNCHANGED <<sLsn, woken, designated, up, promised, wrote>>
      /\ Reach(Completed(BufSize), mem') \/ syncing' = syncing
  BY DEF PutRecord, envVars, toldVars
<1>2. region = t /\ lsn'[1] = lsn[1] /\ Grows
  BY <1>1, PutRecordContent DEF Control, Places, HoldsRegion
<1>3. syncing' = syncing
  <2>1. \A s \in Completed(BufSize) : s \in Slots /\ ~Written(s)
    BY CompletedEdge, LenAssumption DEF Completed
  <2>2. Reach(Completed(BufSize), mem') => syncing' = syncing \ Completed(BufSize)
    BY DEF Reach
  <2> QED BY <1>1, <2>1, <2>2 DEF Content
<1>4. CASE job[t].kind = "append"
  <2>1. pc' = [pc EXCEPT ![t] = "idle"] /\ job' = [job EXCEPT ![t] = NoJob]
    BY <1>4 DEF PutRecord, Go
  <2>2. /\ pc'[t] = "idle" /\ job'[t] = NoJob
        /\ \A u \in Threads \ {t} : pc'[u] = pc[u] /\ job'[u] = job[u]
    BY <2>1, GoesTo
  <2>3. SureOK(pc[t], job[t])'
    BY <2>2, IdleSure
  <2> QED BY <1>1, <1>2, <1>3, <2>2, <2>3, QuietSynced
<1>5. CASE job[t].kind # "append"
  <2> PICK j : j = Call(job[t].kind, lsn, lsn, "commit")
    OBVIOUS
  <2> PICK p \in {"writeout", "enter"} : p = IF job[t].kind = "write" THEN "writeout" ELSE "enter"
    OBVIOUS
  <2>1. pc' = [pc EXCEPT ![t] = p] /\ job' = [job EXCEPT ![t] = j]
    BY <1>5 DEF PutRecord, Go
  <2>2. j.ok = TRUE /\ j.why = "commit" /\ j.to = lsn /\ j.rec = lsn
    BY DEF Call
  <2>3. /\ pc'[t] = p /\ job'[t] = j
        /\ \A u \in Threads \ {t} : pc'[u] = pc[u] /\ job'[u] = job[u]
    BY <2>1 DEF Control, Shape
  <2>4. up = "recovering" => ~Before(lsn, sLsn)
    <3> SUFFICES ASSUME up = "recovering" PROVE ~Before(lsn, sLsn)
      OBVIOUS
    <3>1. \A u \in Threads : pc[u] # "store"
      BY <1>1 DEF Mode
    <3>2. sLsn[1] < lsn[1] \/ (sLsn[1] = lsn[1] /\ sLsn[2] <= wOff)
      BY <3>1 DEF SyncPlace
    <3>3. sLsn[1] \in Int /\ sLsn[2] \in Int /\ wOff <= lsn[2] /\ lsn \in Nat \X Nat /\ wOff \in Nat
      BY SyncPointType, RegionTypes DEF Region
    <3> QED BY <3>2, <3>3 DEF Before
  <2>5. SureOK(pc[t], job[t])'
    BY <1>1, <2>2, <2>3, <2>4 DEF SureOK, Flying, AlreadyFlushed
  <2> QED BY <1>1, <1>2, <1>3, <2>3, <2>5, QuietSynced
<1> QED BY <1>4, <1>5

\* The commit that was to be written is.
LEMMA WriteOutSynced ==
    ASSUME MaxFailures = 0, Inv, Content, Synced, NEW t \in Threads, WriteOut(t)
    PROVE  Synced'
<1> USE DEF Inv, Layout
<1>1. /\ pc[t] = "writeout" /\ bOff' = 0 /\ wOff' = wOff + bOff /\ Return(t, "wrote")
      /\ UNCHANGED <<lsn, sLsn, woken, designated>> /\ syncing' = syncing \ Completed(bOff)
  BY DEF WriteOut, Reach
<1>2. Grows
  BY WriteOutContent
<1>3. \A s \in syncing : s \in syncing'
  BY <1>1, CompletedEdge, RegionTypes DEF Content
<1>4. job[t].rec \in Slots /\ Before(job[t].rec, lsn) /\ job[t].kind = "write"
  BY <1>1 DEF Calls, CallOK, Control, Places, RoleOK, InCall
<1> PICK r \in Slots : r = job[t].rec
  BY <1>4
<1>5. promised' = promised /\ wrote' = wrote \cup {r} /\ up' = up
  BY <1>1, <1>4 DEF Return
<1>6. Written(r)'
  <2>1. r[2] < lsn[2] => r[2] + RecLen <= lsn[2]
    BY SlotEdge, RegionTypes
  <2>2. r[1] \in Nat /\ r[2] \in Nat /\ lsn \in Nat \X Nat /\ wOff' = lsn[2] /\ Before(r, lsn)
    BY <1>1, <1>4, SlotInts, RegionTypes DEF Region
  <2>3. r[1] < lsn'[1] \/ (r[1] = lsn'[1] /\ r[2] + RecLen <= wOff')
    BY <1>1, <2>1, <2>2 DEF Before
  <2> QED BY <2>3 DEF Written
<1>7. /\ SureOK(pc[t], job[t])'
      /\ \A u \in Threads \ {t} : pc'[u] = pc[u] /\ job'[u] = job[u]
  BY <1>1, ReturnSure
<1> QED BY <1>1, <1>2, <1>3, <1>5, <1>6, <1>7, SyncedStep

\* A call that goes on without a word.
LEMMA TakeRegionSynced ==
    ASSUME Inv, Synced, Grows, NEW t \in Threads, TakeRegion(t)
    PROVE  Synced'
<1> USE DEF Inv
<1>1. /\ pc[t] = "lock" /\ pc' = [pc EXCEPT ![t] = "enter"] /\ job' = job
      /\ UNCHANGED <<lsn, sLsn, woken, designated, syncing, up, promised, wrote>>
  BY DEF TakeRegion, Go, regionVars, logVars, envVars, toldVars
<1> PICK j \in Jobs : j = job[t]
  BY DEF Control, Shape
<1>2. /\ pc'[t] = "enter" /\ job'[t] = j
      /\ \A u \in Threads \ {t} : pc'[u] = pc[u] /\ job'[u] = job[u]
  BY <1>1 DEF Control, Shape
<1>3. SureOK("lock", j)
  BY <1>1 DEF Synced
<1>4. SureOK(pc[t], job[t])'
  BY <1>1, <1>2, <1>3 DEF SureOK, Flying, AlreadyFlushed
<1> QED BY <1>1, <1>2, <1>4, QuietSynced

\* Its record was flushed by another: while the log is recovered there is no
\* other.
LEMMA EnterFlushedSynced ==
    ASSUME Inv, Synced, Grows, NEW t \in Threads, EnterFlushed(t)
    PROVE  Synced'
<1> USE DEF Inv, Layout
<1>1. /\ pc[t] = "enter" /\ AlreadyFlushed(job[t].to) /\ Return(t, "flushed")
      /\ UNCHANGED <<lsn, sLsn, woken, designated, syncing>>
  BY DEF EnterFlushed, regionVars, logVars
<1>2. SureOK("enter", job[t])
  BY <1>1 DEF Synced
<1>3. up = "up" /\ job[t].to = job[t].rec
  BY <1>1, <1>2 DEF SureOK, Mode
<1>4. job[t].to \in Slots
  BY <1>1 DEF Calls, CallOK, InCall
<1>5. Sure(job[t].rec)
  BY <1>1, <1>3, <1>4, FlushedSure
<1>6. up' = up /\ wrote' = wrote /\ promised' = promised \cup {job[t].rec}
  BY <1>1, <1>3 DEF Return, Mode
<1>7. /\ SureOK(pc[t], job[t])'
      /\ \A u \in Threads \ {t} : pc'[u] = pc[u] /\ job'[u] = job[u]
  BY <1>1, ReturnSure
<1> QED BY <1>1, <1>5, <1>6, <1>7, SyncedStep

\* There is a flush to wait for only when nobody recovers the log.
LEMMA JoinSynced ==
    ASSUME Inv, Synced, Grows, NEW t \in Threads, Join(t)
    PROVE  Synced'
<1> USE DEF Inv, Layout
<1>1. /\ pc[t] = "enter" /\ inFlush # 0 /\ pc' = [pc EXCEPT ![t] = "wait"] /\ job' = job
      /\ UNCHANGED <<lsn, sLsn, woken, designated, syncing, up, promised, wrote>>
  BY DEF Join, Go, logVars, envVars, toldVars
<1> PICK j \in Jobs : j = job[t]
  BY DEF Control, Shape
<1>2. /\ pc'[t] = "wait" /\ job'[t] = j
      /\ \A u \in Threads \ {t} : pc'[u] = pc[u] /\ job'[u] = job[u]
  BY <1>1 DEF Control, Shape
<1>3. SureOK("enter", j)
  BY <1>1 DEF Synced
<1>4. up # "recovering"
  <2> SUFFICES ASSUME up = "recovering" PROVE FALSE
    OBVIOUS
  <2>1. \A u \in Threads : u # t => pc[u] = "idle"
    BY <1>1 DEF Mode
  <2>2. InFlight = {}
    BY <1>1, <2>1 DEF InFlight, Flying
  <2>3. designated = {}
    BY <1>1, <2>1 DEF Control, Shape, Waiters
  <2>4. inFlush = 0
    BY <2>2, <2>3, CountIs, FS_EmptySet DEF Control
  <2> QED BY <1>1, <2>4
<1>5. up = "up"
  BY <1>1, <1>4 DEF Mode
<1>6. SureOK(pc[t], job[t])'
  BY <1>1, <1>2, <1>3, <1>5 DEF SureOK, Flying
<1> QED BY <1>1, <1>2, <1>6, QuietSynced

LEMMA LeadSynced ==
    ASSUME Inv, Synced, Grows, NEW t \in Threads, Lead(t)
    PROVE  Synced'
<1> USE DEF Inv, Layout
<1>1. /\ pc[t] = "enter" /\ pc' = [pc EXCEPT ![t] = "flush"] /\ job' = job
      /\ UNCHANGED <<lsn, sLsn, woken, designated, syncing, up, promised, wrote>>
  BY DEF Lead, Go, mutexVars, regionVars, logVars, envVars, toldVars
<1> PICK j \in Jobs : j = job[t]
  BY DEF Control, Shape
<1>2. /\ pc'[t] = "flush" /\ job'[t] = j
      /\ \A u \in Threads \ {t} : pc'[u] = pc[u] /\ job'[u] = job[u]
  BY <1>1 DEF Control, Shape
<1>3. SureOK("enter", j)
  BY <1>1 DEF Synced
<1>4. ~Before(j.to, j.rec)
  <2>1. j.to = j.rec /\ j.to \in Slots
    BY <1>1, <1>3 DEF SureOK, Calls, CallOK, InCall
  <2>2. j.to[1] \in Nat /\ j.to[2] \in Nat
    BY <2>1, SlotInts
  <2> QED BY <2>1, <2>2 DEF Before
<1>5. SureOK(pc[t], job[t])'
  BY <1>1, <1>2, <1>3, <1>4 DEF SureOK, Flying, AlreadyFlushed
<1> QED BY <1>1, <1>2, <1>5, QuietSynced

\* Whoever is woken has its record on disk, or flushes up to it.
LEMMA WakeSynced ==
    ASSUME Inv, Synced, Grows, NEW t \in Threads, Wake(t)
    PROVE  Synced'
<1> USE DEF Inv, Layout
<1>1. /\ pc[t] = "wait" /\ t \in woken /\ woken' = woken \ {t} /\ designated' = designated \ {t}
      /\ UNCHANGED <<lsn, sLsn, syncing>>
  BY DEF Wake, logVars
<1> PICK j \in Jobs : j = job[t]
  BY DEF Control, Shape
<1>2. SureOK("wait", j)
  BY <1>1 DEF Synced
<1>3. up = "up" /\ j.to = j.rec
  BY <1>2 DEF SureOK
<1>4. CASE t \in designated
  <2>1. /\ UNCHANGED <<up, promised, wrote>> /\ pc' = [pc EXCEPT ![t] = "flush"]
        /\ job' = [job EXCEPT ![t].to = tLsn]
    BY <1>4 DEF Wake, Go, toldVars
  <2>2. tLsn \in Int \X Int
    BY RegionTypes
  <2>3. /\ job'[t].why = j.why /\ job'[t].rec = j.rec /\ job'[t].to = tLsn /\ job'[t].ok = j.ok
        /\ \A u \in Threads \ {t} : job'[u] = job[u]
    BY <2>1, <2>2, JobTo DEF Control
  <2>4. pc'[t] = "flush" /\ \A u \in Threads \ {t} : pc'[u] = pc[u]
    BY <2>1 DEF Control, Shape
  <2>5. ~Before(tLsn, j.rec)
    BY <1>3, <1>4 DEF Targets
  <2>6. ~Before(job'[t].to, job'[t].rec)
    BY <2>3, <2>5
  <2>7. SureOK(pc[t], job[t])'
    BY <1>2, <1>3, <2>1, <2>3, <2>4, <2>6 DEF SureOK, Flying, Before
  <2> QED BY <1>1, <2>1, <2>3, <2>4, <2>7, SyncedStep
<1>5. CASE t \notin designated
  <2>1. Return(t, "flushed")
    BY <1>5 DEF Wake
  <2>2. Sure(j.rec)
    BY <1>1, <1>3, <1>5 DEF Synced
  <2>3. up' = up /\ wrote' = wrote /\ promised' = promised \cup {j.rec}
    BY <1>3, <2>1 DEF Return, Mode
  <2>4. /\ SureOK(pc[t], job[t])'
        /\ \A u \in Threads \ {t} : pc'[u] = pc[u] /\ job'[u] = job[u]
    BY <2>1, ReturnSure
  <2> QED BY <1>1, <2>2, <2>3, <2>4, SyncedStep
<1> QED BY <1>4, <1>5

LEMMA FlushSkippedSynced ==
    ASSUME Inv, Synced, Grows, NEW t \in Threads, FlushSkipped(t)
    PROVE  Synced'
<1> USE DEF Inv, Layout
<1>1. /\ pc[t] = "flush" /\ AlreadyFlushed(job[t].to) /\ pc' = [pc EXCEPT ![t] = "flushed"]
      /\ job' = [job EXCEPT ![t].ok = TRUE]
      /\ UNCHANGED <<lsn, sLsn, woken, designated, syncing, up, promised, wrote>>
  BY DEF FlushSkipped, Go, mutexVars, regionVars, logVars, envVars, toldVars
<1> PICK j \in Jobs : j = job[t]
  BY DEF Control, Shape
<1>2. SureOK("flush", j)
  BY <1>1 DEF Synced
<1>3. /\ job'[t].why = j.why /\ job'[t].rec = j.rec /\ job'[t].to = j.to /\ job'[t].ok = TRUE
      /\ \A u \in Threads \ {t} : job'[u] = job[u]
  BY <1>1, JobOutcome DEF Control
<1>4. pc'[t] = "flushed" /\ \A u \in Threads \ {t} : pc'[u] = pc[u]
  BY <1>1 DEF Control, Shape
<1>5. up = "up"
  BY <1>1, <1>2 DEF SureOK, Mode
<1>6. j.to \in Slots
  BY <1>1 DEF Calls, CallOK, InCall
<1> PICK i : i = job'[t]
  OBVIOUS
<1>7. Sure(i.to)'
  BY <1>1, <1>3, <1>5, <1>6, FlushedSure, GrowsSure DEF Sure, Before
<1>8. SureOK(pc[t], job[t])'
  <2>1. i.ok /\ i.why # "retry" /\ (i.why # "switch" => ~Before(i.to, i.rec))
    BY <1>2, <1>3 DEF SureOK
  <2>2. SureOK("flushed", i)'
    BY <1>1, <1>5, <1>7, <2>1 DEF SureOK, Flying, Before
  <2> QED BY <1>4, <2>2 DEF SureOK
<1> QED BY <1>1, <1>3, <1>4, <1>8, QuietSynced

\* A flush that starts goes far enough: what is before its mark is in this
\* file, and written, or in one before.
LEMMA FlushStartSynced ==
    ASSUME Inv, Content, Synced, NEW t \in Threads, FlushStart(t)
    PROVE  Synced'
<1> USE DEF Inv, Layout
<1>1. /\ pc[t] = "flush" /\ mtxFlush = None /\ pc' = [pc EXCEPT ![t] = "sync"]
      /\ UNCHANGED <<lsn, sLsn, woken, designated, up, promised, wrote>>
  BY DEF FlushStart, FlushMutexFree, Go, envVars, toldVars
<1> PICK j \in Jobs : j = job[t]
  BY DEF Control, Shape
<1> PICK i : i = job'[t]
  OBVIOUS
<1>2. SureOK("flush", j)
  BY <1>1 DEF Synced
<1>3. /\ i.why = j.why /\ i.rec = j.rec /\ i.to = j.to /\ i.ok = j.ok
      /\ \A u \in Threads \ {t} : job'[u] = job[u]
      /\ fLsn[1] = lsn[1]
      /\ \/ wOff' = lsn[2] /\ i.mark = lsn
         \/ bOff # 0 /\ wOff' = wOff /\ i.mark = fLsn
  BY MarkPlace
<1>4. pc'[t] = "sync" /\ \A u \in Threads \ {t} : pc'[u] = pc[u]
  BY <1>1 DEF Control, Shape
<1>5. Grows /\ \A s \in Slots : s[1] = lsn[1] /\ Written(s)' => s \in syncing'
  BY FlushStartContent
<1>6. \A s \in Slots : Before(s, i.mark) => s \in syncing' \/ Hard(s)'
  <2> SUFFICES ASSUME NEW s \in Slots, Before(s, i.mark)
               PROVE  s \in syncing' \/ Hard(s)'
    OBVIOUS
  <2>1. /\ s[1] \in Nat /\ s[2] \in Nat /\ s[1] \in Files /\ lsn \in Nat \X Nat /\ lsn[1] \in Files
        /\ fLsn \in Nat \X Nat /\ wOff \in Nat
    BY SlotInts, RegionTypes
  <2>2. i.mark[1] = lsn[1]
    BY <1>3
  <2>3. CASE s[1] < lsn[1]
    <3>1. Hard(s)
      BY <2>1, <2>3 DEF Synced
    <3> QED BY <1>5, <3>1 DEF Grows
  <2>4. CASE s[1] = lsn[1] /\ s[2] < i.mark[2]
    <3>1. CASE wOff' = lsn[2] /\ i.mark = lsn
      <4>1. s[2] + RecLen <= lsn[2]
        BY <2>4, <3>1, SlotEdge, RegionTypes
      <4>2. Written(s)'
        BY <1>1, <2>4, <3>1, <4>1 DEF Written
      <4> QED BY <1>5, <2>4, <4>2
    <3>2. CASE bOff # 0 /\ wOff' = wOff /\ i.mark = fLsn
      <4>1. fLsn[2] \in Offsets /\ fLsn[2] <= wOff
        BY <3>2 DEF Region
      <4>2. s[2] + RecLen <= fLsn[2]
        BY <2>4, <3>2, <4>1, SlotEdge
      <4>3. s[2] + RecLen <= wOff
        BY <2>1, <4>1, <4>2, LenAssumption
      <4>4. Written(s)'
        BY <1>1, <2>4, <3>2, <4>3 DEF Written
      <4> QED BY <1>5, <2>4, <4>4
    <3> QED BY <1>3, <3>1, <3>2
  <2> QED BY <2>1, <2>2, <2>3, <2>4 DEF Before
<1>7. SureOK(pc[t], job[t])'
  <2>1. i.ok /\ i.why # "retry" /\ (i.why # "switch" => ~Before(i.to, i.rec))
    BY <1>2, <1>3 DEF SureOK, Flying
  <2>2. SureOK("sync", i)'
    BY <1>6, <2>1 DEF SureOK, Flying, Before
  <2> QED BY <1>4, <2>2 DEF SureOK
<1>8. \A u \in Threads \ {t} : pc[u] # "sync"
  BY <1>1, ThreadAssumption DEF Control, Places, HoldsFlush
<1> QED BY <1>1, <1>3, <1>4, <1>5, <1>7, <1>8, SyncedStep

\* The fsync ends.  When the halves of s_lsn are stored one by one there is one
\* file, and the first of them says nothing new.
LEMMA SyncSynced ==
    ASSUME Undisturbed, Inv, Content, Synced, NEW t \in Threads, Sync(t)
    PROVE  Synced'
<1> USE DEF Inv, Layout
<1> PICK j \in Jobs : j = job[t]
  BY DEF Control, Shape
<1>1. /\ pc[t] = "sync" /\ pc' = [pc EXCEPT ![t] = "store"] /\ job' = job
      /\ sLsn' = <<j.mark[1], IF SplitStores THEN sLsn[2] ELSE j.mark[2]>>
      /\ UNCHANGED <<lsn, woken, designated, up, promised, wrote>>
  BY DEF Sync, Go, regionVars, mutexVars, envVars, toldVars
<1>2. SureOK("sync", j)
  BY <1>1 DEF Synced
<1>3. Grows /\ \A s \in syncing : Hard(s)'
  BY SyncContent
<1>4. \A s \in Slots : Before(s, j.mark) => Hard(s)'
  BY <1>2, <1>3 DEF SureOK, Grows
<1>5. j.mark \in Nat \X Offsets /\ j.mark[1] \in Files
  BY <1>1, OneSyncer
<1>6. sLsn' = sLsn \/ HardBefore(sLsn)'
  <2>1. CASE SplitStores = FALSE
    <3>1. sLsn' = j.mark
      BY <1>1, <1>5, <2>1
    <3> QED BY <1>4, <3>1 DEF HardBefore, Before
  <2>2. CASE Files = {1} /\ SplitStores
    <3>1. sLsn' = <<1, sLsn[2]>>
      BY <1>1, <1>5, <2>2
    <3>2. sLsn \in {0, 1} \X Offsets /\ (sLsn[1] = 0 => sLsn = <<0, 0>>)
      BY <2>2 DEF SyncPlace, ZeroLsn
    <3>3. CASE sLsn[1] = 1
      BY <3>1, <3>2, <3>3
    <3>4. CASE sLsn[1] = 0
      <4>1. sLsn' = <<1, 0>>
        BY <3>1, <3>2, <3>4
      <4>2. \A s \in Slots : ~Before(s, sLsn')
        BY <4>1, SlotInts DEF Before
      <4> QED BY <4>2 DEF HardBefore, Before
    <3> QED BY <3>2, <3>3, <3>4
  <2> QED BY <2>1, <2>2, ThreadAssumption DEF Undisturbed
<1>7. /\ pc'[t] = "store" /\ job'[t] = j
      /\ \A u \in Threads \ {t} : pc'[u] = pc[u] /\ job'[u] = job[u]
  BY <1>1 DEF Control, Shape
<1>8. SureOK(pc[t], job[t])'
  <2>1. SureOK("store", j)'
    BY <1>2, <1>4 DEF SureOK, Flying, HardBefore, Before
  <2> QED BY <1>7, <2>1 DEF SureOK
<1> QED BY <1>1, <1>3, <1>6, <1>7, <1>8, SyncedStep

LEMMA StoreOffsetSynced ==
    ASSUME Inv, Synced, Grows, NEW t \in Threads, StoreOffset(t)
    PROVE  Synced'
<1> USE DEF Inv, Layout
<1> PICK j \in Jobs : j = job[t]
  BY DEF Control, Shape
<1> PICK i : i = job'[t]
  OBVIOUS
<1>1. /\ pc[t] = "store" /\ pc' = [pc EXCEPT ![t] = "synced"] /\ sLsn' = j.mark
      /\ job' = [job EXCEPT ![t].ok = TRUE, ![t].mark = ZeroLsn]
      /\ UNCHANGED <<lsn, woken, designated, syncing, up, promised, wrote>>
  BY DEF StoreOffset, Go, regionVars, logVars, envVars, toldVars
<1>2. SureOK("store", j)
  BY <1>1 DEF Synced
<1>3. /\ i.why = j.why /\ i.rec = j.rec /\ i.to = j.to /\ i.ok = TRUE
      /\ \A u \in Threads \ {t} : job'[u] = job[u]
  BY <1>1, JobSynced DEF Control
<1>4. pc'[t] = "synced" /\ \A u \in Threads \ {t} : pc'[u] = pc[u]
  BY <1>1 DEF Control, Shape
<1>5. HardBefore(j.mark) /\ \A s \in Slots : Before(s, j.mark) => Hard(s)'
  BY <1>2, GrowsSure DEF SureOK
<1>6. \A s \in Slots : ~Before(j.to, s) => Hard(s)'
  <2>1. j.to \in Slots /\ Before(j.to, j.mark) /\ j.mark \in Int \X Int
    BY <1>1, OneSyncer DEF Calls, CallOK, InCall, Flying, MarkOK, Jobs
  <2> QED BY <1>5, <2>1, SureFrom, GrowsSure
<1>7. SureOK(pc[t], job[t])'
  <2>1. Sure(i.to)' /\ HardBefore(sLsn)'
    BY <1>1, <1>3, <1>5, <1>6 DEF Sure, HardBefore, Before
  <2>2. i.ok /\ i.why # "retry" /\ (i.why # "switch" => ~Before(i.to, i.rec))
    BY <1>2, <1>3 DEF SureOK, Flying
  <2>3. SureOK("synced", i)'
    BY <2>1, <2>2 DEF SureOK, Flying, Before
  <2> QED BY <1>4, <2>3 DEF SureOK
<1>8. HardBefore(sLsn)'
  BY <1>1, <1>5 DEF HardBefore, Before
<1> QED BY <1>1, <1>3, <1>4, <1>7, <1>8, SyncedStep

\* A flush that is done: the committers it has served are told so, and so is
\* the caller.
LEMMA FlushDoneSynced ==
    ASSUME Inv, Synced, Grows, NEW t \in Threads, FlushDone(t)
    PROVE  Synced'
<1> USE DEF Inv, Layout
<1> PICK j \in Jobs : j = job[t]
  BY DEF Control, Shape
<1>1. /\ pc[t] \in {"flushed", "synced"} /\ woken' = woken \cup Served \cup NextLeader
      /\ designated' = designated \cup NextLeader
      /\ UNCHANGED <<lsn, sLsn, syncing>>
  BY DEF FlushDone, logVars
<1>2. SureOK(pc[t], j)
  BY DEF Synced
<1>3. /\ Sure(j.to) /\ j.ok /\ j.why # "retry" /\ (j.why # "switch" => ~Before(j.to, j.rec))
      /\ up = "up" \/ HardBefore(sLsn)
  BY <1>1, <1>2 DEF SureOK, Flying
<1>4. \A u \in woken' \ designated' :
        u \in woken \ designated \/ (u \in Threads \ {t} /\ Sure(job[u].to))
  <2> SUFFICES ASSUME NEW u \in Served PROVE u \in Threads \ {t} /\ Sure(job[u].to)
    BY <1>1
  <2>1. u \in Listed /\ AlreadyFlushed(job[u].to)
    BY DEF Served, Listed
  <2>2. u \in Threads /\ pc[u] = "wait"
    BY <2>1 DEF Control, Shape, Waiters, Listed, IsList
  <2>3. up = "up"
    BY <2>2 DEF Synced, SureOK
  <2>4. job[u].to \in Slots
    BY <2>2 DEF Calls, CallOK, InCall
  <2> QED BY <1>1, <2>1, <2>2, <2>3, <2>4, FlushedSure
<1>5. \/ /\ j.why = "switch" /\ Go(t, "newfile") /\ UNCHANGED <<job, up, promised, wrote>>
      \/ j.why \in {"commit", "api"} /\ Return(t, "flushed")
  BY <1>3, Zenon DEF FlushDone, toldVars
<1>6. CASE j.why = "switch" /\ Go(t, "newfile") /\ UNCHANGED <<job, up, promised, wrote>>
  <2>1. /\ pc'[t] = "newfile" /\ job'[t] = j
        /\ \A u \in Threads \ {t} : pc'[u] = pc[u] /\ job'[u] = job[u]
    BY <1>6 DEF Go, Control, Shape
  <2>2. j.to = LastLsn
    BY <1>1, <1>6 DEF Calls, CallOK, Flying
  <2>3. Sure(LastLsn)'
    <3>1. LastLsn' = LastLsn
      BY <1>1 DEF LastLsn
    <3> QED BY <1>3, <2>2, <3>1, GrowsSure DEF Sure, Before
  <2>4. SureOK("newfile", j)'
    BY <1>3, <2>3 DEF SureOK, Flying
  <2>5. SureOK(pc[t], job[t])'
    BY <2>1, <2>4 DEF SureOK
  <2> QED BY <1>1, <1>4, <1>6, <2>1, <2>5, SyncedStep
<1>7. CASE j.why \in {"commit", "api"} /\ Return(t, "flushed")
  <2>1. Sure(j.rec)
    <3>1. j.to \in Slots /\ j.rec \in Slots
      BY <1>1, <1>7 DEF Calls, CallOK, InCall, Flying
    <3> QED BY <1>3, <1>7, <3>1, SureUpTo
  <2>2. wrote' = wrote /\ promised' = promised \cup {j.rec}
    BY <1>7 DEF Return
  <2>3. up' = up \/ (up = "recovering" /\ up' = "up" /\ HardBefore(sLsn))
    BY <1>3, <1>7 DEF Return, Mode
  <2>4. /\ SureOK(pc[t], job[t])'
        /\ \A u \in Threads \ {t} : pc'[u] = pc[u] /\ job'[u] = job[u]
    BY <1>7, ReturnSure
  <2> QED BY <1>1, <1>4, <2>1, <2>2, <2>3, <2>4, SyncedStep
<1> QED BY <1>5, <1>6, <1>7

LEMMA StepSynced ==
    ASSUME Undisturbed, Inv, Content, Synced, NEW t \in Threads, Step(t)
    PROVE  Content' /\ Synced'
<1>1. MaxFailures = 0 /\ ~CanFail
  BY DEF Undisturbed, CanFail, Inv, Records
<1>2. pc[t] # "failed"
  BY DEF Synced, SureOK
<1>3. Content' /\ Grows
  BY <1>1, <1>2, StepContent
<1>4. CASE NewFile(t)
  BY <1>1, <1>3, <1>4, NewFileSynced
<1>5. CASE PutRecord(t)
  BY <1>1, <1>3, <1>5, PutRecordSynced
<1>6. CASE WriteOut(t)
  BY <1>1, <1>3, <1>6, WriteOutSynced
<1>7. CASE TakeRegion(t) \/ EnterFlushed(t) \/ Join(t) \/ Lead(t) \/ Wake(t)
  BY <1>3, <1>7, TakeRegionSynced, EnterFlushedSynced, JoinSynced, LeadSynced, WakeSynced
<1>8. CASE FlushSkipped(t) \/ FlushStart(t) \/ Sync(t) \/ StoreOffset(t) \/ FlushDone(t)
  BY <1>3, <1>8, FlushSkippedSynced, FlushStartSynced, SyncSynced, StoreOffsetSynced,
     FlushDoneSynced
<1>9. CASE PutFails(t) \/ WriteOutFails(t) \/ FlushWriteFails(t) \/ SyncFails(t)
  BY <1>1, <1>9 DEF PutFails, WriteOutFails, FlushWriteFails, SyncFails, WriteFails
<1>10. CASE FailureIgnored(t) \/ AbortInBuffer(t) \/ AbortInFile(t) \/ AbortPanics(t)
  BY <1>2, <1>10 DEF FailureIgnored, AbortInBuffer, AbortInFile, AbortPanics
<1> QED BY <1>3, <1>4, <1>5, <1>6, <1>7, <1>8, <1>9, <1>10 DEF Step

LEMMA SameSynced ==
    ASSUME Inv, Synced, UNCHANGED <<lsn, wOff, disk, syncing, sLsn, woken, designated, promised,
                                    wrote, up, pc, job>>
    PROVE  Synced'
<1>1. ASSUME NEW s PROVE Hard(s)' <=> Hard(s)
  BY DEF Hard
<1>2. LastLsn' = LastLsn
  BY DEF LastLsn
<1>3. ASSUME NEW t \in Threads PROVE SureOK(pc[t], job[t])'
  <2> PICK p \in PcStates : p = pc[t] /\ p = pc'[t]
    BY DEF Inv, Control, Shape
  <2> PICK j \in Jobs : j = job[t] /\ j = job'[t]
    BY DEF Inv, Control, Shape
  <2>1. SureOK(p, j)
    BY DEF Synced
  <2>2. SureOK(p, j)'
    BY <1>1, <1>2, <2>1 DEF SureOK, Sure, HardBefore, Before, AlreadyFlushed
  <2> QED BY <2>2 DEF SureOK
<1>4. HardBefore(sLsn)' <=> HardBefore(sLsn)
  BY <1>1 DEF HardBefore, Before
<1> QED BY <1>1, <1>3, <1>4 DEF Synced, Sure, Written, Before

LEMMA NextSynced ==
    ASSUME Undisturbed, Inv, Content, Synced, Next
    PROVE  Content' /\ Synced'
<1>1. CASE \E t \in Threads, k \in Kinds \cup {"ckp"} : Enter(t, k)
  BY <1>1, EnterSynced
<1>2. CASE \E t \in Threads, r \in Slots : ApiFlush(t, r)
  BY <1>2, ApiFlushSynced
<1>3. CASE \E t \in Threads : Step(t)
  BY <1>3, StepSynced
<1>4. CASE AppCrash \/ SystemCrash
  BY <1>4, CrashSynced
<1> QED BY <1>1, <1>2, <1>3, <1>4 DEF Next

\* An empty log.
LEMMA InitSynced == Init => Content /\ Synced
<1> SUFFICES ASSUME Init PROVE Content /\ Synced
  OBVIOUS
<1>1. /\ lsn = <<1, 0>> /\ wOff = 0 /\ sLsn = <<0, 0>> /\ up = "up" /\ syncing = {}
      /\ mem = [s \in Slots |-> "none"] /\ os = [s \in Slots |-> "none"]
      /\ disk = [s \in Slots |-> {"none"}] /\ woken = {} /\ promised = {} /\ wrote = {}
      /\ \A t \in Threads : pc[t] = "idle" /\ job[t] = NoJob
  BY DEF Init, ZeroLsn
<1>2. \A s \in Slots : ~(s[1] < lsn[1]) /\ ~Before(s, lsn) /\ ~Written(s) /\ ~Before(s, sLsn)
  BY <1>1, SlotInts, LenAssumption DEF Before, Written
<1>3. Content
  BY <1>1, <1>2 DEF Content
<1>4. \A t \in Threads : SureOK(pc[t], job[t])
  <2> SUFFICES ASSUME NEW t \in Threads PROVE SureOK("idle", NoJob)
    BY <1>1
  <2> QED BY DEF SureOK, NoJob, Call, Flying
<1>5. HardBefore(sLsn)
  BY <1>2 DEF HardBefore
<1> QED BY <1>1, <1>2, <1>3, <1>4, <1>5 DEF Synced

(***************************************************************************)
(* What holds when no write and no fsync fails.                            *)
(***************************************************************************)

\* Each record that has been written is as it was put, every record before
\* s_lsn is on disk, and so is every record a caller was told of: group commit
\* hands the flush from committer to committer without losing one, s_lsn is
\* set and read under different locks, the buffer is written and synced in
\* pieces.
THEOREM DataInvariant ==
    ASSUME Undisturbed
    PROVE  Spec => [](Content /\ Synced)
<1>1. Init => Content /\ Synced
  BY InitSynced
<1>2. Inv /\ Content /\ Synced /\ [Next]_vars => (Content /\ Synced)'
  <2> SUFFICES ASSUME Inv, Content, Synced, [Next]_vars PROVE Content' /\ Synced'
    OBVIOUS
  <2>1. CASE Next
    BY <2>1, NextSynced
  <2>2. CASE UNCHANGED vars
    <3>1. UNCHANGED <<lsn, wOff, mem, os, disk, syncing, sLsn, woken, designated, promised, wrote,
                      up, pc, job>>
      BY <2>2 DEF vars, regionVars, mutexVars, logVars, envVars, toldVars
    <3>2. Content' /\ Grows
      BY <3>1, QuietContent
    <3>3. Synced'
      BY <3>1, <3>2, SameSynced
    <3> QED BY <3>2, <3>3
  <2> QED BY <2>1, <2>2
<1> QED BY <1>1, <1>2, Invariant, PTL DEF Spec

\* What is hard is what the log manager means it to be.
LEMMA HardExact ==
    ASSUME Inv, Content, NEW s \in Slots, Hard(s)
    PROVE  disk[s] = {mem[s]} /\ mem[s] = "rec"
<1>1. os[s] = "rec"
  BY DEF Inv, Records, Kept, Hard
<1>2. Written(s)
  BY <1>1 DEF Content
<1>3. Before(s, lsn)
  BY <1>2, WrittenBefore DEF Inv, Layout
<1> QED BY <1>3 DEF Content, Hard

\* s_lsn tells the truth: __log_flush_int stores it under mtx_flush, after the
\* fsync, from what it noted of the buffer under the region lock before it.
THEOREM SyncPointExact ==
    ASSUME Undisturbed
    PROVE  Spec => []SyncedExact
<1>1. Inv /\ Content /\ Synced => SyncedExact
  BY HardExact DEF Synced, SyncedExact, HardBefore
<1> QED BY <1>1, Invariant, DataInvariant, PTL

\* __log_newfile finds an empty buffer, and leaves no record of the file
\* before that a crash may take.
THEOREM OldFilesHard ==
    ASSUME Undisturbed
    PROVE  Spec => []FilesComplete
<1>1. Inv /\ Content /\ Synced => FilesComplete
  <2> SUFFICES ASSUME Inv, Content, Synced PROVE FilesComplete
    OBVIOUS
  <2>1. \A t \in Threads : pc[t] = "newfile" => bOff = 0
    BY DEF Inv, Layout, Calls, CallOK
  <2>2. up = "up" => \A s \in Slots : s[1] < lsn[1] => disk[s] = {mem[s]}
    BY HardExact DEF Synced
  <2> QED BY <2>1, <2>2 DEF FilesComplete
<1> QED BY <1>1, Invariant, DataInvariant, PTL

\* A commit, or a flush for the buffer pool, that was told it is on disk is
\* found by every recovery, whoever of the group made the flush.
THEOREM PromisesKept ==
    ASSUME Undisturbed
    PROVE  Spec => []Durable
<1>1. Inv /\ Synced => Durable
  <2> SUFFICES ASSUME Inv, Synced, NEW s \in promised PROVE Safe(s)
    BY DEF Durable
  <2>1. s \in Slots /\ \A r \in Slots : ~Before(s, r) => disk[r] = {"rec"}
    BY DEF Synced, Sure, Hard, Inv, Records, Told
  <2>2. s[1] \in Nat /\ s[2] \in Nat
    BY <2>1, SlotInts
  <2>3. \A r \in Slots : Before(r, s) => disk[r] = {"rec"}
    <3> SUFFICES ASSUME NEW r \in Slots, Before(r, s) PROVE ~Before(s, r)
      BY <2>1
    <3>1. r[1] \in Nat /\ r[2] \in Nat
      BY SlotInts
    <3> QED BY <2>2, <3>1 DEF Before
  <2>4. disk[s] = {"rec"}
    BY <2>1, <2>2 DEF Before
  <2> QED BY <2>3, <2>4 DEF Safe, Readable
<1> QED BY <1>1, Invariant, DataInvariant, PTL

\* A commit without a sync has been given to the operating system, and all
\* that comes before it.
THEOREM WritesKept ==
    ASSUME Undisturbed
    PROVE  Spec => []WrittenSurvives
<1>1. Inv /\ Content /\ Synced => WrittenSurvives
  <2> SUFFICES ASSUME Inv, Content, Synced, NEW s \in wrote, NEW r \in Slots
               PROVE  (Before(r, s) => Readable(os[r])) /\ os[s] = "rec"
    BY DEF WrittenSurvives
  <2>1. s \in Slots /\ Written(s)
    BY DEF Synced, Inv, Records, Told
  <2>2. s[1] \in Nat /\ s[2] \in Nat /\ r[1] \in Nat /\ r[2] \in Nat /\ lsn[1] \in Nat
        /\ wOff \in Nat /\ RecLen \in Nat
    BY <2>1, SlotInts, RegionTypes DEF Inv, Layout
  <2>3. Before(r, s) => Written(r)
    BY <2>1, <2>2 DEF Written, Before
  <2> QED BY <2>1, <2>3 DEF Content, Readable
<1> QED BY <1>1, Invariant, DataInvariant, PTL

(***************************************************************************)
(* What is on disk when one write or fsync fails.                          *)
(***************************************************************************)

\* At most one write or fsync fails, and nothing crashes: s_lsn is then what
\* __log_put and __log_flush_int left in it.
OneFailure == MaxFailures <= 1 /\ MaxCrashes = 0 /\ WholeStores

\* The disk holds what the log manager means the record to be.
Exact(s) == disk[s] = {mem[s]} /\ mem[s] # "none"

\* A commit that could not be flushed may be overwritten on its way, but what
\* is before s_lsn is exact, and all the files before the last one are.
OnDisk ==
    /\ \A s \in Slots : Before(s, lsn) => mem[s] # "none"
    /\ \A s \in Slots : Written(s) => os[s] = mem[s]
    /\ \A s \in Slots : Before(s, sLsn) => Exact(s)
    /\ \A s \in Slots : s[1] < lsn[1] => Before(s, sLsn)

\* What a thread at p with job j has reached.
HardTo(p, j) ==
    /\ p = "sync" => \A s \in Slots : Before(s, j.mark) => s \in syncing \/ Exact(s)
    /\ p = "store" => \A s \in Slots : Before(s, j.mark) => Exact(s)
    /\ p = "newfile" => lsn[2] = 0 \/ AlreadyFlushed(LastLsn)
    /\ p \in {"flushed", "synced"} /\ j.why = "switch" /\ j.ok => AlreadyFlushed(j.to)

Reached == \A t \in Threads : HardTo(pc[t], job[t])

\* The records that s_lsn covers, or will when the fsync is over.
Settled(s) ==
    \/ Before(s, sLsn)
    \/ \E t \in Threads : pc[t] \in {"sync", "store"} /\ Before(s, job[t].mark)

-----------------------------------------------------------------------------
(* The steps that leave s_lsn alone.                                       *)

\* All that is settled has been written.
LEMMA MarkWritten ==
    ASSUME Region, NEW m \in Nat \X Offsets, NEW s \in Slots, Before(s, m),
           m[1] < lsn[1] \/ (m[1] = lsn[1] /\ m[2] <= wOff)
    PROVE  Written(s)
<1>1. /\ s[1] \in Nat /\ s[2] \in Nat /\ m[1] \in Nat /\ m[2] \in Offsets /\ m[2] \in Nat
      /\ lsn[1] \in Nat /\ wOff \in Nat /\ RecLen \in Nat
  BY SlotInts, RegionTypes, OffsetFacts
<1>2. s[2] < m[2] => s[2] + RecLen <= m[2]
  BY <1>1, SlotEdge
<1> QED BY <1>1, <1>2 DEF Before, Written

LEMMA SettledWritten ==
    ASSUME Inv, WholeStores, up # "panic", NEW s \in Slots, Settled(s)
    PROVE  Written(s)
<1> USE DEF Inv, Layout
<1>1. ASSUME NEW t \in Threads, pc[t] \in {"sync", "store"}, Before(s, job[t].mark)
      PROVE  Written(s)
  BY <1>1, OneSyncer, MarkWritten DEF MarkOK
<1>2. CASE Before(s, sLsn)
  <2>1. sLsn \in Nat \X Offsets
    BY FileAssumption DEF SyncPlace
  <2>2. CASE \A t \in Threads : pc[t] # "store"
    BY <1>2, <2>1, <2>2, MarkWritten DEF SyncPlace
  <2>3. ASSUME NEW t \in Threads, pc[t] = "store" PROVE Written(s)
    <3> PICK m \in Int \X Int : m = job[t].mark
      BY DEF Control, Shape, Jobs
    <3>1. ~Before(m, sLsn) /\ m \in Nat \X Offsets
      BY <2>3, OneSyncer DEF SyncPlace
    <3>2. s[1] \in Nat /\ s[2] \in Nat /\ sLsn[1] \in Nat /\ sLsn[2] \in Nat /\ m[2] \in Nat
      BY <2>1, <3>1, SlotInts, OffsetFacts
    <3>3. Before(s, m)
      BY <1>2, <3>1, <3>2 DEF Before
    <3> QED BY <1>1, <2>3, <3>3
  <2> QED BY <2>2, <2>3
<1> QED BY <1>1, <1>2 DEF Settled

\* A step of t that changes, of the records that are settled, none.
LEMMA UnsettledStep ==
    ASSUME Inv, OnDisk, Reached, NEW t \in Threads, NEW alone \in BOOLEAN,
           \A u \in Threads \ {t} : pc'[u] = pc[u] /\ job'[u] = job[u],
           sLsn' = sLsn, lsn' = lsn \/ (region = t /\ lsn'[1] = lsn[1]),
           \A s \in Slots : Settled(s) =>
               mem'[s] = mem[s] /\ disk'[s] = disk[s] /\ (s \in syncing => s \in syncing' \/ alone),
           alone => \A u \in Threads \ {t} : pc[u] # "sync",
           \A s \in Slots : Before(s, lsn') => mem'[s] # "none",
           \A s \in Slots : Written(s)' => os'[s] = mem'[s],
           HardTo(pc[t], job[t])'
    PROVE  OnDisk' /\ Reached'
<1> USE DEF Inv
<1>1. \A s \in Slots : Before(s, sLsn) => Exact(s)'
  BY DEF OnDisk, Settled, Exact
<1>2. \A s \in Slots : s[1] < lsn'[1] => Before(s, sLsn)
  BY DEF OnDisk
<1>3. OnDisk'
  BY <1>1, <1>2 DEF OnDisk, Before
<1>4. ASSUME NEW u \in Threads \ {t} PROVE HardTo(pc[u], job[u])'
  <2> PICK p \in PcStates : p = pc[u] /\ p = pc'[u]
    BY DEF Control, Shape
  <2> PICK j \in Jobs : j = job[u] /\ j = job'[u]
    BY DEF Control, Shape
  <2>1. HardTo(p, j)
    BY DEF Reached
  <2>2. p \in {"sync", "store"} => \A s \in Slots : Before(s, j.mark) => Settled(s)
    BY DEF Settled
  <2>3. p = "sync" => \A s \in Slots : Before(s, j.mark) => s \in syncing' \/ Exact(s)'
    BY <2>1, <2>2 DEF HardTo, Exact
  <2>4. p = "store" => \A s \in Slots : Before(s, j.mark) => Exact(s)'
    BY <2>1, <2>2 DEF HardTo, Exact
  <2>5. p = "newfile" => lsn' = lsn
    BY DEF Control, Places, HoldsRegion
  <2>6. p = "newfile" => lsn'[2] = 0 \/ Before(LastLsn', sLsn')
    BY <2>1, <2>5 DEF HardTo, AlreadyFlushed, LastLsn
  <2>7. p \in {"flushed", "synced"} /\ j.why = "switch" /\ j.ok => Before(j.to, sLsn')
    BY <2>1 DEF HardTo, AlreadyFlushed
  <2> QED BY <2>3, <2>4, <2>6, <2>7 DEF HardTo, AlreadyFlushed, Before
<1> QED BY <1>3, <1>4 DEF Reached

\* It changes nothing of the log.
LEMMA StillStep ==
    ASSUME Inv, OnDisk, Reached, NEW t \in Threads,
           \A u \in Threads \ {t} : pc'[u] = pc[u] /\ job'[u] = job[u],
           UNCHANGED <<sLsn, lsn, wOff, mem, os, disk, syncing>>,
           HardTo(pc[t], job[t])'
    PROVE  OnDisk' /\ Reached'
<1>1. \A s \in Slots : Written(s)' => Written(s)
  BY DEF Written
<1>2. \A s \in Slots : Before(s, lsn') => mem'[s] # "none"
  BY DEF OnDisk, Before
<1>3. \A s \in Slots : Written(s)' => os'[s] = mem'[s]
  BY <1>1 DEF OnDisk
<1> QED BY <1>2, <1>3, UnsettledStep

\* A write of records that were not written; some of them may not have been
\* written in full.
LEMMA WritingStep ==
    ASSUME Inv, WholeStores, OnDisk, Reached, NEW t \in Threads, pc[t] # "idle",
           NEW alone \in BOOLEAN, alone => \A u \in Threads \ {t} : pc[u] # "sync",
           NEW n \in Nat, NEW R \in SUBSET Completed(n), NEW m,
           \A u \in Threads \ {t} : pc'[u] = pc[u] /\ job'[u] = job[u],
           sLsn' = sLsn, lsn' = lsn \/ (region = t /\ lsn'[1] = lsn[1]),
           os' = [s \in Slots |-> IF s \in R THEN m[s] ELSE os[s]],
           disk' = [s \in Slots |-> IF s \in R THEN disk[s] \cup {m[s]} ELSE disk[s]],
           syncing' = syncing \ R \/ alone,
           \A s \in Slots : Written(s) => mem'[s] = mem[s],
           \A s \in Slots : Before(s, lsn') => mem'[s] # "none",
           \A s \in Slots : Written(s)' => IF s \in R THEN mem'[s] = m[s] ELSE Written(s),
           HardTo(pc[t], job[t])'
    PROVE  OnDisk' /\ Reached'
<1>1. up # "panic"
  BY DEF Inv, Layout, Mode
<1>2. \A s \in R : s \in Slots /\ ~Written(s)
  BY CompletedEdge DEF Completed, Inv, Layout
<1>3. \A s \in Slots : Settled(s) => Written(s)
  BY <1>1, SettledWritten
<1>4. \A s \in Slots : Settled(s) =>
        mem'[s] = mem[s] /\ disk'[s] = disk[s] /\ (s \in syncing => s \in syncing' \/ alone)
  BY <1>2, <1>3
<1>5. \A s \in Slots : Written(s)' => os'[s] = mem'[s]
  BY <1>2 DEF OnDisk
<1> QED BY <1>4, <1>5, UnsettledStep

\* A write that fails, of what the buffer holds with the record that is put.
LEMMA FailedWrite ==
    ASSUME Inv, WholeStores, OnDisk, Reached, NEW t \in Threads, pc[t] # "idle",
           NEW n \in Nat, NEW m, WriteFails(n, m),
           \A u \in Threads \ {t} : pc'[u] = pc[u] /\ job'[u] = job[u],
           UNCHANGED <<sLsn, lsn, wOff, mem>>, HardTo(pc[t], job[t])'
    PROVE  OnDisk' /\ Reached'
<1>1. PICK R \in SUBSET Completed(n) : Reach(R, m)
  BY DEF WriteFails
<1>2. /\ os' = [s \in Slots |-> IF s \in R THEN m[s] ELSE os[s]]
      /\ disk' = [s \in Slots |-> IF s \in R THEN disk[s] \cup {m[s]} ELSE disk[s]]
      /\ syncing' = syncing \ R
  BY <1>1 DEF Reach
<1>3. \A s \in Slots : Written(s)' => Written(s)
  BY DEF Written
<1>4. \A s \in Slots : Written(s)' => s \notin R
  BY <1>3, CompletedEdge DEF Inv, Layout
<1>5. \A s \in Slots : Before(s, lsn') => mem'[s] # "none"
  BY DEF OnDisk, Before
<1> DEFINE alone == FALSE
<1>6. alone \in BOOLEAN /\ (alone => \A u \in Threads \ {t} : pc[u] # "sync")
  OBVIOUS
<1> HIDE DEF alone
<1> QED BY <1>1, <1>2, <1>3, <1>4, <1>5, <1>6, WritingStep

-----------------------------------------------------------------------------
(* One lemma a step.                                                       *)

\* Where there is nothing to reach.
Open == {"idle", "append", "writeout", "lock", "enter", "wait", "flush", "failed"}

LEMMA OpenReaches ==
    ASSUME NEW p \in Open, NEW t, pc'[t] = p
    PROVE  HardTo(pc[t], job[t])'
BY DEF Open, HardTo

LEMMA EnterExact ==
    ASSUME Inv, OnDisk, Reached, NEW t \in Threads, NEW k, Enter(t, k)
    PROVE  OnDisk' /\ Reached'
<1> PICK p \in {"append", "newfile", "flush"} :
      p = IF Fits THEN "append" ELSE IF lsn[2] = 0 THEN "newfile" ELSE "flush"
  OBVIOUS
<1> PICK j : j = Call(k, ZeroLsn, LastLsn, IF Fits THEN "put" ELSE "switch")
  OBVIOUS
<1>0. UNCHANGED <<sLsn, lsn, wOff, mem, os, disk, syncing>>
  BY DEF Enter, regionVars, logVars
<1>1. pc' = [pc EXCEPT ![t] = p] /\ job' = [job EXCEPT ![t] = j]
  BY DEF Enter, Go
<1>2. /\ pc'[t] = p
      /\ \A u \in Threads \ {t} : pc'[u] = pc[u] /\ job'[u] = job[u]
  <2>1. pc \in [Threads -> PcStates] /\ job \in [Threads -> Jobs]
    BY DEF Inv, Control, Shape
  <2> HIDE DEF Inv
  <2> QED BY <1>1, <2>1
<1>3. p = "newfile" => lsn'[2] = 0
  BY <1>0
<1>4. HardTo(pc[t], job[t])'
  BY <1>2, <1>3 DEF HardTo
<1> QED BY <1>0, <1>2, <1>4, StillStep

LEMMA ApiFlushExact ==
    ASSUME Inv, OnDisk, Reached, NEW t \in Threads, NEW r, ApiFlush(t, r)
    PROVE  OnDisk' /\ Reached'
<1>1. UNCHANGED <<sLsn, lsn, wOff, mem, os, disk, syncing>> /\ pc[t] = "idle"
  BY DEF ApiFlush, regionVars, logVars
<1>2. \E p \in {"idle", "lock"} :
        pc'[t] = p /\ \A u \in Threads \ {t} : pc'[u] = pc[u] /\ job'[u] = job[u]
  <2>1. CASE UNCHANGED <<pc, job>>
    BY <1>1, <2>1
  <2>2. CASE ~UNCHANGED <<pc, job>>
    <3>1. /\ pc' = [pc EXCEPT ![t] = "lock"]
          /\ job' = [job EXCEPT ![t] = Call("api", r, r, "api")]
      BY <2>2 DEF ApiFlush, Go
    <3> QED BY <3>1, GoesTo
  <2> QED BY <2>1, <2>2
<1>3. HardTo(pc[t], job[t])'
  BY <1>2, OpenReaches DEF Open
<1> QED BY <1>1, <1>2, <1>3, StillStep

\* A step that returns or goes on without having reached anything.
LEMMA OpenStep ==
    ASSUME Inv, OnDisk, Reached, NEW t \in Threads, NEW p \in Open,
           pc' = [pc EXCEPT ![t] = p],
           \A u \in Threads \ {t} : job'[u] = job[u],
           UNCHANGED <<sLsn, lsn, wOff, mem, os, disk, syncing>>
    PROVE  OnDisk' /\ Reached'
<1>1. pc'[t] = p /\ \A u \in Threads \ {t} : pc'[u] = pc[u]
  BY DEF Inv, Control, Shape
<1> QED BY <1>1, OpenReaches, StillStep

LEMMA WaitingExact ==
    ASSUME Inv, OnDisk, Reached, NEW t \in Threads,
           \/ TakeRegion(t) \/ EnterFlushed(t) \/ Join(t) \/ Lead(t) \/ Wake(t)
           \/ FailureIgnored(t)
    PROVE  OnDisk' /\ Reached'
<1>1. UNCHANGED <<sLsn, lsn, wOff, mem, os, disk, syncing>>
  BY DEF TakeRegion, EnterFlushed, Join, Lead, Wake, FailureIgnored, regionVars, logVars
<1>2. \A u \in Threads \ {t} : job'[u] = job[u]
  BY DEF TakeRegion, EnterFlushed, Join, Lead, Wake, FailureIgnored, Return,
         Inv, Control, Shape
<1>3. \E p \in Open : pc' = [pc EXCEPT ![t] = p]
  BY DEF TakeRegion, EnterFlushed, Join, Lead, Wake, FailureIgnored, Return, Go, Open
<1> QED BY <1>1, <1>2, <1>3, OpenStep

LEMMA FlushSkippedExact ==
    ASSUME Inv, OnDisk, Reached, NEW t \in Threads, FlushSkipped(t)
    PROVE  OnDisk' /\ Reached'
<1>1. /\ pc' = [pc EXCEPT ![t] = "flushed"] /\ job' = [job EXCEPT ![t].ok = TRUE]
      /\ UNCHANGED <<sLsn, lsn, wOff, mem, os, disk, syncing>> /\ Before(job[t].to, sLsn)
  BY DEF FlushSkipped, Go, regionVars, logVars, AlreadyFlushed
<1>2. /\ job'[t].to = job[t].to
      /\ \A u \in Threads \ {t} : job'[u] = job[u]
  BY <1>1, JobOutcome DEF Inv, Control
<1>3. pc'[t] = "flushed" /\ \A u \in Threads \ {t} : pc'[u] = pc[u]
  BY <1>1 DEF Inv, Control, Shape
<1>4. Before(job'[t].to, sLsn')
  BY <1>1, <1>2
<1>5. HardTo(pc[t], job[t])'
  BY <1>3, <1>4 DEF HardTo, AlreadyFlushed, Before
<1> QED BY <1>1, <1>2, <1>3, <1>5, StillStep

\* A file switch goes on with what its flush has reached.
LEMMA FlushDoneExact ==
    ASSUME Inv, OnDisk, Reached, NEW t \in Threads, FlushDone(t)
    PROVE  OnDisk' /\ Reached'
<1>1. UNCHANGED <<sLsn, lsn, wOff, mem, os, disk, syncing>>
  BY DEF FlushDone, logVars
<1>2. \A u \in Threads \ {t} : job'[u] = job[u]
  BY DEF FlushDone, Return, Inv, Control, Shape
<1>3. CASE job[t].why = "switch" /\ job[t].ok /\ Go(t, "newfile") /\ job' = job
  <2>1. pc'[t] = "newfile" /\ \A u \in Threads \ {t} : pc'[u] = pc[u]
    BY <1>3 DEF Go, Inv, Control, Shape
  <2>2. pc[t] \in {"flushed", "synced"}
    BY DEF FlushDone
  <2>3. AlreadyFlushed(job[t].to) /\ job[t].to = LastLsn
    BY <1>3, <2>2 DEF Reached, HardTo, Inv, Layout, Calls, CallOK, Flying
  <2>4. Before(LastLsn', sLsn')
    BY <1>1, <2>3 DEF AlreadyFlushed, LastLsn
  <2>5. HardTo(pc[t], job[t])'
    BY <2>1, <2>4 DEF HardTo, AlreadyFlushed, Before
  <2> QED BY <1>1, <1>2, <2>1, <2>5, StillStep
<1>4. CASE \E p \in {"idle", "failed"} : pc' = [pc EXCEPT ![t] = p]
  <2>1. PICK p \in {"idle", "failed"} : pc' = [pc EXCEPT ![t] = p]
    BY <1>4
  <2>2. p \in Open
    BY DEF Open
  <2> QED BY <1>1, <1>2, <2>1, <2>2, OpenStep
<1> QED BY <1>3, <1>4 DEF FlushDone, Return, Go

LEMMA WriteFailureExact ==
    ASSUME Inv, WholeStores, OnDisk, Reached, NEW t \in Threads,
           PutFails(t) \/ WriteOutFails(t) \/ FlushWriteFails(t)
    PROVE  OnDisk' /\ Reached'
<1>0. bOff \in Nat /\ BufSize \in Nat
  BY RegionTypes, LenAssumption DEF Inv, Layout
<1>1. /\ pc[t] # "idle" /\ UNCHANGED <<sLsn, lsn, wOff, mem>>
      /\ \E n \in Nat : \E m : WriteFails(n, m)
  BY <1>0 DEF PutFails, WriteOutFails, FlushWriteFails, regionVars
<1>2. \A u \in Threads \ {t} : pc'[u] = pc[u] /\ job'[u] = job[u]
  BY DEF PutFails, WriteOutFails, FlushWriteFails, Go, Inv, Control, Shape
<1>3. HardTo(pc[t], job[t])'
  <2>1. CASE PutFails(t) \/ WriteOutFails(t)
    <3>1. pc'[t] \in {"idle", "failed"}
      BY <2>1 DEF PutFails, WriteOutFails, Go, Inv, Control, Shape
    <3> QED BY <3>1, OpenReaches DEF Open
  <2>2. CASE FlushWriteFails(t)
    <3>1. pc' = [pc EXCEPT ![t] = "flushed"] /\ job' = [job EXCEPT ![t].ok = FALSE]
      BY <2>2 DEF FlushWriteFails, Go
    <3>2. pc'[t] = "flushed" /\ ~job'[t].ok
      BY <3>1, JobOutcome DEF Inv, Control, Shape
    <3> QED BY <3>2 DEF HardTo
  <2> QED BY <2>1, <2>2
<1> QED BY <1>1, <1>2, <1>3, FailedWrite

LEMMA WriteOutExact ==
    ASSUME Inv, WholeStores, OnDisk, Reached, NEW t \in Threads, WriteOut(t)
    PROVE  OnDisk' /\ Reached'
<1> USE DEF Inv, Layout
<1>1. /\ pc[t] # "idle" /\ UNCHANGED <<sLsn, lsn, mem>> /\ wOff' = wOff + bOff
      /\ os' = [s \in Slots |-> IF s \in Completed(bOff) THEN mem[s] ELSE os[s]]
      /\ disk' = [s \in Slots |-> IF s \in Completed(bOff) THEN disk[s] \cup {mem[s]} ELSE disk[s]]
      /\ syncing' = syncing \ Completed(bOff)
  BY DEF WriteOut, Reach
<1>2. bOff \in Nat
  BY RegionTypes
<1>3. pc' = [pc EXCEPT ![t] = "idle"] /\ job' = [job EXCEPT ![t] = NoJob]
  BY DEF WriteOut, Return
<1>4. pc'[t] = "idle" /\ \A u \in Threads \ {t} : pc'[u] = pc[u] /\ job'[u] = job[u]
  BY <1>3, GoesTo
<1>5. HardTo(pc[t], job[t])'
  BY <1>4, OpenReaches DEF Open
<1>6. \A s \in Slots : Written(s)' => IF s \in Completed(bOff) THEN mem'[s] = mem[s] ELSE Written(s)
  BY <1>1, <1>2, CompletedEdge DEF Written
<1>7. \A s \in Slots : Before(s, lsn') => mem'[s] # "none"
  BY <1>1 DEF OnDisk, Before
<1> DEFINE alone == FALSE
<1>8. alone \in BOOLEAN /\ (alone => \A u \in Threads \ {t} : pc[u] # "sync")
  OBVIOUS
<1>9. \A s \in Slots : Written(s) => mem'[s] = mem[s]
  BY <1>1
<1>10. PICK R \in SUBSET Completed(bOff) : R = Completed(bOff)
  OBVIOUS
<1> HIDE DEF alone, Inv
<1> QED BY <1>1, <1>2, <1>4, <1>5, <1>6, <1>7, <1>8, <1>9, <1>10, WritingStep

\* The slots a new record adds to the log.
LEMMA PutEdge ==
    ASSUME Region, lsn[2] # 0, lsn[2] + RecLen <= FileSize,
           lsn' = <<lsn[1], lsn[2] + RecLen>>
    PROVE  /\ lsn \in Slots /\ ~Written(lsn)
           /\ \A s \in Slots : Before(s, lsn') <=> Before(s, lsn) \/ s = lsn
<1>1. /\ lsn \in Slots /\ lsn = <<lsn[1], lsn[2]>> /\ lsn[1] \in Nat /\ lsn[2] \in Nat
      /\ lsn[2] \in Offsets /\ wOff \in Nat /\ bOff \in Nat
      /\ wOff + bOff = lsn[2] /\ RecLen \in Nat /\ RecLen > 0
  BY RegionTypes, SlotFacts DEF Region
<1>2. ASSUME NEW s \in Slots PROVE Before(s, lsn') <=> Before(s, lsn) \/ s = lsn
  <2>1. s = <<s[1], s[2]>> /\ s[1] \in Nat /\ s[2] \in Nat /\ s[2] \in Offsets
    BY SlotInts, SlotFacts
  <2>2. lsn[2] < s[2] => lsn[2] + RecLen <= s[2]
    BY <1>1, <2>1, OffsetFacts
  <2>3. s[2] < lsn[2] + RecLen <=> s[2] <= lsn[2]
    BY <1>1, <2>1, <2>2
  <2> QED BY <1>1, <2>1, <2>3 DEF Before
<1> QED BY <1>1, <1>2 DEF Written

LEMMA PutRecordExact ==
    ASSUME Inv, WholeStores, OnDisk, Reached, NEW t \in Threads, PutRecord(t)
    PROVE  OnDisk' /\ Reached'
<1> USE DEF Inv, Layout
<1>1. PICK m : m = [mem EXCEPT ![lsn] = "rec"]
  OBVIOUS
<1>2. /\ pc[t] = "append" /\ mem' = m /\ lsn' = <<lsn[1], lsn[2] + RecLen>> /\ sLsn' = sLsn
      /\ \/ Overfull /\ wOff' = wOff + BufSize /\ Reach(Completed(BufSize), m)
         \/ ~Overfull /\ UNCHANGED <<wOff, os, disk, syncing>>
  BY <1>1 DEF PutRecord
<1>3. lsn[2] # 0 /\ lsn[2] + RecLen <= FileSize /\ region = t
  BY <1>2 DEF Calls, CallOK, Control, Places, HoldsRegion
<1>4. /\ lsn \in Slots /\ ~Written(lsn)
      /\ \A s \in Slots : Before(s, lsn') <=> Before(s, lsn) \/ s = lsn
  BY <1>2, <1>3, PutEdge
<1>5. \A s \in Slots : m[s] = IF s = lsn THEN "rec" ELSE mem[s]
  BY <1>1, <1>4 DEF Records
<1>6. \A s \in Slots : Before(s, lsn') => mem'[s] # "none"
  BY <1>2, <1>4, <1>5 DEF OnDisk
<1>7. \A s \in Slots : Written(s) => mem'[s] = mem[s]
  BY <1>2, <1>4, <1>5
<1>8. \A u \in Threads \ {t} : pc'[u] = pc[u] /\ job'[u] = job[u]
  BY DEF PutRecord, Go, Control, Shape
<1>9. HardTo(pc[t], job[t])'
  <2>1. pc'[t] \in {"idle", "writeout", "enter"}
    BY DEF PutRecord, Go, Control, Shape
  <2> QED BY <2>1, OpenReaches DEF Open
<1>10. lsn'[1] = lsn[1] /\ BufSize \in Nat /\ 0 \in Nat
  BY <1>2, LenAssumption
<1> DEFINE alone == FALSE
<1>11. alone \in BOOLEAN /\ (alone => \A u \in Threads \ {t} : pc[u] # "sync")
  OBVIOUS
<1> HIDE DEF alone, Inv
<1>12. CASE Overfull /\ wOff' = wOff + BufSize /\ Reach(Completed(BufSize), m)
  <2>1. /\ os' = [s \in Slots |-> IF s \in Completed(BufSize) THEN m[s] ELSE os[s]]
        /\ disk' = [s \in Slots |-> IF s \in Completed(BufSize) THEN disk[s] \cup {m[s]} ELSE disk[s]]
        /\ syncing' = syncing \ Completed(BufSize)
    BY <1>12 DEF Reach
  <2>2. \A s \in Slots :
          Written(s)' => IF s \in Completed(BufSize) THEN mem'[s] = m[s] ELSE Written(s)
    BY <1>2, <1>10, <1>12, CompletedEdge DEF Written, Inv
  <2>3. PICK R \in SUBSET Completed(BufSize) : R = Completed(BufSize)
    OBVIOUS
  <2> QED BY <1>2, <1>3, <1>6, <1>7, <1>8, <1>9, <1>10, <1>11, <2>1, <2>2, <2>3, WritingStep
<1>13. CASE ~Overfull /\ UNCHANGED <<wOff, os, disk, syncing>>
  <2>1. \A s \in Slots : Written(s)' => Written(s)
    BY <1>2, <1>13 DEF Written
  <2>2. \A s \in Slots : Written(s)' => os'[s] = mem'[s]
    BY <1>7, <1>13, <2>1 DEF OnDisk
  <2>3. up # "panic"
    BY <1>2 DEF Inv, Mode
  <2>4. \A s \in Slots : Settled(s) => Written(s)
    BY <2>3, SettledWritten
  <2>5. \A s \in Slots : Settled(s) =>
          mem'[s] = mem[s] /\ disk'[s] = disk[s] /\ (s \in syncing => s \in syncing' \/ alone)
    BY <1>7, <1>13, <2>4
  <2> QED BY <1>2, <1>3, <1>6, <1>8, <1>9, <1>10, <1>11, <2>2, <2>5, UnsettledStep
<1> QED BY <1>2, <1>12, <1>13

\* A file is begun once all of the one before it is settled.
LEMMA NewFileExact ==
    ASSUME Inv, WholeStores, OnDisk, Reached, NEW t \in Threads, NewFile(t)
    PROVE  OnDisk' /\ Reached'
<1> USE DEF Inv, Layout
<1>1. PICK f \in {lsn[1], lsn[1] + 1} :
        /\ f = IF lsn[2] = 0 THEN lsn[1] ELSE lsn[1] + 1
        /\ lsn' = <<f, RecLen>> /\ mem' = [mem EXCEPT ![<<f, 0>>] = "rec"]
  BY DEF NewFile
<1>2. /\ pc[t] = "newfile" /\ pc' = [pc EXCEPT ![t] = "append"] /\ job' = job
      /\ wOff' = 0 /\ UNCHANGED <<sLsn, os, disk, syncing>>
  BY DEF NewFile, Go
<1>3. /\ bOff = 0 /\ mtxFlush = None /\ (lsn[2] = 0 \/ NextFileReady)
      /\ (lsn[2] = 0 \/ AlreadyFlushed(LastLsn)) /\ region = t /\ up # "panic"
  BY <1>2 DEF Calls, CallOK, Reached, HardTo, Control, Places, HoldsRegion, Mode
<1>4. /\ lsn[1] \in Nat /\ lsn[2] \in Nat /\ lsn[2] \in Offsets /\ wOff = lsn[2] /\ f \in Files
      /\ RecLen \in Nat /\ RecLen > 0 /\ FileSize \in Nat /\ f \in Nat
      /\ (lsn[2] = 0 => lsn[1] = 1)
  BY <1>1, <1>3, RegionTypes, LenAssumption, FileAssumption DEF Region, NextFileReady
<1>5. <<f, 0>> \in Slots
  BY <1>4, SlotFacts, OffsetFacts, LenAssumption
<1>6. \A s \in Slots : s[2] < RecLen <=> s[2] = 0
  <2> SUFFICES ASSUME NEW s \in Slots PROVE s[2] < RecLen <=> s[2] = 0
    OBVIOUS
  <2>1. s[2] < RecLen <=> s[2] + RecLen <= RecLen
    BY SlotEdge, OffsetFacts
  <2>2. s[2] \in Nat
    BY SlotInts
  <2> QED BY <1>4, <2>1, <2>2
<1>7. \A s \in Slots : /\ Before(s, lsn') => Before(s, lsn) \/ s = <<f, 0>>
                       /\ Written(s)' => s[1] < f
                       /\ s[1] < f => Before(s, sLsn)
  <2> SUFFICES ASSUME NEW s \in Slots
               PROVE  /\ Before(s, lsn') => Before(s, lsn) \/ s = <<f, 0>>
                      /\ Written(s)' => s[1] < f
                      /\ s[1] < f => Before(s, sLsn)
    OBVIOUS
  <2>1. /\ s = <<s[1], s[2]>> /\ s[1] \in Nat /\ s[2] \in Nat /\ s[1] >= 1
        /\ s[2] + RecLen <= FileSize
    BY SlotInts, SlotFacts
  <2>2. Written(s)' => s[1] < f
    BY <1>1, <1>2, <1>4, <2>1 DEF Written
  <2>3. CASE lsn[2] = 0
    BY <1>1, <1>4, <1>6, <2>1, <2>2, <2>3 DEF Before
  <2>4. CASE lsn[2] # 0 /\ lsn[2] + RecLen > FileSize
    <3>1. f = lsn[1] + 1 /\ lsn'[1] = f /\ lsn'[2] = RecLen
      BY <1>1, <2>4
    <3>2. s[2] < lsn[2] /\ s[2] + RecLen <= lsn[2]
      BY <1>4, <2>1, <2>4, SlotEdge
    <3>3. Before(s, lsn) <=> s[1] <= lsn[1]
      BY <1>4, <2>1, <3>2 DEF Before
    <3>4. Before(s, lsn') <=> s[1] <= lsn[1] \/ (s[1] = f /\ s[2] = 0)
      BY <1>4, <1>6, <2>1, <3>1 DEF Before
    <3>5. s[1] < f => Before(s, sLsn)
      <4>1. sLsn[1] \in Int /\ sLsn[2] \in Int
        BY SyncPointType
      <4>2. Before(LastLsn, sLsn)
        BY <1>3, <2>4 DEF AlreadyFlushed
      <4> QED BY <1>4, <2>1, <3>1, <3>2, <4>1, <4>2 DEF Before, LastLsn
    <3> QED BY <1>4, <2>1, <2>2, <3>3, <3>4, <3>5
  <2> QED BY <1>3, <2>3, <2>4 DEF NextFileReady
<1>8. \A s \in Slots : Written(s) => mem'[s] = mem[s]
  <2> SUFFICES ASSUME NEW s \in Slots, s = <<f, 0>>, Written(s) PROVE FALSE
    BY <1>1, <1>5 DEF Records
  <2> QED BY <1>1, <1>3, <1>4 DEF Written
<1>9. \A s \in Slots : Before(s, sLsn) => Exact(s)'
  <2>1. \A s \in Slots : Before(s, sLsn) => Exact(s) /\ Written(s)
    BY <1>3, SettledWritten DEF Settled, OnDisk
  <2> QED BY <1>2, <1>8, <2>1 DEF Exact
<1>10. OnDisk'
  <2>1. \A s \in Slots : Before(s, lsn') => mem'[s] # "none"
    BY <1>1, <1>5, <1>7 DEF OnDisk, Records
  <2>2. \A s \in Slots : Written(s)' => os'[s] = mem'[s]
    <3> SUFFICES ASSUME NEW s \in Slots, Written(s)' PROVE os'[s] = mem'[s]
      OBVIOUS
    <3>1. Before(s, sLsn)
      BY <1>7
    <3>2. Written(s)
      BY <1>3, <3>1, SettledWritten DEF Settled
    <3> QED BY <1>2, <1>8, <3>2 DEF OnDisk
  <2>3. \A s \in Slots : s[1] < lsn'[1] => Before(s, sLsn)
    BY <1>1, <1>7
  <2> QED BY <1>2, <1>9, <2>1, <2>2, <2>3 DEF OnDisk, Before
<1>11. Reached'
  <2>1. pc'[t] = "append" /\ \A u \in Threads \ {t} : pc'[u] = pc[u] /\ job'[u] = job[u]
    BY <1>2 DEF Control, Shape
  <2>2. HardTo(pc[t], job[t])'
    BY <2>1, OpenReaches DEF Open
  <2>3. ASSUME NEW u \in Threads \ {t} PROVE HardTo(pc[u], job[u])'
    <3> PICK p \in PcStates : p = pc[u] /\ p = pc'[u]
      BY <2>1 DEF Control, Shape
    <3> PICK j \in Jobs : j = job[u] /\ j = job'[u]
      BY <2>1 DEF Control, Shape
    <3>1. p \notin {"sync", "store", "newfile", "flushed"} /\ (p = "synced" => j.why # "switch")
      BY <1>3, ThreadAssumption DEF Control, Places, HoldsFlush, HoldsRegion, Flying
    <3> QED BY <3>1 DEF HardTo
  <2> QED BY <2>2, <2>3 DEF Reached
<1> QED BY <1>10, <1>11

\* What the fsync is to harden has been written; the files before are settled.
LEMMA FlushStartExact ==
    ASSUME Inv, WholeStores, OnDisk, Reached, NEW t \in Threads, FlushStart(t)
    PROVE  OnDisk' /\ Reached'
<1> USE DEF Inv, Layout
<1>1. PICK n \in {0, bOff} : n = IF MustWrite(job[t].to) THEN bOff ELSE 0
  OBVIOUS
<1>2. /\ UNCHANGED <<lsn, mem, sLsn>> /\ wOff' = wOff + n /\ pc[t] = "flush"
      /\ os' = [s \in Slots |-> IF s \in Completed(n) THEN mem[s] ELSE os[s]]
      /\ disk' = [s \in Slots |-> IF s \in Completed(n) THEN disk[s] \cup {mem[s]} ELSE disk[s]]
      /\ syncing' = {s \in Slots : s[1] = lsn[1] /\ os'[s] # "none"}
      /\ pc' = [pc EXCEPT ![t] = "sync"] /\ mtxFlush = None
  BY <1>1 DEF FlushStart, Go, FlushMutexFree
<1>3. n \in Nat /\ lsn[1] \in Nat
  BY RegionTypes
<1>4. \A s \in Slots : Written(s)' => IF s \in Completed(n) THEN mem'[s] = mem[s] ELSE Written(s)
  BY <1>2, <1>3, CompletedEdge DEF Written
<1>5. pc'[t] = "sync" /\ \A u \in Threads \ {t} : pc'[u] = pc[u] /\ job'[u] = job[u]
  BY <1>2, MarkPlace DEF Control, Shape
<1>6. \A s \in Slots : Before(s, lsn') => mem'[s] # "none"
  BY <1>2 DEF OnDisk, Before
<1>7. \A s \in Slots : Before(s, sLsn) => Exact(s)'
  <2>1. up # "panic"
    BY <1>2 DEF Mode
  <2>2. \A s \in Slots : Before(s, sLsn) => Written(s) /\ s \notin Completed(n)
    BY <1>3, <2>1, SettledWritten, CompletedEdge DEF Settled
  <2> QED BY <1>2, <2>2 DEF OnDisk, Exact
<1>8. HardTo(pc[t], job[t])'
  <2> SUFFICES ASSUME NEW s \in Slots, Before(s, job'[t].mark)
               PROVE  s \in syncing' \/ Exact(s)'
    BY <1>5 DEF HardTo, Before
  <2>1. /\ s[1] \in Nat /\ s[2] \in Nat /\ lsn[2] \in Nat /\ fLsn \in Nat \X Offsets
        /\ wOff \in Nat /\ bOff \in Nat /\ fLsn[2] \in Nat /\ lsn[2] \in Offsets
    BY SlotInts, RegionTypes, OffsetFacts DEF Region
  <2>2. s[1] < lsn[1] \/ (s[1] = lsn[1] /\ s[2] + RecLen <= wOff')
    <3>1. CASE bOff' = 0 /\ wOff' = lsn[2] /\ job'[t].mark = lsn
      BY <2>1, <3>1, SlotEdge DEF Before
    <3>2. CASE bOff # 0 /\ bOff' = bOff /\ wOff' = wOff /\ job'[t].mark = fLsn
      <4>1. fLsn[1] = lsn[1] /\ fLsn[2] <= wOff
        BY <3>2 DEF Region
      <4>2. s[2] < fLsn[2] <=> s[2] + RecLen <= fLsn[2]
        BY <2>1, SlotEdge
      <4> QED BY <2>1, <3>2, <4>1, <4>2, LenAssumption DEF Before
    <3> QED BY <3>1, <3>2, MarkPlace
  <2>3. CASE s[1] < lsn[1]
    BY <1>7, <2>3 DEF OnDisk
  <2>4. CASE s[1] = lsn[1] /\ s[2] + RecLen <= wOff'
    <3>1. Written(s)'
      BY <1>2, <2>4 DEF Written
    <3>2. s \in Completed(n) \/ Written(s)
      BY <1>4, <3>1
    <3>3. os'[s] = mem[s]
      BY <1>2, <3>2 DEF OnDisk
    <3>4. Before(s, lsn)
      <4>1. wOff' <= lsn[2] /\ wOff' \in Nat
        BY <1>2, <1>3, <2>1 DEF Region
      <4> QED BY <1>3, <2>1, <2>4, <4>1, LenAssumption DEF Before
    <3> QED BY <1>2, <2>4, <3>3, <3>4 DEF OnDisk
  <2> QED BY <2>2, <2>3, <2>4
<1> DEFINE alone == TRUE
<1>9. alone \in BOOLEAN /\ (alone => \A u \in Threads \ {t} : pc[u] # "sync") /\ alone
  BY <1>2, ThreadAssumption DEF Control, Places, HoldsFlush
<1>10. PICK R \in SUBSET Completed(n) : R = Completed(n)
  OBVIOUS
<1>11. pc[t] # "idle" /\ \A s \in Slots : Written(s) => mem'[s] = mem[s]
  BY <1>2
<1> HIDE DEF alone, Inv
<1> QED BY <1>2, <1>3, <1>4, <1>5, <1>6, <1>8, <1>9, <1>10, <1>11, WritingStep

\* s_lsn moves forward: those who waited for it have reached no less.
LEMMA OthersReach ==
    ASSUME Inv, Reached, NEW u \in Threads, pc'[u] = pc[u], job'[u] = job[u],
           pc[u] \notin {"sync", "store"}, lsn' = lsn,
           \A s \in Slots : Before(s, sLsn) => Before(s, sLsn')
    PROVE  HardTo(pc[u], job[u])'
<1> USE DEF Inv, Layout
<1> PICK p \in PcStates : p = pc[u] /\ p = pc'[u]
  BY DEF Control, Shape
<1> PICK j \in Jobs : j = job[u] /\ j = job'[u]
  BY DEF Control, Shape
<1>1. HardTo(p, j) /\ p \notin {"sync", "store"}
  BY DEF Reached
<1>2. lsn[2] # 0 => LastLsn \in Slots
  BY LastSlot
<1>3. p \in {"flushed", "synced"} => j.to \in Slots
  BY DEF Calls, CallOK, InCall, Flying
<1>4. p = "newfile" => lsn'[2] = 0 \/ Before(LastLsn', sLsn')
  BY <1>1, <1>2 DEF HardTo, AlreadyFlushed, LastLsn
<1>5. p \in {"flushed", "synced"} /\ j.why = "switch" /\ j.ok => Before(j.to, sLsn')
  BY <1>1, <1>3 DEF HardTo, AlreadyFlushed
<1> QED BY <1>1, <1>4, <1>5 DEF HardTo, AlreadyFlushed, Before

\* The fsync hardens what was written; a store of one half of s_lsn covers no
\* more than the mark, or what was covered.
LEMMA SyncExact ==
    ASSUME Inv, WholeStores, OnDisk, Reached, NEW t \in Threads, Sync(t)
    PROVE  OnDisk' /\ Reached'
<1> USE DEF Inv, Layout
<1> PICK j \in Jobs : j = job[t]
  BY DEF Control, Shape
<1>1. /\ pc[t] = "sync" /\ pc' = [pc EXCEPT ![t] = "store"] /\ job' = job
      /\ sLsn' = <<j.mark[1], IF SplitStores THEN sLsn[2] ELSE j.mark[2]>>
      /\ UNCHANGED <<lsn, wOff, mem, os>> /\ syncing' = {}
      /\ disk' = [s \in Slots |-> IF s \in syncing THEN {os[s]} ELSE disk[s]]
  BY DEF Sync, Go, regionVars
<1>2. /\ pc'[t] = "store"
      /\ \A u \in Threads \ {t} : pc'[u] = pc[u] /\ job'[u] = job[u]
      /\ \A u \in Threads \ {t} : pc[u] \notin {"sync", "store"}
      /\ j.mark \in Nat \X Offsets /\ j.mark[1] \in Files /\ up # "panic"
      /\ ~Before(j.mark, sLsn)
  BY <1>1, OneSyncer DEF Control, Shape, SyncPlace
<1>3. \A s \in Slots : Settled(s) => Exact(s)'
  <2> SUFFICES ASSUME NEW s \in Slots, Settled(s) PROVE Exact(s)'
    OBVIOUS
  <2>1. Written(s)
    BY <1>2, SettledWritten
  <2>2. os[s] = mem[s] /\ Before(s, lsn) /\ mem[s] # "none"
    BY <2>1, WrittenBefore DEF OnDisk
  <2>3. s \in syncing \/ Exact(s)
    BY <1>1, <1>2 DEF Settled, OnDisk, Reached, HardTo
  <2> QED BY <1>1, <2>2, <2>3 DEF Exact
<1>4. \A s \in Slots : Before(s, j.mark) => Settled(s)
  BY <1>1 DEF Settled
<1>5. sLsn[1] \in Nat /\ sLsn[2] \in Nat /\ j.mark[1] \in Nat /\ j.mark[2] \in Nat
  BY <1>2, OffsetFacts, FileAssumption DEF SyncPlace
<1>6. \A s \in Slots : Before(s, sLsn) => Before(s, sLsn')
  <2>1. CASE SplitStores = FALSE
    BY <1>1, <1>2, <1>5, <2>1, SlotInts DEF Before
  <2>2. CASE Files = {1}
    BY <1>1, <1>2, <1>5, <2>2, SlotInts DEF Before, SyncPlace
  <2> QED BY <2>1, <2>2 DEF WholeStores
<1>7. \A s \in Slots : Before(s, sLsn') => Settled(s)
  <2>1. CASE SplitStores = FALSE
    BY <1>1, <1>4, <2>1 DEF Before
  <2>2. CASE Files = {1}
    <3> SUFFICES ASSUME NEW s \in Slots, Before(s, sLsn') PROVE Before(s, j.mark) \/ Before(s, sLsn)
      BY <1>4 DEF Settled
    <3>1. s[1] = 1 /\ s[2] \in Nat /\ j.mark[1] = 1
      BY <1>2, <2>2, SlotInts
    <3>2. sLsn[1] = 1 \/ sLsn = <<0, 0>>
      BY <2>2 DEF SyncPlace, ZeroLsn
    <3> QED BY <1>1, <1>5, <3>1, <3>2 DEF Before
  <2> QED BY <2>1, <2>2 DEF WholeStores
<1>8. OnDisk'
  <2>1. \A s \in Slots : Written(s)' => Written(s)
    BY <1>1 DEF Written
  <2>2. \A s \in Slots : Written(s)' => os'[s] = mem'[s]
    BY <1>1, <2>1 DEF OnDisk
  <2>3. \A s \in Slots : Before(s, lsn') => mem'[s] # "none"
    BY <1>1 DEF OnDisk, Before
  <2>4. \A s \in Slots : Before(s, sLsn') => Exact(s)'
    BY <1>3, <1>7
  <2>5. \A s \in Slots : s[1] < lsn'[1] => Before(s, sLsn')
    BY <1>1, <1>6 DEF OnDisk
  <2> QED BY <2>2, <2>3, <2>4, <2>5 DEF OnDisk, Before
<1>9. Reached'
  <2>1. job'[t] = j /\ \A s \in Slots : Before(s, j.mark) => Exact(s)'
    BY <1>1, <1>3, <1>4
  <2>2. HardTo(pc[t], job[t])'
    BY <1>2, <2>1 DEF HardTo, Before
  <2>3. ASSUME NEW u \in Threads \ {t} PROVE HardTo(pc[u], job[u])'
    BY <1>1, <1>2, <1>6, OthersReach
  <2> QED BY <2>2, <2>3 DEF Reached
<1> QED BY <1>8, <1>9

LEMMA StoreOffsetExact ==
    ASSUME Inv, WholeStores, OnDisk, Reached, NEW t \in Threads, StoreOffset(t)
    PROVE  OnDisk' /\ Reached'
<1> USE DEF Inv, Layout
<1> PICK j \in Jobs : j = job[t]
  BY DEF Control, Shape
<1> PICK i : i = job'[t]
  OBVIOUS
<1>1. /\ pc[t] = "store" /\ pc' = [pc EXCEPT ![t] = "synced"] /\ sLsn' = j.mark
      /\ job' = [job EXCEPT ![t].ok = TRUE, ![t].mark = ZeroLsn]
      /\ UNCHANGED <<lsn, wOff, mem, os, disk>>
  BY DEF StoreOffset, Go, regionVars, logVars
<1>2. /\ pc'[t] = "synced" /\ i.to = j.to
      /\ \A u \in Threads \ {t} : pc'[u] = pc[u] /\ job'[u] = job[u]
      /\ \A u \in Threads \ {t} : pc[u] \notin {"sync", "store"}
      /\ j.mark \in Nat \X Offsets /\ ~Before(j.mark, sLsn) /\ Before(j.to, j.mark)
  <2>1. pc \in [Threads -> PcStates] /\ job \in [Threads -> Jobs]
    BY DEF Control, Shape
  <2>2. /\ pc'[t] = "synced"
        /\ \A u \in Threads \ {t} : pc'[u] = pc[u] /\ job'[u] = job[u]
    BY <1>1, <2>1
  <2>3. Shape
    BY DEF Control
  <2>4. i.to = j.to
    BY <1>1, <2>3, JobSynced
  <2>5. /\ MarkOK(j) /\ j.mark \in Nat \X Offsets
        /\ \A u \in Threads \ {t} : pc[u] \notin {"sync", "store"}
    BY <1>1, OneSyncer
  <2>6. ~Before(j.mark, sLsn) /\ Before(j.to, j.mark)
    <3>1. Before(j.to, j.mark)
      BY <2>5 DEF MarkOK
    <3>2. ~Before(j.mark, sLsn)
      BY <1>1 DEF SyncPlace
    <3> QED BY <3>1, <3>2
  <2> QED BY <2>2, <2>4, <2>5, <2>6
<1>3. sLsn[1] \in Nat /\ sLsn[2] \in Nat /\ j.mark[1] \in Nat /\ j.mark[2] \in Nat
  BY <1>2, OffsetFacts, FileAssumption DEF SyncPlace
<1>4. \A s \in Slots : Before(s, sLsn) => Before(s, sLsn')
  BY <1>1, <1>2, <1>3, SlotInts DEF Before
<1>5. \A s \in Slots : Before(s, j.mark) => Exact(s)'
  BY <1>1 DEF Reached, HardTo, Exact
<1>6. OnDisk'
  <2>1. \A s \in Slots : Written(s)' => Written(s)
    BY <1>1 DEF Written
  <2>2. \A s \in Slots : Written(s)' => os'[s] = mem'[s]
    BY <1>1, <2>1 DEF OnDisk
  <2>3. \A s \in Slots : Before(s, lsn') => mem'[s] # "none"
    BY <1>1 DEF OnDisk, Before
  <2>4. \A s \in Slots : Before(s, sLsn') => Exact(s)'
    BY <1>1, <1>5
  <2>5. \A s \in Slots : s[1] < lsn'[1] => Before(s, sLsn')
    BY <1>1, <1>4 DEF OnDisk
  <2> QED BY <2>2, <2>3, <2>4, <2>5 DEF OnDisk, Before
<1>7. Reached'
  <2>1. Before(job'[t].to, sLsn')
    BY <1>1, <1>2
  <2>2. HardTo(pc[t], job[t])'
    BY <1>2, <2>1 DEF HardTo, AlreadyFlushed, Before
  <2>3. ASSUME NEW u \in Threads \ {t} PROVE HardTo(pc[u], job[u])'
    BY <1>1, <1>2, <1>4, OthersReach
  <2> QED BY <2>2, <2>3 DEF Reached
<1> QED BY <1>6, <1>7

LEMMA SyncFailsExact ==
    ASSUME Inv, OnDisk, Reached, NEW t \in Threads, SyncFails(t)
    PROVE  OnDisk' /\ Reached'
<1> USE DEF Inv, Layout
<1> PICK i : i = job'[t]
  OBVIOUS
<1>1. /\ pc[t] = "sync" /\ pc' = [pc EXCEPT ![t] = "synced"]
      /\ job' = [job EXCEPT ![t].ok = FALSE, ![t].mark = ZeroLsn]
      /\ UNCHANGED <<sLsn, lsn, wOff, mem, os, disk>>
  BY DEF SyncFails, Go, regionVars
<1>2. /\ pc'[t] = "synced" /\ i.ok = FALSE
      /\ \A u \in Threads \ {t} : pc'[u] = pc[u] /\ job'[u] = job[u]
  BY <1>1, JobSynced DEF Control, Shape
<1>3. HardTo(pc[t], job[t])'
  BY <1>2 DEF HardTo
<1>4. \A s \in Slots : Written(s)' => Written(s)
  BY <1>1 DEF Written
<1>5. \A s \in Slots : Written(s)' => os'[s] = mem'[s]
  BY <1>1, <1>4 DEF OnDisk
<1>6. \A s \in Slots : Before(s, lsn') => mem'[s] # "none"
  BY <1>1 DEF OnDisk, Before
<1> DEFINE alone == TRUE
<1>7. alone \in BOOLEAN /\ (alone => \A u \in Threads \ {t} : pc[u] # "sync") /\ alone
  BY <1>1, OneSyncer
<1> HIDE DEF alone, Inv
<1> QED BY <1>1, <1>2, <1>3, <1>5, <1>6, <1>7, UnsettledStep

\* __txn_force_abort changes a record that is not settled: of a file that is
\* not yet complete, past every mark.
LEMMA AbortExact ==
    ASSUME Inv, WholeStores, OnDisk, Reached, NEW t \in Threads, AbortInBuffer(t) \/ AbortInFile(t),
           job[t].kind = "commit" => mtxFlush = None
    PROVE  OnDisk' /\ Reached'
<1> USE DEF Inv, Layout
<1> PICK r : r = job[t].rec
  OBVIOUS
<1>1. /\ pc[t] = "failed" /\ pc' = [pc EXCEPT ![t] = "flush"] /\ ~TakenForSafe(t)
      /\ job' = [job EXCEPT ![t].to = job[t].rec, ![t].why = "retry"]
      /\ UNCHANGED <<sLsn, lsn, wOff>>
  BY DEF AbortInBuffer, AbortInFile, Retry, Go, regionVars
<1>2. /\ r \in Slots /\ Before(r, lsn)
      /\ job[t].kind \in {"commit", "write"} /\ up # "panic"
  BY <1>1 DEF Calls, CallOK, InCall, Control, Places, RoleOK, Mode
<1>3. /\ r[1] \in Nat /\ r[2] \in Nat /\ lsn[1] \in Nat /\ lsn[2] \in Nat /\ wOff \in Nat
      /\ sLsn[1] \in Nat /\ sLsn[2] \in Nat
  BY <1>2, SlotInts, RegionTypes, OffsetFacts, FileAssumption DEF SyncPlace
<1>4. r[1] = lsn[1] /\ ~Settled(r)
  <2>1. CASE job[t].kind = "commit"
    <3>1. r[1] = sLsn[1] /\ r[2] >= sLsn[2]
      BY <1>1, <1>3, <2>1 DEF TakenForSafe
    <3>2. ~Before(r, sLsn)
      BY <1>3, <3>1 DEF Before
    <3>3. \A u \in Threads : pc[u] \notin {"sync", "store"}
      BY <2>1, ThreadAssumption DEF Control, Places, HoldsFlush
    <3> QED BY <1>2, <1>3, <3>2, <3>3 DEF OnDisk, Settled, Before
  <2>2. CASE job[t].kind = "write"
    <3>1. r[1] = lsn[1] /\ r[2] >= wOff
      BY <1>1, <1>3, <2>2 DEF TakenForSafe
    <3>2. ~Written(r)
      BY <1>3, <3>1, LenAssumption DEF Written
    <3> QED BY <1>2, <3>1, <3>2, SettledWritten
  <2> QED BY <1>2, <2>1, <2>2
<1>5. /\ pc'[t] = "flush"
      /\ \A u \in Threads \ {t} : pc'[u] = pc[u] /\ job'[u] = job[u]
  BY <1>1 DEF Control, Shape
<1>6. HardTo(pc[t], job[t])'
  BY <1>5, OpenReaches DEF Open
<1>7. PICK c \in {"abort", "bad", "rec"} :
        /\ mem' = [mem EXCEPT ![r] = c]
        /\ AbortInFile(t) => c = IF r[2] + RecLen <= wOff THEN "abort"
                                 ELSE IF r[2] < wOff THEN "bad" ELSE "rec"
  BY <1>1 DEF AbortInBuffer, AbortInFile, TakenForSafe
<1>8. \A s \in Slots : mem'[s] = IF s = r THEN c ELSE mem[s]
  BY <1>2, <1>7 DEF Records
<1>9. \A s \in Slots : s # r =>
        os'[s] = os[s] /\ disk'[s] = disk[s] /\ (s \in syncing => s \in syncing')
  BY DEF AbortInBuffer, AbortInFile, Reach
<1>10. \A s \in Slots : Written(s)' => os'[s] = mem'[s]
  <2> SUFFICES ASSUME NEW s \in Slots, Written(s)' PROVE os'[s] = mem'[s]
    OBVIOUS
  <2>1. Written(s)
    BY <1>1 DEF Written
  <2>2. CASE s # r
    BY <1>8, <1>9, <2>1, <2>2 DEF OnDisk
  <2>3. CASE s = r
    <3>1. r[2] + RecLen <= wOff
      BY <1>3, <1>4, <2>1, <2>3 DEF Written
    <3>2. ~AbortInBuffer(t)
      BY <1>3, <3>1, LenAssumption DEF AbortInBuffer
    <3>3. os'[r] = "abort"
      BY <1>2, <1>7, <3>2 DEF AbortInFile, Reach, Records
    <3> QED BY <1>2, <1>7, <1>8, <2>3, <3>1, <3>2, <3>3
  <2> QED BY <2>2, <2>3
<1>11. \A s \in Slots : Before(s, lsn') => mem'[s] # "none"
  BY <1>1, <1>8 DEF OnDisk, Before
<1> DEFINE alone == FALSE
<1>12. alone \in BOOLEAN /\ (alone => \A u \in Threads \ {t} : pc[u] # "sync")
  OBVIOUS
<1>13. \A s \in Slots : Settled(s) =>
         mem'[s] = mem[s] /\ disk'[s] = disk[s] /\ (s \in syncing => s \in syncing' \/ alone)
  BY <1>4, <1>8, <1>9
<1> HIDE DEF alone, Inv
<1> QED BY <1>1, <1>5, <1>6, <1>10, <1>11, <1>12, <1>13, UnsettledStep

LEMMA PanicExact ==
    ASSUME Inv, OnDisk, NEW t \in Threads, AbortPanics(t)
    PROVE  OnDisk' /\ Reached'
<1>1. UNCHANGED <<sLsn, lsn, wOff, mem, os, disk>>
  BY DEF AbortPanics
<1>2. OnDisk'
  BY <1>1 DEF OnDisk, Written, Exact, Before
<1>3. \A u \in Threads : pc'[u] = "idle"
  BY DEF AbortPanics, Panic
<1>4. Reached'
  BY <1>3, OpenReaches DEF Open, Reached
<1> QED BY <1>2, <1>4

(***************************************************************************)
(* One failure: its victim has the log to itself.                          *)
(***************************************************************************)

Flushing == {"flush", "flushed"} \cup Flying

\* t flushes with the region lock released, perhaps for others too.
Grouping(t) == pc[t] \in Flushing /\ job[t].why \in {"commit", "api"}

\* Nobody else flushes, or is woken to, except for a file switch.
Alone(t) ==
    /\ designated = {}
    /\ \A u \in Threads \ {t} : pc[u] \in Flushing => job[u].why = "switch"

\* The call whose write or fsync failed.
Victim(t) == ~job[t].ok \/ pc[t] = "failed" \/ job[t].why = "retry"

OneVictim ==
    /\ \A t \in Threads : Victim(t) => ~CanFail
    /\ \A t, u \in Threads : Victim(t) /\ Victim(u) => t = u

\* Its record is not on the way to the disk with somebody else's.
Blame(t) ==
    /\ pc[t] = "failed" /\ job[t].kind = "commit" => mtxFlush = None
    /\ pc[t] = "flushed" /\ ~job[t].ok => mtxFlush = None
    /\ pc[t] = "synced" /\ ~job[t].ok /\ job[t].why = "commit" => Alone(t)

\* Until something fails, one committer after the other flushes for all.
InTurn ==
    CanFail => /\ \A t \in Threads : Grouping(t) => Alone(t)
               /\ \A t, u \in designated : t = u

Turns == OneVictim /\ (\A t \in Threads : Blame(t)) /\ InTurn

-----------------------------------------------------------------------------

LEMMA TurnStep ==
    ASSUME Inv, Turns, NEW t \in Threads,
           \A u \in Threads \ {t} : pc'[u] = pc[u] /\ job'[u] = job[u],
           CanFail' => CanFail,
           mtxFlush' \in {mtxFlush, None} \/ region = t,
           Victim(t)' => ~CanFail' /\ (Victim(t) \/ CanFail),
           Blame(t)',
           \A u \in Threads \ {t} :
             (CanFail' \/ Victim(u)) /\ Grouping(u) /\ Alone(u) => Alone(u)',
           CanFail' => (Grouping(t)' => Alone(t)') /\ \A u, v \in designated' : u = v
    PROVE  Turns'
<1> USE DEF Inv, Turns
<1>1. \A u \in Threads \ {t} : Victim(u)' <=> Victim(u)
  BY DEF Victim
<1>2. \A u \in Threads \ {t} : Grouping(u)' <=> Grouping(u)
  BY DEF Grouping
<1>3. OneVictim'
  <2>1. \A u \in Threads : Victim(u)' => ~CanFail'
    BY <1>1 DEF OneVictim
  <2>2. ASSUME NEW u \in Threads \ {t} PROVE ~(Victim(u)' /\ Victim(t)')
    BY <1>1 DEF OneVictim
  <2>3. \A u, v \in Threads \ {t} : Victim(u)' /\ Victim(v)' => u = v
    BY <1>1 DEF OneVictim
  <2>4. \A u, v \in Threads : Victim(u)' /\ Victim(v)' => u = v
    BY <2>2, <2>3
  <2> QED BY <2>1, <2>4 DEF OneVictim
<1>4. ASSUME NEW u \in Threads \ {t} PROVE Blame(u)'
  <2>1. pc[u] \in {"failed", "flushed"} => region = u
    BY DEF Control, Places, HoldsRegion
  <2>2. pc[u] = "synced" /\ ~job[u].ok /\ job[u].why = "commit" =>
          Alone(u) /\ Grouping(u) /\ Victim(u)
    BY DEF Blame, Grouping, Flushing, Flying, Victim
  <2>3. pc[u] = "synced" /\ ~job[u].ok /\ job[u].why = "commit" => Alone(u)'
    BY <2>2
  <2>4. pc[u] \in {"failed", "flushed"} /\ mtxFlush = None => mtxFlush' = None
    BY <2>1
  <2> QED BY <2>3, <2>4 DEF Blame
<1>5. InTurn'
  <2> SUFFICES ASSUME CanFail', NEW u \in Threads \ {t}, Grouping(u)' PROVE Alone(u)'
    BY DEF InTurn
  <2> QED BY <1>2 DEF InTurn
<1> QED BY <1>3, <1>4, <1>5

\* A step that brings nobody new to a flush.
LEMMA AloneKept ==
    ASSUME NEW t \in Threads, NEW u \in Threads,
           \A v \in Threads \ {t} : pc'[v] = pc[v] /\ job'[v] = job[v],
           designated' \subseteq designated,
           \/ u = t \/ pc'[t] \notin Flushing \/ job'[t].why = "switch"
           \/ pc[t] \in Flushing /\ job'[t].why = job[t].why,
           Alone(u)
    PROVE  Alone(u)'
BY DEF Alone

\* A step of t out of a flush, or on in it, that fails nothing.
LEMMA CalmStep ==
    ASSUME Inv, Turns, NEW t \in Threads,
           \A u \in Threads \ {t} : pc'[u] = pc[u] /\ job'[u] = job[u],
           CanFail' => CanFail, designated' \subseteq designated,
           mtxFlush' \in {mtxFlush, None} \/ region = t,
           Victim(t)' => Victim(t),
           \/ pc'[t] \notin Flushing \/ job'[t].why = "switch"
           \/ pc[t] \in Flushing /\ job'[t].why = job[t].why,
           Blame(t)'
    PROVE  Turns'
<1> USE DEF Turns
<1>1. \A u \in Threads \ {t} : Alone(u) => Alone(u)'
  BY AloneKept
<1>2. Grouping(t)' => Grouping(t)
  BY DEF Grouping
<1>3. CanFail' /\ Grouping(t)' => Alone(t)'
  BY <1>2, AloneKept DEF InTurn
<1>4. CanFail' => \A u, v \in designated' : u = v
  BY DEF InTurn
<1>5. Victim(t)' => ~CanFail'
  BY DEF OneVictim
<1> QED BY <1>1, <1>3, <1>4, <1>5, TurnStep

\* The call is over, or on its way to a flush it has not reached.
LEMMA OutStep ==
    ASSUME Inv, Turns, NEW t \in Threads, NEW p, NEW j,
           pc' = [pc EXCEPT ![t] = p], p \notin Flushing, p # "failed",
           job' = [job EXCEPT ![t] = j] \/ (job' = job /\ j = job[t]),
           j = job[t] \/ (j.ok = TRUE /\ j.why # "retry"),
           CanFail' => CanFail, designated' \subseteq designated, mtxFlush' = mtxFlush
    PROVE  Turns'
<1>1. /\ pc'[t] = p /\ job'[t] = j
      /\ \A u \in Threads \ {t} : pc'[u] = pc[u] /\ job'[u] = job[u]
  BY GoesTo
<1>2. Victim(t)' => Victim(t)
  BY <1>1 DEF Victim
<1>3. Blame(t)'
  BY <1>1 DEF Blame, Flushing, Flying
<1> QED BY <1>1, <1>2, <1>3, CalmStep

LEMMA OutTurns ==
    ASSUME Inv, Turns, NEW t \in Threads,
           \/ NewFile(t) \/ PutRecord(t) \/ PutFails(t) \/ WriteOut(t) \/ TakeRegion(t)
           \/ EnterFlushed(t) \/ Join(t) \/ FailureIgnored(t)
           \/ (Wake(t) /\ t \notin designated)
    PROVE  Turns'
<1> USE DEF Return, Go, regionVars, mutexVars, envVars, toldVars
<1>1. CanFail' => CanFail
  BY DEF NewFile, PutRecord, PutFails, WriteOut, TakeRegion, EnterFlushed, Join, Wake,
         FailureIgnored, WriteFails, CanFail, Inv, Records
<1>2. designated' \subseteq designated /\ mtxFlush' = mtxFlush
  BY DEF NewFile, PutRecord, PutFails, WriteOut, TakeRegion, EnterFlushed, Join, Wake,
         FailureIgnored
<1>3. \E p \in {"idle", "append", "writeout", "enter", "wait"} : pc' = [pc EXCEPT ![t] = p]
  BY DEF NewFile, PutRecord, PutFails, WriteOut, TakeRegion, EnterFlushed, Join, Wake,
         FailureIgnored
<1>4. \E j : /\ job' = [job EXCEPT ![t] = j] \/ (job' = job /\ j = job[t])
             /\ j = job[t] \/ (j.ok = TRUE /\ j.why # "retry")
  <2>1. CASE PutRecord(t)
    <3> DEFINE j == IF job[t].kind = "append" THEN NoJob
                    ELSE Call(job[t].kind, lsn, lsn, "commit")
    <3>1. job' = [job EXCEPT ![t] = j]
      BY <2>1 DEF PutRecord
    <3>2. j.ok = TRUE /\ j.why # "retry"
      BY DEF NoJob, Call
    <3> HIDE DEF j
    <3> QED BY <3>1, <3>2
  <2>2. CASE ~PutRecord(t)
    <3>1. job' = [job EXCEPT ![t] = NoJob] \/ job' = job
      BY <2>2 DEF NewFile, PutFails, WriteOut, TakeRegion, EnterFlushed, Join, Wake,
                  FailureIgnored
    <3>2. NoJob.ok = TRUE /\ NoJob.why # "retry"
      BY DEF NoJob, Call
    <3> QED BY <3>1, <3>2
  <2> QED BY <2>1, <2>2
<1>5. \A p \in {"idle", "append", "writeout", "enter", "wait"} : p \notin Flushing /\ p # "failed"
  BY DEF Flushing, Flying
<1> QED BY <1>1, <1>2, <1>3, <1>4, <1>5, OutStep

LEMMA EnterTurns ==
    ASSUME Inv, Turns, NEW t \in Threads, NEW k, Enter(t, k)
    PROVE  Turns'
<1> PICK p \in {"append", "newfile", "flush"} :
      p = IF Fits THEN "append" ELSE IF lsn[2] = 0 THEN "newfile" ELSE "flush"
  OBVIOUS
<1> PICK y \in {"put", "switch"} : y = IF Fits THEN "put" ELSE "switch"
  OBVIOUS
<1> PICK j : j = Call(k, ZeroLsn, LastLsn, y)
  OBVIOUS
<1>1. /\ j.why = y /\ j.ok = TRUE /\ (p = "flush" => y = "switch")
      /\ UNCHANGED <<designated, mtxFlush, failures>>
  BY DEF Enter, envVars, Call
<1>2. pc' = [pc EXCEPT ![t] = p] /\ job' = [job EXCEPT ![t] = j]
  BY DEF Enter, Go
<1>3. /\ pc'[t] = p /\ job'[t] = j
      /\ \A u \in Threads \ {t} : pc'[u] = pc[u] /\ job'[u] = job[u]
  <2>1. pc \in [Threads -> PcStates] /\ job \in [Threads -> Jobs]
    BY DEF Inv, Control, Shape
  <2> QED BY <1>2, <2>1
<1>4. CanFail' => CanFail
  BY <1>1 DEF CanFail
<1>5. ~Victim(t)' /\ Blame(t)'
  BY <1>1, <1>3 DEF Victim, Blame
<1>6. pc'[t] \notin Flushing \/ job'[t].why = "switch"
  BY <1>1, <1>3 DEF Flushing, Flying
<1> QED BY <1>1, <1>3, <1>4, <1>5, <1>6, CalmStep

LEMMA ApiFlushTurns ==
    ASSUME Inv, Turns, NEW t \in Threads, NEW r, ApiFlush(t, r)
    PROVE  Turns'
<1>1. UNCHANGED <<designated, mtxFlush, failures>> /\ pc[t] = "idle"
  BY DEF ApiFlush, mutexVars, envVars
<1>2. CanFail' => CanFail
  BY <1>1 DEF CanFail
<1>3. \E p \in {"idle", "lock"} : pc' = [pc EXCEPT ![t] = p]
  BY <1>1 DEF ApiFlush, Go, Inv, Control, Shape
<1>4. \E j : /\ job' = [job EXCEPT ![t] = j] \/ (job' = job /\ j = job[t])
             /\ j = job[t] \/ (j.ok = TRUE /\ j.why # "retry")
  <2> DEFINE j == Call("api", r, r, "api")
  <2>1. j.ok = TRUE /\ j.why # "retry"
    BY DEF Call
  <2>2. job' = [job EXCEPT ![t] = j] \/ job' = job
    BY DEF ApiFlush
  <2> HIDE DEF j
  <2> QED BY <2>1, <2>2
<1>5. \A p \in {"idle", "lock"} : p \notin Flushing /\ p # "failed"
  BY DEF Flushing, Flying
<1> QED BY <1>1, <1>2, <1>3, <1>4, <1>5, OutStep

\* Nobody is in a flush that counts when nobody is counted.
LEMMA NobodyCounted ==
    ASSUME Inv, inFlush = 0
    PROVE  InFlight = {} /\ designated = {}
<1> USE DEF Inv, Control
<1>1. /\ IsFiniteSet(InFlight) /\ Cardinality(InFlight) \in Nat
      /\ IsFiniteSet(designated) /\ Cardinality(designated) \in Nat
  BY CountsAreNat DEF Counted
<1>2. Cardinality(InFlight) = 0 /\ Cardinality(designated) = 0
  BY <1>1, CountIs
<1> QED BY <1>1, <1>2, FS_EmptySet

LEMMA LeadTurns ==
    ASSUME Inv, Turns, NEW t \in Threads, Lead(t)
    PROVE  Turns'
<1>1. /\ pc[t] = "enter" /\ pc' = [pc EXCEPT ![t] = "flush"] /\ job' = job
      /\ UNCHANGED <<designated, mtxFlush, failures>> /\ inFlush = 0
  BY DEF Lead, Go, mutexVars, envVars
<1>2. pc'[t] = "flush" /\ \A u \in Threads \ {t} : pc'[u] = pc[u]
  BY <1>1 DEF Inv, Control, Shape
<1>3. InFlight = {} /\ designated = {}
  BY <1>1, NobodyCounted
<1>4. \A u \in Threads \ {t} : pc[u] \notin Flushing
  <2>1. region = t /\ \A u \in Threads \ {t} : pc[u] \notin {"flush", "flushed"}
    BY <1>1 DEF Inv, Control, Places, HoldsRegion
  <2> QED BY <1>3, <2>1 DEF Flushing, InFlight
<1>5. Alone(t)'
  BY <1>1, <1>2, <1>3, <1>4 DEF Alone
<1>6. \A u \in Threads \ {t} : ~Grouping(u)
  BY <1>4 DEF Grouping
<1>7. (CanFail' <=> CanFail) /\ (Victim(t)' => Victim(t)) /\ Blame(t)'
  BY <1>1, <1>2 DEF CanFail, Victim, Blame
<1>8. Victim(t)' => ~CanFail'
  BY <1>7 DEF Turns, OneVictim
<1> QED BY <1>1, <1>2, <1>3, <1>5, <1>6, <1>7, <1>8, TurnStep

\* The committer that is woken to flush for the group was the only one that
\* had to.
LEMMA WakeTurns ==
    ASSUME Inv, Turns, NEW t \in Threads, Wake(t), t \in designated
    PROVE  Turns'
<1> PICK i : i = job'[t]
  OBVIOUS
<1>1. /\ pc[t] = "wait" /\ pc' = [pc EXCEPT ![t] = "flush"]
      /\ job' = [job EXCEPT ![t].to = tLsn] /\ region = None
      /\ UNCHANGED <<mtxFlush, failures>> /\ designated' = designated \ {t}
  BY DEF Wake, Go
<1>2. /\ pc'[t] = "flush" /\ i.ok = job[t].ok /\ i.why = job[t].why
      /\ \A u \in Threads \ {t} : pc'[u] = pc[u] /\ job'[u] = job[u]
  <2>1. tLsn \in Int \X Int
    BY RegionTypes DEF Inv, Layout
  <2> QED BY <1>1, <2>1, JobTo DEF Inv, Control, Shape
<1>3. \A u \in Threads \ {t} : ~Alone(u)
  BY DEF Alone
<1>4. (CanFail' <=> CanFail) /\ (Victim(t)' => Victim(t)) /\ Blame(t)'
  BY <1>1, <1>2 DEF CanFail, Victim, Blame
<1>5. Victim(t)' => ~CanFail'
  BY <1>4 DEF Turns, OneVictim
<1>6. ASSUME CanFail' PROVE Alone(t)' /\ \A u, v \in designated' : u = v
  <2>1. designated' = {}
    BY <1>1, <1>4, <1>6 DEF Turns, InTurn
  <2>2. ASSUME NEW u \in Threads \ {t}, pc[u] \in Flushing PROVE job[u].why = "switch"
    <3>1. ~Grouping(u) /\ ~Victim(u)
      BY <1>3, <1>4, <1>6 DEF Turns, InTurn, OneVictim
    <3>2. RoleOK(pc[u], job[u].kind, job[u].why)
      BY DEF Inv, Control, Places
    <3> QED BY <2>2, <3>1, <3>2 DEF RoleOK, Grouping, Victim, Flushing
  <2> QED BY <1>2, <2>1, <2>2 DEF Alone
<1>7. mtxFlush' \in {mtxFlush, None}
  BY <1>1
<1> QED BY <1>2, <1>3, <1>4, <1>5, <1>6, <1>7, TurnStep

LEMMA FlushTurns ==
    ASSUME Inv, Turns, NEW t \in Threads,
           FlushSkipped(t) \/ FlushStart(t) \/ Sync(t) \/ StoreOffset(t)
    PROVE  Turns'
<1> USE DEF Inv, Control
<1>1. \E p \in {"flushed", "sync", "store", "synced"} :
        /\ pc' = [pc EXCEPT ![t] = p]
        /\ p \in {"flushed", "synced"} => job'[t].ok = TRUE
  BY JobOutcome, JobSynced DEF FlushSkipped, FlushStart, Sync, StoreOffset, Go
<1>2. /\ job'[t].why = job[t].why /\ (job'[t].ok = TRUE \/ job'[t].ok = job[t].ok)
      /\ \A u \in Threads \ {t} : job'[u] = job[u]
  <2>0. Shape
    OBVIOUS
  <2>1. CASE FlushSkipped(t)
    BY <2>0, <2>1, JobOutcome DEF FlushSkipped
  <2>2. CASE FlushStart(t)
    BY <2>0, <2>2, MarkPlace DEF FlushStart
  <2>3. CASE Sync(t)
    BY <2>3 DEF Sync
  <2>4. CASE StoreOffset(t)
    BY <2>0, <2>4, JobSynced DEF StoreOffset
  <2> QED BY <2>1, <2>2, <2>3, <2>4
<1>3. \A u \in Threads \ {t} : pc'[u] = pc[u]
  BY <1>1 DEF Shape
<1>4. /\ pc[t] \in Flushing /\ designated' = designated /\ failures' = failures
  BY DEF FlushSkipped, FlushStart, Sync, StoreOffset, mutexVars, envVars, Flushing, Flying
<1>5. mtxFlush' \in {mtxFlush, None} \/ region = t
  BY DEF FlushSkipped, FlushStart, Sync, StoreOffset, mutexVars, Places, HoldsRegion
<1>6. Victim(t)' => Victim(t)
  BY <1>1, <1>2 DEF Victim, Shape
<1>7. Blame(t)'
  BY <1>1 DEF Blame, Shape
<1>8. CanFail' => CanFail
  BY <1>4 DEF CanFail
<1> HIDE DEF Inv, Control
<1> QED BY <1>2, <1>3, <1>4, <1>5, <1>6, <1>7, <1>8, CalmStep

\* What fails makes its call the victim: nothing had failed before, so it was
\* alone.
LEMMA FailTurns ==
    ASSUME Inv, OneFailure, Turns, NEW t \in Threads,
           WriteOutFails(t) \/ FlushWriteFails(t) \/ SyncFails(t)
    PROVE  Turns'
<1> USE DEF Inv, Control
<1>1. CanFail /\ ~CanFail'
  <2>1. CanFail /\ failures' = failures + 1
    BY DEF WriteOutFails, FlushWriteFails, SyncFails, WriteFails
  <2> QED BY <2>1, ThreadAssumption DEF CanFail, Records, OneFailure
<1>2. /\ job'[t].why = job[t].why
      /\ \A u \in Threads \ {t} : pc'[u] = pc[u] /\ job'[u] = job[u]
  <2>1. \E p \in {"failed", "flushed", "synced"} : pc' = [pc EXCEPT ![t] = p]
    BY DEF WriteOutFails, FlushWriteFails, SyncFails, Go
  <2>2. \A u \in Threads \ {t} : pc'[u] = pc[u]
    BY <2>1 DEF Shape
  <2>3. Shape
    OBVIOUS
  <2>4. CASE WriteOutFails(t)
    BY <2>2, <2>3, <2>4, JobOutcome DEF WriteOutFails
  <2>5. CASE FlushWriteFails(t)
    BY <2>2, <2>3, <2>5, JobOutcome DEF FlushWriteFails
  <2>6. CASE SyncFails(t)
    BY <2>2, <2>3, <2>6, JobSynced DEF SyncFails
  <2> QED BY <2>4, <2>5, <2>6
<1>3. designated' = designated /\ mtxFlush' \in {mtxFlush, None}
  BY DEF WriteOutFails, FlushWriteFails, SyncFails, mutexVars
<1>4. Blame(t)'
  <2>1. CASE WriteOutFails(t)
    <3>1. pc'[t] = "failed" /\ job'[t].kind = "write"
      BY <2>1 DEF WriteOutFails, Go, Shape, Places, RoleOK
    <3> QED BY <3>1 DEF Blame
  <2>2. CASE FlushWriteFails(t)
    <3>1. pc'[t] = "flushed" /\ mtxFlush' = None
      BY <2>2 DEF FlushWriteFails, FlushMutexFree, mutexVars, Go, Shape
    <3> QED BY <3>1 DEF Blame
  <2>3. CASE SyncFails(t)
    <3>1. pc[t] = "sync" /\ pc'[t] = "synced"
      BY <2>3 DEF SyncFails, Go, Shape
    <3>2. job[t].why = "commit" => Alone(t)
      BY <1>1, <3>1 DEF Turns, InTurn, Grouping, Flushing, Flying
    <3>3. job[t].why = "commit" => Alone(t)'
      BY <1>2, <1>3, <3>2 DEF Alone
    <3> QED BY <1>2, <3>1, <3>3 DEF Blame
  <2> QED BY <2>1, <2>2, <2>3
<1>5. \A u \in Threads : ~Victim(u)
  BY <1>1 DEF Turns, OneVictim
<1> HIDE DEF Inv, Control
<1> QED BY <1>1, <1>2, <1>3, <1>4, <1>5, TurnStep

\* __txn_force_abort has the region lock from the failure on.
LEMMA AbortTurns ==
    ASSUME Inv, Turns, NEW t \in Threads, AbortInBuffer(t) \/ AbortInFile(t)
    PROVE  Turns'
<1> USE DEF Inv, Control
<1>1. /\ pc[t] = "failed" /\ pc' = [pc EXCEPT ![t] = "flush"]
      /\ job' = [job EXCEPT ![t].to = job[t].rec, ![t].why = "retry"]
      /\ UNCHANGED <<designated, mtxFlush, failures>>
  BY DEF AbortInBuffer, AbortInFile, Retry, Go, mutexVars, envVars
<1>2. /\ pc'[t] = "flush" /\ job'[t].why = "retry"
      /\ \A u \in Threads \ {t} : pc'[u] = pc[u] /\ job'[u] = job[u]
  <2>1. /\ pc'[t] = "flush" /\ \A u \in Threads \ {t} : pc'[u] = pc[u]
    BY <1>1 DEF Shape
  <2>2. Shape
    OBVIOUS
  <2>3. job'[t].why = "retry" /\ \A u \in Threads \ {t} : job'[u] = job[u]
    BY <1>1, <2>2, JobRetry
  <2> QED BY <2>1, <2>3
<1>3. Victim(t) /\ ~CanFail /\ ~CanFail' /\ \A u \in Threads \ {t} : ~Victim(u)
  BY <1>1 DEF Victim, Turns, OneVictim, CanFail
<1>4. Blame(t)'
  BY <1>2 DEF Blame
<1>5. mtxFlush' \in {mtxFlush, None}
  BY <1>1
<1> HIDE DEF Inv, Control
<1> QED BY <1>2, <1>3, <1>4, <1>5, TurnStep

LEMMA PanicTurns ==
    ASSUME Inv, Turns, NEW t \in Threads, AbortPanics(t)
    PROVE  Turns'
<1>1. /\ \A u \in Threads : pc'[u] = "idle" /\ job'[u] = NoJob
      /\ designated' = {}
  BY DEF AbortPanics, Panic
<1>2. \A u \in Threads : ~Victim(u)' /\ Blame(u)' /\ ~Grouping(u)'
  BY <1>1 DEF Victim, Blame, Grouping, Flushing, Flying, NoJob, Call
<1> QED BY <1>1, <1>2 DEF Turns, OneVictim, InTurn

\* A switch has flushed for every committer on the list.
LEMMA SwitchServes ==
    ASSUME Inv, Reached, NEW t \in Threads, pc[t] \in {"flushed", "synced"},
           job[t].why = "switch", job[t].ok
    PROVE  NextLeader = {}
<1> USE DEF Inv, Layout
<1>1. /\ AlreadyFlushed(job[t].to) /\ job[t].to = LastLsn /\ lsn[2] # 0
  BY DEF Reached, HardTo, Calls, CallOK, NextFileReady, Flying
<1>2. LastLsn \in Slots
  BY <1>1, LastSlot
<1>3. ASSUME NEW u \in Listed PROVE u \in Served
  <2>1. u \in Threads /\ pc[u] = "wait"
    BY DEF Control, Waiters, Shape, Listed, IsList
  <2> PICK s \in Slots : s = job[u].to
    BY <2>1 DEF Calls, CallOK, InCall
  <2>2. Before(s, lsn)
    BY <2>1 DEF Calls, CallOK, InCall
  <2>3. /\ s[1] \in Nat /\ s[2] \in Nat /\ s[2] + RecLen <= FileSize
        /\ lsn[1] \in Nat /\ lsn[2] \in Offsets /\ lsn[2] \in Nat
        /\ sLsn[1] \in Int /\ sLsn[2] \in Int
    BY SlotInts, RegionTypes, SyncPointType, OffsetFacts
  <2>4. s[2] < lsn[2] => s[2] + RecLen <= lsn[2]
    BY <2>3, SlotEdge
  <2>5. NextFileReady
    BY DEF Calls, CallOK, Flying
  <2>6. s[2] < lsn[2] \/ s[1] < lsn[1]
    BY <2>2, <2>3 DEF Before
  <2>7. Before(s, sLsn)
    <3>1. LastLsn[1] = lsn[1] /\ LastLsn[2] = lsn[2] - RecLen
      BY DEF LastLsn
    <3>2. Before(LastLsn, sLsn) /\ lsn[2] + RecLen > FileSize
      BY <1>1, <2>5 DEF AlreadyFlushed, NextFileReady
    <3>3. RecLen \in Nat
      BY LenAssumption
    <3> QED BY <2>2, <2>3, <2>4, <3>1, <3>2, <3>3 DEF Before
  <2> QED BY <2>7 DEF Served, AlreadyFlushed, Listed
<1>4. Listed \subseteq Served
  BY <1>3
<1> QED BY <1>4, LeaderChosen DEF Control

\* "done": the next leader is woken by the one that was alone.
LEMMA FlushDoneTurns ==
    ASSUME Inv, Reached, Turns, NEW t \in Threads, FlushDone(t)
    PROVE  Turns'
<1> USE DEF Inv, Control
<1>1. /\ UNCHANGED <<mtxFlush, failures>> /\ designated' = designated \cup NextLeader
      /\ pc[t] \in {"flushed", "synced"} /\ pc[t] \in Flushing
      /\ (pc[t] = "flushed" \/ region \in {t, None})
  BY DEF FlushDone, Flushing, Flying
<1>2. \A u \in Threads \ {t} : pc'[u] = pc[u] /\ job'[u] = job[u]
  BY DEF FlushDone, Return, Go, Shape
<1>3. \/ pc'[t] = "newfile" /\ job'[t] = job[t] /\ job[t].ok
      \/ pc'[t] = "failed" /\ job'[t] = job[t] /\ ~job[t].ok /\ job[t].why = "commit"
      \/ pc'[t] = "idle" /\ job'[t] = NoJob
  BY DEF FlushDone, Return, Go, Shape
<1>4. CanFail' <=> CanFail
  BY <1>1 DEF CanFail
<1>5. Victim(t)' => Victim(t)
  BY <1>3 DEF Victim, NoJob, Call
<1>6. Victim(t)' => ~CanFail'
  BY <1>4, <1>5 DEF Turns, OneVictim
<1>7. Blame(t)'
  <2>1. CASE pc'[t] = "failed" /\ ~job[t].ok /\ job[t].why = "commit"
    <3>1. CASE pc[t] = "flushed"
      BY <1>1, <2>1, <3>1 DEF Turns, Blame
    <3>2. CASE pc[t] = "synced"
      <4>1. Alone(t) /\ region \in {t, None}
        BY <1>1, <2>1, <3>2 DEF Turns, Blame
      <4>2. ASSUME NEW u \in Threads, mtxFlush = u PROVE FALSE
        <5>1. pc[u] \in {"sync", "store"} /\ u # t
          BY <3>2, <4>2 DEF Places, HoldsFlush
        <5>2. job[u].why = "switch"
          BY <4>1, <5>1 DEF Alone, Flushing, Flying
        <5>3. region = u
          BY <5>1, <5>2 DEF Places, HoldsRegion, Flying
        <5> QED BY <4>1, <5>1, <5>3, ThreadAssumption
      <4>3. mtxFlush = None
        BY <4>2 DEF Shape
      <4> QED BY <1>1, <2>1, <4>3 DEF Blame
    <3> QED BY <1>1, <3>1, <3>2
  <2>2. CASE pc'[t] \in {"newfile", "idle"}
    BY <2>2 DEF Blame
  <2> QED BY <1>3, <2>1, <2>2
<1>8. pc'[t] \notin Flushing
  BY <1>3 DEF Flushing, Flying
<1>9. ASSUME NEW u \in Threads \ {t}, CanFail \/ Victim(u), Alone(u) PROVE Alone(u)'
  <2>1. ~Victim(t)
    BY <1>9 DEF Turns, OneVictim
  <2>2. job[t].why = "switch"
    BY <1>1, <1>9 DEF Alone
  <2>3. NextLeader = {}
    BY <1>1, <2>1, <2>2, SwitchServes DEF Victim
  <2> QED BY <1>1, <1>2, <1>8, <1>9, <2>3, AloneKept
<1>10. ASSUME CanFail PROVE \A u, v \in designated' : u = v
  <2>1. ~Victim(t) /\ RoleOK(pc[t], job[t].kind, job[t].why)
    BY <1>10 DEF Turns, OneVictim, Places
  <2>2. CASE job[t].why = "switch"
    <3>1. NextLeader = {}
      BY <1>1, <2>1, <2>2, SwitchServes DEF Victim
    <3> QED BY <1>1, <1>10, <3>1 DEF Turns, InTurn
  <2>3. CASE Grouping(t)
    <3>1. designated = {}
      BY <1>10, <2>3 DEF Turns, InTurn, Alone
    <3>2. \A u, v \in NextLeader : u = v
      BY DEF NextLeader
    <3> QED BY <1>1, <3>1, <3>2
  <2> QED BY <1>1, <2>1, <2>2, <2>3 DEF RoleOK, Victim, Grouping, Flying
<1>11. mtxFlush' \in {mtxFlush, None} /\ ~Grouping(t)'
  BY <1>1, <1>8 DEF Grouping
<1> HIDE DEF Inv, Control
<1> QED BY <1>2, <1>4, <1>5, <1>6, <1>7, <1>9, <1>10, <1>11, TurnStep

-----------------------------------------------------------------------------

Steady == OnDisk /\ Reached /\ Turns

LEMMA StepSteady ==
    ASSUME Inv, OneFailure, Steady, NEW t \in Threads, Step(t)
    PROVE  Steady'
<1> USE DEF Steady
<1>0. WholeStores
  BY DEF OneFailure
<1>1. CASE NewFile(t)
  BY <1>0, <1>1, NewFileExact, OutTurns
<1>2. CASE PutRecord(t)
  BY <1>0, <1>2, PutRecordExact, OutTurns
<1>3. CASE PutFails(t)
  BY <1>0, <1>3, WriteFailureExact, OutTurns
<1>4. CASE WriteOut(t)
  BY <1>0, <1>4, WriteOutExact, OutTurns
<1>5. CASE WriteOutFails(t) \/ FlushWriteFails(t)
  BY <1>0, <1>5, WriteFailureExact, FailTurns
<1>6. CASE TakeRegion(t) \/ EnterFlushed(t) \/ Join(t) \/ FailureIgnored(t)
  BY <1>6, WaitingExact, OutTurns
<1>7. CASE Lead(t)
  BY <1>7, WaitingExact, LeadTurns
<1>8. CASE Wake(t)
  BY <1>8, WaitingExact, WakeTurns, OutTurns
<1>9. CASE FlushSkipped(t)
  BY <1>9, FlushSkippedExact, FlushTurns
<1>10. CASE FlushStart(t)
  BY <1>0, <1>10, FlushStartExact, FlushTurns
<1>11. CASE Sync(t)
  BY <1>0, <1>11, SyncExact, FlushTurns
<1>12. CASE StoreOffset(t)
  BY <1>0, <1>12, StoreOffsetExact, FlushTurns
<1>13. CASE SyncFails(t)
  BY <1>13, SyncFailsExact, FailTurns
<1>14. CASE FlushDone(t)
  BY <1>14, FlushDoneExact, FlushDoneTurns
<1>15. CASE AbortInBuffer(t) \/ AbortInFile(t)
  <2>1. job[t].kind = "commit" => mtxFlush = None
    BY <1>15 DEF Turns, Blame, AbortInBuffer, AbortInFile
  <2> QED BY <1>0, <1>15, <2>1, AbortExact, AbortTurns
<1>16. CASE AbortPanics(t)
  BY <1>16, PanicExact, PanicTurns
<1> QED BY <1>1, <1>2, <1>3, <1>4, <1>5, <1>6, <1>7, <1>8, <1>9, <1>10, <1>11, <1>12,
           <1>13, <1>14, <1>15, <1>16 DEF Step

LEMMA NextSteady ==
    ASSUME Inv, OneFailure, Steady, Next
    PROVE  Steady'
<1>1. CASE \E t \in Threads, k \in Kinds \cup {"ckp"} : Enter(t, k)
  BY <1>1, EnterExact, EnterTurns DEF Steady
<1>2. CASE \E t \in Threads, r \in Slots : ApiFlush(t, r)
  BY <1>2, ApiFlushExact, ApiFlushTurns DEF Steady
<1>3. CASE \E t \in Threads : Step(t)
  BY <1>3, StepSteady
<1>4. ~AppCrash /\ ~SystemCrash
  BY DEF AppCrash, SystemCrash, OneFailure, Inv, Records
<1> QED BY <1>1, <1>2, <1>3, <1>4 DEF Next

LEMMA InitSteady == Init => Steady
<1> SUFFICES ASSUME Init PROVE Steady
  OBVIOUS
<1>1. OnDisk
  <2>1. lsn = <<1, 0>> /\ wOff = 0 /\ sLsn = <<0, 0>>
    BY DEF Init, ZeroLsn
  <2>2. \A s \in Slots : ~Before(s, lsn) /\ ~Written(s) /\ ~Before(s, sLsn) /\ ~(s[1] < lsn[1])
    BY <2>1, SlotInts, LenAssumption DEF Before, Written
  <2> QED BY <2>2 DEF OnDisk
<1>2. \A t \in Threads : pc[t] = "idle" /\ job[t] = NoJob
  BY DEF Init
<1>3. Reached
  BY <1>2 DEF Reached, HardTo
<1>4. \A t \in Threads : ~Victim(t) /\ Blame(t) /\ ~Grouping(t)
  BY <1>2 DEF Victim, Blame, Grouping, Flushing, Flying, NoJob, Call
<1>5. Turns
  BY <1>4 DEF Turns, OneVictim, InTurn, Init
<1> QED BY <1>1, <1>3, <1>5 DEF Steady

\* When one write or fsync fails, its call has the log to itself until its
\* commit is flushed after all, aborted, or the environment panics; nothing
\* that is overwritten on the way is, or will be, covered by s_lsn.
THEOREM FailureInvariant ==
    ASSUME OneFailure
    PROVE  Spec => []Steady
<1>1. Inv /\ Steady /\ [Next]_vars => Steady'
  <2> SUFFICES ASSUME Inv, Steady, [Next]_vars PROVE Steady'
    OBVIOUS
  <2>1. CASE Next
    BY <2>1, NextSteady
  <2>2. CASE UNCHANGED vars
    <3>1. UNCHANGED <<lsn, bOff, wOff, sLsn, mem, os, disk, syncing, pc, job, mtxFlush,
                      designated, failures>>
      BY <2>2 DEF vars, regionVars, mutexVars, logVars, envVars
    <3>2. OnDisk'
      BY <3>1 DEF Steady, OnDisk, Written, Exact, Before
    <3>3. Reached'
      <4> SUFFICES ASSUME NEW t \in Threads PROVE HardTo(pc[t], job[t])'
        BY DEF Reached
      <4> PICK p : p = pc[t] /\ p = pc'[t]
        BY <3>1
      <4> PICK j : j = job[t] /\ j = job'[t]
        BY <3>1
      <4>1. HardTo(p, j)
        BY DEF Steady, Reached
      <4>2. LastLsn' = LastLsn
        BY <3>1 DEF LastLsn
      <4> QED BY <3>1, <4>1, <4>2 DEF HardTo, Exact, AlreadyFlushed, Before
    <3>4. Turns'
      BY <3>1 DEF Steady, Turns, OneVictim, InTurn, Blame, Victim, Grouping, Alone, CanFail
    <3> QED BY <3>2, <3>3, <3>4 DEF Steady
  <2> QED BY <2>1, <2>2
<1> QED BY <1>1, InitSteady, Invariant, PTL DEF Spec

\* A write or an fsync that fails once, with the __txn_force_abort that may
\* follow, leaves s_lsn true: __log_flush_int does not let a later fsync cover
\* a record that is being overwritten.
THEOREM SyncPointExactOnce ==
    ASSUME OneFailure
    PROVE  Spec => []SyncedExact
<1>1. Steady => SyncedExact
  BY DEF Steady, OnDisk, SyncedExact, Exact
<1> QED BY <1>1, FailureInvariant, PTL

\* Nor does it touch a file that __log_newfile has left behind.
THEOREM OldFilesHardOnce ==
    ASSUME OneFailure
    PROVE  Spec => []FilesComplete
<1>1. Inv /\ Steady => FilesComplete
  <2> SUFFICES ASSUME Inv, Steady PROVE FilesComplete
    OBVIOUS
  <2>1. \A t \in Threads : pc[t] = "newfile" => bOff = 0
    BY DEF Inv, Layout, Calls, CallOK
  <2>2. \A s \in Slots : s[1] < lsn[1] => disk[s] = {mem[s]}
    BY DEF Steady, OnDisk, Exact
  <2> QED BY <2>1, <2>2 DEF FilesComplete
<1> QED BY <1>1, Invariant, FailureInvariant, PTL
=============================================================================
