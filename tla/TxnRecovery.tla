---------------------------- MODULE TxnRecovery ----------------------------
(***************************************************************************)
(* Transactions, checkpoints and recovery: txn/txn.c, txn/txn_chkpt.c,     *)
(* txn/txn_rec.c, db/db_dispatch.c and env/env_recover.c.                  *)
(*                                                                         *)
(* The log is a sequence of records and an LSN an index into it; ZeroLsn   *)
(* is ZERO_LSN.  A page has an LSN and the sequence of the items that were *)
(* put on it: redoing a write appends its item, undoing it removes the     *)
(* last one, as an access method's recovery function does when the page's  *)
(* LSN says so (db/db_rec.c, __db_addrem_recover).                         *)
(*                                                                         *)
(* A transaction is a number of Txns, which no later transaction has; the  *)
(* id it logs is "id", which is used again.  A child's number is larger    *)
(* than its parent's.                                                      *)
(***************************************************************************)
EXTENDS Integers, FiniteSets, SequencesExt, IdSpace

CONSTANTS
    Pages,
    MinId, MaxId,   \* TXN_MINIMUM, TXN_MAXIMUM
    SyncTxns,       \* transactions that commit with TXN_SYNC
    Nesting,        \* transactions have children
    EmptyPrepares,  \* transactions that wrote nothing are prepared too
    LoneRecords,    \* a checkpoint may find one record of one transaction
    MaxTxns,        \* bound: transactions
    MaxWrites,      \* bound: writes
    MaxCkps,        \* bound: checkpoints that an application asks for
    MaxCrashes,     \* bound: crashes
    MaxEvictions    \* bound: pages evicted from the cache

Txns == 1 .. MaxTxns

ASSUME TxnAssumption ==
    /\ MaxTxns \in Nat /\ MaxWrites \in Nat
    /\ MaxCkps \in Nat /\ MaxCrashes \in Nat /\ MaxEvictions \in Nat
    /\ MinId \in Nat \ {0} /\ MaxId \in Nat /\ MinId < MaxId
    /\ SyncTxns \subseteq Txns /\ Nesting \in BOOLEAN
    /\ EmptyPrepares \in BOOLEAN /\ LoneRecords \in BOOLEAN

VARIABLES
    \* the log and the pages
    log,
    flushed,   \* the records that a crash leaves for certain
    mem,       \* the pages in the cache
    disk,      \* the pages in the files
    dirty,     \* the pages whose buffer is dirty
    \* the transaction region
    td,        \* TXN_DETAIL of the active transactions
    lastId,    \* last_txnid
    maxId,     \* cur_maxid
    locks,     \* the transactions with a write lock on a page
    ckp,       \* the checkpoint in progress
    \* the environment
    phase,     \* "up" or a pass of recovery
    rec,       \* the state of recovery: a log cursor and the DB_TXNHEAD
    failed,    \* recovery or an abort failed with an error
    \* what callers were told
    said,      \* what the log says of the transactions: history
    promised,  \* the transactions whose TXN_SYNC commit returned
    \* bounds
    born, items, ckps, crashes, evictions

logVars   == <<log, said, flushed>>
cacheVars == <<mem, disk, dirty>>
idVars    == <<lastId, maxId, born>>
boundVars == <<items, ckps, crashes, evictions>>
vars == <<logVars, cacheVars, td, idVars, locks, ckp, phase, rec, failed,
          promised, boundVars>>

ZeroLsn == 0
NoTxn == 0

NoTd == [status |-> "none", id |-> 0, parent |-> NoTxn, begin |-> ZeroLsn,
         last |-> ZeroLsn, restored |-> FALSE,
         voted |-> FALSE, at |-> ZeroLsn, stack |-> <<>>]

Active == {h \in Txns : td[h].status # "none"}
Kids(h) == {k \in Active : td[k].parent = h}

\* A transaction with its ancestors; __txn_set_txn_lsnp walks up to the last.
Lineage[h \in Txns] ==
    {h} \cup (IF td[h].parent = NoTxn THEN {} ELSE Lineage[td[h].parent])
Top(h) == CHOOSE a \in Lineage[h] : td[a].parent = NoTxn

Nothing == [p \in Pages |-> <<>>]
NoCkp == [step |-> "idle", lsn |-> ZeroLsn, todo |-> {}, owed |-> FALSE]
EmptyHead == [list |-> <<>>, gens |-> <<[gen |-> 0, lo |-> MinId, hi |-> MaxId]>>]
Idle == [at |-> ZeroLsn, first |-> ZeroLsn, head |-> EmptyHead]

\* The work, the votes and the ends of the transactions, after one more record.
Told(s, r) ==
    CASE r.type = "write"   -> [s EXCEPT !.puts[r.who][r.page] = Append(@, r.item)]
      [] r.type = "child"   -> [s EXCEPT !.puts[r.kid] = Nothing,
                                    !.puts[r.who] = [p \in Pages |-> @[p] \o s.puts[r.kid][p]]]
      [] r.type = "prepare" -> [s EXCEPT !.voted = @ \cup {r.who}]
      [] r.type = "commit"  -> [s EXCEPT !.order = Append(@, r.who)]
      [] r.type = "abort"   -> [s EXCEPT !.aborted = @ \cup {r.who}]
      [] OTHER              -> s
Told0 == [puts |-> [h \in Txns |-> Nothing], voted |-> {}, order |-> <<>>, aborted |-> {}]

Init ==
    /\ log = <<>> /\ said = Told0 /\ flushed = 0
    /\ mem = [p \in Pages |-> [lsn |-> ZeroLsn, val |-> <<>>]]
    /\ disk = mem /\ dirty = {}
    /\ td = [h \in Txns |-> NoTd]
    /\ lastId = MinId /\ maxId = MaxId
    /\ locks = [p \in Pages |-> {}]
    /\ ckp = NoCkp
    /\ phase = "up" /\ rec = Idle /\ failed = FALSE
    /\ promised = {}
    /\ born = 0 /\ items = 0 /\ ckps = 0 /\ crashes = 0 /\ evictions = 0

-----------------------------------------------------------------------------
(* The log.                                                                *)

NextLsn == Len(log) + 1

\* __log_put of a record of h: its last_lsn, and the begin_lsn of its oldest
\* ancestor unless it has one.
Logged(h) ==
    [td EXCEPT ![h].last = NextLsn,
               ![Top(h)].begin = IF @ = ZeroLsn THEN NextLsn ELSE @]

EndRec(type, h) == [type |-> type, who |-> h, id |-> td[h].id, prev |-> td[h].last]
WriteRec(h, p) ==
    [type |-> "write", who |-> h, id |-> td[h].id, prev |-> td[h].last,
     page |-> p, pagelsn |-> mem[p].lsn, item |-> items + 1]
PrepareRec(h) ==
    [type |-> "prepare", who |-> h, id |-> td[h].id, prev |-> td[h].last,
     begin |-> td[h].begin, locks |-> {p \in Pages : h \in locks[p]}]
ChildRec(h) ==
    LET parent == td[h].parent
    IN  [type |-> "child", who |-> parent, id |-> td[parent].id,
         prev |-> td[parent].last, kid |-> h, child |-> td[h].id,
         clsn |-> td[h].last]
CkpRec(lsn) == [type |-> "ckp", lsn |-> lsn]
RecycleRec(lo, hi) == [type |-> "recycle", lo |-> lo, hi |-> hi]

PutLog(r) == log' = Append(log, r) /\ said' = Told(said, r)

TxnTypes == {"write", "prepare", "child", "commit", "abort"}

\* A flush of the log up to an LSN.
FlushTo(lsn) == flushed' = IF lsn > flushed THEN lsn ELSE flushed

-----------------------------------------------------------------------------
(* Transactions.                                                           *)

\* __txn_begin_int.  bound: there are ids left, so none is recycled here, and
\* those that began before a top-level transaction have logged something.
Begin(h, parent) ==
    LET id == IF lastId = MaxId /\ maxId # MaxId THEN MinId ELSE lastId + 1 IN
    /\ phase = "up" /\ h = born + 1
    /\ IF parent = NoTxn THEN \A a \in Active : td[a].begin # ZeroLsn
       ELSE Nesting /\ td[parent].status = "running"
    /\ id <= MaxId /\ id # maxId
    /\ born' = h /\ lastId' = id
    /\ td' = [td EXCEPT ![h] = [NoTd EXCEPT !.status = "running", !.id = id,
                                            !.parent = parent]]
    /\ UNCHANGED <<logVars, cacheVars, maxId, locks, ckp, phase, rec, failed,
                   promised, boundVars>>

\* An access method writes a page under a write lock: it holds the latch of
\* the page from before the record is put until the page has its LSN.
Write(h, p) ==
    /\ phase = "up" /\ items < MaxWrites
    /\ td[h].status = "running" /\ Kids(h) = {}
    /\ locks[p] \subseteq Lineage[h]
    /\ PutLog(WriteRec(h, p))
    /\ td' = Logged(h)
    /\ mem' = [mem EXCEPT ![p] = [lsn |-> NextLsn, val |-> Append(@.val, items + 1)]]
    /\ dirty' = dirty \cup {p}
    /\ locks' = [locks EXCEPT ![p] = @ \cup {h}]
    /\ items' = items + 1
    /\ UNCHANGED <<flushed, disk, idVars, ckp, phase, rec, failed, promised,
                   ckps, crashes, evictions>>

\* __txn_end: the locks go before the transaction leaves the active list, and
\* when it was the last one that recovery restored a checkpoint follows.
End(h) ==
    /\ locks' = [p \in Pages |-> locks[p] \ {h}]
    /\ ckp' = [ckp EXCEPT !.owed = @ \/ (td[h].restored /\
                  \A a \in Active \ {h} : ~ td[a].restored)]

\* __txn_commit of a top-level transaction whose kids are committed: the
\* commit record.
CommitPut(h) ==
    /\ phase = "up" /\ td[h].status \in {"running", "prepared"}
    /\ td[h].parent = NoTxn /\ Kids(h) = {} /\ td[h].last # ZeroLsn
    /\ PutLog(EndRec("commit", h))
    /\ td' = [Logged(h) EXCEPT ![h].status = "committing"]
    /\ UNCHANGED <<flushed, cacheVars, idVars, locks, ckp, phase, rec, failed,
                   promised, boundVars>>

\* The rest of it: the flush that TXN_SYNC asks for, then __txn_end.
CommitEnd(h) ==
    /\ phase = "up" /\ td[h].status = "committing"
    /\ IF h \in SyncTxns
       THEN FlushTo(td[h].last) /\ promised' = promised \cup {h}
       ELSE UNCHANGED <<flushed, promised>>
    /\ End(h)
    /\ td' = [td EXCEPT ![h] = NoTd]
    /\ UNCHANGED <<log, said, cacheVars, idVars, phase, rec, failed, boundVars>>

\* A transaction that wrote nothing ends without a record.
EndUnlogged(h) ==
    /\ phase = "up" /\ td[h].status = "running"
    /\ Kids(h) = {} /\ td[h].last = ZeroLsn
    /\ td' = [td EXCEPT ![h] = NoTd]
    /\ UNCHANGED <<logVars, cacheVars, idVars, locks, ckp, phase, rec, failed,
                   promised, boundVars>>

\* Mutant: they are released.
Released(h, parent) == [p \in Pages |-> locks[p] \ {h}]

\* The locks of h become its parent's.
Inherited(h, parent) ==
    [p \in Pages |-> IF h \in locks[p] THEN (locks[p] \ {h}) \cup {parent}
                     ELSE locks[p]]

\* __txn_commit of a child: a record in its parent's chain, its locks to its
\* parent.
ChildCommit(h) ==
    LET parent == td[h].parent IN
    /\ phase = "up" /\ td[h].status = "running"
    /\ parent # NoTxn /\ Kids(h) = {} /\ td[h].last # ZeroLsn
    /\ PutLog(ChildRec(h))
    /\ td' = [Logged(parent) EXCEPT ![h] = NoTd]
    /\ locks' = Inherited(h, parent)
    /\ UNCHANGED <<flushed, cacheVars, idVars, ckp, phase, rec, failed,
                   promised, boundVars>>

\* __txn_prepare: the record has the begin_lsn from before it was put, and is
\* flushed.
Prepare(h) ==
    /\ phase = "up" /\ td[h].status = "running"
    /\ td[h].parent = NoTxn /\ Kids(h) = {}
    /\ EmptyPrepares \/ td[h].last # ZeroLsn
    /\ PutLog(PrepareRec(h))
    /\ FlushTo(NextLsn)
    /\ td' = [Logged(h) EXCEPT ![h].status = "prepared", ![h].voted = TRUE]
    /\ UNCHANGED <<cacheVars, idVars, locks, ckp, phase, rec, failed, promised,
                   boundVars>>

\* What a record does to its page when it is undone: nothing unless the page
\* has the record's LSN.
Undone(r, lsn) ==
    IF mem[r.page].lsn = lsn
    THEN [mem EXCEPT ![r.page] = [lsn |-> r.pagelsn, val |-> Front(@.val)]]
    ELSE mem

\* __txn_abort, whose kids are aborted: __txn_undo begins at last_lsn.
AbortStart(h) ==
    /\ phase = "up" /\ td[h].status \in {"running", "prepared"}
    /\ Kids(h) = {} /\ td[h].last # ZeroLsn
    /\ td' = [td EXCEPT ![h].status = "aborting", ![h].at = td[h].last,
                        ![h].stack = <<>>]
    /\ UNCHANGED <<logVars, cacheVars, idVars, locks, ckp, phase, rec, failed,
                   promised, boundVars>>

\* __txn_dispatch_undo of one record.  A child's commit leads to the child's
\* records and leaves the parent's for later, on a stack.
UndoStep(h) ==
    LET lsn == td[h].at
        r == log[lsn]
        kid == r.type = "child"
        stack == IF kid /\ r.prev # ZeroLsn THEN Append(td[h].stack, r.prev)
                 ELSE td[h].stack
        next == IF kid THEN r.clsn ELSE r.prev
        pop == next = ZeroLsn /\ stack # <<>>
    IN
    /\ phase = "up" /\ td[h].status = "aborting" /\ lsn # ZeroLsn
    /\ td' = [td EXCEPT ![h].at = IF pop THEN Last(stack) ELSE next,
                        ![h].stack = IF pop THEN Front(stack) ELSE stack]
    /\ IF r.type = "write"
       THEN /\ mem' = Undone(r, lsn)
            /\ dirty' = IF mem' = mem THEN dirty ELSE dirty \cup {r.page}
            \* CHECK_ABORT
            /\ failed' = (failed \/ (mem[r.page].lsn \notin {lsn, ZeroLsn}))
       ELSE UNCHANGED <<mem, dirty, failed>>
    /\ UNCHANGED <<logVars, disk, idVars, locks, ckp, phase, rec, promised,
                   boundVars>>

\* The rest of __txn_abort: only a prepared transaction logs its abort.
AbortEnd(h) ==
    /\ phase = "up" /\ td[h].status = "aborting" /\ td[h].at = ZeroLsn
    /\ IF td[h].voted
       THEN /\ PutLog(EndRec("abort", h))
            /\ IF h \in SyncTxns THEN FlushTo(NextLsn) ELSE UNCHANGED flushed
       ELSE UNCHANGED logVars
    /\ End(h)
    /\ td' = [td EXCEPT ![h] = NoTd]
    /\ UNCHANGED <<cacheVars, idVars, phase, rec, failed, promised, boundVars>>

-----------------------------------------------------------------------------
(* The cache and checkpoints.                                              *)

\* __memp_pgwrite: the log goes first.
WritePage(p) ==
    /\ p \in dirty
    /\ FlushTo(mem[p].lsn)
    /\ disk' = [disk EXCEPT ![p] = mem[p]]
    /\ dirty' = dirty \ {p}
    /\ ckp' = [ckp EXCEPT !.todo = @ \ {p}]
    /\ UNCHANGED <<log, said, mem, td, idVars, locks, phase, rec, failed, promised,
                   items, ckps, crashes>>

\* For a checkpoint, or for the end of recovery.
Sync(p) ==
    /\ p \in ckp.todo \/ phase = "done"
    /\ WritePage(p)
    /\ UNCHANGED evictions

\* To make room in the cache, at any time.
Evict(p) ==
    /\ evictions < MaxEvictions
    /\ evictions' = evictions + 1
    /\ WritePage(p)

\* __txn_checkpoint, under mtx_ckp: first the LSN of the last record, ...
CkpStart ==
    /\ phase = "up" /\ ckp.step = "idle" /\ log # <<>>
    /\ ckp.owed \/ ckps < MaxCkps
    /\ ckp' = [ckp EXCEPT !.step = "lsn", !.lsn = Len(log), !.owed = FALSE]
    /\ ckps' = IF ckp.owed THEN ckps ELSE ckps + 1
    /\ UNCHANGED <<logVars, cacheVars, td, idVars, locks, phase, rec, failed,
                   promised, items, crashes, evictions>>

\* Mutant: active transactions do not hold a checkpoint back.
OldestNone(lsn) == lsn

\* The least begin_lsn of an active transaction, and no more than lsn.
OldestActive(lsn) ==
    Min({lsn} \cup {td[h].begin : h \in {a \in Active : td[a].begin # ZeroLsn}})

\* ... then __txn_getactive, and the list of the buffers that are dirty.
CkpActive ==
    /\ phase = "up" /\ ckp.step = "lsn"
    /\ ckp' = [ckp EXCEPT !.step = "sync", !.lsn = OldestActive(@), !.todo = dirty]
    /\ UNCHANGED <<logVars, cacheVars, td, idVars, locks, phase, rec, failed,
                   promised, boundVars>>

\* A record that does not end its transaction is the only one that any
\* transaction has logged since the checkpoint's LSN.
Lone ==
    /\ log[ckp.lsn].type \in TxnTypes \ {"commit", "abort"}
    /\ \A i \in ckp.lsn + 1 .. Len(log) : log[i].type \notin TxnTypes

\* When all of the list is written, the record, flushed, and its LSN as the
\* last checkpoint's (__txn_updateckp), which is LastCkp of the log.
CkpRecord ==
    /\ phase = "up" /\ ckp.step = "sync" /\ ckp.todo = {}
    /\ LoneRecords \/ ~ Lone
    /\ PutLog(CkpRec(ckp.lsn))
    /\ FlushTo(NextLsn)
    /\ ckp' = [NoCkp EXCEPT !.owed = ckp.owed]
    /\ UNCHANGED <<cacheVars, td, idVars, locks, phase, rec, failed, promised,
                   boundVars>>

-----------------------------------------------------------------------------
(* The transaction list of recovery, DB_TXNHEAD: its entries, the newest   *)
(* first, and the ranges of ids of the generations, the newest first.      *)

\* FIND_GENERATION
InRange(g, id) ==
    IF g.lo < g.hi THEN g.lo <= id /\ id <= g.hi ELSE g.lo <= id \/ id <= g.hi
\* Mutant: an id means the same transaction all through the log.
GenFirst(hp, id) == 0
GenOf(hp, id) ==
    LET i == SelectInSeq(hp.gens, LAMBDA g : InRange(g, id)) IN hp.gens[i].gen

\* __db_txnlist_find_internal; 0 is DB_NOTFOUND.
Find(hp, id) ==
    SelectInSeq(hp.list, LAMBDA e : e.id = id /\ e.gen = GenOf(hp, id))
StatusOf(hp, id) ==
    LET i == Find(hp, id) IN IF i = 0 THEN "notfound" ELSE hp.list[i].status

Add(hp, id, status) ==
    [hp EXCEPT !.list =
        <<[id |-> id, gen |-> GenOf(hp, id), status |-> status]>> \o @]
Update(hp, id, status) ==
    IF StatusOf(hp, id) \in {"notfound", "ignore"} THEN hp
    ELSE [hp EXCEPT !.list[Find(hp, id)].status = status]
Drop(hp, id) ==
    IF Find(hp, id) = 0 THEN hp ELSE [hp EXCEPT !.list = RemoveAt(@, Find(hp, id))]

\* __db_txnlist_gen
Push(hp, r) ==
    [hp EXCEPT !.gens = <<[gen |-> Len(@), lo |-> r.lo, hi |-> r.hi]>> \o @]
Pop(hp) == [hp EXCEPT !.gens = Tail(@)]

-----------------------------------------------------------------------------
(* The records in the three passes of recovery, __db_dispatch.             *)

\* DB_TXN_OPENFILES: who began, who is partial, and the generations.
Opened(hp, r) ==
    LET begun == IF r.type \in TxnTypes /\ r.prev = ZeroLsn
                 THEN Add(hp, r.id, "ok") ELSE hp
        partial == r.type = "child" /\ Find(begun, r.child) = 0
    IN  IF r.type = "recycle" THEN Push(hp, r)
        ELSE IF ~ partial THEN begun
        ELSE IF Find(begun, r.id) = 0 THEN Add(begun, r.id, "ignore")
        ELSE Update(begun, r.id, "ignore")

\* __txn_regop_recover going back.
BackRegop(hp, r) ==
    IF Find(hp, r.id) # 0 THEN Update(hp, r.id, r.type)
    ELSE Add(hp, r.id, IF r.type = "abort" THEN "ignore" ELSE r.type)

\* Mutant: a child that committed is redone whatever became of its parent.
BackChildCommit(hp, r) == Add(hp, r.child, "commit")

\* __txn_child_recover going back.
BackChild(hp, r) ==
    LET kid == StatusOf(hp, r.child)
        parent == StatusOf(hp, r.id)
        status == IF parent \in {"commit", "ignore"} THEN parent ELSE "abort"
    IN  IF kid = "notfound" THEN Add(hp, r.child, status)
        ELSE IF kid \in {"ok", "commit"} THEN Update(hp, r.child, status)
        ELSE hp

\* A record of an unfinished transaction makes it one to abort, or to restore
\* if it is the prepare record.
Settled(hp, r) ==
    IF StatusOf(hp, r.id) = "notfound" THEN Add(hp, r.id, "ignore")
    ELSE IF StatusOf(hp, r.id) = "ok"
    THEN Update(hp, r.id, IF r.type = "prepare" THEN "prepare" ELSE "abort")
    ELSE hp

Restores(hp, r) ==
    r.type = "prepare" /\ StatusOf(Settled(hp, r), r.id) = "prepare"

\* DB_TXN_BACKWARD_ROLL: the list after a record, ...
Rolled(hp, r) ==
    IF r.type = "recycle" THEN Pop(hp)
    ELSE IF r.type = "ckp" THEN hp
    ELSE IF r.type \in {"commit", "abort"} THEN BackRegop(hp, r)
    ELSE IF r.type = "child" /\ Find(hp, r.id) # 0 THEN BackChild(Settled(hp, r), r)
    ELSE IF Restores(hp, r) THEN Add(Drop(Settled(hp, r), r.id), r.id, "commit")
    ELSE Settled(hp, r)

\* ... whether its page is undone, ...
Undoes(hp, r) ==
    r.type = "write" /\ StatusOf(hp, r.id) \notin {"notfound", "ignore", "commit"}

\* ... and the error of a commit record found on the list as something else.
BackError(hp, r) ==
    /\ r.type \in {"commit", "abort"}
    /\ StatusOf(hp, r.id) \notin {"notfound", "ignore", "ok"}

\* DB_TXN_FORWARD_ROLL: only what is on the list as a commit is called.
Called(hp, r) == r.type \in TxnTypes /\ StatusOf(hp, r.id) = "commit"

Redone(hp, r) ==
    IF r.type = "recycle" THEN Push(hp, r)
    ELSE IF ~ Called(hp, r) \/ r.type = "write" THEN hp
    ELSE Drop(hp, IF r.type = "child" THEN r.child ELSE r.id)

Redoes(hp, r) ==
    r.type = "write" /\ Called(hp, r) /\ mem[r.page].lsn = r.pagelsn

\* A child that is not on the list, or a page older than the record (CHECK_LSN).
FwdError(hp, r) ==
    /\ Called(hp, r)
    /\ \/ r.type = "child" /\ Find(hp, r.child) = 0
       \/ r.type = "write" /\ mem[r.page].lsn < r.pagelsn
                           /\ mem[r.page].lsn # ZeroLsn

-----------------------------------------------------------------------------
(* Crashes and recovery.                                                   *)

\* The LSN that the last checkpoint record of the log recovers from, or the
\* start of the log.
FirstLsn(lg) ==
    LET c == SelectLastInSeq(lg, LAMBDA r : r.type = "ckp") IN
    IF c = 0 THEN 1 ELSE lg[c].lsn

\* The search for a transaction reads back from the last record, and stops at
\* the one it starts from without looking at it.
Examined(lg) ==
    IF FirstLsn(lg) = Len(lg) THEN 1 .. Len(lg) ELSE FirstLsn(lg) + 1 .. Len(lg)
HasTxns(lg) == \E i \in Examined(lg) : lg[i].type \in TxnTypes
HasRecycle(lg) == \E i \in Examined(lg) : lg[i].type = "recycle"

\* Pass 1, __env_openfiles.
OpenFiles(lg) ==
    FoldLeft(Opened, EmptyHead, SubSeq(lg, FirstLsn(lg), Len(lg)))

\* A crash of the application or the system leaves the files and a beginning
\* of the log that has all that was flushed.  __db_apprec then starts.
Crash(k) ==
    LET kept == SubSeq(log, 1, k) IN
    /\ crashes < MaxCrashes /\ k \in flushed .. Len(log)
    /\ crashes' = crashes + 1
    /\ log' = kept /\ flushed' = k /\ said' = FoldLeft(Told, Told0, kept)
    /\ mem' = disk /\ dirty' = {}
    /\ td' = [h \in Txns |-> NoTd]
    /\ locks' = [p \in Pages |-> {}]
    /\ lastId' = MinId /\ maxId' = MaxId
    /\ ckp' = NoCkp
    /\ IF k = 0 THEN phase' = "up" /\ rec' = Idle
       ELSE /\ phase' = IF HasTxns(kept) THEN "backward" ELSE "done"
            /\ rec' = [at |-> k, first |-> FirstLsn(kept), head |-> OpenFiles(kept)]
    /\ UNCHANGED <<disk, born, failed, promised, items, ckps, evictions>>

\* __txn_restore_txn, and the locks of the prepare record.
Restored(r, lsn) ==
    [NoTd EXCEPT !.status = "prepared", !.id = r.id, !.begin = r.begin,
                 !.last = lsn, !.restored = TRUE, !.voted = TRUE]

\* Pass 2, one record.
Backward ==
    LET r == log[rec.at]
        settled == Settled(rec.head, r)
    IN
    /\ phase = "backward"
    /\ failed' = BackError(rec.head, r)
    /\ rec' = [rec EXCEPT !.head = Rolled(@, r),
                          !.at = IF @ = rec.first THEN @ ELSE @ - 1]
    /\ phase' = IF rec.at = rec.first THEN "forward" ELSE phase
    /\ IF Undoes(rec.head, r)
       THEN /\ mem' = Undone(r, rec.at)
            /\ dirty' = IF mem' = mem THEN dirty ELSE dirty \cup {r.page}
       ELSE UNCHANGED <<mem, dirty>>
    /\ IF Restores(rec.head, r)
       THEN /\ td' = [td EXCEPT ![r.who] = Restored(r, rec.at)]
            /\ locks' = [p \in Pages |-> IF p \in r.locks THEN locks[p] \cup {r.who}
                                         ELSE locks[p]]
       ELSE UNCHANGED <<td, locks>>
    /\ UNCHANGED <<logVars, disk, idVars, ckp, promised, boundVars>>

\* Pass 3, one record.
Forward ==
    LET r == log[rec.at] IN
    /\ phase = "forward"
    /\ failed' = FwdError(rec.head, r)
    /\ rec' = [rec EXCEPT !.head = Redone(@, r), !.at = @ + 1]
    /\ phase' = IF rec.at = Len(log) THEN "done" ELSE phase
    /\ IF Redoes(rec.head, r)
       THEN /\ mem' = [mem EXCEPT ![r.page] = [lsn |-> rec.at, val |-> Append(@.val, r.item)]]
            /\ dirty' = dirty \cup {r.page}
       ELSE UNCHANGED <<mem, dirty>>
    /\ UNCHANGED <<logVars, disk, td, idVars, locks, ckp, promised, boundVars>>

\* __txn_reset, or __txn_recycle_id around what was restored.
NextIds(inuse) ==
    IF inuse = {} THEN <<MinId, MaxId>> ELSE FreeIds(inuse, MinId - 1, MaxId)

\* The end of __db_apprec, with the cache synced: a checkpoint, not flushed,
\* then the ids and the record of them.
Finish ==
    LET inuse == {td[h].id : h \in Active}
        ids == NextIds(inuse)
        recycle == IF inuse # {} THEN <<RecycleRec(ids[1] + 1, ids[2])>>
                   ELSE IF HasTxns(log) \/ ~ HasRecycle(log)
                   THEN <<RecycleRec(MinId, MaxId)>> ELSE <<>>
    IN
    /\ phase = "done" /\ dirty = {}
    /\ phase' = "up" /\ rec' = Idle
    /\ log' = log \o <<CkpRec(OldestActive(Len(log)))>> \o recycle
    /\ lastId' = ids[1] /\ maxId' = ids[2]
    /\ UNCHANGED <<said, flushed, cacheVars, td, born, locks, ckp, failed,
                   promised, boundVars>>

-----------------------------------------------------------------------------
Commit(h) == CommitEnd(h) \/ EndUnlogged(h) \/ ChildCommit(h)
             \/ CommitPut(h)
Abort(h) == AbortStart(h) \/ UndoStep(h) \/ AbortEnd(h)
Txn(h) == \/ \E parent \in Active \cup {NoTxn} : Begin(h, parent)
          \/ \E p \in Pages : Write(h, p)
          \/ Commit(h) \/ Abort(h) \/ Prepare(h)
Checkpoint == CkpStart \/ CkpActive \/ CkpRecord
Recovery == Backward \/ Forward \/ Finish

Step == \/ \E h \in Txns : Txn(h)
        \/ Checkpoint
        \/ \E p \in Pages : Sync(p) \/ Evict(p)
        \/ \E k \in 0 .. Len(log) : Crash(k)
        \/ Recovery

\* The application may do nothing more once what it called has returned; a
\* recovery that cannot go on is a deadlock.
Rest == /\ \/ failed
           \/ /\ phase = "up"
              /\ \A h \in Txns : td[h].status \notin {"committing", "aborting"}
        /\ UNCHANGED vars

Next == (~ failed /\ Step) \/ Rest

Spec == Init /\ [][Next]_vars

-----------------------------------------------------------------------------
(* What the log says of the transactions, and the state of TxnStore that   *)
(* this one stands for.                                                    *)

OutcomeOf(h) ==
    IF h \in ToSet(said.order) THEN "committed"
    ELSE IF h \in said.aborted THEN "ended"
    ELSE IF h > born THEN "unborn"
    ELSE IF h \in said.voted THEN "prepared"
    ELSE IF td[h].status = "none" THEN "ended" ELSE "running"
Outcome == [h \in Txns |-> OutcomeOf(h)]
InProgress == {h \in Txns : OutcomeOf(h) \in {"running", "prepared"}}

Puts ==
    [h \in Txns |-> IF OutcomeOf(h) = "ended" /\ h \notin said.voted
                    THEN Nothing ELSE said.puts[h]]

\* The items on page p of the transactions of set.
ItemsOf(set, p) == UNION {ToSet(said.puts[h][p]) : h \in set}

\* The sequence s without the members of set.
Without(s, set) ==
    LET kept[n \in 0 .. Len(s)] ==
            IF n = 0 THEN <<>>
            ELSE IF s[n] \in set THEN kept[n - 1] ELSE Append(kept[n - 1], s[n])
    IN  kept[Len(s)]

\* The pages without the items of the transactions in progress; while recovery
\* works on them, what they have to become.
ToRecover(p) == FoldLeft(LAMBDA val, h : val \o said.puts[h][p], <<>>, said.order)
StorePages ==
    [p \in Pages |->
        IF phase = "up" THEN Without(mem[p].val, ItemsOf(InProgress, p)) ELSE ToRecover(p)]

Store == INSTANCE TxnStore WITH
    Items <- 1 .. MaxWrites,
    outcome <- Outcome,
    puts <- Puts,
    order <- said.order,
    voted <- said.voted,
    store <- StorePages

\* Whatever the interleaving of transactions, aborts, checkpoints, evictions
\* and crashes, during recovery too, the pages are those of a store in which
\* each transaction takes effect at its commit and not otherwise, a commit with
\* TXN_SYNC that returned is never lost, and a prepared transaction stays one.
\* It is about the whole of __db_apprec: who is found on the transaction list,
\* what is undone and redone, and in which order.
StoreSpec == Store!Spec

-----------------------------------------------------------------------------
(* Properties.                                                             *)

\* Types, with the rule of the log: no page in a file is newer than the log on
\* disk (__memp_pgwrite).
TypeOK ==
    /\ flushed \in 0 .. Len(log)
    /\ \A p \in Pages : /\ mem[p].lsn \in 0 .. Len(log)
                        /\ disk[p].lsn \in 0 .. flushed
    /\ dirty \subseteq Pages
    /\ phase \in {"up", "backward", "forward", "done"}
    /\ locks \in [Pages -> SUBSET Txns]
    /\ lastId \in MinId - 1 .. MaxId /\ maxId \in MinId - 1 .. MaxId
    /\ \A h \in Active : td[h].id \in MinId .. MaxId

\* No abort finds a page that somebody else changed, and no recovery finds a
\* record that contradicts its list or a page that is older than the record's
\* predecessor: CHECK_ABORT, CHECK_LSN and the errors of txn/txn_rec.c.
NoError == ~ failed

\* A transaction that may still abort has a write lock on each page it changed,
\* its own work or that of its children, before a crash and when recovery has
\* restored it (ret_ok: of __txn_prepare_recover, __txn_end's inheritance).
LocksCover ==
    phase = "up" =>
        \A h \in InProgress, p \in Pages : Puts[h][p] # <<>> => h \in locks[p]

\* What recovery from the last checkpoint does not look at needs nothing: of
\* the writes before it, those of committed transactions are in the files, those
\* that were undone are not, and none is of a transaction in progress.  It holds
\* of the newest checkpoint and of the one that is the newest on disk
\* (__txn_checkpoint: __txn_getactive, __memp_sync, then the record).
CkpCovers ==
    phase = "up" =>
        LET covered == FirstLsn(log) - 1
            committed(p) == ItemsOf(ToSet(said.order), p)
            pending(p) == ItemsOf(InProgress, p)
        IN  \A i \in 1 .. covered :
                LET r == log[i]
                IN  r.type = "write" =>
                        /\ r.item \notin pending(r.page)
                        /\ (r.item \in ToSet(disk[r.page].val))
                               = (r.item \in committed(r.page))

=============================================================================
