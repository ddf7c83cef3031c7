# Berkeley DB 12.1: a verification project

TLA+ models of the concurrent core of Berkeley DB (`src/src`), the TLC
configurations that check them on small instances, and TLAPS proofs, for every
instance, of the safety of the lock manager, the deadlock detector, the log manager,
transactions and checkpoints (up to a crash), the buffer pool, elections and leases,
and log application. Paths below are relative to `src/src` unless they start with
`docs/`.

 1. [The system](#1-the-system)
 2. [The modules](#2-the-modules)
 3. [The lock manager](#3-the-lock-manager-lockmgr)
 4. [The deadlock detector](#4-the-deadlock-detector-lockdetect)
 5. [Writing the log](#5-writing-the-log-logmgr)
 6. [Transactions, checkpoints and recovery](#6-transactions-checkpoints-and-recovery-txnrecovery)
 7. [The buffer pool](#7-the-buffer-pool-bufpool)
 8. [Elections and leases](#8-elections-and-leases-repelect)
 9. [Applying the master's log](#9-applying-the-masters-log-repapply)
10. [What is proved](#10-what-is-proved)
11. [Noticed on the way](#11-noticed-on-the-way)
12. [What is not modelled](#12-what-is-not-modelled)
13. [Plan](#13-plan)

## 1. The system

Berkeley DB is a library. Threads of several processes call it concurrently and
share an environment: regions of memory for locks, log, transactions, buffer
pool and mutexes, each under its own mutexes. There is no server. A call runs in
the caller's thread, blocks on mutexes, and changes shared state in critical
sections; between two of them anything another thread does can happen.

A transaction locks pages (two-phase, by page number), changes them in the
buffer pool, writes a log record for every change, and commits by writing and
flushing a commit record; only then are its write locks released. The buffer
pool writes a dirty page only after the log up to the page's LSN is on disk.
Recovery replays the log after a crash. A replication client applies a master's
log records the same way.

| Component | State it keeps | Operations | Talks to | What is hard |
|---|---|---|---|---|
| Shared-memory queues (`dbinc/shqueue.h`) | links as relative offsets | insert, remove, walk | every region | an element on one list only |
| **Lock manager** (`lock/lock.c`, `lock_id.c`, `lock_region.c`) | lock structures, per object a list of holders and of waiters, per locker its locks, counts and the mutex it sleeps on | `lock_get`, `lock_put`, `lock_vec`, downgrade, upgrade, inherit, promote | called by the access methods and the transaction manager; sets `need_dd` for the detector | wake-ups by other threads, promotion of several waiters, upgrades holding two structures, nested lockers, dirty reads, partitions locked one at a time |
| **Deadlock detector** (`lock/lock_deadlock.c`) | `dd_objs`, `need_dd`; a private waits-for matrix | `lock_detect` | walks the lock table, aborts waiters | the lock table changes under the walk; several cycles at once; a victim that is gone |
| Timeouts (`lock/lock_timer.c`) | expiration per locker, `next_timeout` | set, expire | the detector marks expired waits | an expiry racing a grant |
| **Log, writing** (`log/log_put.c`) | buffer, `lsn`, `w_off`, `f_lsn`, `s_lsn`, `t_lsn`, waiting committers, `in_flush` | put, flush, new file, forced abort | the transaction manager (commit), the buffer pool (write-ahead) | group commit, the fsync outside the region lock, failing writes, a crash anywhere |
| Log, reading (`log/log_get.c`, `log/log.c`) | cursors, the end of the log | find the end, truncate, read | recovery, replication | the end of the log after a crash |
| **Transaction manager** (`txn/txn.c`) | active transactions, ids, begin LSNs | begin, commit, prepare, abort, undo | lock, log, pool | nested commit, order of log and lock release, ids that wrap |
| **Checkpoint** (`txn/txn_chkpt.c`) | last checkpoint | checkpoint | pool (sync), log | the checkpoint LSN while transactions begin |
| **Recovery** (`env/env_recover.c`, `txn/txn_rec.c`, `db/db_dispatch.c`, the `*_rec.c`) | transaction list | three passes over the log | log, pool, access methods | a crash during recovery; prepared and nested transactions |
| **Buffer pool** (`mp/`) | hash buckets, buffers with pins and latches, dirty bits, versions | get, put, alloc, write, sync, freeze | log (`__log_flush`), files | pins between bucket and buffer locks; eviction; the write-ahead rule; snapshots |
| Mutexes (`mutex/`) | test-and-set word, share count, waiters | lock, read-lock, unlock, timed wait | everything | a self-block racing its wake-up |
| Access methods (`btree/`, `hash/`, `heap/`, `qam/`) | pages | get, put, delete, split | lock, pool, log | latch coupling, cursor adjustment, record numbers that wrap |
| Handles and interface (`db/`, `dbreg/`, `fileops/`, `blob/`) | handles, file ids | open, close, rename, remove | locks on handles, log | id allocation and revocation |
| Environment (`env/`) | regions, allocator, registered processes | open, failchk, register | everything | which process runs recovery |
| **Replication** (`rep/`) | generation, LSNs waited for, votes, leases | messages, elections, verify, apply | log, transaction manager, lock-out of the API | lost, duplicated and reordered messages; clocks; role changes in mid-call |
| Replication manager (`repmgr/`) | connections, queues, acknowledgements | send, receive, elect | `rep/`, sockets | threads, quorum of acknowledgements |
| Sequences (`sequence/`) | cached range | get | transactions | 64-bit limits, wrap |
| The rest (`os/`, `crypto/`, `hmac/`, `xa/`, utilities) | - | - | - | no protocol of its own |

What makes each component correct, in one line: *locks*: granted locks are
compatible, nobody waits for nothing, no wake-up is lost; *detector*: every
deadlock is broken and only deadlocked transactions are aborted; *log*: what was
reported durable is found by every recovery, what was reported failed is not,
committers are answered; *transactions*: all or nothing, across crashes, and an
id names one transaction at a time; *checkpoint and recovery*: redo and undo from
the last checkpoint give the committed state, however often they are
interrupted; *buffer pool*: no page reaches disk before its log record, a pinned
page stays, a snapshot sees the commits before it; *mutexes*: exclusion and no
lost wake-up; *replication*: one master per generation, clients hold a prefix of
the master's log, a lease is valid only while a quorum grants it.

`PROJECT.json` lists the components with their status, and the hazards of the
code at their lines with the properties that cover them.

## 2. The modules

| Module | Models | EXTENDS |
|---|---|---|
| `ShQueue` | the lists of `dbinc/shqueue.h` as functions from members to positions | |
| `LockModes` | `db_riw_conflicts`, `db_cdb_conflicts`, read and write modes | |
| `LockMgr` | the lock manager | `ShQueue`, `LockModes` |
| `MCLockMgr` | its instances for TLC | `LockMgr` |
| `LockDetect` | the deadlock detector beside running transactions | `ShQueue` |
| `MCLockDetect` | its instances for TLC: what the transactions lock | `LockDetect` |
| `LogMgr` | writing the log, crashes and the end of the log found afterwards | `ShQueue` |
| `MCLogMgr` | its instances for TLC | `LogMgr` |
| `TxnStore` | what transactions promise, without a log | |
| `IdSpace` | `__db_idspace`: the ids that are free after recovery | |
| `TxnRecovery` | transactions, checkpoints, crashes and recovery; implements `TxnStore` | `IdSpace` |
| `MCTxnRecovery` | its instances for TLC | `TxnRecovery` |
| `PageStore` | what the buffer pool promises to threads, without a cache | |
| `BufPool` | pins, latches, eviction, page writes and syncs; implements `PageStore` | |
| `MCBufPool` | its instances for TLC | `BufPool` |
| `RepElect` | elections and master leases of a replication group | |
| `MCRepElect` | its instance for TLC | `RepElect` |
| `RepLog` | what log replication promises, without messages | |
| `RepApply` | a client that applies a master's log; implements `RepLog` | |
| `MCRepApply` | its instances for TLC | `RepApply` |
| `OrderFacts` | theorems about the least and the greatest of a set of numbers, and about the list operations | `ShQueue`, `TLAPS` |
| `LockMgr_proof` | theorems about `LockMgr` | `LockMgr`, `OrderFacts` |
| `LockDetect_proof` | theorems about `LockDetect` | `LockDetect`, `OrderFacts` |
| `LogMgr_proof` | theorems about `LogMgr` | `LogMgr`, `OrderFacts` |
| `TxnRecovery_proof` | theorems about `TxnRecovery`, and that it implements `TxnStore`, up to the first crash | `TxnRecovery`, `OrderFacts` |
| `BufPool_proof` | theorems about `BufPool`, and that it implements `PageStore` | `BufPool`, `TLAPS` |
| `RepElect_proof` | theorems about `RepElect` | `RepElect`, `TLAPS` |
| `RepApply_proof` | theorems about `RepApply`, and that it implements `RepLog` | `RepApply`, `OrderFacts` |

An action is one critical section: what a thread does between two points where
another thread may come in. A definition that a comment calls a mutant is a
plausible wrong version of the definition after it; put in its place it makes
one property of a run fail, which shows that the property depends on the code.
No other definition uses it.

Three modules are shown to implement an abstract one, with a refinement mapping
written in the detailed module and the abstract specification checked as a
property: `TxnRecovery` implements `TxnStore` (`StoreSpec`), `BufPool` implements
`PageStore` (`PageStoreSpec`), `RepApply` implements `RepLog` (`LogSpec`). The last
two are theorems too.

The modules meet where the components do. `LockDetect` refines the choice that
`LockMgr` leaves open. `BufPool` and `TxnRecovery` keep of the log that it has a
flushed part and that `__log_flush` extends it, which `LogMgr` establishes
(`Durable`). `TxnRecovery` takes a page write and the cache sync of a checkpoint
as steps with the effect that `BufPool` shows (`WriteAhead`, `CheckpointDurable`,
`PageStoreSpec`), and write locks held to the end as `LockMgr` grants them
(`Compatible`). `RepApply` puts records into a log as `__log_rep_put` does;
`RepElect` keeps of a site's log what a vote says of it.

`TypeOK` says what a module's variables hold. It is an invariant of a run for
`LockMgr`, `LogMgr` and `BufPool`, and a theorem for those and `LockDetect`; in
`TxnRecovery` it holds too and is kept as documentation. The two replication modules
say it in their comments.

Runs use two workers and take from seconds to four minutes each.
`CHECK_DEADLOCK FALSE` is set where the model really stops: a bounded log fills
up (`LogMgr`), the transactions of `LockDetect` end, the egens and faults of the
replication modules run out. In `LockMgr` and `BufPool` threads begin again, and
`TxnRecovery` may rest only when no call is unfinished, so there TLC does check
that nothing gets stuck.

## 3. The lock manager: `LockMgr`

**State.** `status`, `mode`, `holder`, `obj`, `refcount` are the fields of
`struct __db_lock`; `holders`, `waiters` the lists of `DB_LOCKOBJ`; `ddObjs`,
`needDD` those of `DB_LOCKREGION`; `heldby`, `nlocks`, `nwrites`, `dirty`,
`inabort`, `mtx` those of `struct __db_locker`. `thr` and `req` are the thread
that uses a locker: where it is, and the local variables of the
`__lock_get_internal` it sleeps in (the lock it waits on, the lock it upgrades).

**Granularity.** The lock table is taken to be partitioned: a section covers one
object, and `__lock_vec` lets others in between two locks of its walk. With one
partition the sections are larger; every behaviour of that build is one of these.

**Actions.**

| Action | Code |
|---|---|
| `GetAgain`, `GetGranted`, `GetWaits` | `__lock_get_internal` up to its return or its sleep: a second reference, a grant, a place HEAD, SECOND or TAIL in the queue (`QueueAction`) |
| `Upgrade`, `UpgradeNow`, `UpgradeWaits` | the same with DB_LOCK_UPGRADE (CDB write cursors; `UpgradeWrite` below) |
| `WakeGranted`, `WakeUpgraded`, `WakeAborted`, `WakeExpired` | the rest of `__lock_get_internal`, after the mutex was unlocked |
| `Put`, `PutReference`, `Downgrade` | `__lock_put`, `__lock_downgrade` |
| `Promote` (part of most actions) | `__lock_promote` |
| `Begin`, `End` | `__lock_getlocker_int`, `__lock_freelocker` |
| `Commit`, `Abort`, `ReleaseRead`, `ReadReleased`, `UpgradeWrite`, `WritesUpgraded`, `Undone`, `ReleaseNext`, `InheritNext` | the `__lock_vec` operations `__txn_commit` and `__txn_abort` make, lock by lock: PUT_READ, UPGRADE_WRITE, PUT_ALL, INHERIT |
| `DdStart`, `DdAbort`, `DdExpire` | the detector as a locker sees it: any waiter may be chosen (section 4 says which) |

A free structure is taken by number, which only names it. Threads of one locker
are taken to be one thread, as `__lock_vec` requires (lock.c, "any threads
sharing this locker must not be in the API at the same time").

**Properties.** `TypeOK`. `Compatible`: granted locks of unrelated lockers never
conflict. `WakeupExact`: a mutex is unlocked exactly while its locker sleeps in
an answered request. `ListsExact`: every structure in use is on its locker's list
and on the one list of its object its status calls for. `SleepersExact`: what a
sleeper's request refers to is still there, also the lock it upgrades.
`CountsExact`: `nlocks` and `nwrites` are what is held. `DdObjsExact`: the
detector's list is that of the objects with waiters. `NoStrandedWaiter`: the
first waiter is kept out by somebody. `NoOvertaking` (action property): nobody is
granted past a conflicting waiter unless it was ahead in the queue, already has a
lock on the object, or reads dirty.

**Runs.**

| Run | Instance | Shows |
|---|---|---|
| `LockMgr_flat` | 3 unrelated lockers that may expire, 1 object, 4 structures, R and W, 2 references | `TypeOK Compatible WakeupExact NoStrandedWaiter NoOvertaking` |
| `LockMgr_nested` | parent and two children, 1 object, 3 structures, R, W, WW (was-write), DR (dirty read) | `ListsExact CountsExact` through downgrades, inheritance and the upgrade before an undo |
| `LockMgr_cdb` | a family with a cursor, and a stranger that may expire; CDB modes with IW to W upgrades | `SleepersExact DdObjsExact` |

*Bounds.* Objects interact only through the lists of a locker, its one request
and the detector's list, so one object shows every queue; three lockers are a
holder, a waiter and one that comes between them. `MaxHeld` (locks asked for per
locker), `MaxRef` (references) and the number of structures bound the lists: two
locks let a locker hold and upgrade. A request that finds no free structure is
not made (the code would steal one from another partition or fail). The lockers
of `flat` and the two children of `nested` are interchangeable, so symmetry is
used there; those runs check no liveness. `LockMgr` states none: the mutexes
grant in any order, and a locker that keeps its lock stops the others rightly.

## 4. The deadlock detector: `LockDetect`

`LockMgr` lets the detector abort any waiter; this module models how it
chooses. Lockers are numbered by their row of the matrix. Each runs one
transaction: a sequence of read and write locks, a commit at any point, or an
abort when it is chosen.

**State.** The lock table as the detector reads it (`held`, `holders`, `queue`, `want`,
`last`, `ddObjs`; the holders, the queues and `ddObjs` are lists of `ShQueue`), `needDD`,
and the detector's own: `at` (the object it has come to), `stale` (its generation changed meanwhile),
`matrix`, `selfWait`, `victims`.

**Actions.** `Get`, `Sleep`, `Wake`, `Commit`, `Release` (one lock of PUT_ALL,
with the `need_dd` it sets when nobody could be let in), `End`. `Sleep` puts an object
that gets its first waiter at the head of `dd_objs`, so that a walk under way has it
behind it and only `need_dd` brings the detector there. A locker that has a lock on the
object waits at the head of the queue if the scan of the holders came to its lock; the
scan ends at the first one in conflict (`IHold`), so an upgrader whose lock lies behind
that one waits at the tail. That is why the order of the holders is kept. `Start` is the
check of `need_dd` in `__lock_detect`; `Scan` one object of the walk in
`__dd_build`, with other threads free to lock and unlock between two objects;
`Choose` the end of `__dd_build`, `__dd_find` (`Find`: `FindRow` for every row,
`Closure` of a row, `OrRow` of one more bit of it), `__dd_verify` (`Verify`) and the
choice among the participants (`Best`, `Better`, `Victim`); `Kill` is `__dd_abort` for
one victim, in the order of the rows they come from, which checks again that it
waits where it did; `Finish` frees the matrix. `Find`, `Closure` and `Best` are
recursive functions over the passes of the code's loops, in their order: what is
found depends on it.

**Reference definition.** `Deadlocked` says what a deadlock is without the
matrix: the largest set of waiters of whom each is kept out by a conflicting lock
of another of them or queued behind one of them. The matrix of the code has an
edge to every holder, conflicting or not, and none to the waiters ahead; that the
two agree where they have to is part of what the runs show.

**Properties.** `DdObjsExact`: the walk never stands on an object that has left
`dd_objs` without knowing. `VictimsDeadlocked`: under the default policy nobody
is chosen who is not deadlocked, although the matrix is put together while others
run (the transactions release nothing before they end). `DeadlockFound`: a
deadlock is found or `need_dd` is set again. `ExclusiveBroken`: with exclusive
locks, when the detector has nothing more to do nobody is deadlocked.

**Run.** `LockDetect_detect`: four transactions, up to four objects, five
settings: a pair that deadlocks and one behind it; two pairs with priorities; a
ring of three and one behind it under a policy other than the default; readers
that turn writers (rows with their own bit, `self_wait`); a reader queued behind
a writer. Four lockers are the fewest with two disjoint deadlocks. The run has 1.3
million states and is 40 steps deep.

*Abstractions.* OLDEST, YOUNGEST, MAX/MINLOCKS and MAX/MINWRITE compare a number
per locker: `merit`. RANDOM is the default in the code. No families (a child's
waits count in its master's row) and no dirty reads (so no locker has
DB_LOCKER_INABORT set), no timeouts, one detector at a time. What a locker has on an
object is one entry: its read and its write lock of the object are released in one
step (in the code two of PUT_ALL's), and no lock is asked for twice, which would only
be counted.

## 5. Writing the log: `LogMgr`

**State.** `lsn`, `bOff`, `wOff`, `fLsn`, `sLsn`, `tLsn`, `inFlush`, `commits` are
the fields of `struct __log`; `commits` is a list as in `ShQueue`, in the order the
committers joined; `region`, `mtxFlush` are the holders of its two mutexes, `woken`
and `designated` the committers' own. `job` is a thread's call: its kind, its
record, why it flushes and how far (`Call`, `NoJob` between calls). `mem` is what
the log manager means each record to be, `os` what the file system has, `disk` the
set of contents a crash of the system may leave, `syncing` what a running fsync will
harden. `promised` and `wrote` are the records whose calls returned success after a
flush and success after a write.

Records have one length, smaller than the buffer and not a divisor of it, so
records straddle two buffers; the file's header record is a record like any
other. An LSN is file and offset.

**Actions.** `Enter`, `NewFile`, `PutRecord`, `PutFails`, `WriteOut` are
`__log_put`, `__log_newfile`, `__log_putr` and `__log_fill`. `ApiFlush`,
`TakeRegion`, `EnterFlushed`, `Join`, `Lead`, `Wake`, `FlushSkipped`,
`FlushStart`, `Sync`, `StoreOffset`, `FlushDone` are `__log_flush_int`: a thread
joins a flush in progress or leads one, the fsync runs with the region lock
released, and whoever is done wakes those it served and designates the next
leader. `FailureIgnored`, `AbortInBuffer`, `AbortInFile`, `AbortPanics` are the
rest of `__log_flush_commit` after a failed flush: the commit record is turned
into an abort where it lies. `WriteOutFails`, `FlushWriteFails`, `SyncFails` are
the failures. `AppCrash` and `SystemCrash` lose the region and, the latter, what
was not synced; `Restart` is `__log_recover` and the truncation of recovery.

**Assumptions about the file system.** A failed write may have written any of
the completed records; a failed fsync hardens nothing for certain; a later
successful fsync hardens everything written before it began; a record is torn
only at buffer boundaries.

**Fairness.** `FairSpec` has weak fairness of `Step(t)`: a thread that is inside
a call goes on, an fsync ends, a free mutex is taken by one of those that wait
for it and, with finitely many calls, by each of them. Entering a call is not
fair. Crashes are not part of the runs that check liveness.

**Properties.** `Durable`: what was reported flushed is found by every recovery.
`WrittenSurvives`: what DB_TXN_WRITE_NOSYNC reported survives the crash of an
application. `SyncedExact`: every record before `s_lsn` is on disk as the log
manager means it. `FilesComplete`: a file is on disk before the next is begun.
`InFlushExact`: `in_flush` counts the flushes running or promised.
`WaitersCovered`: a listed committer has a flush coming that goes far enough.
`SyncForward`: `s_lsn`, read without a lock, only moves forward.
`CommittersAnswered` (liveness): a waiting committer is answered.

**Runs.**

| Run | Instance | Shows |
|---|---|---|
| `LogMgr_group` | 3 threads, synchronous commits and write-only commits, 2 files, 1 failure | `WaitersCovered SyncedExact FilesComplete InFlushExact SyncForward CommittersAnswered` |
| `LogMgr_crash` | 2 threads, all kinds of puts and flushes for the pool, 1 file, 2 crashes, `s_lsn` stored in halves | `TypeOK Durable WrittenSurvives` |

*Bounds.* A file holds four records (one of them its header) and the buffer one and
a half or two and a half, so that a buffer is written in mid-record, a flush finds
it empty, partly full or past the record it needs, and two files show one switch.
Three threads are a leader, a committer it serves and one it has to hand on to. One
failure fails the flush of a group or of a new file and sends a committer into the
forced abort; with two, `SyncedExact` fails (section 11). Two crashes fall on what
the recovery from the first left. `Durable` is checked without failures, since with
them it does not hold (section 11), and not over a file switch with split stores:
read between the two stores, `s_lsn` is the new file with the old offset, and a
commit that compares itself with it (log_put.c:962, 1024) takes itself for flushed.
A compiler that stores a DB_LSN in one instruction rules that out; the code does not
ask for it.

## 6. Transactions, checkpoints and recovery: `TxnRecovery`

**State.** `log` is a sequence of records and an LSN an index into it; `flushed`
is how much of it a crash leaves for certain. `mem` and `disk` are the pages in
the cache and in the files, each with its LSN and the sequence of items put on
it, `dirty` the buffers to write. `td` holds the `TXN_DETAIL`s (status, id,
`begin_lsn`, `last_lsn`, and the position and stack of an abort), `lastId` and
`maxId` are `last_txnid` and `cur_maxid`, `locks` the write locks, `ckp` the
checkpoint in progress. `phase` and `rec` are the pass of recovery, its log
cursor and its `DB_TXNHEAD`: the list of ids with their status and generation,
and the ranges of the generations. `said` is what the log says of the
transactions and `promised` the commits that returned with `TXN_SYNC`.

A transaction is a number no later one has; the id it logs is another thing and
is used again after a recovery, which is why the list has generations.

**Actions.**

| Action | Code |
|---|---|
| `Begin`, `Write` | `__txn_begin_int`; an access method that logs and changes a page under its latch |
| `CommitPut`, `CommitEnd`, `EndUnlogged`, `ChildCommit` | `__txn_commit`: the record, then the flush and `__txn_end`; nothing logged; a child, whose locks go to its parent |
| `Prepare` | `__txn_prepare` |
| `AbortStart`, `UndoStep`, `AbortEnd` | `__txn_abort` and `__txn_undo`, record by record, into the chains of committed children (`__txn_dispatch_undo`) |
| `CkpStart`, `CkpActive`, `Sync`, `CkpRecord`, `Evict` | `__txn_checkpoint` and `__txn_getactive`, `__memp_sync_int` page by page, the record; a page written by a thread that needs its buffer |
| `Crash` | any loss of the log behind `flushed`, the start of `__db_apprec`: the LSN to begin from and the pass `__env_openfiles` |
| `Backward`, `Forward` | one record of the second and third pass: `__db_dispatch`, `__db_txnlist_*`, `__txn_regop_recover`, `__txn_child_recover`, `__txn_prepare_recover`, `__txn_recycle_recover` |
| `Finish` | the final checkpoint, `__txn_reset` or `__txn_recycle_id` |

A crash may come between any two records of either pass. Pages written by then
stay written.

**Properties.** `StoreSpec`: the whole is a `TxnStore`: a transaction takes effect
at once when its commit record is put and not otherwise, a crash keeps a
beginning of the commits that has every promised one, and a prepared transaction
stays prepared. The mapping reads the pages without the items of transactions in
progress; while recovery runs it maps to what the pages have to become, so that
the step out of recovery is where they must be right. `NoError`: no abort or pass
meets a page or a record that contradicts what it expects. `LocksCover`: a
transaction that may still abort has a lock on every page it or its children
changed, after a restore too. `CkpCovers`: what recovery will not look at needs
nothing.

**Run.** `TxnRecovery_nested`: three transactions, two writes on two pages, a
child, a prepared transaction, one checkpoint of the application or one eviction,
two crashes. *Bounds.* Two writes on one page or two give every order of undo and
redo of one transaction against another; a third transaction makes an id be used
by two transactions; the second crash falls into the recovery from the first or
into what was done after it. The state constraint `Bounds`, for size, keeps one
prepared transaction, a checkpoint and an eviction apart, and neither of them with
two crashes where a transaction is prepared.

*Abstractions.* One record per write, no allocation of pages, and access methods
by the rule their recovery functions share: a page is redone when it has the
predecessor's LSN and undone when it has the record's. One flush per commit (its
concurrency is `LogMgr`). Ids do not run out in a running environment. The
checkpoint at the end of recovery is always logged. `EmptyPrepares` and
`LoneRecords` are FALSE in the run: section 11 says what they exclude.

## 7. The buffer pool: `BufPool`

**State.** `buf` are the buffer headers: page, content, pin count, BH_DIRTY,
BH_EXCLUSIVE, BH_TRASH, and who has the latch alone or shared. `hashDirty` is the
bucket's `hash_page_dirty`, `fileWritten` the file's `file_written`. `th` is where
a thread is in `__memp_fget`, with `bhp` and `alloc_bhp`; `open` who has a handle;
`sy` the syncers with their list, their handle opened to flush and their
reference to the file. `os` is what was written, `stable` what an fsync has
hardened, `lsn` and `logged` the end of the log and of its part on disk. `slip` is no
state of the code: it notes that an I/O error went by unnoticed, in one of the two ways
section 11 describes. The content of a page is the LSN of its last change.

All pages hash to one bucket, so the actions are the critical sections of its
mutex and of the buffer latches between them.

**Actions.** `Get`, `Retry`, `Instantiate`, `Latch`, `ReadLatch`, `Fill`,
`FillFails`, `Relatch` are `__memp_fget`: the search, the pin, the swap of the
bucket's mutex for the buffer's, the second search after an allocation, the read.
`AllocFree`, `Choose`, `TryLatch`, `Evict`, `Evicted`, `Reuse`, `AllocFails` are
`__memp_alloc` with `__memp_bhwrite`, `__memp_pgwrite` and `__memp_bhfree`.
`Update`, `Dirty`, `Upgrade`, `Downgrade`, `Put`, `Release` are what a thread does
with a page (`__memp_dirty`, `__memp_shared`, `__memp_fput`); `Open` and `Close`
its handle. `FlushPage` is one page of `__memp_fsync`, which `DB->sync` and a close
call; `Close` gives the handle back whatever became of the flush, as `__db_close` does
(`FlushedAtClose`): with all of the file on disk if it is the last and nothing failed. `SyncStart` to `SyncDone` are `__memp_sync_int` for a checkpoint:
tracking, pinning, writing beside other writers of the same buffer,
`__memp_sync_file` and `__memp_close_flush_files`. Reads (`FillFails`), writes
(`Evict`, `SyncWrite`), flushes at a close and fsyncs (`Fsync`) may fail, as `IOErrors`
says; `SyncFileEnd` clears `file_written` after an fsync that failed, too.

**Properties.** `OneBuffer`: a page has one buffer, although the bucket is
unlocked between a miss and the insertion. `NoTrashWritten`: nobody goes to write
a buffer that holds no page. `DirtyExact`: the dirty count is exact however many
write a buffer at once, so that no sync skips a bucket. `WriteAhead`: the file is
never ahead of the log. `CheckpointDurable`: a sync that reports success has put
on disk every change that was in the cache when it began, whoever wrote it, failures
and closed handles or not, as long as `slip` is not set. `PageStoreSpec`: the cache is
a store where a page has one content, readers exclude writers, and what a thread holds stays there.

**Runs.** `BufPool_cache`: two threads, two pages, two buffers, one change, one
sync, read and write errors: eviction of the page another thread is about to
get, and of one that is being read; 1.4 million states. `BufPool_checkpoint`: two
syncers and two threads on one page, two changes, handles closed and opened again, and
every kind of failure: what clears `file_written` while another is about to write; 4.8
million states, 59 steps deep. Two buffers are the fewest that let two threads allocate
for one page.

*Abstractions.* Syncers are processes without a handle of their own, which is
where the counting of references matters. Handles are closed without DB_NOSYNC in the
runs (`NoSyncClose` FALSE, section 11). The flush of a handle writes a page and marks
it clean in one step; a checkpoint's sync has the two apart. The file has page-in and page-out functions
(`ftype` not 0), which makes a written buffer trash until it is read in again.

## 8. Elections and leases: `RepElect`

**State.** `rep` is each site's `REP` region: role, `gen`, `egen`, `spent_egen`,
phase of the election, the VOTE1 and VOTE2 tallies, the winner so far, the
threads that have still to come back and vote (`casting`), the master. `disk` is the generation and egen files. `data` is what a vote says of
the site's log: the generation of its data and its last LSN. `msgs` only grows:
a message never received is lost, one received twice is duplicated, and they
come in any order. `grants` are the sites whose last lease grant has not
expired, `lease` the valid entries of each site's lease table.

**Actions.** `Elect`, `CastVote`, `CastLate`, `GiveUp`, `IWon` are the election thread
(`__rep_elect_int`, `__rep_wait`, `__rep_elect_master`). A thread that has every other
VOTE1 when it sends its own gives up the region for the sending and then votes without
looking at the egen again: `Elect` votes at once, or leaves the vote to `CastLate`, by
when the site may be at another egen, in its phase 1 or out of any election, which the
late thread puts into phase 2. `Vote1`, `Vote2`,
`Alive`, `NewMaster`, `StepDown` are the messages (`__rep_vote1`, `__rep_vote2`,
REP_ALIVE, `__rep_new_master`, the duplicate master of `__rep_process_message_int`);
`Claim` and `ClaimRefused` the claim of a victory and `rep_start` (refused, it has
already put its new generation into the file); `Sync`
the synchronisation with a master and `Grant` the lease grant a client sends
after a permanent record; `GrantExpires` is time. `Crash` loses the region,
`Restart` creates it from the files.

**Properties.** `OneWinner`: an egen has one winner, over crashes too, because
the egen file is ahead of the vote, and over late threads too, because they vote for
the egen they began with. `ElectedIsBest`: a majority voted in the
winner's egen with logs that are not ahead of the winner's: what a majority has
is not lost. `LeaseExclusive`: no two masters hold valid leases at once, so that
a read that checks its leases is never answered by a master that was replaced.

**Run.** `RepElect_elect`: three sites, one election in the past (a former master
with records nobody else has), up to three VOTE1s in egens up to 4, and one crash or
one thread overtaken between its VOTE1 and its vote (`MaxFaults`); 2.2 million states,
40 steps deep.
Three sites are the smallest group with a majority that leaves one out, and an
odd number, which `LeaseExclusive` needs (section 11); three
votes are two candidates in one egen and one in the next, or one that votes again
after its crash.

*Abstractions.* The group has one size and all sites are electable. The
tiebreaker is the site's number instead of a random one. An egen of a site has one
election thread. A late thread sees whether it has won, which it asks without the region's
mutex (rep_elect.c:553), in the step in which it votes. The run is too short for a
late thread on a site that has become master; the theorems cover it, and any number
of late threads and crashes together. A grant reaches the master at once or never. The
lease at the master ends no later than the grant, which is what the skew
arithmetic of rep_lease.c is for and what it assumes of the clocks. A restarted
site waits a full lease before it takes part, so its grant is kept. `Sync` is one
step, and a master's answers to repeated requests are one NEWMASTER that stays
available.

## 9. Applying the master's log: `RepApply`

**State.** The master's log is `Kind`, of which it has `written` a part; items are
commits, checkpoints, other records and switches of log files. `net` are the
messages under way. `log` and `flushed` are the client's, `ready`, `waiting`,
`maxWait`, `maxPerm` its `ready_lsn`, `waiting_lsn`, `max_wait_lsn`,
`max_perm_lsn`, `temp` the temporary database of records that came early,
`newfile`, `lockout`, `skipped` the flags REP_F_NEWFILE, REP_LOCKOUT_APPLY and
REP_F_SKIPPED_APPLY, `clientdb` the owner of `mtx_clientdb`, `pc` and `job` the
threads. `acked` is the last LSN returned with DB_REP_ISPERM.

**Actions.** `Write`, `Serve` (`__rep_logreq`, `__rep_allreq`, throttled or not) and
`Lose` are the master and the network. `Receive` is `__rep_apply` up to the
record's use: a duplicate, a record dropped during an election, the next one, an
early one. `ProcessRecord`, `ProcessNewfile`/`Switched`, `ProcessCkp`/`Synced` are
`__rep_process_rec`, the last two with the mutex dropped in between;
`TakeQueued` and `Finish` the loop of `__rep_apply` over the queue and its end;
`More` the request after a REP_LOG_MORE; `CheckMissing`/`Resend` what a heartbeat
starts (`__rep_check_missing`); `Vote`, `ElectionFails` an election the client
takes part in. `Crash` loses what was not flushed and finds the last permanent
record again.

**Properties.** `LogSpec`: the client implements `RepLog`: its log grows by the
master's next item only, keeps over a crash what was called permanent, and what
is called permanent is on disk and never steps back. `WaitingExact`:
`waiting_lsn` is the first record of the queue whenever nobody works on it with
the mutex dropped. `SyncFirst`: one thread syncs a checkpoint, and what
`__rep_remfirst` will remove is that checkpoint. `CaughtUp` (liveness): the client
reaches the master's last permanent record.

**Fairness** (`FairSpec`, `CaughtUp` only). A thread at work goes on, also when
others take the mutex again and again (strong fairness: the mutex is handed
around); heartbeats go on; the record the client needs, when it is sent over and
over, is once received; the master serves; an election ends.

**Runs.** `RepApply_faults`: two threads, five items (commit, checkpoint, switch,
other, commit), one message lost or repeated, one election, one crash.
`RepApply_catchup`: two threads, four items, a throttling master, one fault, under
fairness. Two threads are what the dropped mutex is about; a checkpoint right
before a switch makes a thread come in while each is under way; one request at a
time is enough, since another one finds the first unanswered, and a request above
that bound is lost.

*Abstractions.* The verification of a log against a new master's is one step
inside `Crash` and begins from an existing permanent record. The client flushes
at each commit. Requests go to the master.

## 10. What is proved

TLC checks an instance; the theorems hold for every value of the constants that
the named assumptions of the modules allow: any number of lockers, threads,
sites, buffers, files, any bound on calls, crashes and faults. TLC evaluates the
assumptions in the runs. Each proof has an inductive invariant, in some modules a
second one on top of it, a lemma per action that it is kept, and a theorem per
property that follows from it.

### Lock manager: `LockMgr_proof`

| Theorem | Property |
|---|---|
| `TypeCorrect` | `TypeOK` |
| `GrantsCompatible` | `Compatible` |
| `WakeupsExact` | `WakeupExact` |
| `NoLockLost` | `ListsExact` |
| `SleepersConsistent` | `SleepersExact` |
| `DetectorSeesWaiters` | `DdObjsExact` |
| `NobodyStranded` | `NoStrandedWaiter` |
| `CountsCorrect` | `CountsExact` |
| `NobodyOvertaken` | `NoOvertaking` (action property) |

`IInv` is the conjunction of the first six properties with `HeirOf` (only a locker
with a parent hands its locks on). None is inductive alone. A promotion keeps
grants compatible only because the queue holds waiting locks and the holders
list granted ones (`ListsExact`); a wake-up may free the lock that waited only
because the sleeper's request still names it (`SleepersExact`), which needs that
nobody else moved it off its lists; and handing a child's lock to its parent
keeps `Compatible` because whoever is unrelated to the parent is unrelated to
the child (`Heirs`). Most operations change some locks and then promote on one
object, so the conjuncts are stated for any arrays (`ListsOf`, `CompatibleOf`,
...), and `PromotePreserves` shows once that a promotion keeps them from the
intermediate state on.

`QInv` adds to `IInv` what the order of the queue and the counters rest on. `Queued`:
a queue of n waiters has one in each of the places 1 to n (`IsQueue`; the list
lemmas say that a removal keeps the order and an insertion shifts it), and the first
one, if it waits, conflicts with a lock granted to another family. What blocks a
waiter may change without a promotion: a granted upgrade puts the stronger mode in
place of the weaker and frees the lock that waited, so `Upgrading` says that the
weaker one conflicts with no more; and a first request may only join at the head of
a non-empty queue when it is blocked itself, which is the code's
`HEAD`/`SECOND`/`TAIL` choice. A lock handed to a parent changes the family a waiter
is compared with, hence `Families` (the parent of a transaction that has not ended
is idle, so it is not among the waiters). `Counted` states the counters by the status and
the holder of every lock instead of by the lists; `OneChange` computes the
cardinality after a step that changes one lock. `InOrder`, the body of
`NoOvertaking`, is proved of each step along with the invariant: only a granted
request and a promotion grant anything, the first only past no conflicting waiter
unless the family or the dirty read of the exception lets it, and the second takes
a waiter only along with every one that waits before it.

*Assumptions*: `IdAssumption` (structures are finitely many numbers, the null
values are none of them), `ModeAssumption` (conflicts are symmetric among the
modes that are held, as in both arrays of the code), `DowngradeAssumption` (a
downgrade gains no conflict: WRITE to WWRITE or IWRITE, WRITE handle locks to
READ), `UpgradeAssumption` (an upgrade loses none: IWRITE or WWRITE to WRITE),
`WriteAssumption` (the stronger mode of either counts as a write if the weaker one
does), `FamilyAssumption` (`Ancestors` is the chain of `Parent`),
`BoundAssumption`.

### Deadlock detector: `LockDetect_proof`

| Theorem | Property |
|---|---|
| `TypeCorrect` | `TypeOK` |
| `ListOfWaitedFor` | `DdObjsExact` |
| `OnlyDeadlocked` | `VictimsDeadlocked` (action property) |
| `FindsDeadlock` | `DeadlockFound` (action property) |
| `DeadlocksBroken` | `ExclusiveBroken` |

*The search.* A recursive function over `0 .. N` has the values its passes give it
(`Loop`, from the least pass at which it would not), so `Closure`, `Find` and `Best`
can be reasoned about pass by pass (`Runs`). The search is sound: a row that is
found has only lockers its owner can reach along the edges of the matrix, and the
owner lies on a cycle, so these lockers form a `Knot`, a set in which each waits for
one of the set (`ClosureSound`, `FindSound`). It is complete: if every locker of a
set has an edge into the set, some found row meets the set (`FindComplete`), although
a row is closed in one pass over the others only and rows inside an earlier deadlock
are skipped; what the pass misses is made up for by the rows closed before it
(`ClosureOnward`).

*The matrix.* It is read while others run, so an edge may be old. `LocksOK`: the locks
granted on an object are compatible, one who waits with a lock reads and wants to
write, and the first waiter is kept out by a lock. It does not say where an upgrader
stands in the queue, which may be behind others (section 4).
`Edges`: an edge to a locker that is not about to release everything
is still backed by its lock, because transactions release nothing before they end; and
those who are ending never form a cycle among themselves (`Ended`). So a knot consists of
waiters who are really stuck (`KnotStuck`), which is `OnlyDeadlocked`. For
`FindsDeadlock` and `DeadlocksBroken` the other direction is needed: while neither
`need_dd` nor `stale` is set, the rows have all the edges from waiters of the objects
the walk has behind it (`RowsOK`; an object that gets its first waiter meanwhile is
among them, and `need_dd` is set then), so that each deadlocked locker has an edge to another
one (`StuckEdge`). With exclusive locks a locker has one edge at most (`OneEdge`), so
distinct deadlocks are found in distinct rows and each that is left has a victim
pending (`Pursued`).

*Assumptions*: `RowAssumption` (at least one row, finitely many objects),
`SettingAssumption` (the shape of what the transactions lock).

### Log manager: `LogMgr_proof`

| Theorem | Property | Under |
|---|---|---|
| `TypeCorrect` | `TypeOK` | |
| `FlushesCounted` | `InFlushExact` | |
| `NobodyForgotten` | `WaitersCovered` | |
| `SyncPointForward` | `SyncForward` | `WholeStores` |
| `SyncPointExact` | `SyncedExact` | `Undisturbed` |
| `OldFilesHard` | `FilesComplete` | `Undisturbed` |
| `SyncPointExactOnce` | `SyncedExact` | `OneFailure` |
| `OldFilesHardOnce` | `FilesComplete` | `OneFailure` |
| `PromisesKept` | `Durable` | `Undisturbed` |
| `WritesKept` | `WrittenSurvives` | `Undisturbed` |

There are three invariants. `Inv` (theorem `Invariant`) needs no more than the
assumptions of the module: failing writes and fsyncs, forced aborts, panics and
crashes are all in it. `Control` says who holds the region and the flush mutex at
each place of the code, that exactly the listed committers wait, that a leader has
been designated whenever some are left, and that `in_flush` counts the flushes
running and promised; that count is why `commits` is handled as a list whose length
falls by those served (`OrderFacts`). `Layout` relates the five positions in the
log: `w_off` and `b_off` add up to `lsn`, the record at `f_lsn` is the first with an
end in a buffer that is not empty, `t_lsn` is a record of the log, and a flush under
way has noted a position that is not behind `s_lsn`. `Records` is the types of the
contents.

`Content /\ Synced` (theorem `DataInvariant`) is about the disk. What a thread may
say of it depends on where it is (`SureOK`): in the fsync, each record before the
mark is already hard or will be hardened by this fsync; after it, all before
the mark is hard; when it wakes those it served, all they asked for. The step that
matters is the start of an fsync: the write before it must have reached the mark,
which needs `Layout`, and no other thread may take written records back while the
fsync runs.

`Steady` (theorem `FailureInvariant`) is about a write or an fsync that fails once. The
commit it was for is then overwritten with an abort, in the buffer or in the file, so
what has to hold is that no fsync in progress, and no later value of `s_lsn`, covers
that record while the disk and the buffer differ on it. `OnDisk` and `Reached` say what
is exact: all that is settled, before `s_lsn` or before the mark of the fsync in
progress (`Settled`); `UnsettledStep` shows that a step which changes nothing settled
keeps both. `Turns` says why the overwritten record is not settled: until something
fails, one committer after the other flushes for all and only a file switch may flush
beside it (`InTurn`), so the one that fails is alone (`Alone`), and stays so because
`in_flush` counts it and a switch that succeeds serves every committer on the list
(`SwitchServes`). A record of a file left behind is before `s_lsn`, which is what
__log_flush_commit looks at first; the records that only get written
(DB_LOG_WRNOSYNC) are past `w_off` when they fail, so past every mark.

*Assumptions*: `LenAssumption` (a record is shorter than the buffer, two fit into a
file, which holds a whole number of them), `FileAssumption`, `ThreadAssumption`.
Seven theorems need one of three more, which exclude instances where the properties
are false:

  - `WholeStores`: no thread reads `s_lsn` between the stores of its halves, or the
    log has one file. Read there during a switch of files, `s_lsn` seems to go back.
  - `Undisturbed`: no write or fsync fails, and there is one file, or neither
    crashes nor halved stores. A crash with several files takes the end of what
    was read for synced (log.c:393). A failure that a commit survives makes its record
    an abort, in a file that another thread may be syncing (section 11).
  - `OneFailure`: at most one write or fsync fails, nothing crashes, and
    `WholeStores`. This is the setting of `LogMgr_group`. With two failures both
    properties are false (section 11).

### Transactions: `TxnRecovery_proof`

| Theorem | Property | When |
|---|---|---|
| `AbortsCorrect` | `NoError` | until the first crash |
| `LocksKept` | `LocksCover` | until the first crash |
| `CheckpointsCover` | `CkpCovers` | until the first crash |
| `StoreUntilCrash` | the initial states and steps of `StoreSpec` | until the first crash |
| `StoreWithoutCrash` | `StoreSpec` | `MaxCrashes = 0` |

The invariants are stated as `[](crashes = 0 => ...)`, and the refinement as
`[][crashes' = 0 => [Store!Next]_(Store!vars)]_vars`: they cover an environment from its
creation up to a crash, with any number of transactions, pages, writes, checkpoints
and evictions. `IInv(R)` has a parameter, and `Inv` says that some `R` makes it true:
`R[i]` is the set of writes that an undo starting at record `i` comes to, through the
previous record of the transaction and the last one of a committed child (`Chains`).
A log grows at its end only, so an `R` for a log extends to one for the next
(`AppendedChains`), without a recursive definition.

`NoError` rests on a chain of facts. `Owners`: the writes that an abort of a
transaction would undo are those the log says are its own, and nobody else's.
`Ordered`: on one page all writes of a parent are before those of its running child,
since a parent with children does nothing. `Locked`: only relatives have a lock on a
page at once. So a write of a transaction comes after all that others left on the
page, and `Cached` can say what a page holds (`PageOK`): the items of committed
transactions, then those of writes that are pending, the page's LSN being the last
pending one's and each of them leading to the one before. `Undoing`: the place of an
abort and its stack, the trail, reach writes in the opposite order, so that the next
write to be undone is the last on its page (`UndoLast`), which is what `CHECK_ABORT`
asks for; it would not be if the abort took a child's chain after the parent's
earlier writes.

`Begun`: the `begin_lsn` of the oldest ancestor is not behind any write of its family,
although a child's first record sets it. `Checkpointed`: with it the LSN a checkpoint
takes is not behind a pending write, before it is found to be so (`Over`) and after,
because later writes have later LSNs; and each page the sync is done with has in the
file exactly the committed of the writes before it (`InFile`), also when the page was
evicted and changed again in the meantime.

`StoreSpec` needs a second invariant, `Works`: the items that the log gives a
transaction are in the order of their writes, and who aborted is off the list of
active transactions. From it and `IInv` follows `Stored`, which says what the mapping
yields: a page of the store has the items of committed transactions in increasing
order, and an outcome is what the list and the commit records say (`Fate`). A page
is therefore determined by the set of its items (`SameIncreasing`), and a step that
does not change the set does not change the page, whatever an abort, a write-back or a
checkpoint does to the cache meanwhile. A commit adds a set whose items come after
all that is there (`CommitsLast`, from `PageOK`), so the page becomes the old one
followed by them, as `Commit` of `TxnStore` has it. `StepTells` sorts the steps by what
they tell the store (`Tells`): most nothing, the others one action of `TxnStore`
each. `WithoutIs` is the lemma about the mapping's filter.

*Assumption*: `TxnAssumption` (the bounds are numbers, `MinId < MaxId`).

### Buffer pool: `BufPool_proof`

| Theorem | Property | Under |
|---|---|---|
| `OnePageOneBuffer` | `OneBuffer` | |
| `DirtyCount` | `DirtyExact` | |
| `WrittenIsPage` | `NoTrashWritten` | |
| `TypeCorrect` | `TypeOK` | |
| `LogFirst` | `WriteAhead` | |
| `ImplementsStore` | `PageStoreSpec` | |
| `CheckpointIsDurable` | `CheckpointDurable` | |

Three layers, each inductive given those below. `Control` (theorem `Invariant`):
what the place of a thread or syncer tells of the header it works on (`CallOK`,
`SyncOK`), who holds a header's latch (`HeaderOK`), and that its `ref` counts
exactly the processes that have it pinned (`Refs`). That is the reason an evictor,
which has found the count to be its own, may free a buffer, and the reason a page
keeps one buffer although the bucket is unlocked between a miss and the insertion.
`Values` (`DataInvariant`): a clean buffer has what the file has, and the file is
not ahead of the log. `Durable`: what a syncer has still to bring to the disk
(`Reached`): a page it has not come to, or has written while `file_written` still
says so. Where the file has no handle left, either everything is on the disk, or the
last close went wrong before any sync that is running began, so that each of these
still has to come to every dirty buffer (`Flushed`, `Covered`); and `slip` says when
neither holds. The steps of `PageStoreSpec` are proved from the first two: every action
that the abstract store does not see changes neither the content a thread could read
nor who may read it.

*Assumptions*: `BufAssumption` (finitely many processes and buffers; threads and
syncers are apart). The theorems hold whatever may fail, and with DB_NOSYNC closes too.

### Elections and leases: `RepElect_proof`

| Theorem | Property | Under |
|---|---|---|
| `OneWinnerAnEgen` | `OneWinner` | |
| `WinnerIsBest` | `ElectedIsBest` | |
| `LeasesExclude` | `LeaseExclusive` | `nsites` odd |

`Voting`: each message of a site is in its past (its egen is at most the one it has
spent, in memory and on disk: `Regions`, `Called`, `Spoken`), a site sends one VOTE2
per egen (`Vote2Once`), and who won has those of a majority (`WonInv`). Two majorities
share a site (`nvotes + nvotes > nsites`), so the winners are one. `ElectedIsBest` needs
besides that a site sends one VOTE1 per egen, also when it has restarted in between
(`Vote1Once`), that it votes for a log not behind its own of that egen (`Vote2Inv`,
`BestFor`), and that a tally's winner is the best VOTE1 counted (`Tallied`).

A late thread makes this harder: its VOTE2 is for the egen it began with, but to the
site that is the best when it comes back, perhaps of a later egen. `Lates` says why it
does no harm: it is the only one to send a VOTE2 of its egen, and the site it will send
it to either is the best of that egen or is beyond that egen and counts it no more
(`Late`, `Beyond`). A site that won with its own vote has then sent a VOTE2 only to
such a site (`Kept`). `Leases`: a valid lease stands
on a grant not expired, of a site that follows the lease's owner or nobody, and no
site is in two tables. Two masters with valid leases would have, with themselves,
more than `nsites` sites when `nsites` is odd. With an even number it is false
(section 11), so the theorem says so.

### Applying the master's log: `RepApply_proof`

| Theorem | Property |
|---|---|
| `WaitingIsExact` | `WaitingExact` |
| `CheckpointSyncedAlone` | `SyncFirst` |
| `ImplementsLog` | `LogSpec` |

`IInv`: while one thread has dropped `mtx_clientdb` for a checkpoint or a switch of
files, nobody else goes on with the log (`Alone`), because the copy of the
checkpoint in the queue and REP_F_NEWFILE keep the record expected next from others
(`QueueBeyond`, `SwitchOwned`); then the item a thread works on is the next of the
log (`WorkOf`), and `waiting_lsn` is the first of the queue, less the one being
synced (`WaitingFirst`). Every step that puts a record is then `RepLog`'s `Copy`, a
crash keeps what was acknowledged because it was flushed and permanent, and no other
step changes the log.

### Only model-checked

`NoError`, `LocksCover` and `CkpCovers` of `TxnRecovery` from the first crash on:
recovery and `IdSpace` compute by folds over the log and the list of ids, whose
value for every input needs induction over data; `StoreSpec` from there on too.
`CommittersAnswered` and `CaughtUp` are liveness. The prover reaches neither
induction over data nor fairness.

## 11. Noticed on the way

Behaviour the models showed or the reading turned up, where the code and what is
said of it differ or where an assumption of a model excludes something. No run
is kept for these.

*Locks.* A child downgrades a write lock for dirty readers and commits; the lock
moves to the parent but DB_LOCKER_DIRTY does not (lock.c:1667), so the parent's
abort skips the upgrade of lock.c:254-258. A dirty reader passes a waiting upgrader when
another reader was granted after the upgrader's lock (lock.c:680-684, 755-765
against the comment at 734). `__lock_inherit_timeout` tests the parent's timeout
the other way round from its use (lock_timer.c:110 against 87-91). `__lock_change`
moves waiters without updating `dd_objs` (lock.c:2041).

*Detector.* Two deadlocks at once, a participant of one also waiting for one of
the other, are one row of bits: one victim is chosen and `need_dd` is clear
(lock_deadlock.c:855); the other deadlock stays until some request waits again.
docs/programmer_reference/lock_dead.html:92-93 speaks of each cycle.

*Log.* Whether a failed commit reached the disk is decided from `flush_lsn.file !=
s_lsn.file`, true after every file switch, so the first flush of a new file that
fails counts as success (log_put.c:567). A commit that begins the buffer is undone
in the file, not in the buffer (log_put.c:593: `>` where equal counts too), and the
retried flush writes the commit over it. After recovery the end of what was read
counts as synced (log.c:393). A commit record whose end is still in the buffer is
read back with zeros for its end and its checksum computed over them
(log_put.c:602). A failed commit is turned into an abort without a look at whether
another thread's fsync is running (log_put.c:602-620), and its retried flush skips
when `s_lsn` is past it (log_put.c:627). With three threads, two files and two
failures: the first fsync fails; before its thread has the region back, the write of
a flush for a new file fails and hands on to a third thread, which starts its fsync;
the first overwrites its commit with the abort in the file, the fsync ends and moves
`s_lsn` past it, and the retry skips. The abort was never synced, so after a crash
the commit that was reported failed may be found (a trace of 25 states; with at most
one failure `SyncedExact` holds). A commit that was only written may be lost with
its application when the write of a record straddling two buffers fails.

*Transactions and recovery.* The search for transactions stops at the LSN it starts
from without looking at it (env_recover.c:282-289, against the comment at 163-164):
when a transaction's only record is there, recovery skips its passes and does not
undo it. `LoneRecords` FALSE excludes checkpoints that leave such a log.
`__db_idspace` may wrap the ids onto an active one when the lowest id in use is
TXN_MINIMUM and the gap at the end is the widest (common/db_idspace.c:76-80);
`MaxId` keeps that apart. The recycle record is logged after the region is unlocked
(txn.c:341). A transaction that wrote nothing and is prepared has a zero `begin_lsn`
once restored, and the next checkpoint and recovery forget it (txn.c:1381,
txn_rec.c:444, txn_chkpt.c:355); `EmptyPrepares` FALSE excludes it.

*Buffer pool.* `file_written` is cleared in the belief that a page written for a
checkpoint and then not flushed to disk "cannot happen" (mp_sync.c:725-737, and
dbinc/mp.h:484-485). It can, in two ways that begin with a last handle that leaves
changes behind which are not on disk: it is closed with DB_NOSYNC, or its flush fails
and the close goes on (db.c:908-911, 961-964, 1062-1068). If the fsync of a checkpoint
fails then, the checkpoint fails with it but the flag is cleared all the same
(mp_sync.c:719, 741-743), and the next checkpoint has no reason for an fsync and
succeeds (a trace of 17 states). If the handle goes while a sync runs, the sync clears
the flag after an fsync that came before the changes were written, and the checkpoint
after it, or one that has them still to write under a flush handle, skips its fsync (17
states). `slip` is set by these two, and `CheckpointDurable` speaks of the states
without it. An evictor's failed write has its error overwritten by the page-in
that follows (mp_bh.c:481-485), which is harmless, the page being still dirty. The
comment at mp_fget.c:914-922 says a buffer whose read failed is discarded; the
code leaves it in the bucket as trash.

*Replication.* With an even number of sites two masters can hold valid leases:
`min_leases` is `(nsites - 1) / 2` (rep_lease.c:338), so with four sites one grant
is enough. A client votes for a new master and gives up waiting, still has the old
master in its region and grants it a lease; the new master, elected with that vote,
gets a lease from the fourth site; both pass the check (a trace of 21 states).
docs/programmer_reference/rep_lease.html:147-161 promises that a master with valid
leases cannot meet a duplicate master. `LeasesExclude` is proved for odd groups. A
voter whose wait ends after its VOTE2 may grant the old master again before that
VOTE2 elects another: the assertion that an old master's leases have expired
(rep_record.c:408-417) can fail, while `LeaseExclusive` holds. Two masters at one
generation are possible (rep_method.c:743-749 against the comment at 766-771), since
`__rep_egen_init` takes the egen of the file without comparing it with the
generation. An election thread that had every VOTE1 votes without looking at the egen
again (rep_elect.c:460-468, unlike 476-481), and may set REP_E_PHASE2 in an election
that is not its own, or in none: the site then sends no vote of phase 1 in that egen,
and an election of three needs another round. No theorem suffers. `__rep_vote2` returns with the system lock held when the message does
not unmarshal (rep_elect.c:933-935), and REP_ALIVE without giving back its thread
count (rep_record.c:499-501).

## 12. What is not modelled

*Of modelled components.* Lock manager: DB_LOCK_WAIT and DB_LOCK_SWITCH (queue
access method), DB_LOCK_TRADE and `__lock_change` (handle locks),
DB_LOCK_PUT_OBJ, the arithmetic of timeouts, running out of structures,
`lock_failchk`. Log: in-memory logs, encryption, nosync, records longer than the
buffer, log cursors, archival. Transactions: recycling of ids while running,
snapshots, family transactions, recovery to a time, prepared transactions handed
out by `txn_recover`. Buffer pool: new, freed and truncated pages, multiversion
buffers and freezing, priorities, several caches, mmap, resizing, DB_MPOOL_TRY,
trickle, interrupted syncs. Elections: changing group sizes, unelectable sites,
DB_REP_FULL_ELECTION, preferred masters, views. Applying: internal init and
SYNC_LOG, bulk transfer, client-to-client requests, prepare and dbreg records,
errors in applying, delayed synchronisation, WRITE_NOSYNC clients.

*Whole components.* Mutexes (a self-block racing its wake-up, mut_tas.c:647),
sequences (sequence.c:665), the queue (qam.c:1305), btree, hash and heap access
methods, handles and cursors, blobs, registration of file ids, file operations,
`DB_REGISTER` and failchk (env_register.c:561), the allocator of regions, the
threads and acknowledgements of the replication manager, the search for a common
point with a new master (rep_verify.c:639), the lease wait of an election that
another site ends (rep_elect.c:274). Page formats, key comparison, file input and
output, statistics, the utilities and the language interfaces keep no protocol
TLC could explore; they appear, where a modelled component calls them, by their
outcomes. The SQL interface contains SQLite, which is another program.

## 13. Plan

What would come next, in order of what a fault would cost.

 1. *Proofs.* `StoreSpec` of `TxnRecovery` through a crash: what each pass of
    recovery makes of a page.
 2. *Locks*: handle locks (trade and change).
 3. *Buffer pool*: versions and snapshots.
 4. *Mutexes*: the test-and-set mutex with shared latches and self-blocking; no
    lost wake-up, and exclusion as a theorem.
 5. *Replication*: synchronisation with a new master, internal init.
 6. *Small pure parts*: the range of sequences, the recycling of transaction ids,
    the wrap of queue record numbers.
