------------------------------- MODULE LogMgr -------------------------------
(***************************************************************************)
(* Writing the log, log/log_put.c: the buffer in the log region, the       *)
(* switch of log files, group commit, failing writes and fsyncs, and what  *)
(* a crash leaves for __log_recover.                                       *)
(*                                                                         *)
(* An LSN is <<file, offset>>.  Every record, the header record of a file  *)
(* included, is RecLen units long, so the records of a file start at the   *)
(* multiples of RecLen (the "slots") and may straddle two buffers.         *)
(*                                                                         *)
(* A step of a thread lies between two points where it may block: the log  *)
(* region lock, mtx_flush, its commit mutex, and the fsync.                *)
(***************************************************************************)
EXTENDS ShQueue

CONSTANTS
    Threads,      \* threads of control that write log records
    None,         \* nobody holds a mutex
    Kinds,        \* what threads do, of PutKinds and "api"
    RecLen,       \* units in a record
    BufSize,      \* buffer_size
    FileSize,     \* log_size
    SplitStores,  \* s_lsn is stored half by half, as a 32-bit build does
    Files,        \* bound: the log files there is room for
    MaxFailures,  \* bound: writes, reads and fsyncs that fail
    MaxCrashes    \* bound: crashes

\* A record is smaller than the buffer: putting it fills at most one buffer.
ASSUME LenAssumption ==
    /\ RecLen \in Nat \ {0} /\ BufSize \in Nat /\ FileSize \in Nat
    /\ RecLen < BufSize
    /\ 2 * RecLen <= FileSize
    /\ FileSize % RecLen = 0

ASSUME FileAssumption ==
    /\ Files \subseteq Nat /\ IsFiniteSet(Files)
    /\ 1 \in Files /\ 0 \notin Files

\* "commit": DB_FLUSH|DB_LOG_COMMIT, "write": DB_LOG_WRNOSYNC|DB_LOG_COMMIT,
\* "append": no flag; recovery puts its checkpoint, DB_FLUSH|DB_LOG_CHKPNT.
PutKinds == {"commit", "write", "append"}

ASSUME ThreadAssumption ==
    /\ Kinds \subseteq PutKinds \cup {"api"}
    /\ IsFiniteSet(Threads) /\ None \notin Threads
    /\ SplitStores \in BOOLEAN
    /\ MaxFailures \in Nat /\ MaxCrashes \in Nat

-----------------------------------------------------------------------------
VARIABLES
    \* struct __log, in the region
    lsn,        \* where the next record goes
    bOff,       \* units in the buffer
    wOff,       \* offset in the file of the start of the buffer
    fLsn,       \* LSN of the first record with a unit in the buffer
    sLsn,       \* the end of what is known to be synced
    tLsn,       \* the largest LSN a waiting committer needs
    inFlush,    \* flushes in progress, or promised by a woken committer
    commits,    \* list of waiting committers, the newest first
    region,     \* the holder of the region lock
    mtxFlush,   \* the holder of mtx_flush
    \* struct __db_commit, one per waiting thread
    designated, \* DB_COMMIT_FLUSH
    woken,      \* mtx_txnwait has been unlocked
    \* the log
    mem,        \* the records, as the log manager means them to be
    os,         \* the records an application crash leaves
    disk,       \* what each record may be after a system crash
    syncing,    \* the records the fsync in progress will harden
    \* the threads
    pc,
    job,
    \* the environment
    up,         \* "up", "recovering" or "panic"
    failures,
    crashes,
    \* what callers were told
    promised,   \* records flushed with success
    wrote       \* records written without a sync, with success

regionVars == <<lsn, bOff, wOff, fLsn, tLsn, inFlush, commits>>
mutexVars  == <<region, mtxFlush, designated, woken>>
logVars    == <<mem, os, disk, syncing>>
toldVars   == <<promised, wrote>>
envVars    == <<up, failures, crashes>>
vars == <<regionVars, sLsn, mutexVars, logVars, pc, job, envVars, toldVars>>

ZeroLsn == <<0, 0>>

\* LOG_COMPARE(a, b) < 0
Before(a, b) == a[1] < b[1] \/ (a[1] = b[1] /\ a[2] < b[2])

Slots == Files \X {k * RecLen : k \in 0 .. (FileSize \div RecLen) - 1}

\* "rec": as it was put; "abort": a commit overwritten by __txn_force_abort;
\* "bad": its checksum does not verify; "none": not there.
Contents == {"none", "rec", "abort", "bad"}

\* A call of kind k on record r that is to flush the log up to "to", for the
\* reason y; "ok" and "mark" are the outcome of its flush and its s_lsn.
Call(k, r, to, y) ==
    [kind |-> k, rec |-> r, to |-> to, why |-> y, ok |-> TRUE, mark |-> ZeroLsn]

NoJob == Call("append", ZeroLsn, ZeroLsn, "put")

\* The end of the last record.
LastLsn == <<lsn[1], lsn[2] - RecLen>>

Init ==
    /\ lsn = <<1, 0>> /\ bOff = 0 /\ wOff = 0
    /\ fLsn = ZeroLsn /\ sLsn = ZeroLsn /\ tLsn = <<1, 0>>
    /\ inFlush = 0 /\ commits = EmptyList
    /\ region = None /\ mtxFlush = None /\ designated = {} /\ woken = {}
    /\ mem = [s \in Slots |-> "none"]
    /\ os = [s \in Slots |-> "none"]
    /\ disk = [s \in Slots |-> {"none"}]
    /\ syncing = {}
    /\ pc = [t \in Threads |-> "idle"]
    /\ job = [t \in Threads |-> NoJob]
    /\ up = "up" /\ failures = 0 /\ crashes = 0
    /\ promised = {} /\ wrote = {}

-----------------------------------------------------------------------------
(* __log_write.                                                            *)

\* Mutant: the record that ends where the write ends is left out.
CompletedLess(n) ==
    {s \in Slots : s[1] = lsn[1] /\ wOff < s[2] + RecLen
                                 /\ s[2] + RecLen < wOff + n}

\* The records whose last unit is among n units written at wOff.
Completed(n) ==
    {s \in Slots : s[1] = lsn[1] /\ wOff < s[2] + RecLen
                                 /\ s[2] + RecLen <= wOff + n}

\* The records R of contents m reach the operating system.
Reach(R, m) ==
    /\ os' = [s \in Slots |-> IF s \in R THEN m[s] ELSE os[s]]
    /\ disk' = [s \in Slots |-> IF s \in R THEN disk[s] \cup {m[s]} ELSE disk[s]]
    /\ syncing' = syncing \ R

CanFail == failures < MaxFailures

\* A write of n units that fails may have written some of the records.
WriteFails(n, m) ==
    /\ CanFail
    /\ failures' = failures + 1
    /\ \E R \in SUBSET Completed(n) : Reach(R, m)

-----------------------------------------------------------------------------
(* Returning from __log_put and __log_flush.                               *)

\* The call of thread t ends; "told" is what its caller is told about its
\* record.  Recovery succeeds or fails with its checkpoint.
Return(t, told) ==
    /\ region' = None
    /\ pc' = [pc EXCEPT ![t] = "idle"]
    /\ job' = [job EXCEPT ![t] = NoJob]
    /\ promised' = IF told = "flushed" THEN promised \cup {job[t].rec} ELSE promised
    /\ wrote' = IF told = "wrote" THEN wrote \cup {job[t].rec} ELSE wrote
    /\ up' = IF job[t].kind # "ckp" THEN up
             ELSE IF told = "flushed" THEN "up" ELSE "panic"

Go(t, where) == pc' = [pc EXCEPT ![t] = where]

-----------------------------------------------------------------------------
(* __log_put: put the record, in a new file if need be.                    *)

Fits == lsn[2] # 0 /\ lsn[2] + RecLen <= FileSize

\* Take the region lock.  (Bound: a file of Files has room.)
Enter(t, k) ==
    /\ pc[t] = "idle" /\ region = None
    /\ \/ up = "up" /\ k \in Kinds \ {"api"}
       \/ up = "recovering" /\ k = "ckp" /\ \A u \in Threads : pc[u] = "idle"
    /\ Fits \/ lsn[2] = 0 \/ lsn[1] + 1 \in Files
    /\ region' = t
    /\ Go(t, IF Fits THEN "append" ELSE IF lsn[2] = 0 THEN "newfile" ELSE "flush")
    /\ job' = [job EXCEPT ![t] = Call(k, ZeroLsn, LastLsn,
                                      IF Fits THEN "put" ELSE "switch")]
    /\ UNCHANGED <<regionVars, sLsn, mtxFlush, designated, woken, logVars,
                   envVars, toldVars>>

\* __log_newfile: once everything is flushed, the header record of the next
\* file is put, at its start.
NewFile(t) ==
    /\ pc[t] = "newfile"
    /\ LET f == IF lsn[2] = 0 THEN lsn[1] ELSE lsn[1] + 1 IN
       /\ lsn' = <<f, RecLen>>
       /\ mem' = [mem EXCEPT ![<<f, 0>>] = "rec"]
       /\ fLsn' = <<f, 0>>
    /\ wOff' = 0
    /\ bOff' = bOff + RecLen
    /\ Go(t, "append")
    /\ UNCHANGED <<tLsn, inFlush, commits, sLsn, mutexVars, os, disk, syncing,
                   job, envVars, toldVars>>

\* Mutant: a buffer that is exactly full is not written.
OverfullLate == bOff + RecLen > BufSize

\* The record fills the buffer, which is written.
Overfull == bOff + RecLen >= BufSize

\* __log_putr and __log_fill; f_lsn follows the first record that has a unit
\* in the buffer.
PutRecord(t) ==
    /\ pc[t] = "append"
    /\ LET left == IF Overfull THEN bOff + RecLen - BufSize ELSE bOff + RecLen
           m == [mem EXCEPT ![lsn] = "rec"]
       IN /\ mem' = m
          /\ bOff' = left
          /\ fLsn' = IF bOff = 0 \/ (Overfull /\ left > 0) THEN lsn ELSE fLsn
          /\ IF Overfull
             THEN wOff' = wOff + BufSize /\ Reach(Completed(BufSize), m)
             ELSE UNCHANGED <<wOff, os, disk, syncing>>
    /\ lsn' = <<lsn[1], lsn[2] + RecLen>>
    /\ job' = [job EXCEPT ![t] = IF @.kind = "append" THEN NoJob
                 ELSE Call(@.kind, lsn, lsn, "commit")]
    /\ Go(t, CASE job[t].kind = "append" -> "idle"
               [] job[t].kind = "write"  -> "writeout"
               [] OTHER                  -> "enter")
    /\ region' = IF job[t].kind = "append" THEN None ELSE t
    /\ UNCHANGED <<tLsn, inFlush, commits, sLsn, mtxFlush, designated, woken,
                   envVars, toldVars>>

\* The buffer cannot be written: __log_putr puts everything back.
PutFails(t) ==
    /\ pc[t] = "append" /\ Overfull
    /\ WriteFails(BufSize, [mem EXCEPT ![lsn] = "rec"])
    /\ region' = None
    /\ Go(t, "idle")
    /\ job' = [job EXCEPT ![t] = NoJob]
    /\ up' = IF job[t].kind = "ckp" THEN "panic" ELSE up
    /\ UNCHANGED <<regionVars, sLsn, mtxFlush, designated, woken, mem, crashes,
                   toldVars>>

\* DB_LOG_WRNOSYNC in __log_flush_commit: write the buffer, do not sync.
WriteOut(t) ==
    /\ pc[t] = "writeout"
    /\ bOff' = 0
    /\ wOff' = wOff + bOff
    /\ Reach(Completed(bOff), mem)
    /\ Return(t, "wrote")
    /\ UNCHANGED <<lsn, fLsn, tLsn, inFlush, commits, sLsn, mtxFlush,
                   designated, woken, mem, failures, crashes>>

WriteOutFails(t) ==
    /\ pc[t] = "writeout" /\ bOff # 0
    /\ WriteFails(bOff, mem)
    /\ Go(t, "failed")
    /\ UNCHANGED <<regionVars, sLsn, mutexVars, mem, job, up, crashes, toldVars>>

-----------------------------------------------------------------------------
(* __log_flush_int.                                                        *)

\* Mutant: s_lsn is taken for the last byte that was synced.
AlreadyFlushedEarly(r) == ~Before(sLsn, r)

\* s_lsn is "the first byte after the byte we absolutely know was written".
AlreadyFlushed(r) == Before(r, sLsn)

\* __log_flush, for a page the buffer pool writes: the check is made without
\* the region lock.  (A page carries the LSN of an update, never that of a
\* commit that is still being put.)
ApiFlush(t, r) ==
    /\ up = "up" /\ "api" \in Kinds /\ pc[t] = "idle"
    /\ r \in Slots \ promised /\ Before(r, lsn) /\ mem[r] = "rec"
    /\ \A u \in Threads : job[u].rec # r
    /\ \/ /\ AlreadyFlushed(r)
          /\ promised' = promised \cup {r}
          /\ UNCHANGED <<pc, job>>
       \/ /\ ~AlreadyFlushed(r)
          /\ Go(t, "lock")
          /\ job' = [job EXCEPT ![t] = Call("api", r, r, "api")]
          /\ UNCHANGED promised
    /\ UNCHANGED <<regionVars, sLsn, mutexVars, logVars, envVars, wrote>>

TakeRegion(t) ==
    /\ pc[t] = "lock" /\ region = None
    /\ region' = t
    /\ Go(t, "enter")
    /\ UNCHANGED <<regionVars, sLsn, mtxFlush, designated, woken, logVars, job,
                   envVars, toldVars>>

\* The LSN was flushed before the region lock was granted.
EnterFlushed(t) ==
    /\ pc[t] = "enter" /\ AlreadyFlushed(job[t].to)
    /\ Return(t, "flushed")
    /\ UNCHANGED <<regionVars, sLsn, mtxFlush, designated, woken, logVars,
                   failures, crashes>>

\* Flushes that may release the region lock; a file switch and the second
\* try of a failed commit keep it.
MayRelease(t) == job[t].why \in {"commit", "api"}

\* t_lsn only moves forward.
Goal(to) == IF Before(tLsn, to) THEN to ELSE tLsn

\* Join the committers that wait for the next flush.
Join(t) ==
    /\ pc[t] = "enter" /\ ~AlreadyFlushed(job[t].to) /\ inFlush # 0
    /\ tLsn' = Goal(job[t].to)
    /\ commits' = InsertHead(commits, t)
    /\ region' = None
    /\ Go(t, "wait")
    /\ UNCHANGED <<lsn, bOff, wOff, fLsn, inFlush, sLsn, mtxFlush, designated,
                   woken, logVars, job, envVars, toldVars>>

\* Nobody is flushing.
Lead(t) ==
    /\ pc[t] = "enter" /\ ~AlreadyFlushed(job[t].to) /\ inFlush = 0
    /\ Go(t, "flush")
    /\ UNCHANGED <<regionVars, sLsn, mutexVars, logVars, job, envVars, toldVars>>

\* A waiting committer wakes up: its record was flushed, or it has to flush
\* for the group.
Wake(t) ==
    /\ pc[t] = "wait" /\ t \in woken /\ region = None
    /\ woken' = woken \ {t}
    /\ designated' = designated \ {t}
    /\ IF t \in designated
       THEN /\ inFlush' = inFlush - 1
            /\ region' = t
            /\ Go(t, "flush")
            /\ job' = [job EXCEPT ![t].to = tLsn]
            /\ UNCHANGED <<up, toldVars>>
       ELSE Return(t, "flushed") /\ UNCHANGED inFlush
    /\ UNCHANGED <<lsn, bOff, wOff, fLsn, tLsn, commits, sLsn, mtxFlush,
                   logVars, failures, crashes>>

\* Mutant: flushes run side by side.
FlushMutexIgnored == TRUE

FlushMutexFree == mtxFlush = None

\* Mutant: "done" counts down a flush that was never counted.
FlushSkippedCounted(t) ==
    /\ pc[t] = "flush" /\ FlushMutexFree
    /\ AlreadyFlushed(job[t].to)
    /\ Go(t, "synced")
    /\ job' = [job EXCEPT ![t].ok = TRUE]
    /\ UNCHANGED <<regionVars, sLsn, mutexVars, logVars, envVars, toldVars>>

\* Under mtx_flush: the LSN may have been flushed meanwhile.
FlushSkipped(t) ==
    /\ pc[t] = "flush" /\ FlushMutexFree
    /\ AlreadyFlushed(job[t].to)
    /\ Go(t, "flushed")
    /\ job' = [job EXCEPT ![t].ok = TRUE]
    /\ UNCHANGED <<regionVars, sLsn, mutexVars, logVars, envVars, toldVars>>

\* Mutant: the record that begins the buffer is taken for written.
MustWriteStrict(to) == bOff # 0 /\ Before(fLsn, to)

\* The buffer holds a part of the record to flush.
MustWrite(to) == bOff # 0 /\ ~Before(to, fLsn)

\* Mutant: the synced point goes past what is still in the buffer.
SyncPointEager(b, w, f) == <<f[1], w>>

\* What s_lsn will be: the start of the first record that is still in the
\* buffer, or the end of the file if nothing is.
SyncPoint(b, w, f) == IF b = 0 THEN <<f[1], w>> ELSE f

\* Write the buffer if need be and start the fsync; the region lock is
\* released, the state of the buffer is remembered.
FlushStart(t) ==
    /\ pc[t] = "flush" /\ FlushMutexFree
    /\ ~AlreadyFlushed(job[t].to)
    /\ LET n == IF MustWrite(job[t].to) THEN bOff ELSE 0
           R == Completed(n)
       IN /\ os' = [s \in Slots |-> IF s \in R THEN mem[s] ELSE os[s]]
          /\ disk' = [s \in Slots |-> IF s \in R THEN disk[s] \cup {mem[s]} ELSE disk[s]]
          /\ syncing' = {s \in Slots : s[1] = lsn[1] /\ os'[s] # "none"}
          /\ bOff' = bOff - n
          /\ wOff' = wOff + n
          /\ job' = [job EXCEPT ![t].mark = SyncPoint(bOff - n, wOff + n, fLsn)]
    /\ inFlush' = inFlush + 1
    /\ mtxFlush' = t
    /\ region' = IF MayRelease(t) THEN None ELSE region
    /\ Go(t, "sync")
    /\ UNCHANGED <<lsn, fLsn, tLsn, commits, sLsn, designated, woken, mem,
                   envVars, toldVars>>

FlushWriteFails(t) ==
    /\ pc[t] = "flush" /\ FlushMutexFree
    /\ ~AlreadyFlushed(job[t].to) /\ MustWrite(job[t].to)
    /\ WriteFails(bOff, mem)
    /\ Go(t, "flushed")
    /\ job' = [job EXCEPT ![t].ok = FALSE]
    /\ UNCHANGED <<regionVars, sLsn, mutexVars, mem, up, crashes, toldVars>>

\* The fsync ends: s_lsn is set under mtx_flush alone, its file first.
Sync(t) ==
    /\ pc[t] = "sync"
    /\ disk' = [s \in Slots |-> IF s \in syncing THEN {os[s]} ELSE disk[s]]
    /\ syncing' = {}
    /\ sLsn' = <<job[t].mark[1], IF SplitStores THEN sLsn[2] ELSE job[t].mark[2]>>
    /\ Go(t, "store")
    /\ UNCHANGED <<regionVars, mutexVars, mem, os, job, envVars, toldVars>>

StoreOffset(t) ==
    /\ pc[t] = "store"
    /\ sLsn' = job[t].mark
    /\ mtxFlush' = None
    /\ Go(t, "synced")
    /\ job' = [job EXCEPT ![t].ok = TRUE, ![t].mark = ZeroLsn]
    /\ UNCHANGED <<regionVars, region, designated, woken, logVars, envVars, toldVars>>

SyncFails(t) ==
    /\ pc[t] = "sync" /\ CanFail
    /\ failures' = failures + 1
    /\ syncing' = {}
    /\ mtxFlush' = None
    /\ Go(t, "synced")
    /\ job' = [job EXCEPT ![t].ok = FALSE, ![t].mark = ZeroLsn]
    /\ UNCHANGED <<regionVars, sLsn, region, designated, woken, mem, os, disk,
                   up, crashes, toldVars>>

\* The waiting committers whose records are on disk.
Served == {u \in Members(commits) : AlreadyFlushed(job[u].to)}

\* Mutant: the others are left to the next flush.
NextLeaderNone == {}

\* The first of the others on the list has to flush.
NextLeader ==
    IF Members(commits) \subseteq Served THEN {}
    ELSE {FirstIn(commits, Members(commits) \ Served)}

\* "done" of __log_flush_int, with the region lock.
FlushDone(t) ==
    /\ pc[t] = "flushed" \/ (pc[t] = "synced" /\ region \in {t, None})
    /\ woken' = woken \cup Served \cup NextLeader
    /\ designated' = designated \cup NextLeader
    /\ commits' = RemoveAll(commits, Served \cup NextLeader)
    /\ inFlush' = inFlush + Cardinality(NextLeader) - (IF pc[t] = "synced" THEN 1 ELSE 0)
    /\ \/ /\ job[t].why = "switch" /\ job[t].ok
          /\ region' = t /\ Go(t, "newfile")
          /\ UNCHANGED <<job, up, toldVars>>
       \/ /\ job[t].why = "commit" /\ job[t].kind = "commit" /\ ~job[t].ok
          /\ region' = t /\ Go(t, "failed")
          /\ UNCHANGED <<job, up, toldVars>>
       \/ /\ job[t].why \in {"commit", "api"} /\ job[t].ok
          /\ Return(t, "flushed")
       \/ /\ job[t].why = "retry"
          /\ Return(t, "refused")
       \/ /\ ~job[t].ok
          /\ job[t].why \in {"switch", "api"} \/ job[t].kind = "ckp"
          /\ Return(t, "nothing")
    /\ UNCHANGED <<lsn, bOff, wOff, fLsn, tLsn, sLsn, mtxFlush, logVars,
                   failures, crashes>>

-----------------------------------------------------------------------------
(* __log_flush_commit after a failure, with the region lock.               *)

\* "if the commit we care about made it to disk successfully, we just ignore
\* the failure": the test the code makes.
TakenForSafe(t) ==
    LET r == job[t].rec IN
    IF job[t].kind = "commit"
    THEN r[1] # sLsn[1] \/ r[2] < sLsn[2]
    ELSE r[1] # lsn[1] \/ r[2] < wOff

FailureIgnored(t) ==
    /\ pc[t] = "failed" /\ TakenForSafe(t)
    /\ Return(t, IF job[t].kind = "commit" THEN "flushed" ELSE "wrote")
    /\ UNCHANGED <<regionVars, sLsn, mtxFlush, designated, woken, logVars,
                   failures, crashes>>

Retry(t) ==
    /\ Go(t, "flush")
    /\ job' = [job EXCEPT ![t].to = job[t].rec, ![t].why = "retry"]

\* __txn_force_abort on the record in the buffer.
AbortInBuffer(t) ==
    /\ pc[t] = "failed" /\ ~TakenForSafe(t)
    /\ job[t].rec[2] > wOff
    /\ mem' = [mem EXCEPT ![job[t].rec] = "abort"]
    /\ Retry(t)
    /\ UNCHANGED <<regionVars, sLsn, mutexVars, os, disk, syncing, envVars, toldVars>>

\* The record was written: it is read back, changed and written in place.
\* (The first write of a file extends it, so the read is never short.)  If the
\* end of the record is still in the buffer, what was read has zeros there, and
\* the checksum will not match once the buffer is written.  If all of it is
\* still in the buffer, the buffer goes on holding the commit.
AbortInFile(t) ==
    /\ pc[t] = "failed" /\ ~TakenForSafe(t)
    /\ LET r == job[t].rec IN
       /\ r[2] < wOff \/ (r[2] = wOff /\ os[r] # "none")
       /\ mem' = [mem EXCEPT ![r] = IF r[2] + RecLen <= wOff THEN "abort"
                                   ELSE IF r[2] < wOff THEN "bad" ELSE "rec"]
       /\ Reach({r}, [mem EXCEPT ![r] = "abort"])
    /\ Retry(t)
    /\ UNCHANGED <<regionVars, sLsn, mutexVars, envVars, toldVars>>

Panic ==
    /\ up' = "panic"
    /\ region' = None
    /\ mtxFlush' = None
    /\ inFlush' = 0 /\ commits' = EmptyList /\ designated' = {} /\ woken' = {}
    /\ syncing' = {}
    /\ pc' = [t \in Threads |-> "idle"]
    /\ job' = [t \in Threads |-> NoJob]

\* The read finds a header of zeros, or any of the steps fails.
AbortPanics(t) ==
    /\ pc[t] = "failed" /\ ~TakenForSafe(t)
    /\ \/ job[t].rec[2] = wOff /\ os[job[t].rec] = "none" /\ UNCHANGED failures
       \/ /\ job[t].rec[2] <= wOff /\ CanFail
          /\ failures' = failures + 1
    /\ Panic
    /\ UNCHANGED <<lsn, bOff, wOff, fLsn, tLsn, sLsn, mem, os, disk, crashes,
                   toldVars>>

-----------------------------------------------------------------------------
(* A crash, and __log_recover with the __log_vtruncate of recovery.        *)

Readable(c) == c \in {"rec", "abort"}

\* The end of the log when its files hold c: the last file whose header
\* record is there is read up to the first record that is not.
LogEnd(c) ==
    LET F == {f \in Files : Readable(c[<<f, 0>>])}
        last == CHOOSE f \in F : \A g \in F : g <= f
        bad == {k \in 0 .. FileSize : <<last, k>> \in Slots /\ ~Readable(c[<<last, k>>])}
    IN IF F = {} THEN <<1, 0>>
       ELSE <<last, IF bad = {} THEN FileSize
                    ELSE CHOOSE k \in bad : \A j \in bad : k <= j>>

\* What the files may hold after the system went down.
Unsure == {s \in Slots : Cardinality(disk[s]) > 1}

Survivals ==
    {f \in [Unsure -> Contents] : \A s \in Unsure : f[s] \in disk[s]}

\* The log region is built anew from files that hold c; the rest of the last
\* file is zeroed.
Restart(c, d) ==
    LET end == LogEnd(c)
        kept == [s \in Slots |-> IF Before(s, end) THEN c[s] ELSE "none"]
    IN /\ lsn' = end
       /\ sLsn' = IF end[2] = 0 THEN ZeroLsn ELSE end
       /\ bOff' = 0 /\ wOff' = end[2] /\ fLsn' = ZeroLsn /\ tLsn' = <<1, 0>>
       /\ inFlush' = 0 /\ commits' = EmptyList
       /\ region' = None /\ mtxFlush' = None /\ designated' = {} /\ woken' = {}
       /\ mem' = kept
       /\ os' = kept
       /\ disk' = [s \in Slots |-> d[s] \cup {kept[s]}]
       /\ syncing' = {}
       /\ pc' = [t \in Threads |-> "idle"]
       /\ job' = [t \in Threads |-> NoJob]
       /\ up' = IF end[2] = 0 THEN "up" ELSE "recovering"

AppCrash ==
    /\ crashes < MaxCrashes
    /\ crashes' = crashes + 1
    /\ Restart(os, disk)
    /\ UNCHANGED <<failures, promised, wrote>>

\* What was only written may be gone.
SystemCrash ==
    /\ crashes < MaxCrashes
    /\ crashes' = crashes + 1
    /\ \E f \in Survivals :
         LET c == [s \in Slots |-> IF s \in Unsure THEN f[s] ELSE CHOOSE x \in disk[s] : TRUE]
         IN Restart(c, [s \in Slots |-> {c[s]}])
    /\ wrote' = {}
    /\ UNCHANGED <<failures, promised>>

-----------------------------------------------------------------------------
\* What a thread does next once it is in a call.
Step(t) ==
    \/ NewFile(t)
    \/ PutRecord(t)
    \/ PutFails(t)
    \/ WriteOut(t)
    \/ WriteOutFails(t)
    \/ TakeRegion(t)
    \/ EnterFlushed(t)
    \/ Join(t)
    \/ Lead(t)
    \/ Wake(t)
    \/ FlushSkipped(t)
    \/ FlushStart(t)
    \/ FlushWriteFails(t)
    \/ Sync(t)
    \/ StoreOffset(t)
    \/ SyncFails(t)
    \/ FlushDone(t)
    \/ FailureIgnored(t)
    \/ AbortInBuffer(t)
    \/ AbortInFile(t)
    \/ AbortPanics(t)

Next ==
    \/ \E t \in Threads :
         \/ \E k \in Kinds \cup {"ckp"} : Enter(t, k)
         \/ \E r \in Slots : ApiFlush(t, r)
         \/ Step(t)
    \/ AppCrash
    \/ SystemCrash

Spec == Init /\ [][Next]_vars

\* A thread in a call goes on, its fsync ends, its mutexes are granted.
FairSpec == Spec /\ \A t \in Threads : WF_vars(Step(t))

-----------------------------------------------------------------------------
(* Properties.                                                             *)

Lsns == ({0} \cup Files) \X (0 .. FileSize)

PcStates == {"idle", "append", "newfile", "writeout", "lock", "enter", "wait",
             "flush", "sync", "store", "synced", "flushed", "failed"}

\* Every variable has its type; the buffer is never full between two steps.
TypeOK ==
    /\ {lsn, fLsn, sLsn, tLsn} \subseteq Lsns
    /\ bOff \in 0 .. BufSize - 1
    /\ wOff + bOff = lsn[2]
    /\ inFlush \in 0 .. 2 * Cardinality(Threads)
    /\ IsList(commits, Threads)
    /\ {region, mtxFlush} \subseteq Threads \cup {None}
    /\ designated \subseteq Threads /\ woken \subseteq Threads
    /\ mem \in [Slots -> Contents] /\ os \in [Slots -> Contents]
    /\ disk \in [Slots -> SUBSET Contents] /\ syncing \subseteq Slots
    /\ pc \in [Threads -> PcStates]
    /\ up \in {"up", "recovering", "panic"}
    /\ promised \subseteq Slots /\ wrote \subseteq Slots

\* Whatever a crash does, recovery finds record s as it was put.
Safe(s) ==
    /\ disk[s] = {"rec"}
    /\ \A r \in Slots : Before(r, s) => \A c \in disk[r] : Readable(c)

\* A commit, or a flush for the buffer pool, that returned success is found
\* by every recovery from then on.
Durable == \A s \in promised : Safe(s)

\* A DB_TXN_WRITE_NOSYNC commit that returned success survives the crash of
\* an application.
WrittenSurvives ==
    \A s \in wrote : \A r \in Slots :
        (Before(r, s) => Readable(os[r])) /\ os[s] = "rec"

\* s_lsn tells the truth although it is set without the region lock: every
\* record before it is on disk exactly as the log manager means it to be.
SyncedExact ==
    up = "up" =>
        \A s \in Slots : Before(s, sLsn) => disk[s] = {mem[s]} /\ mem[s] # "none"

\* A file is on disk in full before the next one is begun, with an empty
\* buffer (the assertion of __log_newfile).
FilesComplete ==
    /\ \A t \in Threads : pc[t] = "newfile" => bOff = 0
    /\ up = "up" => \A s \in Slots : s[1] < lsn[1] => disk[s] = {mem[s]}

\* in_flush counts the flushes in progress and those promised: it decides
\* whether a committer waits.
InFlushExact ==
    inFlush = Cardinality({t \in Threads : pc[t] \in {"sync", "store", "synced"}})
              + Cardinality(designated)

Listed == Members(commits)

\* Committers that wait on the list are not forgotten: a flush is in progress
\* or promised or about to start, and it goes far enough for all of them.
WaitersCovered ==
    /\ Listed # {} => \/ inFlush > 0
                      \/ \E t \in Threads : region = t /\ pc[t] \in {"flush", "flushed"}
    /\ \A t \in Listed : pc[t] = "wait" /\ t \notin woken /\ ~Before(tLsn, job[t].to)
    /\ \A t \in Threads : pc[t] = "wait" => t \in Listed \cup woken

\* "The sync point can only move forward": ALREADY_FLUSHED reads it with no
\* lock at all.
SyncForward == [][crashes' = crashes => ~Before(sLsn', sLsn)]_vars

\* A committer that waits for the group is answered, one way or the other.
CommittersAnswered ==
    \A t \in Threads : pc[t] = "wait" ~> pc[t] # "wait"
=============================================================================
