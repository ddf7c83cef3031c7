------------------------------ MODULE BufPool ------------------------------
(***************************************************************************)
(* The buffer pool: mp/mp_fget.c, mp_fput.c, mp_fset.c, mp_alloc.c,        *)
(* mp_bh.c and mp_sync.c, for one file without multiversion buffers whose  *)
(* pages hash to one bucket.  An action is a stretch of code under the     *)
(* bucket's mutex, or one that needs none.                                 *)
(*                                                                         *)
(* The content of a page is the LSN of its last change, 0 for the page as  *)
(* it was at first.  A thread is a process with a handle on the file; a    *)
(* syncer is a process without, in __memp_sync_int for a checkpoint.       *)
(***************************************************************************)
EXTENDS Integers, FiniteSets

CONSTANTS
    Threads, Syncers, Pages, Bufs,
    None,          \* no page, no buffer, no thread
    NoSyncClose,   \* an application closes its last handle with DB_NOSYNC
    IOErrors,      \* what may fail: reads, writes, fsyncs with flushes at a close
    MaxLsn,        \* bound: changes of pages
    MaxSyncs       \* bound: syncs of the cache

ASSUME BufAssumption ==
    /\ MaxLsn \in Nat /\ MaxSyncs \in Nat
    /\ NoSyncClose \in BOOLEAN /\ IOErrors \subseteq {"read", "write", "sync"}
    /\ None \notin Threads \cup Syncers \cup Pages \cup Bufs
    /\ IsFiniteSet(Threads \cup Syncers) /\ IsFiniteSet(Bufs)
    /\ Threads \cap Syncers = {}

VARIABLES
    \* the cache
    buf,          \* the buffer headers
    hashDirty,    \* hash_page_dirty of the bucket
    fileWritten,  \* file_written of the MPOOLFILE
    \* the processes
    th,           \* the threads in __memp_fget and the pages they have
    open,         \* the threads with a handle on the file
    sy,           \* the syncers
    \* outside the cache
    os,           \* what was written to the file
    stable,       \* what fsync put on the disk
    lsn,          \* the last record of the log
    logged,       \* the last record that is on the disk
    \* an I/O error went by unnoticed: during a sync the last handle was closed
    \* without being flushed, or file_written was cleared after a failed fsync
    slip,
    \* bounds
    syncs

ioVars == <<os, stable, lsn, logged>>
vars == <<buf, hashDirty, fileWritten, th, open, sy, ioVars, slip, syncs>>

\* A buffer header.  "flags" has BH_DIRTY, BH_EXCLUSIVE and BH_TRASH; mtx_buf
\* is held by "owner" alone or by the "sharers".
Empty == [page |-> None, val |-> 0, ref |-> 0, flags |-> {},
          owner |-> None, sharers |-> {}]

\* A thread's state: where it is in __memp_fget, its arguments, bhp, alloc_bhp.
Idle == [pc |-> "idle", page |-> None, mode |-> "none", b |-> None,
         mine |-> None]

\* A syncer's state: bharray, the buffer it writes, ret, its handle opened to
\* flush, its reference of __memp_sync_file, and what it has to achieve.
Resting == [pc |-> "idle", todo |-> {}, b |-> None, ok |-> TRUE,
            flushes |-> FALSE, refers |-> FALSE,
            goal |-> [p \in Pages |-> 0]]

Has(b, f) == f \in buf[b].flags
Cached(p) == {b \in Bufs : buf[b].page = p}
Dirties == {b \in Bufs : Has(b, "dirty")}

\* The state of mtx_buf.
Free(b)   == buf[b].owner = None /\ buf[b].sharers = {}
Shared(b) == buf[b].owner = None

\* mpf_cnt: the handles of the threads, those opened to flush, and the
\* references that __memp_sync_file counts.
MpfCnt == Cardinality({t \in Threads : open[t]})
             + Cardinality({s \in Syncers : sy[s].flushes})
             + Cardinality({s \in Syncers : sy[s].refers})

\* A page's content is its buffer's, or the file's.
Content == [p \in Pages |->
    LET good == {b \in Cached(p) : Has(b, "dirty") \/ ~Has(b, "trash")}
    IN  IF good = {} THEN os[p] ELSE buf[CHOOSE b \in good : TRUE].val]

Init ==
    /\ buf = [b \in Bufs |-> Empty]
    /\ hashDirty = 0 /\ fileWritten = FALSE
    /\ th = [t \in Threads |-> Idle]
    /\ open = [t \in Threads |-> TRUE]
    /\ sy = [s \in Syncers |-> Resting]
    /\ os = [p \in Pages |-> 0] /\ stable = os
    /\ lsn = 0 /\ logged = 0
    /\ slip = FALSE /\ syncs = 0

-----------------------------------------------------------------------------
(* Changes of a buffer header.                                             *)

\* MUTEX_LOCK of mtx_buf and BH_EXCLUSIVE; MUTEX_READLOCK.
Latched(h, t)  == [h EXCEPT !.owner = t, !.flags = @ \cup {"exclusive"}]
ReadLatched(h, t) == [h EXCEPT !.sharers = @ \cup {t}]

\* BH_EXCLUSIVE is cleared and mtx_buf unlocked.
Unlatched(h, t) ==
    IF h.owner = t THEN [h EXCEPT !.owner = None, !.flags = @ \ {"exclusive"}]
    ELSE [h EXCEPT !.sharers = @ \ {t}]

Pinned(h)   == [h EXCEPT !.ref = @ + 1]
Unpinned(h) == [h EXCEPT !.ref = @ - 1]

\* __memp_bh_clear_dirty.
Cleaned(h) == [h EXCEPT !.flags = @ \ {"dirty"}]

\* BH_DIRTY is set and counted once, with the buffer exclusive.
\* Mutant: it is counted whenever it is set.
MarkDirtyAgain(b, h) ==
    /\ buf' = [buf EXCEPT ![b] = [h EXCEPT !.flags = @ \cup {"dirty"}]]
    /\ hashDirty' = hashDirty + 1
MarkDirty(b, h) ==
    /\ buf' = [buf EXCEPT ![b] = [h EXCEPT !.flags = @ \cup {"dirty"}]]
    /\ hashDirty' = IF "dirty" \in h.flags THEN hashDirty ELSE hashDirty + 1

\* The end of __memp_pgwrite under the bucket's mutex, for the header h that
\* the thread goes on with: the first writer clears the flag and the count.
\* Mutant: every writer counts.
ClearDirtyTwice(b, h) ==
    /\ buf' = [buf EXCEPT ![b] = Cleaned(h)]
    /\ hashDirty' = hashDirty - 1
ClearDirty(b, h) ==
    /\ buf' = [buf EXCEPT ![b] = Cleaned(h)]
    /\ hashDirty' = IF "dirty" \in h.flags THEN hashDirty - 1 ELSE hashDirty

\* __memp_pgwrite flushes the log up to the page's LSN.
\* Mutant: it relies on the flush at the beginning of the sync.
LogFlushNot(b) == UNCHANGED logged
LogFlush(b) == logged' = IF buf[b].val > logged THEN buf[b].val ELSE logged

GoTo(t, pc) == th' = [th EXCEPT ![t].pc = pc]

-----------------------------------------------------------------------------
(* __memp_fget.                                                            *)

\* The search of the bucket.  FIRST_FOUND and SECOND_FOUND: the reference keeps
\* the buffer in the cache while the bucket's mutex is swapped for the buffer's.
Search(t, call) ==
    IF Cached(call.page) = {}
    THEN /\ th' = [th EXCEPT ![t] = [call EXCEPT !.pc = "alloc"]]
         /\ UNCHANGED buf
    ELSE \E b \in Cached(call.page) :
            /\ buf' = [buf EXCEPT ![b] = Pinned(@)]
            /\ th' = [th EXCEPT ![t] =
                         [call EXCEPT !.b = b, !.pc = IF call.mode = "read"
                                                      THEN "readlatch"
                                                      ELSE "latch"]]

\* FIRST_FOUND, or FIRST_MISS: the bucket is unlocked for __memp_alloc.
Get(t, p, m) ==
    /\ th[t].pc = "idle" /\ open[t]
    /\ Search(t, [Idle EXCEPT !.page = p, !.mode = m])
    /\ UNCHANGED <<hashDirty, fileWritten, open, sy, ioVars, slip, syncs>>

\* SECOND_FOUND: the search after an allocation.
Retry(t) ==
    /\ th[t].pc = "search" /\ Cached(th[t].page) # {}
    /\ Search(t, th[t])
    /\ UNCHANGED <<hashDirty, fileWritten, open, sy, ioVars, slip, syncs>>

\* SECOND_MISS: the allocated buffer becomes the page's, to be read.
\* Mutant: the bucket is not searched a second time.
InstantiateBlind(t) ==
    /\ th[t].pc = "search"
    /\ buf' = [buf EXCEPT ![th[t].mine] =
                  Latched([Empty EXCEPT !.page = th[t].page, !.ref = 1,
                                        !.flags = {"trash"}], t)]
    /\ th' = [th EXCEPT ![t].b = th[t].mine, ![t].mine = None,
                        ![t].pc = "fill"]
    /\ UNCHANGED <<hashDirty, fileWritten, open, sy, ioVars, slip, syncs>>
Instantiate(t) ==
    /\ th[t].pc = "search" /\ Cached(th[t].page) = {}
    /\ buf' = [buf EXCEPT ![th[t].mine] =
                  Latched([Empty EXCEPT !.page = th[t].page, !.ref = 1,
                                        !.flags = {"trash"}], t)]
    /\ th' = [th EXCEPT ![t].b = th[t].mine, ![t].mine = None,
                        ![t].pc = "fill"]
    /\ UNCHANGED <<hashDirty, fileWritten, open, sy, ioVars, slip, syncs>>

\* The exclusive latch, at first or because the buffer was in transit.
Latch(t) ==
    /\ th[t].pc = "latch" /\ Free(th[t].b)
    /\ buf' = [buf EXCEPT ![th[t].b] = Latched(@, t)]
    /\ GoTo(t, "fill")
    /\ UNCHANGED <<hashDirty, fileWritten, open, sy, ioVars, slip, syncs>>

\* The shared latch.  A buffer in transit needs the exclusive one.
ReadLatch(t) ==
    /\ th[t].pc = "readlatch" /\ Shared(th[t].b)
    /\ IF Has(th[t].b, "trash")
       THEN /\ GoTo(t, "latch")
            /\ UNCHANGED buf
       ELSE /\ buf' = [buf EXCEPT ![th[t].b] = ReadLatched(@, t)]
            /\ GoTo(t, "fill")
    /\ UNCHANGED <<hashDirty, fileWritten, open, sy, ioVars, slip, syncs>>

\* The buffer as it is once the page was read, if it had to be.
Filled(b) ==
    IF Has(b, "trash")
    THEN [buf[b] EXCEPT !.val = os[buf[b].page], !.flags = @ \ {"trash"}]
    ELSE buf[b]

\* The rest of __memp_fget: the page is read if the buffer is trash, a buffer
\* that was allocated for nothing is freed, and the page is marked dirty or its
\* latch made shared.
Fill(t) ==
    LET b == th[t].b IN
    /\ th[t].pc = "fill"
    /\ IF th[t].mode = "write"
       THEN /\ MarkDirty(b, Filled(b))
            /\ th' = [th EXCEPT ![t].pc = "hold", ![t].mine = None]
       ELSE /\ UNCHANGED hashDirty
            /\ IF Has(b, "exclusive")
               THEN /\ buf' = [buf EXCEPT ![b] = Unlatched(Filled(b), t)]
                    /\ th' = [th EXCEPT ![t].pc = "relatch", ![t].mine = None]
               ELSE /\ UNCHANGED buf
                    /\ th' = [th EXCEPT ![t].pc = "hold", ![t].mine = None]
    /\ UNCHANGED <<fileWritten, open, sy, ioVars, slip, syncs>>

\* The read fails: the buffer stays, as trash, for the next thread to read.
FillFails(t) ==
    LET b == th[t].b IN
    /\ "read" \in IOErrors /\ th[t].pc = "fill" /\ Has(b, "trash")
    /\ buf' = [buf EXCEPT ![b] = Unlatched(Unpinned(@), t)]
    /\ th' = [th EXCEPT ![t] = Idle]
    /\ UNCHANGED <<hashDirty, fileWritten, open, sy, ioVars, slip, syncs>>

\* The latch was released to take it shared (__memp_fget, __memp_shared).
Relatch(t) ==
    /\ th[t].pc = "relatch" /\ Shared(th[t].b)
    /\ buf' = [buf EXCEPT ![th[t].b] = ReadLatched(@, t)]
    /\ GoTo(t, "hold")
    /\ UNCHANGED <<hashDirty, fileWritten, open, sy, ioVars, slip, syncs>>

-----------------------------------------------------------------------------
(* __memp_alloc: memory that is free, or the buffer of another page.       *)

AllocFree(t) ==
    /\ th[t].pc = "alloc"
    /\ \E b \in Cached(None) :
        /\ \A u \in Threads : th[u].mine # b
        /\ th' = [th EXCEPT ![t].mine = b, ![t].pc = "search"]
    /\ UNCHANGED <<buf, hashDirty, fileWritten, open, sy, ioVars, slip, syncs>>

\* A buffer without references is chosen and pinned under the bucket's mutex.
Choose(t) ==
    /\ th[t].pc = "alloc"
    /\ \E b \in Bufs :
        /\ buf[b].page # None /\ buf[b].ref = 0
        /\ buf' = [buf EXCEPT ![b] = Pinned(@)]
        /\ th' = [th EXCEPT ![t].b = b, ![t].pc = "trylatch"]
    /\ UNCHANGED <<hashDirty, fileWritten, open, sy, ioVars, slip, syncs>>

\* Back to the search of another buffer.
NextHb(t, h) ==
    /\ buf' = [buf EXCEPT ![th[t].b] = Unlatched(Unpinned(h), t)]
    /\ th' = [th EXCEPT ![t].b = None, ![t].pc = "alloc"]

\* this_buffer: the latch is only tried, the caller may have others.
TryLatch(t) ==
    LET b == th[t].b IN
    /\ th[t].pc = "trylatch"
    /\ IF buf[b].ref > 1 \/ ~Free(b)
       THEN NextHb(t, buf[b])
       ELSE /\ buf' = [buf EXCEPT ![b] = Latched(@, t)]
            /\ GoTo(t, IF Has(b, "dirty") THEN "evict" ELSE "reuse")
    /\ UNCHANGED <<hashDirty, fileWritten, open, sy, ioVars, slip, syncs>>

\* __memp_pgwrite of a buffer that is exclusive: pgout is done in place, which
\* makes it trash, and the page is written.
Evict(t) ==
    LET b == th[t].b IN
    /\ th[t].pc = "evict"
    /\ LogFlush(b)
    /\ buf' = [buf EXCEPT ![b].flags = @ \cup {"trash"}]
    /\ \/ /\ os' = [os EXCEPT ![buf[b].page] = buf[b].val]
          /\ GoTo(t, "evicted")
       \/ /\ "write" \in IOErrors
          /\ GoTo(t, "unwritten")
          /\ UNCHANGED os
    /\ UNCHANGED <<hashDirty, fileWritten, open, sy, stable, lsn, slip, syncs>>

\* pgin is done in place.
\* Mutant: the page stays as it was written.
PutBackNot(h) == h
PutBack(h) == [h EXCEPT !.flags = @ \ {"trash"}]

\* Its end, under the bucket's mutex: a page that somebody waits for, or that
\* was not written, is put back.
Evicted(t) ==
    LET b == th[t].b IN
    /\ \/ /\ th[t].pc = "evicted"
          /\ ClearDirty(b, IF buf[b].ref > 1 THEN PutBack(buf[b]) ELSE buf[b])
       \/ /\ th[t].pc = "unwritten"
          /\ buf' = [buf EXCEPT ![b] = PutBack(@)]
          /\ UNCHANGED hashDirty
    /\ GoTo(t, "reuse")
    /\ UNCHANGED <<fileWritten, open, sy, ioVars, slip, syncs>>

\* What has happened to a buffer while it was written keeps it in the cache.
\* Mutant: the references are not looked at again.
WantedIfDirty(b) == Has(b, "dirty")
Wanted(b) == buf[b].ref # 1 \/ Has(b, "dirty")

\* __memp_bhfree takes the buffer out of the bucket.
Reuse(t) ==
    LET b == th[t].b IN
    /\ th[t].pc = "reuse"
    /\ IF Wanted(b) THEN NextHb(t, buf[b])
       ELSE /\ buf' = [buf EXCEPT ![b] = Empty]
            /\ th' = [th EXCEPT ![t].mine = b, ![t].b = None,
                                ![t].pc = "search"]
    /\ UNCHANGED <<hashDirty, fileWritten, open, sy, ioVars, slip, syncs>>

\* "giveup": nothing was put back for a long time.
AllocFails(t) ==
    /\ th[t].pc = "alloc"
    /\ \A b \in Cached(None) : \E u \in Threads : th[u].mine = b
    /\ th' = [th EXCEPT ![t] = Idle]
    /\ UNCHANGED <<buf, hashDirty, fileWritten, open, sy, ioVars, slip, syncs>>

-----------------------------------------------------------------------------
(* A thread that has a page.                                               *)

\* The application logs a change and makes it.
Update(t) ==
    /\ th[t].pc = "hold" /\ th[t].mode = "write" /\ lsn < MaxLsn
    /\ lsn' = lsn + 1
    /\ buf' = [buf EXCEPT ![th[t].b].val = lsn + 1]
    /\ UNCHANGED <<hashDirty, fileWritten, th, open, sy, os, stable, logged,
                   slip, syncs>>

\* __memp_dirty drops the shared latch, keeps the reference, and waits for the
\* exclusive latch.
Dirty(t) ==
    /\ th[t].pc = "hold" /\ th[t].mode = "read"
    /\ buf' = [buf EXCEPT ![th[t].b] = Unlatched(@, t)]
    /\ th' = [th EXCEPT ![t].pc = "upgrade", ![t].mode = "write"]
    /\ UNCHANGED <<hashDirty, fileWritten, open, sy, ioVars, slip, syncs>>

Upgrade(t) ==
    /\ th[t].pc = "upgrade" /\ Free(th[t].b)
    /\ MarkDirty(th[t].b, Latched(buf[th[t].b], t))
    /\ GoTo(t, "hold")
    /\ UNCHANGED <<fileWritten, open, sy, ioVars, slip, syncs>>

\* __memp_shared and __memp_fput note that the file is written.
NoteWritten(b) ==
    fileWritten' = (fileWritten \/ (Has(b, "exclusive") /\ Has(b, "dirty")))

Downgrade(t) ==
    /\ th[t].pc = "hold" /\ th[t].mode = "write"
    /\ NoteWritten(th[t].b)
    /\ buf' = [buf EXCEPT ![th[t].b] = Unlatched(@, t)]
    /\ th' = [th EXCEPT ![t].pc = "relatch", ![t].mode = "read"]
    /\ UNCHANGED <<hashDirty, open, sy, ioVars, slip, syncs>>

\* __memp_fput drops the reference first, and the latch later.
Put(t) ==
    /\ th[t].pc = "hold"
    /\ NoteWritten(th[t].b)
    /\ buf' = [buf EXCEPT ![th[t].b] = Unpinned(@)]
    /\ GoTo(t, "put")
    /\ UNCHANGED <<hashDirty, open, sy, ioVars, slip, syncs>>

Release(t) ==
    /\ th[t].pc = "put"
    /\ buf' = [buf EXCEPT ![th[t].b] = Unlatched(@, t)]
    /\ th' = [th EXCEPT ![t] = Idle]
    /\ UNCHANGED <<hashDirty, fileWritten, open, sy, ioVars, slip, syncs>>

\* __memp_fsync, for DB->sync or before a close: a page of the file is written,
\* its buffer latched shared, and marked clean.
FlushPage(t) ==
    /\ th[t].pc = "idle" /\ open[t] /\ fileWritten
    /\ \E b \in Dirties :
        /\ ~Has(b, "exclusive")
        /\ LogFlush(b)
        /\ os' = [os EXCEPT ![buf[b].page] = buf[b].val]
        /\ ClearDirty(b, buf[b])
    /\ UNCHANGED <<fileWritten, th, open, sy, stable, lsn, slip, syncs>>

\* What __db_close has flushed when it closes the handle, whatever went wrong:
\* all that is to be written is on the disk, or DB_NOSYNC or an error leaves it
\* where it is.
FlushedAtClose(t) ==
    LET last == \A u \in Threads \ {t} : ~open[u]
    IN  \/ /\ ~fileWritten
           /\ UNCHANGED <<stable, slip>>
        \/ /\ fileWritten /\ ~NoSyncClose
           /\ last => Dirties = {}
           /\ stable' = os
           /\ UNCHANGED slip
        \/ /\ fileWritten /\ (NoSyncClose \/ "sync" \in IOErrors)
           /\ slip' = (slip \/ (last /\ \E s \in Syncers : sy[s].pc # "idle"))
           /\ UNCHANGED stable

Close(t) ==
    /\ th[t].pc = "idle" /\ open[t]
    /\ open' = [open EXCEPT ![t] = FALSE]
    /\ FlushedAtClose(t)
    /\ UNCHANGED <<buf, hashDirty, fileWritten, th, sy, os, lsn, logged, syncs>>

\* A file's bucket is locked during __memp_sync_file, so nobody opens it then.
Open(t) ==
    /\ ~open[t] /\ \A s \in Syncers : ~sy[s].refers
    /\ open' = [open EXCEPT ![t] = TRUE]
    /\ UNCHANGED <<buf, hashDirty, fileWritten, th, sy, ioVars, slip, syncs>>

-----------------------------------------------------------------------------
(* __memp_sync_int for a checkpoint.                                       *)

\* The dirty pages of the bucket are tracked, and the log is flushed.
SyncStart(s) ==
    /\ sy[s].pc = "idle" /\ syncs < MaxSyncs
    /\ LET todo == IF hashDirty = 0 THEN {} ELSE {buf[b].page : b \in Dirties}
       IN  /\ sy' = [sy EXCEPT ![s] = [Resting EXCEPT !.pc = "walk",
                                            !.todo = todo, !.goal = Content]]
           /\ logged' = IF todo = {} THEN logged ELSE lsn
    /\ syncs' = syncs + 1
    /\ UNCHANGED <<buf, hashDirty, fileWritten, th, open, os, stable, lsn, slip>>

\* The buffers of tracked pages that are still to be written.
Unwritten(p) == Cached(p) \cap Dirties

\* Somebody wrote the page.
SyncSkip(s, p) ==
    /\ sy[s].pc = "walk" /\ p \in sy[s].todo
    /\ Unwritten(p) = {}
    /\ sy' = [sy EXCEPT ![s].todo = @ \ {p}]
    /\ UNCHANGED <<buf, hashDirty, fileWritten, th, open, ioVars, slip, syncs>>

\* The buffer is pinned to be written, unless it is exclusive: the syncer will
\* come back to it.
SyncPin(s, p) ==
    /\ sy[s].pc = "walk" /\ p \in sy[s].todo
    /\ \E b \in Unwritten(p) :
        /\ ~Has(b, "exclusive")
        /\ buf' = [buf EXCEPT ![b] = Pinned(@)]
        /\ sy' = [sy EXCEPT ![s].b = b, ![s].pc = "readlatch"]
    /\ UNCHANGED <<hashDirty, fileWritten, th, open, ioVars, slip, syncs>>

SyncLatch(s) ==
    /\ sy[s].pc = "readlatch" /\ Shared(sy[s].b)
    /\ buf' = [buf EXCEPT ![sy[s].b] = ReadLatched(@, s)]
    /\ sy' = [sy EXCEPT ![s].pc = IF Has(sy[s].b, "dirty") THEN "write"
                                  ELSE "clean"]
    /\ UNCHANGED <<hashDirty, fileWritten, th, open, ioVars, slip, syncs>>

\* __memp_bhwrite opens a handle, and __memp_pgwrite writes the page if it is
\* still dirty: another syncer may have it, too.
SyncWrite(s) ==
    LET b == sy[s].b
        went(pc, ok) == [sy EXCEPT ![s].pc = pc, ![s].flushes = TRUE,
                                   ![s].ok = @ /\ ok]
    IN
    /\ sy[s].pc = "write"
    /\ IF Has(b, "dirty")
       THEN /\ LogFlush(b)
            /\ \/ /\ os' = [os EXCEPT ![buf[b].page] = buf[b].val]
                  /\ sy' = went("written", TRUE)
               \/ /\ "write" \in IOErrors
                  /\ sy' = went("clean", FALSE)
                  /\ UNCHANGED os
       ELSE /\ sy' = went("clean", TRUE)
            /\ UNCHANGED <<os, logged>>
    /\ UNCHANGED <<buf, hashDirty, fileWritten, th, open, stable, lsn, slip,
                   syncs>>

\* The end of __memp_pgwrite, and the buffer is left.
SyncWritten(s) ==
    LET b == sy[s].b
        left == Unlatched(Unpinned(buf[b]), s)
    IN
    /\ \/ sy[s].pc = "written" /\ ClearDirty(b, left)
       \/ /\ sy[s].pc = "clean"
          /\ buf' = [buf EXCEPT ![b] = left]
          /\ UNCHANGED hashDirty
    /\ sy' = [sy EXCEPT ![s].pc = "walk", ![s].b = None,
                        ![s].todo = @ \ {buf[b].page}]
    /\ UNCHANGED <<fileWritten, th, open, ioVars, slip, syncs>>

\* __memp_sync_file: the files that were written are pinned.
SyncFile(s) ==
    /\ sy[s].pc = "walk" /\ sy[s].todo = {}
    /\ sy' = IF sy[s].ok /\ fileWritten
             THEN [sy EXCEPT ![s].pc = "fsync", ![s].refers = TRUE]
             ELSE [sy EXCEPT ![s].pc = "done"]
    /\ \A r \in Syncers : ~sy[r].refers
    /\ UNCHANGED <<buf, hashDirty, fileWritten, th, open, ioVars, slip, syncs>>

Fsync(s) ==
    /\ sy[s].pc = "fsync"
    /\ \/ /\ stable' = os
          /\ sy' = [sy EXCEPT ![s].pc = "synced"]
       \/ /\ "sync" \in IOErrors
          /\ sy' = [sy EXCEPT ![s].pc = "synced", ![s].ok = FALSE]
          /\ UNCHANGED stable
    /\ UNCHANGED <<buf, hashDirty, fileWritten, th, open, os, lsn, logged, slip,
                   syncs>>

\* Nobody else refers to the file: file_written may be cleared.
\* Mutant: whoever the second reference belongs to.
SoleUserOrTwo(s) == MpfCnt <= 2
SoleUser(s) == MpfCnt = 1 \/ (MpfCnt = 2 /\ sy[s].flushes)

\* It is, whether the fsync succeeded or not.
SyncFileEnd(s) ==
    /\ sy[s].pc = "synced"
    /\ fileWritten' = (fileWritten /\ ~SoleUser(s))
    /\ slip' = (slip \/ (SoleUser(s) /\ ~sy[s].ok))
    /\ sy' = [sy EXCEPT ![s].pc = "done", ![s].refers = FALSE]
    /\ UNCHANGED <<buf, hashDirty, th, open, ioVars, syncs>>

\* __memp_close_flush_files, and the checkpoint goes on.
SyncDone(s) ==
    /\ sy[s].pc = "done"
    /\ sy' = [sy EXCEPT ![s] = Resting]
    /\ UNCHANGED <<buf, hashDirty, fileWritten, th, open, ioVars, slip, syncs>>

-----------------------------------------------------------------------------
FgetNext(t) ==
    \/ \E p \in Pages, m \in {"read", "write"} : Get(t, p, m)
    \/ Retry(t) \/ Instantiate(t)
    \/ Latch(t) \/ ReadLatch(t) \/ Fill(t) \/ FillFails(t) \/ Relatch(t)

AllocNext(t) ==
    \/ AllocFree(t) \/ Choose(t) \/ TryLatch(t)
    \/ Evict(t) \/ Evicted(t) \/ Reuse(t) \/ AllocFails(t)

HoldNext(t) ==
    \/ Update(t) \/ Dirty(t) \/ Upgrade(t) \/ Downgrade(t)
    \/ Put(t) \/ Release(t) \/ FlushPage(t) \/ Close(t) \/ Open(t)

SyncNext(s) ==
    \/ SyncStart(s)
    \/ \E p \in Pages : SyncSkip(s, p) \/ SyncPin(s, p)
    \/ SyncLatch(s) \/ SyncWrite(s) \/ SyncWritten(s)
    \/ SyncFile(s) \/ Fsync(s) \/ SyncFileEnd(s) \/ SyncDone(s)

Next ==
    \/ \E t \in Threads : FgetNext(t) \/ AllocNext(t) \/ HoldNext(t)
    \/ \E s \in Syncers : SyncNext(s)

Spec == Init /\ [][Next]_vars

-----------------------------------------------------------------------------
TypeOK ==
    /\ buf \in [Bufs -> [page : Pages \cup {None}, val : 0 .. MaxLsn,
                         ref : 0 .. Cardinality(Threads \cup Syncers),
                         flags : SUBSET {"dirty", "exclusive", "trash"},
                         owner : Threads \cup {None},
                         sharers : SUBSET (Threads \cup Syncers)]]
    /\ hashDirty \in 0 .. Cardinality(Bufs) /\ fileWritten \in BOOLEAN
    /\ \A t \in Threads :
        /\ th[t].page \in Pages \cup {None}
        /\ th[t].mode \in {"none", "read", "write"}
        /\ {th[t].b, th[t].mine} \subseteq Bufs \cup {None}
    /\ open \in [Threads -> BOOLEAN]
    /\ \A s \in Syncers : sy[s].todo \subseteq Pages
    /\ {os, stable} \subseteq [Pages -> 0 .. MaxLsn]
    /\ lsn \in 0 .. MaxLsn /\ logged \in 0 .. lsn

\* hash_page_dirty is the number of dirty buffers of the bucket, however many
\* threads write a buffer at once, so that no sync skips a bucket it must not
\* skip (the assertion dirty == hash_page_dirty of __memp_sync_int).
DirtyExact == hashDirty = Cardinality(Dirties)

\* A page has one buffer, although the bucket is unlocked between a miss and
\* the insertion of the buffer (SECOND_FOUND of __memp_fget).
OneBuffer == \A p \in Pages : Cardinality(Cached(p)) <= 1

\* No page is in the file before the log record of its last change is on the
\* disk (__memp_pgwrite).
WriteAhead == \A p \in Pages : os[p] <= logged

\* A buffer that is or may be written is not trash: every way to it either has
\* found the page in it or has read it (the assertion of __memp_pgwrite).
NoTrashWritten ==
    /\ \A t \in Threads : th[t].pc = "evict" => ~Has(th[t].b, "trash")
    /\ \A s \in Syncers : sy[s].pc = "write" => ~Has(sy[s].b, "trash")

\* When a sync for a checkpoint succeeds, all the changes that were in the
\* cache when it began are on the disk, and the checkpoint's record may say so
\* (__memp_sync_file: a buffer written as part of a checkpoint and then not
\* flushed "cannot happen"), although handles may be closed after a flush that
\* failed, and an fsync may fail: unless either has slipped by.
CheckpointDurable ==
    \A s \in Syncers :
        sy[s].pc = "done" /\ sy[s].ok /\ ~slip =>
            \A p \in Pages : stable[p] >= sy[s].goal[p]

\* The buffers of a page, the file and the latches together are a store where
\* every page has one content (PageStore): what a thread has stays in the
\* cache and is what was written last, whatever is evicted and read again.
View(t) ==
    IF th[t].pc \in {"hold", "put"}
    THEN [page |-> th[t].page, mode |-> th[t].mode, val |-> buf[th[t].b].val]
    ELSE [page |-> None, mode |-> "none", val |-> 0]

Store == INSTANCE PageStore
             WITH NoPage <- None, Versions <- 1 .. MaxLsn,
                  content <- Content, view <- [t \in Threads |-> View(t)]
PageStoreSpec == Store!Spec
=============================================================================
