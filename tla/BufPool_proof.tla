---------------------------- MODULE BufPool_proof ----------------------------
(***************************************************************************)
(* Proofs about BufPool, for any number of threads, syncers, pages and     *)
(* buffers.                                                                *)
(*                                                                         *)
(* The invariant says of every process what its place in the code tells of *)
(* the header of the buffer it works on (CallOK, SyncOK), and of every     *)
(* header who holds its latch and its references (HeaderOK, Refs).  A step *)
(* changes one process and one header, so that what it means for the       *)
(* others is shown once (ThreadStep, SyncerStep).                          *)
(***************************************************************************)
EXTENDS BufPool, FiniteSetTheorems, TLAPS

Flags == {"dirty", "exclusive", "trash"}
Modes == {"read", "write"}

Headers == [page : Pages \cup {None}, val : Nat, ref : Nat, flags : SUBSET Flags,
            owner : Threads \cup {None}, sharers : SUBSET (Threads \cup Syncers)]

\* The places of a thread by what they mean for its buffer: evicting it with
\* the latch, and having the page of __memp_fget's argument in it.
Evicting == {"evict", "evicted", "unwritten", "reuse"}
Paged    == {"latch", "readlatch", "relatch", "upgrade", "fill", "hold", "put"}
Latching == {"fill", "hold", "put"}

Calls == [pc : {"idle", "alloc", "search", "trylatch"} \cup Evicting \cup Paged,
          page : Pages \cup {None}, mode : Modes \cup {"none"},
          b : Bufs \cup {None}, mine : Bufs \cup {None}]

SyncLatched == {"write", "written", "clean"}
SyncPinned == {"readlatch"} \cup SyncLatched

Works == [pc : {"idle", "walk", "fsync", "synced", "done"} \cup SyncPinned,
          todo : SUBSET Pages, b : Bufs \cup {None}, ok : BOOLEAN,
          flushes : BOOLEAN, refers : BOOLEAN, goal : [Pages -> Nat]]

Outside ==
    fileWritten \in BOOLEAN /\ lsn \in Nat /\ {os, stable} \subseteq [Pages -> Nat]

Shape ==
    /\ buf \in [Bufs -> Headers] /\ th \in [Threads -> Calls]
    /\ sy \in [Syncers -> Works] /\ open \in [Threads -> BOOLEAN]
    /\ hashDirty \in Nat /\ Outside

\* A thread's local variables.
CallShape(c) ==
    /\ c.pc = "idle" => c = Idle
    /\ c.pc # "idle" => c.page \in Pages /\ c.mode \in Modes
    /\ c.b = None <=> c.pc \in {"idle", "alloc", "search"}
    /\ c.mine # None => c.pc \in {"search", "latch", "readlatch", "fill"}
    /\ c.pc = "search" => c.mine # None
    /\ c.pc \in {"relatch", "readlatch"} => c.mode = "read"
    /\ c.pc = "upgrade" => c.mode = "write"

\* What a thread at c.pc knows of the header h of its buffer.
CallOK(t, c, h) ==
    /\ c.pc \in Paged => h.page = c.page
    /\ c.pc \notin Paged => h.page # None
    /\ c.pc \in Evicting => h.owner = t
    /\ c.pc \in {"evict", "evicted", "unwritten"} => "dirty" \in h.flags
    /\ c.pc \in {"evict", "relatch", "upgrade", "hold", "put"} => "trash" \notin h.flags
    /\ c.pc = "fill" =>
         h.owner = t \/ (c.mode = "read" /\ t \in h.sharers /\ "trash" \notin h.flags)
    /\ c.pc \in {"hold", "put"} =>
         IF c.mode = "write" THEN h.owner = t /\ "dirty" \in h.flags ELSE t \in h.sharers

ThreadOf(t) ==
    /\ CallShape(th[t])
    /\ th[t].pc # "idle" => open[t]
    /\ th[t].b # None => CallOK(t, th[t], buf[th[t].b])

\* A syncer's local variables, and what it knows of the header of its buffer.
SyncOK(s, d, h) ==
    /\ h.page \in d.todo
    /\ d.pc \in SyncLatched => s \in h.sharers
    /\ d.pc \in {"write", "written"} => "trash" \notin h.flags

SyncerOf(s) ==
    /\ sy[s].b = None <=> sy[s].pc \notin SyncPinned
    /\ sy[s].b # None => SyncOK(s, sy[s], buf[sy[s].b])

\* Who may hold the latch of buffer b.
Owns(t, b) ==
    /\ th[t].b = b /\ th[t].pc \in Latching \cup Evicting
    /\ th[t].pc \in {"hold", "put"} => th[t].mode = "write"

Shares(x, b) ==
    \/ x \in Threads /\ th[x].b = b /\ th[x].pc \in Latching /\ th[x].mode = "read"
    \/ x \in Syncers /\ sy[x].b = b /\ sy[x].pc \in SyncLatched

\* A header h of buffer b: its latch is held by processes that are where they
\* hold it.  While a buffer is evicted, others only wait for it; and it is
\* trash and dirty only while it is written.
HeaderOK(b, h) ==
    /\ "exclusive" \in h.flags <=> h.owner # None
    /\ h.owner # None => Owns(h.owner, b) /\ h.sharers = {}
    /\ \A x \in h.sharers : Shares(x, b)
    /\ h.page = None => h = Empty
    /\ {"dirty", "trash"} \subseteq h.flags =>
         h.owner # None /\ th[h.owner].pc \in {"evicted", "unwritten"}
    /\ h.owner # None /\ th[h.owner].pc \in Evicting =>
         \A t \in Threads \ {h.owner} :
            th[t].b = b => th[t].pc \in {"latch", "readlatch"}

\* The references of a buffer.  __memp_fput has dropped its own before "put".
Pins(b) ==
    {t \in Threads : th[t].b = b /\ th[t].pc # "put"} \cup {s \in Syncers : sy[s].b = b}

Refs == \A b \in Bufs : buf[b].ref = Cardinality(Pins(b))

\* What a thread has allocated is in no bucket, and its own.
Mines ==
    \A t \in Threads : th[t].mine # None =>
        /\ buf[th[t].mine].page = None
        /\ \A u \in Threads \ {t} : th[u].mine # th[t].mine

\* A page has one buffer.
UniquePage == \A b, c \in Bufs : buf[b].page = buf[c].page /\ buf[b].page # None => b = c

Control ==
    /\ Shape
    /\ \A t \in Threads : ThreadOf(t)
    /\ \A s \in Syncers : SyncerOf(s)
    /\ \A b \in Bufs : HeaderOK(b, buf[b])
    /\ Refs /\ Mines /\ UniquePage /\ DirtyExact

-----------------------------------------------------------------------------
(* The contents of buffers and file.                                       *)

\* A page in the cache, with its content.
Good(h) == h.page # None /\ ("dirty" \in h.flags \/ "trash" \notin h.flags)

\* The content of a buffer that is clean, or was just written, is the file's;
\* that of any other is newer.
ValueOf(b) ==
    LET h == buf[b]
    IN  /\ h.val <= lsn
        /\ Good(h) => os[h.page] <= h.val
        /\ Good(h) /\ "dirty" \notin h.flags => h.val = os[h.page]

Values ==
    /\ lsn \in 0 .. MaxLsn /\ logged \in 0 .. lsn
    /\ \A p \in Pages : stable[p] <= os[p] /\ os[p] <= logged
    /\ \A b \in Bufs : ValueOf(b)
    /\ \A t \in Threads : th[t].pc = "evicted" => buf[th[t].b].val = os[buf[th[t].b].page]
    /\ \A s \in Syncers : sy[s].pc = "written" => buf[sy[s].b].val = os[buf[sy[s].b].page]

\* What a syncer that has had no error still has to bring to the file: the pages
\* it has not come to.
Reached(s) ==
    sy[s].ok /\ sy[s].pc # "idle" =>
        \A p \in Pages :
            /\ sy[s].goal[p] <= Content[p]
            /\ p \notin sy[s].todo => sy[s].goal[p] <= os[p]
            /\ sy[s].pc \in {"written", "clean"} /\ p = buf[sy[s].b].page =>
                 sy[s].goal[p] <= os[p]
            /\ sy[s].pc = "synced" \/ (sy[s].pc = "done" /\ ~slip) =>
                 sy[s].goal[p] <= stable[p]

\* A sync without an error still has to come to every dirty buffer, and has
\* brought the others to the disk.
Covered(s) ==
    sy[s].ok /\ sy[s].pc # "idle" =>
        /\ \A b \in Dirties : buf[b].page \in sy[s].todo
        /\ sy[s].pc = "clean" => sy[s].b \notin Dirties
        /\ sy[s].pc = "synced" => stable = os

Clean == Dirties = {} /\ stable = os

\* What fsync has still to bring to the disk is noted in file_written, but for
\* changes of threads that still have the page.  Once no thread has the file
\* open, there is nothing; or the last close went wrong before any sync that is
\* running began.
Flushed ==
    ~slip =>
      /\ ~fileWritten =>
           /\ stable = os
           /\ \A b \in Dirties : buf[b].owner # None /\ th[buf[b].owner].pc = "hold"
      /\ (\A t \in Threads : ~open[t]) =>
           Clean \/ (fileWritten /\ \A s \in Syncers : Covered(s))

\* __memp_sync_file has nothing left to write, and refers to the file.
Referring ==
    \A s \in Syncers : /\ sy[s].pc \in {"fsync", "synced", "done"} => sy[s].todo = {}
                       /\ sy[s].refers <=> sy[s].pc \in {"fsync", "synced"}

Durable == Flushed /\ Referring /\ \A s \in Syncers : Reached(s)

-----------------------------------------------------------------------------
(* The operators of the model.                                             *)

\* What each change of a header does, field by field.
LEMMA LatchedIs ==
    ASSUME NEW h \in Headers, NEW t \in Threads
    PROVE  LET g == Latched(h, t)
           IN  /\ g \in Headers /\ g.page = h.page /\ g.val = h.val /\ g.ref = h.ref
               /\ g.flags = h.flags \cup {"exclusive"}
               /\ g.owner = t /\ g.sharers = h.sharers
BY DEF Latched, Headers, Flags

LEMMA ReadLatchedIs ==
    ASSUME NEW h \in Headers, NEW t \in Threads \cup Syncers
    PROVE  LET g == ReadLatched(h, t)
           IN  /\ g \in Headers /\ g.page = h.page /\ g.val = h.val /\ g.ref = h.ref
               /\ g.flags = h.flags /\ g.owner = h.owner
               /\ g.sharers = h.sharers \cup {t}
BY DEF ReadLatched, Headers

LEMMA UnlatchedIs ==
    ASSUME NEW h \in Headers, NEW t \in Threads \cup Syncers
    PROVE  LET g == Unlatched(h, t)
           IN  /\ g \in Headers /\ g.page = h.page /\ g.val = h.val /\ g.ref = h.ref
               /\ h.owner = t => /\ g.flags = h.flags \ {"exclusive"}
                                 /\ g.owner = None /\ g.sharers = h.sharers
               /\ h.owner # t => /\ g.flags = h.flags /\ g.owner = h.owner
                                 /\ g.sharers = h.sharers \ {t}
<1>1. CASE h.owner = t
  BY <1>1 DEF Unlatched, Headers
<1>2. CASE h.owner # t
  BY <1>2 DEF Unlatched, Headers
<1> QED BY <1>1, <1>2

LEMMA PinnedIs ==
    ASSUME NEW h \in Headers
    PROVE  LET g == Pinned(h)
           IN  /\ g \in Headers /\ g.page = h.page /\ g.val = h.val
               /\ g.ref = h.ref + 1 /\ g.flags = h.flags /\ g.owner = h.owner
               /\ g.sharers = h.sharers
BY DEF Pinned, Headers

LEMMA UnpinnedIs ==
    ASSUME NEW h \in Headers, h.ref # 0
    PROVE  LET g == Unpinned(h)
           IN  /\ g \in Headers /\ g.page = h.page /\ g.val = h.val
               /\ g.ref = h.ref - 1 /\ g.flags = h.flags /\ g.owner = h.owner
               /\ g.sharers = h.sharers
BY DEF Unpinned, Headers

LEMMA FlagsIs ==
    ASSUME NEW h \in Headers, NEW F \in SUBSET Flags
    PROVE  LET g == [h EXCEPT !.flags = F]
           IN  /\ g \in Headers /\ g.page = h.page /\ g.val = h.val /\ g.ref = h.ref
               /\ g.flags = F /\ g.owner = h.owner /\ g.sharers = h.sharers
BY DEF Headers

LEMMA EmptyIs == Empty \in Headers
BY DEF Empty, Headers, Flags

LEMMA PinsFinite ==
    ASSUME NEW b
    PROVE  IsFiniteSet(Pins(b)) /\ Cardinality(Pins(b)) \in Nat
<1>1. Pins(b) \in SUBSET (Threads \cup Syncers)
  BY DEF Pins
<1> QED BY <1>1, BufAssumption, FS_Subset, FS_CardinalityType

LEMMA DirtiesFinite == IsFiniteSet(Dirties) /\ Cardinality(Dirties) \in Nat
<1>1. Dirties \in SUBSET Bufs
  BY DEF Dirties
<1> QED BY <1>1, BufAssumption, FS_Subset, FS_CardinalityType

\* A buffer that somebody has a reference of has one.
LEMMA PinnedRef ==
    ASSUME Refs, NEW b \in Bufs, NEW x \in Pins(b)
    PROVE  buf[b].ref # 0
BY PinsFinite, FS_EmptySet DEF Refs

\* hash_page_dirty follows the flag of the one buffer that changes.
LEMMA CountDirty ==
    ASSUME DirtyExact, hashDirty \in Nat, NEW b \in Bufs,
           \A c \in Bufs \ {b} : buf'[c].flags = buf[c].flags,
           hashDirty' =
             IF "dirty" \in buf[b].flags
             THEN (IF "dirty" \in buf'[b].flags THEN hashDirty ELSE hashDirty - 1)
             ELSE (IF "dirty" \in buf'[b].flags THEN hashDirty + 1 ELSE hashDirty)
    PROVE  DirtyExact' /\ hashDirty' \in Nat
<1>1. Dirties' = IF "dirty" \in buf'[b].flags THEN Dirties \cup {b} ELSE Dirties \ {b}
  BY DEF Dirties, Has
<1>2. b \in Dirties <=> "dirty" \in buf[b].flags
  BY DEF Dirties, Has
<1>3. hashDirty = Cardinality(Dirties) /\ IsFiniteSet(Dirties)
  BY DirtiesFinite DEF DirtyExact
<1>4. /\ Cardinality(Dirties \cup {b}) =
           IF b \in Dirties THEN Cardinality(Dirties) ELSE Cardinality(Dirties) + 1
      /\ Cardinality(Dirties \ {b}) =
           IF b \in Dirties THEN Cardinality(Dirties) - 1 ELSE Cardinality(Dirties)
  BY <1>3, FS_AddElement, FS_RemoveElement
<1>5. IsFiniteSet(Dirties \ {b}) /\ Cardinality(Dirties \ {b}) \in Nat
  BY <1>3, FS_RemoveElement, FS_CardinalityType
<1>6. hashDirty' = Cardinality(Dirties')
  BY <1>1, <1>2, <1>3, <1>4
<1>7. hashDirty' \in Nat
  BY <1>1, <1>3, <1>4, <1>5, <1>6
<1> QED BY <1>6, <1>7 DEF DirtyExact

\* The count of references follows the one process that gains or drops one.
LEMMA CountPins ==
    ASSUME Refs, NEW b \in Bufs, NEW x, Pins(b)' \in {Pins(b), Pins(b) \cup {x}, Pins(b) \ {x}},
           NEW r,
           r = IF x \in Pins(b) THEN (IF x \in Pins(b)' THEN buf[b].ref ELSE buf[b].ref - 1)
               ELSE (IF x \in Pins(b)' THEN buf[b].ref + 1 ELSE buf[b].ref)
    PROVE  r = Cardinality(Pins(b)')
<1>1. buf[b].ref = Cardinality(Pins(b)) /\ IsFiniteSet(Pins(b)) /\ Cardinality(Pins(b)) \in Nat
  BY PinsFinite DEF Refs
<1> DEFINE P == Pins(b)
           Q == Pins(b)'
<1>2. /\ Cardinality(P \cup {x}) = IF x \in P THEN Cardinality(P) ELSE Cardinality(P) + 1
      /\ Cardinality(P \ {x}) = IF x \in P THEN Cardinality(P) - 1 ELSE Cardinality(P)
  BY <1>1, FS_AddElement, FS_RemoveElement
<1>3. Q \in {P, P \cup {x}, P \ {x}}
  OBVIOUS
<1>4. /\ x \in P /\ x \in Q => Q = P
      /\ x \notin P /\ x \notin Q => Q = P
      /\ x \in P /\ x \notin Q => Q = P \ {x}
      /\ x \notin P /\ x \in Q => Q = P \cup {x}
  BY <1>3
<1> HIDE DEF P, Q
<1> QED BY <1>1, <1>2, <1>4 DEF P, Q

-----------------------------------------------------------------------------
(* What a step of one process leaves to the others.                        *)

\* A thread has a reference of its buffer, unless it has dropped it.
Pinning(c, b) == c.b = b /\ c.pc # "put"

\* The reference count of a header, when a process pins and unpins.
Counted(old, had, has) ==
    IF had THEN (IF has THEN old ELSE old - 1) ELSE (IF has THEN old + 1 ELSE old)

\* The latch of header g became that of h by what thread t did.
LatchMoves(t, g, h) ==
    /\ h.owner \in {g.owner, t, None}
    /\ g.owner # h.owner => g.owner \in {None, t}
    /\ h.sharers \in {g.sharers, g.sharers \cup {t}, g.sharers \ {t}}
    /\ "exclusive" \in h.flags <=> h.owner # None
    /\ h.owner # None => h.sharers = {}

\* What thread t, then at c, has of the latch of header h.
LatchOf(t, b, c, h) ==
    /\ h.owner = t => /\ c.b = b /\ c.pc \in Latching \cup Evicting
                      /\ c.pc \in {"hold", "put"} => c.mode = "write"
    /\ t \in h.sharers => c.b = b /\ c.pc \in Latching /\ c.mode = "read"

\* Thread t goes from th[t] to c, and the header of buffer b to h.
ThreadMoves(t, b, c, h) ==
    LET g == buf[b]
    IN  /\ t \in Threads /\ b \in Bufs /\ c \in Calls /\ h \in Headers
        /\ open[t] /\ th[t].b \in {b, None} /\ c.b \in {b, None}
        /\ g.page # None /\ h.page = g.page
        /\ CallShape(c) /\ c.mine \in {None, th[t].mine}
        /\ c.b = b => CallOK(t, c, h)
        /\ LatchMoves(t, g, h) /\ LatchOf(t, b, c, h)
        /\ "dirty" \in g.flags \ h.flags => g.owner \in {t, None}
        /\ "trash" \in h.flags \ g.flags => th[t].pc = "evict"
        /\ {"dirty", "trash"} \subseteq h.flags =>
             IF h.owner = t THEN c.pc \in {"evicted", "unwritten"}
             ELSE {"dirty", "trash"} \subseteq g.flags /\ g.owner # t
        /\ h.owner = t /\ c.pc \in Evicting =>
             \A u \in Threads \ {t} : th[u].b = b => th[u].pc \in {"latch", "readlatch"}
        /\ h.owner \notin {None, t} /\ th[h.owner].pc \in Evicting /\ c.b = b =>
             c.pc \in {"latch", "readlatch"}
        /\ h.ref = Counted(g.ref, Pinning(th[t], b), Pinning(c, b))

LEMMA ThreadStep ==
    ASSUME Control, NEW t, NEW b, NEW c, NEW h, ThreadMoves(t, b, c, h),
           buf' = [buf EXCEPT ![b] = h], th' = [th EXCEPT ![t] = c],
           UNCHANGED <<sy, open>>, Outside',
           hashDirty' = Counted(hashDirty, "dirty" \in buf[b].flags, "dirty" \in h.flags)
    PROVE  Control'
<1> DEFINE g == buf[b]
<1>0. /\ t \in Threads /\ b \in Bufs /\ c \in Calls /\ h \in Headers
      /\ t # None /\ b # None /\ t \notin Syncers
  BY BufAssumption DEF ThreadMoves
<1>1. Shape /\ Refs /\ Mines /\ UniquePage /\ DirtyExact
  BY DEF Control
<1>2. /\ buf' \in [Bufs -> Headers] /\ th' \in [Threads -> Calls]
      /\ buf'[b] = h /\ \A d \in Bufs \ {b} : buf'[d] = buf[d]
      /\ th'[t] = c /\ \A u \in Threads \ {t} : th'[u] = th[u]
  BY <1>0, <1>1 DEF Shape
<1>3. ThreadOf(t) /\ HeaderOK(b, g)
  BY <1>0 DEF Control
<1>4. DirtyExact' /\ hashDirty' \in Nat
  BY <1>0, <1>1, <1>2, CountDirty DEF Shape, Counted
<1>5. Shape'
  BY <1>1, <1>2, <1>4 DEF Shape
<1>6. ASSUME NEW u \in Threads
      PROVE  ThreadOf(u)'
  <2>1. CASE u = t
    BY <1>0, <1>2, <2>1 DEF ThreadMoves, ThreadOf
  <2>2. CASE u # t
    <3>1. ThreadOf(u)
      BY DEF Control
    <3>2. CASE th[u].b # b
      <4>1. th[u].b # None => th[u].b \in Bufs
        BY <1>1 DEF Shape, Calls
      <4> QED BY <1>2, <2>2, <3>1, <3>2, <4>1 DEF ThreadOf
    <3>3. CASE th[u].b = b
      <4>1. CallOK(u, th[u], g) /\ u # None
        BY <1>0, <3>1, <3>3, BufAssumption DEF ThreadOf
      <4>2. u \in g.sharers => u \in h.sharers
        BY <1>0, <2>2, <4>1 DEF ThreadMoves, LatchMoves
      <4>3. g.owner = u /\ "dirty" \in g.flags => "dirty" \in h.flags
        BY <1>0, <2>2, <4>1 DEF ThreadMoves
      <4>4. "trash" \in h.flags => "trash" \in g.flags \/ th[u].pc \in {"latch", "readlatch"}
        <5>1. CASE "trash" \in h.flags \ g.flags
          <6>1. th[t].pc = "evict" /\ th[t].b = b
            BY <1>0, <1>3, <5>1 DEF ThreadMoves, ThreadOf, CallShape
          <6>2. g.owner = t
            BY <1>0, <1>3, <6>1 DEF ThreadOf, CallOK, Evicting
          <6> QED BY <1>0, <1>3, <2>2, <3>3, <6>1, <6>2 DEF HeaderOK, Evicting
        <5> QED BY <5>1
      <4>5. CallOK(u, th[u], h)
        <5>1. h.page = g.page /\ (g.owner = u => h.owner = u)
          BY <1>0, <2>2, <4>1 DEF ThreadMoves, LatchMoves
        <5> QED BY <4>1, <4>2, <4>3, <4>4, <5>1 DEF CallOK, Evicting, Paged
      <4> QED BY <1>2, <2>2, <3>1, <3>3, <4>5 DEF ThreadOf
    <3> QED BY <3>2, <3>3
  <2> QED BY <2>1, <2>2
<1>7. ASSUME NEW s \in Syncers
      PROVE  SyncerOf(s)'
  <2>1. SyncerOf(s) /\ s # t
    BY <1>0 DEF Control
  <2>2. CASE sy[s].b # b
    <3>1. sy[s].b # None => sy[s].b \in Bufs
      BY <1>1 DEF Shape, Works
    <3> QED BY <1>2, <2>1, <2>2, <3>1 DEF SyncerOf
  <2>3. CASE sy[s].b = b
    <3>1. SyncOK(s, sy[s], g)
      BY <1>0, <2>1, <2>3 DEF SyncerOf
    <3>2. h.page = g.page /\ (s \in g.sharers => s \in h.sharers)
      BY <2>1 DEF ThreadMoves, LatchMoves
    <3>3. "trash" \in h.flags /\ "trash" \notin g.flags => s \notin g.sharers
      <4> SUFFICES ASSUME "trash" \in h.flags \ g.flags
                   PROVE  s \notin g.sharers
        OBVIOUS
      <4>1. th[t].pc = "evict" /\ th[t].b = b
        BY <1>0, <1>3 DEF ThreadMoves, ThreadOf, CallShape
      <4>2. g.owner = t
        BY <1>0, <1>3, <4>1 DEF ThreadOf, CallOK, Evicting
      <4> QED BY <1>0, <1>3, <4>2 DEF HeaderOK
    <3>4. SyncOK(s, sy[s], h)
      BY <3>1, <3>2, <3>3 DEF SyncOK, SyncLatched
    <3> QED BY <1>2, <2>1, <2>3, <3>4 DEF SyncerOf
  <2> QED BY <2>2, <2>3
<1>8. ASSUME NEW d \in Bufs
      PROVE  HeaderOK(d, buf[d])'
  <2>1. CASE d # b
    <3>1. HeaderOK(d, buf[d]) /\ buf'[d] = buf[d]
      BY <1>2, <2>1 DEF Control
    <3>2. th[t].b # d /\ th'[t].b # d
      BY <1>0, <1>2, <2>1, BufAssumption DEF ThreadMoves
    <3>3. \A x \in Threads : Owns(x, d) => x # t /\ Owns(x, d)'
      BY <1>2, <3>2 DEF Owns
    <3>4. \A x \in Threads \cup Syncers : Shares(x, d) => Shares(x, d)'
      BY <1>0, <1>2, <3>2 DEF Shares
    <3>5. buf[d].owner \in Threads \cup {None} /\ buf[d].sharers \subseteq Threads \cup Syncers
      BY <1>1 DEF Shape, Headers
    <3>6. buf[d].owner # None => buf[d].owner # t /\ th'[buf[d].owner] = th[buf[d].owner]
      BY <1>2, <3>1, <3>3, <3>5 DEF HeaderOK
    <3>7. \A u \in Threads : th'[u].b = d => u # t /\ th'[u] = th[u]
      BY <1>2, <3>2
    <3> QED BY <3>1, <3>3, <3>4, <3>5, <3>6, <3>7 DEF HeaderOK
  <2>2. CASE d = b
    <3>1. "exclusive" \in h.flags <=> h.owner # None
      BY DEF ThreadMoves, LatchMoves
    <3>2. g.owner \in Threads \cup {None} /\ g.sharers \subseteq Threads \cup Syncers
      BY <1>0, <1>1 DEF Shape, Headers
    <3>3. h.owner # None => Owns(h.owner, b)' /\ h.sharers = {}
      <4>1. CASE h.owner = t
        BY <1>0, <1>2, <4>1 DEF ThreadMoves, LatchMoves, LatchOf, Owns
      <4>2. CASE h.owner \notin {t, None}
        <5>1. h.owner = g.owner /\ h.owner \in Threads
          BY <3>2, <4>2 DEF ThreadMoves, LatchMoves
        <5> QED BY <1>2, <1>3, <4>2, <5>1 DEF HeaderOK, Owns, ThreadMoves, LatchMoves
      <4> QED BY <4>1, <4>2
    <3>4. \A x \in h.sharers : Shares(x, b)'
      <4> SUFFICES ASSUME NEW x \in h.sharers
                   PROVE  Shares(x, b)'
        OBVIOUS
      <4>1. CASE x = t
        BY <1>0, <1>2, <4>1 DEF ThreadMoves, LatchOf, Shares
      <4>2. CASE x # t
        <5>1. x \in g.sharers
          BY <4>2 DEF ThreadMoves, LatchMoves
        <5> QED BY <1>2, <1>3, <4>2, <5>1 DEF HeaderOK, Shares
      <4> QED BY <4>1, <4>2
    <3>5. h.page # None
      BY DEF ThreadMoves
    <3>6. {"dirty", "trash"} \subseteq h.flags =>
            h.owner # None /\ th'[h.owner].pc \in {"evicted", "unwritten"}
      <4>1. CASE h.owner = t
        BY <1>0, <1>2, <4>1 DEF ThreadMoves
      <4>2. CASE h.owner # t
        <5> SUFFICES ASSUME {"dirty", "trash"} \subseteq h.flags
                     PROVE  h.owner # None /\ th'[h.owner].pc \in {"evicted", "unwritten"}
          OBVIOUS
        <5>1. {"dirty", "trash"} \subseteq g.flags /\ g.owner # t
          BY <4>2 DEF ThreadMoves
        <5>2. g.owner # None /\ th[g.owner].pc \in {"evicted", "unwritten"}
          BY <1>3, <5>1 DEF HeaderOK
        <5>3. h.owner = g.owner /\ g.owner \in Threads
          BY <3>2, <5>1, <5>2 DEF ThreadMoves, LatchMoves
        <5> QED BY <1>2, <5>1, <5>2, <5>3
      <4> QED BY <4>1, <4>2
    <3>7. h.owner # None /\ th'[h.owner].pc \in Evicting =>
            \A u \in Threads \ {h.owner} :
              th'[u].b = b => th'[u].pc \in {"latch", "readlatch"}
      <4>1. CASE h.owner = t
        BY <1>0, <1>2, <4>1 DEF ThreadMoves
      <4>2. CASE h.owner \notin {t, None}
        <5>1. h.owner = g.owner /\ h.owner \in Threads
          BY <3>2, <4>2 DEF ThreadMoves, LatchMoves
        <5> SUFFICES ASSUME th'[h.owner].pc \in Evicting,
                            NEW u \in Threads \ {h.owner}, th'[u].b = b
                     PROVE  th'[u].pc \in {"latch", "readlatch"}
          OBVIOUS
        <5>2. th[h.owner].pc \in Evicting
          BY <1>2, <4>2, <5>1
        <5>3. CASE u = t
          BY <1>0, <1>2, <4>2, <5>2, <5>3 DEF ThreadMoves
        <5>4. CASE u # t
          BY <1>2, <1>3, <4>2, <5>1, <5>2, <5>4 DEF HeaderOK
        <5> QED BY <5>3, <5>4
      <4> QED BY <4>1, <4>2
    <3> QED BY <1>2, <2>2, <3>1, <3>3, <3>4, <3>5, <3>6, <3>7 DEF HeaderOK
  <2> QED BY <2>1, <2>2
<1>9. Refs'
  <2> SUFFICES ASSUME NEW d \in Bufs
               PROVE  buf'[d].ref = Cardinality(Pins(d)')
    BY DEF Refs
  <2>1. CASE d # b
    <3>1. Pins(d)' = Pins(d)
      <4>1. th[t].b # d /\ th'[t].b # d
        BY <1>0, <1>2, <2>1, BufAssumption DEF ThreadMoves
      <4> QED BY <1>2, <4>1 DEF Pins
    <3> QED BY <1>1, <1>2, <2>1, <3>1 DEF Refs
  <2>2. CASE d = b
    <3>1. /\ t \in Pins(b) <=> Pinning(th[t], b)
          /\ t \in Pins(b)' <=> Pinning(c, b)
      BY <1>0, <1>2 DEF Pins, Pinning
    <3>2. \A x : x # t => (x \in Pins(b) <=> x \in Pins(b)')
      BY <1>2 DEF Pins
    <3>3. Pins(b)' \in {Pins(b), Pins(b) \cup {t}, Pins(b) \ {t}}
      <4>1. Pins(b)' = IF t \in Pins(b)' THEN Pins(b) \cup {t} ELSE Pins(b) \ {t}
        BY <3>2
      <4> QED BY <4>1
    <3>4. h.ref = IF t \in Pins(b)
                  THEN (IF t \in Pins(b)' THEN g.ref ELSE g.ref - 1)
                  ELSE (IF t \in Pins(b)' THEN g.ref + 1 ELSE g.ref)
      BY <3>1 DEF ThreadMoves, Counted
    <3>5. h.ref = Cardinality(Pins(b)')
      BY <1>0, <1>1, <3>3, <3>4, CountPins
    <3> QED BY <1>2, <2>2, <3>5
  <2> QED BY <2>1, <2>2
<1>10. \A d \in Bufs : buf'[d].page = buf[d].page
  BY <1>0, <1>2 DEF ThreadMoves
<1>11. Mines'
  <2>1. \A u \in Threads : th'[u].mine \in {None, th[u].mine}
    BY <1>0, <1>2 DEF ThreadMoves
  <2>2. \A u \in Threads : th[u].mine # None => th[u].mine \in Bufs
    BY <1>1 DEF Shape, Calls
  <2> QED BY <1>1, <1>10, <2>1, <2>2 DEF Mines
<1>12. UniquePage'
  BY <1>1, <1>10 DEF UniquePage
<1> QED BY <1>4, <1>5, <1>6, <1>7, <1>8, <1>9, <1>11, <1>12 DEF Control

\* Syncer s goes from sy[s] to d, and the header of buffer b to h.
SyncerMoves(s, b, d, h) ==
    LET g == buf[b]
    IN  /\ s \in Syncers /\ b \in Bufs /\ d \in Works /\ h \in Headers
        /\ sy[s].b \in {b, None} /\ d.b \in {b, None}
        /\ g.page # None /\ h.page = g.page /\ h.owner = g.owner
        /\ d.b = None <=> d.pc \notin SyncPinned
        /\ d.b = b => SyncOK(s, d, h)
        /\ h.sharers \in {g.sharers, g.sharers \cup {s}, g.sharers \ {s}}
        /\ h.owner # None => h.sharers = {}
        /\ s \in h.sharers => d.b = b /\ d.pc \in SyncLatched
        /\ h.flags \in {g.flags, g.flags \ {"dirty"}}
        /\ "dirty" \in g.flags \ h.flags => s \in g.sharers
        /\ h.ref = Counted(g.ref, sy[s].b = b, d.b = b)

LEMMA SyncerStep ==
    ASSUME Control, NEW s, NEW b, NEW d, NEW h, SyncerMoves(s, b, d, h),
           buf' = [buf EXCEPT ![b] = h], sy' = [sy EXCEPT ![s] = d],
           UNCHANGED <<th, open>>, Outside',
           hashDirty' = Counted(hashDirty, "dirty" \in buf[b].flags, "dirty" \in h.flags)
    PROVE  Control'
<1> DEFINE g == buf[b]
<1>0. /\ s \in Syncers /\ b \in Bufs /\ d \in Works /\ h \in Headers
      /\ s # None /\ b # None /\ s \notin Threads
  BY BufAssumption DEF SyncerMoves
<1>1. Shape /\ Refs /\ Mines /\ UniquePage /\ DirtyExact
  BY DEF Control
<1>2. /\ buf' \in [Bufs -> Headers] /\ sy' \in [Syncers -> Works]
      /\ buf'[b] = h /\ \A e \in Bufs \ {b} : buf'[e] = buf[e]
      /\ sy'[s] = d /\ \A r \in Syncers \ {s} : sy'[r] = sy[r]
  BY <1>0, <1>1 DEF Shape
<1>3. SyncerOf(s) /\ HeaderOK(b, g)
  BY <1>0 DEF Control
<1>4. DirtyExact' /\ hashDirty' \in Nat
  BY <1>0, <1>1, <1>2, CountDirty DEF Shape, Counted
<1>5. Shape'
  BY <1>1, <1>2, <1>4 DEF Shape
<1>6. /\ h.page = g.page /\ h.owner = g.owner
      /\ "trash" \in h.flags <=> "trash" \in g.flags
      /\ "exclusive" \in h.flags <=> "exclusive" \in g.flags
      /\ "dirty" \in h.flags => "dirty" \in g.flags
      /\ g.owner # None => h.flags = g.flags
  <2>1. /\ h.page = g.page /\ h.owner = g.owner /\ h.flags \in {g.flags, g.flags \ {"dirty"}}
        /\ h.owner # None => h.sharers = {}
        /\ "dirty" \in g.flags \ h.flags => s \in g.sharers
    BY DEF SyncerMoves
  <2>2. g.owner # None => g.sharers = {}
    BY <1>3 DEF HeaderOK
  <2>3. /\ "trash" \in h.flags <=> "trash" \in g.flags
        /\ "exclusive" \in h.flags <=> "exclusive" \in g.flags
        /\ "dirty" \in h.flags => "dirty" \in g.flags
    BY <2>1
  <2>4. g.owner # None => h.flags = g.flags
    BY <2>1, <2>2
  <2> QED BY <2>1, <2>3, <2>4
<1>7. ASSUME NEW t \in Threads
      PROVE  ThreadOf(t)'
  <2>1. ThreadOf(t) /\ t # s /\ t # None
    BY <1>0, BufAssumption DEF Control
  <2>2. CASE th[t].b # b
    <3>1. th[t].b # None => th[t].b \in Bufs
      BY <1>1 DEF Shape, Calls
    <3> QED BY <1>2, <2>1, <2>2, <3>1 DEF ThreadOf
  <2>3. CASE th[t].b = b
    <3>1. CallOK(t, th[t], g)
      BY <1>0, <2>1, <2>3 DEF ThreadOf
    <3>2. t \in g.sharers => t \in h.sharers
      BY <2>1 DEF SyncerMoves
    <3>3. CallOK(t, th[t], h)
      BY <1>6, <2>1, <3>1, <3>2 DEF CallOK, Evicting
    <3> QED BY <1>2, <2>1, <2>3, <3>3 DEF ThreadOf
  <2> QED BY <2>2, <2>3
<1>8. ASSUME NEW r \in Syncers
      PROVE  SyncerOf(r)'
  <2>1. CASE r = s
    BY <1>0, <1>2, <2>1 DEF SyncerMoves, SyncerOf
  <2>2. CASE r # s
    <3>1. SyncerOf(r)
      BY DEF Control
    <3>2. CASE sy[r].b # b
      <4>1. sy[r].b # None => sy[r].b \in Bufs
        BY <1>1 DEF Shape, Works
      <4> QED BY <1>2, <2>2, <3>1, <3>2, <4>1 DEF SyncerOf
    <3>3. CASE sy[r].b = b
      <4>1. r \in g.sharers => r \in h.sharers
        BY <2>2 DEF SyncerMoves
      <4>2. SyncOK(r, sy[r], h)
        BY <1>0, <1>6, <3>1, <3>3, <4>1 DEF SyncerOf, SyncOK
      <4> QED BY <1>2, <2>2, <3>1, <3>3, <4>2 DEF SyncerOf
    <3> QED BY <3>2, <3>3
  <2> QED BY <2>1, <2>2
<1>9. ASSUME NEW e \in Bufs
      PROVE  HeaderOK(e, buf[e])'
  <2>1. CASE e # b
    <3>1. HeaderOK(e, buf[e]) /\ buf'[e] = buf[e]
      BY <1>2, <2>1 DEF Control
    <3>2. sy[s].b # e
      BY <1>0, <2>1, BufAssumption DEF SyncerMoves
    <3>3. \A x : Owns(x, e)' <=> Owns(x, e)
      BY DEF Owns
    <3>4. \A x \in buf[e].sharers : Shares(x, e)'
      BY <1>2, <3>1, <3>2 DEF Shares, HeaderOK
    <3> QED BY <3>1, <3>3, <3>4 DEF HeaderOK
  <2>2. CASE e = b
    <3>1. \A x : Owns(x, b)' <=> Owns(x, b)
      BY DEF Owns
    <3>2. \A x \in h.sharers : Shares(x, b)'
      <4> SUFFICES ASSUME NEW x \in h.sharers
                   PROVE  Shares(x, b)'
        OBVIOUS
      <4>1. CASE x = s
        BY <1>0, <1>2, <4>1 DEF SyncerMoves, Shares
      <4>2. CASE x # s
        <5>1. x \in g.sharers
          BY <4>2 DEF SyncerMoves
        <5> QED BY <1>2, <1>3, <4>2, <5>1 DEF HeaderOK, Shares
      <4> QED BY <4>1, <4>2
    <3>3. h.page # None /\ (h.owner # None => h.sharers = {})
      BY DEF SyncerMoves
    <3>4. HeaderOK(b, h)'
      BY <1>3, <1>6, <3>1, <3>2, <3>3 DEF HeaderOK
    <3> QED BY <1>2, <2>2, <3>4
  <2> QED BY <2>1, <2>2
<1>10. Refs'
  <2> SUFFICES ASSUME NEW e \in Bufs
               PROVE  buf'[e].ref = Cardinality(Pins(e)')
    BY DEF Refs
  <2>1. CASE e # b
    <3>1. Pins(e)' = Pins(e)
      <4>1. sy[s].b # e /\ sy'[s].b # e
        BY <1>0, <1>2, <2>1, BufAssumption DEF SyncerMoves
      <4> QED BY <1>2, <4>1 DEF Pins
    <3> QED BY <1>1, <1>2, <2>1, <3>1 DEF Refs
  <2>2. CASE e = b
    <3>1. (s \in Pins(b) <=> sy[s].b = b) /\ (s \in Pins(b)' <=> d.b = b)
      BY <1>0, <1>2 DEF Pins
    <3>2. \A x : x # s => (x \in Pins(b) <=> x \in Pins(b)')
      BY <1>2 DEF Pins
    <3>3. Pins(b)' \in {Pins(b), Pins(b) \cup {s}, Pins(b) \ {s}}
      <4>1. Pins(b)' = IF s \in Pins(b)' THEN Pins(b) \cup {s} ELSE Pins(b) \ {s}
        BY <3>2
      <4> QED BY <4>1
    <3>4. h.ref = IF s \in Pins(b)
                  THEN (IF s \in Pins(b)' THEN g.ref ELSE g.ref - 1)
                  ELSE (IF s \in Pins(b)' THEN g.ref + 1 ELSE g.ref)
      BY <3>1 DEF SyncerMoves, Counted
    <3>5. h.ref = Cardinality(Pins(b)')
      BY <1>0, <1>1, <3>3, <3>4, CountPins
    <3> QED BY <1>2, <2>2, <3>5
  <2> QED BY <2>1, <2>2
<1>11. \A e \in Bufs : buf'[e].page = buf[e].page
  BY <1>0, <1>2 DEF SyncerMoves
<1>12. Mines'
  <2>1. \A u \in Threads : th[u].mine # None => th[u].mine \in Bufs
    BY <1>1 DEF Shape, Calls
  <2> QED BY <1>1, <1>11, <2>1 DEF Mines
<1>13. UniquePage'
  BY <1>1, <1>11 DEF UniquePage
<1> QED BY <1>4, <1>5, <1>7, <1>8, <1>9, <1>10, <1>12, <1>13 DEF Control

\* Nobody moves from or to a buffer: a thread between two buffers, a syncer
\* between two pages, or a handle.
LEMMA AwayStep ==
    ASSUME Control, UNCHANGED <<buf, hashDirty>>, Outside',
           th' \in [Threads -> Calls], sy' \in [Syncers -> Works],
           open' \in [Threads -> BOOLEAN],
           \A t \in Threads :
             \/ th'[t] = th[t]
             \/ th[t].b = None /\ th'[t].b = None /\ CallShape(th'[t]),
           \A t \in Threads : th'[t].pc # "idle" => open'[t],
           \A s \in Syncers :
             \/ sy'[s].b = sy[s].b /\ sy'[s].pc = sy[s].pc /\ sy'[s].todo = sy[s].todo
             \/ sy[s].b = None /\ sy'[s].b = None /\ sy'[s].pc \notin SyncPinned,
           Mines'
    PROVE  Control'
<1>1. Shape'
  BY DEF Control, Shape
<1>2. \A t \in Threads : th'[t].b = th[t].b
  OBVIOUS
<1>3. \A s \in Syncers : sy'[s].b = sy[s].b
  OBVIOUS
<1>4. ASSUME NEW t \in Threads
      PROVE  ThreadOf(t)'
  BY DEF Control, ThreadOf
<1>5. ASSUME NEW s \in Syncers
      PROVE  SyncerOf(s)'
  BY DEF Control, SyncerOf, SyncOK
<1>6. ASSUME NEW b \in Bufs
      PROVE  HeaderOK(b, buf[b])'
  <2>1. HeaderOK(b, buf[b]) /\ b # None
    BY BufAssumption DEF Control
  <2>2. \A t \in Threads : th[t].b = b => th'[t] = th[t]
    BY <2>1
  <2>3. buf[b].owner \in Threads \cup {None} /\ buf[b].sharers \subseteq Threads \cup Syncers
    BY DEF Control, Shape, Headers
  <2>4. /\ \A t \in Threads : Owns(t, b) => Owns(t, b)' /\ th'[t] = th[t]
        /\ \A x \in Threads \cup Syncers : Shares(x, b) => Shares(x, b)'
    <3>1. ASSUME NEW x \in Threads \cup Syncers, Shares(x, b)
          PROVE  Shares(x, b)'
      <4>1. CASE x \in Threads /\ th[x].b = b
        BY <2>2, <3>1, <4>1, BufAssumption DEF Shares
      <4>2. CASE x \in Syncers /\ sy[x].b = b /\ sy[x].pc \in SyncLatched
        BY <2>1, <4>2 DEF Shares
      <4> QED BY <3>1, <4>1, <4>2 DEF Shares
    <3> QED BY <2>2, <3>1 DEF Owns
  <2>5. \A t \in Threads : th'[t].b = b => th'[t] = th[t]
    BY <1>2, <2>2
  <2> QED BY <2>1, <2>3, <2>4, <2>5 DEF HeaderOK
<1>7. Refs'
  <2> SUFFICES ASSUME NEW b \in Bufs
               PROVE  Pins(b)' = Pins(b)
    BY DEF Control, Refs
  <2>1. b # None
    BY BufAssumption
  <2> QED BY <1>2, <1>3, <2>1 DEF Pins
<1>8. UniquePage' /\ DirtyExact'
  BY DEF Control, UniquePage, DirtyExact, Dirties, Has
<1> QED BY <1>1, <1>4, <1>5, <1>6, <1>7, <1>8 DEF Control

-----------------------------------------------------------------------------
(* Every action keeps Control.                                             *)

\* The content of every buffer and its flags but BH_EXCLUSIVE stay.
Kept ==
    \A d \in Bufs :
        /\ buf'[d].page = buf[d].page /\ buf'[d].val = buf[d].val
        /\ "dirty" \in buf'[d].flags <=> "dirty" \in buf[d].flags
        /\ "trash" \in buf'[d].flags <=> "trash" \in buf[d].flags

LEMMA KeptOne ==
    ASSUME Control, NEW b \in Bufs, NEW h, h.page = buf[b].page, h.val = buf[b].val,
           "dirty" \in h.flags <=> "dirty" \in buf[b].flags,
           "trash" \in h.flags <=> "trash" \in buf[b].flags,
           buf' = [buf EXCEPT ![b] = h]
    PROVE  Kept
<1>1. buf \in [Bufs -> Headers]
  BY DEF Control, Shape
<1>2. buf'[b] = h /\ \A d \in Bufs \ {b} : buf'[d] = buf[d]
  BY <1>1
<1> QED BY <1>2 DEF Kept

\* A header changes without a change of the page's content: it stays, or what
\* is in the cache is what is in the file, before and after.
Same(g, h) ==
    /\ h.page = g.page /\ h.val = g.val
    /\ Good(h) <=> Good(g)
    /\ "dirty" \in g.flags => "dirty" \in h.flags

AtFile(h) == Good(h) => h.val = os[h.page]

Steady ==
    \A d \in Bufs : \/ Same(buf[d], buf'[d])
                    \/ AtFile(buf[d]) /\ AtFile(buf'[d]) /\ buf'[d].val <= lsn

LEMMA KeptSteady == ASSUME Kept PROVE Steady
BY DEF Kept, Steady, Same, Good

LEMMA SteadyOne ==
    ASSUME Control, NEW b \in Bufs, NEW h, buf' = [buf EXCEPT ![b] = h],
           Same(buf[b], h) \/ (AtFile(buf[b]) /\ AtFile(h) /\ h.val <= lsn)
    PROVE  Steady
<1>1. buf \in [Bufs -> Headers]
  BY DEF Control, Shape
<1>2. buf'[b] = h /\ \A d \in Bufs \ {b} : buf'[d] = buf[d]
  BY <1>1
<1>3. \A d \in Bufs \ {b} : Same(buf[d], buf'[d])
  BY <1>2 DEF Same
<1> QED BY <1>2, <1>3 DEF Steady

\* What a thread with a buffer may rely on.
ThreadHas(t) ==
    LET b == th[t].b
        g == buf[b]
    IN  /\ b \in Bufs /\ g \in Headers /\ th[t] \in Calls /\ open[t]
        /\ t # None /\ b # None /\ t \notin Syncers
        /\ g.page \in Pages
        /\ CallShape(th[t]) /\ CallOK(t, th[t], g) /\ HeaderOK(b, g)
        /\ th[t].pc # "put" => g.ref # 0
        /\ th[t].pc \notin Latching \cup Evicting => g.owner # t /\ t \notin g.sharers

LEMMA ThreadAt ==
    ASSUME Control, NEW t \in Threads, th[t].pc \notin {"idle", "alloc", "search"}
    PROVE  ThreadHas(t)
<1> DEFINE b == th[t].b
           g == buf[b]
<1>1. th[t] \in Calls /\ ThreadOf(t) /\ t # None /\ t \notin Syncers
  BY BufAssumption DEF Control, Shape
<1>2. CallShape(th[t]) /\ b # None /\ b \in Bufs /\ open[t]
  BY <1>1 DEF ThreadOf, CallShape, Calls
<1>3. CallOK(t, th[t], g) /\ HeaderOK(b, g) /\ g \in Headers
  BY <1>1, <1>2 DEF ThreadOf, Control, Shape
<1>4. g.page \in Pages
  BY <1>1, <1>2, <1>3, BufAssumption DEF CallOK, CallShape, Headers
<1>5. th[t].pc # "put" => g.ref # 0
  <2> SUFFICES ASSUME th[t].pc # "put" PROVE g.ref # 0
    OBVIOUS
  <2>1. t \in Pins(b)
    BY DEF Pins
  <2> QED BY <1>2, <2>1, PinnedRef DEF Control
<1>6. th[t].pc \notin Latching \cup Evicting => g.owner # t /\ t \notin g.sharers
  BY <1>1, <1>3 DEF HeaderOK, Owns, Shares
<1> QED BY <1>1, <1>2, <1>3, <1>4, <1>5, <1>6 DEF ThreadHas

\* A thread goes on.
LEMMA CallIs ==
    ASSUME NEW c \in Calls,
           NEW pc \in {"idle", "alloc", "search", "trylatch"} \cup Evicting \cup Paged
    PROVE  LET d == [c EXCEPT !.pc = pc]
           IN  /\ d \in Calls /\ d.pc = pc /\ d.page = c.page /\ d.mode = c.mode
               /\ d.b = c.b /\ d.mine = c.mine
BY DEF Calls

LEMMA LatchStep == ASSUME Control, NEW t \in Threads, Latch(t) PROVE Control' /\ Kept
<1> DEFINE b == th[t].b
           g == buf[b]
           c == [th[t] EXCEPT !.pc = "fill"]
           h == Latched(g, t)
<1>1. th[t].pc = "latch" /\ ThreadHas(t) /\ g.owner = None /\ g.sharers = {}
  BY ThreadAt DEF Latch, Free
<1>2. /\ h \in Headers /\ h.page = g.page /\ h.val = g.val /\ h.ref = g.ref
      /\ h.flags = g.flags \cup {"exclusive"} /\ h.owner = t /\ h.sharers = g.sharers
  BY <1>1, LatchedIs DEF ThreadHas
<1>3. /\ c \in Calls /\ c.pc = "fill" /\ c.page = th[t].page /\ c.mode = th[t].mode
      /\ c.b = b /\ c.mine = th[t].mine
  BY <1>1, CallIs DEF ThreadHas, Paged
<1> HIDE DEF c, h
<1>4. ThreadMoves(t, b, c, h)
  <2>1. CallShape(c) /\ CallOK(t, c, h)
    BY <1>1, <1>2, <1>3 DEF ThreadHas, CallShape, CallOK, Paged, Evicting
  <2>2. LatchMoves(t, g, h) /\ LatchOf(t, b, c, h)
    BY <1>1, <1>2, <1>3 DEF ThreadHas, LatchMoves, LatchOf, Latching
  <2>3. h.ref = Counted(g.ref, Pinning(th[t], b), Pinning(c, b))
    BY <1>1, <1>2, <1>3 DEF Counted, Pinning
  <2> QED BY <1>1, <1>2, <1>3, <2>1, <2>2, <2>3, BufAssumption
          DEF ThreadMoves, ThreadHas, HeaderOK, Evicting
<1>5. /\ buf' = [buf EXCEPT ![b] = h] /\ th' = [th EXCEPT ![t] = c]
      /\ UNCHANGED <<sy, open>> /\ Outside'
      /\ hashDirty' = Counted(hashDirty, "dirty" \in g.flags, "dirty" \in h.flags)
  BY <1>2 DEF Latch, GoTo, Counted, Control, Shape, Outside, ioVars, c, h
<1>6. Kept
  BY <1>1, <1>2, <1>5, KeptOne DEF ThreadHas
<1> QED BY <1>6, <1>4, <1>5, ThreadStep

LEMMA ReadLatchStep ==
    ASSUME Control, NEW t \in Threads, ReadLatch(t)
    PROVE Control' /\ Kept /\ Kept
<1> DEFINE b == th[t].b
           g == buf[b]
<1>1. /\ th[t].pc = "readlatch" /\ ThreadHas(t) /\ g.owner = None
      /\ th[t].mode = "read" /\ g \in Headers /\ th[t] \in Calls
  BY ThreadAt DEF ReadLatch, Shared, ThreadHas, CallShape
<1>2. CASE Has(b, "trash")
  <2> DEFINE c == [th[t] EXCEPT !.pc = "latch"]
  <2>1. /\ c \in Calls /\ c.pc = "latch" /\ c.page = th[t].page /\ c.mode = th[t].mode
        /\ c.b = b /\ c.mine = th[t].mine
    BY <1>1, CallIs DEF Paged
  <2> HIDE DEF c
  <2>2. CallShape(c) /\ CallOK(t, c, g)
    BY <1>1, <2>1 DEF ThreadHas, CallShape, CallOK, Paged, Evicting
  <2>3. LatchMoves(t, g, g) /\ LatchOf(t, b, c, g)
    BY <1>1, <2>1 DEF ThreadHas, HeaderOK, LatchMoves, LatchOf, Latching, Evicting
  <2>4. g.ref = Counted(g.ref, Pinning(th[t], b), Pinning(c, b))
    BY <1>1, <2>1 DEF Counted, Pinning
  <2>5. ThreadMoves(t, b, c, g)
    BY <1>1, <2>1, <2>2, <2>3, <2>4, BufAssumption DEF ThreadMoves, ThreadHas, Latching, Evicting
  <2>6. /\ buf' = [buf EXCEPT ![b] = g] /\ th' = [th EXCEPT ![t] = c]
        /\ UNCHANGED <<sy, open>> /\ Outside'
        /\ hashDirty' = Counted(hashDirty, "dirty" \in g.flags, "dirty" \in g.flags)
    BY <1>2 DEF ReadLatch, GoTo, Counted, Control, Shape, Outside, ioVars, c
  <2>7. Kept
    BY <1>1, <2>6, KeptOne DEF ThreadHas
  <2> QED BY <2>7, <2>5, <2>6, ThreadStep
<1>3. CASE ~Has(b, "trash")
  <2> DEFINE c == [th[t] EXCEPT !.pc = "fill"]
             h == ReadLatched(g, t)
  <2>1. /\ c \in Calls /\ c.pc = "fill" /\ c.page = th[t].page /\ c.mode = th[t].mode
        /\ c.b = b /\ c.mine = th[t].mine
    BY <1>1, CallIs DEF Paged
  <2>2. /\ h \in Headers /\ h.page = g.page /\ h.val = g.val /\ h.ref = g.ref
        /\ h.flags = g.flags /\ h.owner = g.owner /\ h.sharers = g.sharers \cup {t}
    BY <1>1, ReadLatchedIs DEF ThreadHas
  <2>3. "trash" \notin g.flags
    BY <1>3 DEF Has
  <2> HIDE DEF c, h
  <2>4. CallShape(c) /\ CallOK(t, c, h)
    BY <1>1, <2>1, <2>2, <2>3 DEF ThreadHas, CallShape, CallOK, Paged, Evicting
  <2>5. LatchMoves(t, g, h) /\ LatchOf(t, b, c, h)
    BY <1>1, <2>1, <2>2 DEF ThreadHas, HeaderOK, LatchMoves, LatchOf, Latching, Evicting
  <2>6. h.ref = Counted(g.ref, Pinning(th[t], b), Pinning(c, b))
    BY <1>1, <2>1, <2>2 DEF Counted, Pinning
  <2>7. ThreadMoves(t, b, c, h)
    BY <1>1, <2>1, <2>2, <2>3, <2>4, <2>5, <2>6, BufAssumption DEF ThreadMoves, ThreadHas
  <2>8. /\ buf' = [buf EXCEPT ![b] = h] /\ th' = [th EXCEPT ![t] = c]
        /\ UNCHANGED <<sy, open>> /\ Outside'
        /\ hashDirty' = Counted(hashDirty, "dirty" \in g.flags, "dirty" \in h.flags)
    BY <1>3, <2>2 DEF ReadLatch, GoTo, Counted, Control, Shape, Outside, ioVars, c, h
  <2>9. Kept
    BY <1>1, <2>2, <2>8, KeptOne DEF ThreadHas
  <2> QED BY <2>9, <2>7, <2>8, ThreadStep
<1> QED BY <1>2, <1>3

LEMMA RelatchStep == ASSUME Control, NEW t \in Threads, Relatch(t) PROVE Control' /\ Kept
<1> DEFINE b == th[t].b
           g == buf[b]
           c == [th[t] EXCEPT !.pc = "hold"]
           h == ReadLatched(g, t)
<1>1. /\ th[t].pc = "relatch" /\ ThreadHas(t) /\ g.owner = None
      /\ th[t].mode = "read" /\ g \in Headers /\ th[t] \in Calls /\ "trash" \notin g.flags
  BY ThreadAt DEF Relatch, Shared, ThreadHas, CallShape, CallOK
<1>2. /\ c \in Calls /\ c.pc = "hold" /\ c.page = th[t].page /\ c.mode = th[t].mode
      /\ c.b = b /\ c.mine = th[t].mine
  BY <1>1, CallIs DEF Paged
<1>3. /\ h \in Headers /\ h.page = g.page /\ h.val = g.val /\ h.ref = g.ref
      /\ h.flags = g.flags /\ h.owner = g.owner /\ h.sharers = g.sharers \cup {t}
  BY <1>1, ReadLatchedIs DEF ThreadHas
<1> HIDE DEF c, h
<1>4. CallShape(c) /\ CallOK(t, c, h)
  BY <1>1, <1>2, <1>3 DEF ThreadHas, CallShape, CallOK, Paged, Evicting
<1>5. LatchMoves(t, g, h) /\ LatchOf(t, b, c, h)
  BY <1>1, <1>2, <1>3 DEF ThreadHas, HeaderOK, LatchMoves, LatchOf, Latching, Evicting
<1>6. h.ref = Counted(g.ref, Pinning(th[t], b), Pinning(c, b))
  BY <1>1, <1>2, <1>3 DEF Counted, Pinning
<1>7. ThreadMoves(t, b, c, h)
  BY <1>1, <1>2, <1>3, <1>4, <1>5, <1>6, BufAssumption DEF ThreadMoves, ThreadHas
<1>8. /\ buf' = [buf EXCEPT ![b] = h] /\ th' = [th EXCEPT ![t] = c]
      /\ UNCHANGED <<sy, open>> /\ Outside'
      /\ hashDirty' = Counted(hashDirty, "dirty" \in g.flags, "dirty" \in h.flags)
  BY <1>3 DEF Relatch, GoTo, Counted, Control, Shape, Outside, ioVars, c, h
<1>9. Kept
  BY <1>1, <1>3, <1>8, KeptOne DEF ThreadHas
<1> QED BY <1>9, <1>7, <1>8, ThreadStep

LEMMA UpgradeStep ==
    ASSUME Control, NEW t \in Threads, Upgrade(t)
    PROVE Control' /\ (Values => Steady)
<1> DEFINE b == th[t].b
           g == buf[b]
           c == [th[t] EXCEPT !.pc = "hold"]
           l == Latched(g, t)
           h == [l EXCEPT !.flags = @ \cup {"dirty"}]
<1>1. /\ th[t].pc = "upgrade" /\ ThreadHas(t) /\ g.owner = None /\ g.sharers = {}
      /\ th[t].mode = "write" /\ g \in Headers /\ th[t] \in Calls /\ "trash" \notin g.flags
  BY ThreadAt DEF Upgrade, Free, ThreadHas, CallShape, CallOK
<1>2. /\ c \in Calls /\ c.pc = "hold" /\ c.page = th[t].page /\ c.mode = th[t].mode
      /\ c.b = b /\ c.mine = th[t].mine
  BY <1>1, CallIs DEF Paged
<1>3. /\ l \in Headers /\ l.page = g.page /\ l.val = g.val /\ l.ref = g.ref
      /\ l.flags = g.flags \cup {"exclusive"} /\ l.owner = t /\ l.sharers = g.sharers
  BY <1>1, LatchedIs DEF ThreadHas
<1> HIDE DEF l
<1>4. /\ h \in Headers /\ h.page = g.page /\ h.val = g.val /\ h.ref = g.ref
      /\ h.flags = g.flags \cup {"exclusive", "dirty"} /\ h.owner = t /\ h.sharers = {}
  <2>1. l.flags \cup {"dirty"} \in SUBSET Flags
    BY <1>3 DEF Headers, Flags
  <2> QED BY <1>1, <1>3, <2>1, FlagsIs
<1> HIDE DEF c, h
<1>5. CallShape(c) /\ CallOK(t, c, h)
  BY <1>1, <1>2, <1>4 DEF ThreadHas, CallShape, CallOK, Paged, Evicting
<1>6. LatchMoves(t, g, h) /\ LatchOf(t, b, c, h)
  BY <1>1, <1>2, <1>4 DEF ThreadHas, HeaderOK, LatchMoves, LatchOf, Latching, Evicting
<1>7. h.ref = Counted(g.ref, Pinning(th[t], b), Pinning(c, b))
  BY <1>1, <1>2, <1>4 DEF Counted, Pinning
<1>8. ThreadMoves(t, b, c, h)
  BY <1>1, <1>2, <1>4, <1>5, <1>6, <1>7, BufAssumption DEF ThreadMoves, ThreadHas, Evicting
<1>9. /\ buf' = [buf EXCEPT ![b] = h] /\ th' = [th EXCEPT ![t] = c]
      /\ UNCHANGED <<sy, open>> /\ Outside'
  BY DEF Upgrade, MarkDirty, GoTo, Control, Shape, Outside, ioVars, c, h, l
<1>10. hashDirty' = Counted(hashDirty, "dirty" \in g.flags, "dirty" \in h.flags)
  BY <1>3, <1>4 DEF Upgrade, MarkDirty, Counted, l
<1>11. Steady
  <2>1. Same(g, h)
    BY <1>1, <1>4 DEF Same, Good
  <2> QED BY <1>1, <1>9, <2>1, SteadyOne DEF ThreadHas
<1> QED BY <1>8, <1>9, <1>10, <1>11, ThreadStep

\* A thread goes on in another mode, or without what it had allocated.
LEMMA ModeIs ==
    ASSUME NEW c \in Calls, NEW m \in Modes,
           NEW pc \in {"idle", "alloc", "search", "trylatch"} \cup Evicting \cup Paged
    PROVE  LET d == [c EXCEPT !.pc = pc, !.mode = m]
           IN  /\ d \in Calls /\ d.pc = pc /\ d.page = c.page /\ d.mode = m
               /\ d.b = c.b /\ d.mine = c.mine
BY DEF Calls

LEMMA SpareIs ==
    ASSUME NEW c \in Calls, NEW m \in Bufs \cup {None},
           NEW pc \in {"idle", "alloc", "search", "trylatch"} \cup Evicting \cup Paged
    PROVE  LET d == [c EXCEPT !.pc = pc, !.mine = m]
           IN  /\ d \in Calls /\ d.pc = pc /\ d.page = c.page /\ d.mode = c.mode
               /\ d.b = c.b /\ d.mine = m
BY DEF Calls

LEMMA AllocIs ==
    ASSUME NEW c \in Calls
    PROVE  LET d == [c EXCEPT !.b = None, !.pc = "alloc"]
           IN  /\ d \in Calls /\ d.pc = "alloc" /\ d.page = c.page /\ d.mode = c.mode
               /\ d.b = None /\ d.mine = c.mine
BY DEF Calls

LEMMA IdleIs ==
    /\ Idle \in Calls /\ CallShape(Idle) /\ Idle.pc = "idle" /\ Idle.b = None
    /\ Idle.mine = None
BY DEF Idle, Calls, CallShape

LEMMA DirtyStep == ASSUME Control, NEW t \in Threads, Dirty(t) PROVE Control' /\ Kept
<1> DEFINE b == th[t].b
           g == buf[b]
           c == [th[t] EXCEPT !.pc = "upgrade", !.mode = "write"]
           h == Unlatched(g, t)
<1>1. /\ th[t].pc = "hold" /\ ThreadHas(t) /\ t \in g.sharers /\ g.owner = None
      /\ th[t].mode = "read" /\ g \in Headers /\ th[t] \in Calls /\ "trash" \notin g.flags
  BY ThreadAt DEF Dirty, ThreadHas, CallOK, HeaderOK
<1>2. /\ c \in Calls /\ c.pc = "upgrade" /\ c.page = th[t].page /\ c.mode = "write"
      /\ c.b = b /\ c.mine = th[t].mine
  BY <1>1, ModeIs DEF Paged, Modes
<1>3. /\ h \in Headers /\ h.page = g.page /\ h.val = g.val /\ h.ref = g.ref
      /\ h.flags = g.flags /\ h.owner = g.owner /\ h.sharers = g.sharers \ {t}
  BY <1>1, UnlatchedIs DEF ThreadHas
<1> HIDE DEF c, h
<1>4. CallShape(c) /\ CallOK(t, c, h)
  BY <1>1, <1>2, <1>3 DEF ThreadHas, CallShape, CallOK, Paged, Evicting, Modes
<1>5. LatchMoves(t, g, h) /\ LatchOf(t, b, c, h)
  BY <1>1, <1>2, <1>3 DEF ThreadHas, HeaderOK, LatchMoves, LatchOf, Latching, Evicting
<1>6. h.ref = Counted(g.ref, Pinning(th[t], b), Pinning(c, b))
  BY <1>1, <1>2, <1>3 DEF Counted, Pinning
<1>7. ThreadMoves(t, b, c, h)
  BY <1>1, <1>2, <1>3, <1>4, <1>5, <1>6, BufAssumption DEF ThreadMoves, ThreadHas
<1>8. /\ buf' = [buf EXCEPT ![b] = h] /\ th' = [th EXCEPT ![t] = c]
      /\ UNCHANGED <<sy, open>> /\ Outside'
      /\ hashDirty' = Counted(hashDirty, "dirty" \in g.flags, "dirty" \in h.flags)
  BY <1>3 DEF Dirty, Counted, Control, Shape, Outside, ioVars, c, h
<1>9. Kept
  BY <1>1, <1>3, <1>8, KeptOne DEF ThreadHas
<1> QED BY <1>9, <1>7, <1>8, ThreadStep

LEMMA DowngradeStep == ASSUME Control, NEW t \in Threads, Downgrade(t) PROVE Control' /\ Kept
<1> DEFINE b == th[t].b
           g == buf[b]
           c == [th[t] EXCEPT !.pc = "relatch", !.mode = "read"]
           h == Unlatched(g, t)
<1>1. /\ th[t].pc = "hold" /\ ThreadHas(t) /\ g.owner = t /\ g.sharers = {}
      /\ th[t].mode = "write" /\ g \in Headers /\ th[t] \in Calls /\ "trash" \notin g.flags
  BY ThreadAt DEF Downgrade, ThreadHas, CallOK, HeaderOK
<1>2. /\ c \in Calls /\ c.pc = "relatch" /\ c.page = th[t].page /\ c.mode = "read"
      /\ c.b = b /\ c.mine = th[t].mine
  <2>1. /\ th[t] \in Calls /\ "read" \in Modes
        /\ "relatch" \in {"idle", "alloc", "search", "trylatch"} \cup Evicting \cup Paged
    BY <1>1 DEF Paged, Modes
  <2> HIDE DEF b, g, h
  <2>2. /\ c \in Calls /\ c.pc = "relatch" /\ c.page = th[t].page /\ c.mode = "read"
        /\ c.b = th[t].b /\ c.mine = th[t].mine
    BY <2>1 DEF Calls
  <2> QED BY <2>2 DEF b
<1>3. /\ h \in Headers /\ h.page = g.page /\ h.val = g.val /\ h.ref = g.ref
      /\ h.flags = g.flags \ {"exclusive"} /\ h.owner = None /\ h.sharers = g.sharers
  BY <1>1, UnlatchedIs DEF ThreadHas
<1> HIDE DEF c, h
<1>4. CallShape(c) /\ CallOK(t, c, h)
  BY <1>1, <1>2, <1>3 DEF ThreadHas, CallShape, CallOK, Paged, Evicting, Modes
<1>5. LatchMoves(t, g, h) /\ LatchOf(t, b, c, h)
  BY <1>1, <1>2, <1>3 DEF ThreadHas, HeaderOK, LatchMoves, LatchOf, Latching, Evicting
<1>6. h.ref = Counted(g.ref, Pinning(th[t], b), Pinning(c, b))
  BY <1>1, <1>2, <1>3 DEF Counted, Pinning
<1>7. ThreadMoves(t, b, c, h)
  BY <1>1, <1>2, <1>3, <1>4, <1>5, <1>6, BufAssumption DEF ThreadMoves, ThreadHas
<1>8. /\ buf' = [buf EXCEPT ![b] = h] /\ th' = [th EXCEPT ![t] = c]
      /\ UNCHANGED <<sy, open>> /\ Outside'
      /\ hashDirty' = Counted(hashDirty, "dirty" \in g.flags, "dirty" \in h.flags)
  BY <1>3 DEF Downgrade, NoteWritten, Counted, Control, Shape, Outside, ioVars, c, h
<1>9. Kept
  BY <1>1, <1>3, <1>8, KeptOne DEF ThreadHas
<1> QED BY <1>9, <1>7, <1>8, ThreadStep

LEMMA PutStep == ASSUME Control, NEW t \in Threads, Put(t) PROVE Control' /\ Kept
<1> DEFINE b == th[t].b
           g == buf[b]
           c == [th[t] EXCEPT !.pc = "put"]
           h == Unpinned(g)
<1>1. /\ th[t].pc = "hold" /\ ThreadHas(t) /\ g.ref # 0
      /\ g \in Headers /\ th[t] \in Calls /\ "trash" \notin g.flags
  BY ThreadAt DEF Put, ThreadHas, CallOK
<1>2. /\ c \in Calls /\ c.pc = "put" /\ c.page = th[t].page /\ c.mode = th[t].mode
      /\ c.b = b /\ c.mine = th[t].mine
  BY <1>1, CallIs DEF Paged
<1>3. /\ h \in Headers /\ h.page = g.page /\ h.val = g.val /\ h.ref = g.ref - 1
      /\ h.flags = g.flags /\ h.owner = g.owner /\ h.sharers = g.sharers
  BY <1>1, UnpinnedIs
<1> HIDE DEF c, h
<1>4. CallShape(c) /\ CallOK(t, c, h)
  BY <1>1, <1>2, <1>3 DEF ThreadHas, CallShape, CallOK, Paged, Evicting
<1>5. LatchMoves(t, g, h) /\ LatchOf(t, b, c, h)
  <2>1. HeaderOK(b, g) /\ t \notin Syncers
    BY <1>1 DEF ThreadHas
  <2>2. LatchMoves(t, g, h)
    BY <1>3, <2>1 DEF HeaderOK, LatchMoves
  <2>3. g.owner = t => th[t].mode = "write"
    BY <1>1, <2>1, BufAssumption DEF HeaderOK, Owns
  <2>4. t \in g.sharers => th[t].mode = "read"
    BY <2>1 DEF HeaderOK, Shares
  <2> QED BY <1>2, <1>3, <2>2, <2>3, <2>4 DEF LatchOf, Latching
<1>6. h.ref = Counted(g.ref, Pinning(th[t], b), Pinning(c, b))
  BY <1>1, <1>2, <1>3 DEF Counted, Pinning
<1>7. ThreadMoves(t, b, c, h)
  BY <1>1, <1>2, <1>3, <1>4, <1>5, <1>6, BufAssumption
     DEF ThreadMoves, ThreadHas, HeaderOK, Evicting
<1>8. /\ buf' = [buf EXCEPT ![b] = h] /\ th' = [th EXCEPT ![t] = c]
      /\ UNCHANGED <<sy, open>> /\ Outside'
      /\ hashDirty' = Counted(hashDirty, "dirty" \in g.flags, "dirty" \in h.flags)
  BY <1>3 DEF Put, NoteWritten, GoTo, Counted, Control, Shape, Outside, ioVars, c, h
<1>9. Kept
  BY <1>1, <1>3, <1>8, KeptOne DEF ThreadHas
<1> QED BY <1>9, <1>7, <1>8, ThreadStep

LEMMA ReleaseStep == ASSUME Control, NEW t \in Threads, Release(t) PROVE Control' /\ Kept
<1> DEFINE b == th[t].b
           g == buf[b]
           h == Unlatched(g, t)
<1>1. /\ th[t].pc = "put" /\ ThreadHas(t) /\ g \in Headers /\ "trash" \notin g.flags
      /\ g.owner = t \/ (t \in g.sharers /\ g.owner = None)
  BY ThreadAt DEF Release, ThreadHas, CallOK, HeaderOK
<1>2. /\ h \in Headers /\ h.page = g.page /\ h.val = g.val /\ h.ref = g.ref
      /\ h.owner = None /\ h.sharers = g.sharers \ {t} /\ h.flags = g.flags \ {"exclusive"}
  <2>1. HeaderOK(b, g)
    BY <1>1 DEF ThreadHas
  <2>2. /\ g.owner # t => g.owner = None
        /\ "exclusive" \in g.flags <=> g.owner # None
        /\ g.owner # None => g.sharers = {}
    BY <1>1, <2>1 DEF HeaderOK
  <2>3. /\ h \in Headers /\ h.page = g.page /\ h.val = g.val /\ h.ref = g.ref
        /\ g.owner = t => h.flags = g.flags \ {"exclusive"} /\ h.owner = None
                          /\ h.sharers = g.sharers
        /\ g.owner # t => h.flags = g.flags /\ h.owner = g.owner
                          /\ h.sharers = g.sharers \ {t}
    BY <1>1, UnlatchedIs
  <2> HIDE DEF h
  <2>4. t # None
    BY <1>1 DEF ThreadHas
  <2>5. CASE g.owner = t
    BY <2>2, <2>3, <2>4, <2>5
  <2>6. CASE g.owner # t
    BY <2>2, <2>3, <2>6
  <2> QED BY <2>5, <2>6
<1> HIDE DEF h
<1>3. LatchMoves(t, g, h) /\ LatchOf(t, b, Idle, h)
  <2>1. LatchMoves(t, g, h)
    <3>1. HeaderOK(b, g)
      BY <1>1 DEF ThreadHas
    <3> QED BY <1>1, <1>2, <3>1 DEF HeaderOK, LatchMoves
  <2>2. LatchOf(t, b, Idle, h)
    BY <1>1, <1>2 DEF ThreadHas, LatchOf
  <2> QED BY <2>1, <2>2
<1>4. h.ref = Counted(g.ref, Pinning(th[t], b), Pinning(Idle, b))
  BY <1>1, <1>2, IdleIs DEF Counted, Pinning, ThreadHas
<1>5. ThreadMoves(t, b, Idle, h)
  BY <1>1, <1>2, <1>3, <1>4, IdleIs, BufAssumption DEF ThreadMoves, ThreadHas
<1>6. /\ buf' = [buf EXCEPT ![b] = h] /\ th' = [th EXCEPT ![t] = Idle]
      /\ UNCHANGED <<sy, open>> /\ Outside'
      /\ hashDirty' = Counted(hashDirty, "dirty" \in g.flags, "dirty" \in h.flags)
  BY <1>2 DEF Release, Counted, Control, Shape, Outside, ioVars, h
<1>7. Kept
  BY <1>1, <1>2, <1>6, KeptOne DEF ThreadHas
<1> QED BY <1>7, <1>5, <1>6, ThreadStep

LEMMA FillFailsStep == ASSUME Control, NEW t \in Threads, FillFails(t) PROVE Control' /\ Kept
<1> DEFINE b == th[t].b
           g == buf[b]
           u == Unpinned(g)
           h == Unlatched(u, t)
<1>1. /\ th[t].pc = "fill" /\ ThreadHas(t) /\ g \in Headers /\ "trash" \in g.flags
      /\ g.owner = t /\ g.sharers = {} /\ g.ref # 0
  BY ThreadAt DEF FillFails, Has, ThreadHas, CallOK, HeaderOK
<1>2. /\ u \in Headers /\ u.page = g.page /\ u.val = g.val /\ u.ref = g.ref - 1
      /\ u.flags = g.flags /\ u.owner = g.owner /\ u.sharers = g.sharers
  BY <1>1, UnpinnedIs
<1> HIDE DEF u
<1>3. /\ h \in Headers /\ h.page = g.page /\ h.val = g.val /\ h.ref = g.ref - 1
      /\ h.owner = None /\ h.sharers = {} /\ h.flags = g.flags \ {"exclusive"}
  BY <1>1, <1>2, UnlatchedIs
<1> HIDE DEF h
<1>4. LatchMoves(t, g, h) /\ LatchOf(t, b, Idle, h)
  BY <1>1, <1>3 DEF ThreadHas, HeaderOK, LatchMoves, LatchOf
<1>5. h.ref = Counted(g.ref, Pinning(th[t], b), Pinning(Idle, b))
  BY <1>1, <1>3, IdleIs DEF Counted, Pinning, ThreadHas
<1>6. ThreadMoves(t, b, Idle, h)
  BY <1>1, <1>3, <1>4, <1>5, IdleIs, BufAssumption DEF ThreadMoves, ThreadHas, HeaderOK
<1>7. /\ buf' = [buf EXCEPT ![b] = h] /\ th' = [th EXCEPT ![t] = Idle]
      /\ UNCHANGED <<sy, open>> /\ Outside'
      /\ hashDirty' = Counted(hashDirty, "dirty" \in g.flags, "dirty" \in h.flags)
  BY <1>3 DEF FillFails, Counted, Control, Shape, Outside, ioVars, h, u
<1>8. Kept
  BY <1>1, <1>3, <1>7, KeptOne DEF ThreadHas
<1> QED BY <1>8, <1>6, <1>7, ThreadStep

LEMMA UpdateStep == ASSUME Control, NEW t \in Threads, Update(t) PROVE Control'
<1> DEFINE b == th[t].b
           g == buf[b]
           h == [g EXCEPT !.val = lsn + 1]
<1>1. /\ th[t].pc = "hold" /\ th[t].mode = "write" /\ ThreadHas(t) /\ g \in Headers
      /\ "trash" \notin g.flags /\ g.owner = t /\ lsn \in Nat
  BY ThreadAt DEF Update, ThreadHas, CallOK, Control, Shape, Outside
<1>2. /\ h \in Headers /\ h.page = g.page /\ h.ref = g.ref /\ h.flags = g.flags
      /\ h.owner = g.owner /\ h.sharers = g.sharers
  BY <1>1 DEF Headers
<1> HIDE DEF h
<1>3. CallShape(th[t]) /\ CallOK(t, th[t], h)
  BY <1>1, <1>2 DEF ThreadHas, CallOK
<1>4. LatchMoves(t, g, h) /\ LatchOf(t, b, th[t], h)
  BY <1>1, <1>2 DEF ThreadHas, HeaderOK, LatchMoves, LatchOf, Latching
<1>5. h.ref = Counted(g.ref, Pinning(th[t], b), Pinning(th[t], b))
  BY <1>1, <1>2 DEF Counted, Pinning
<1>6. ThreadMoves(t, b, th[t], h)
  BY <1>1, <1>2, <1>3, <1>4, <1>5, BufAssumption DEF ThreadMoves, ThreadHas, Evicting
<1>7. /\ buf' = [buf EXCEPT ![b] = h] /\ th' = [th EXCEPT ![t] = th[t]]
      /\ UNCHANGED <<sy, open>> /\ Outside'
      /\ hashDirty' = Counted(hashDirty, "dirty" \in g.flags, "dirty" \in h.flags)
  BY <1>1, <1>2 DEF Update, Counted, Control, Shape, Outside, h
<1> QED BY <1>6, <1>7, ThreadStep

\* The one reference of a buffer is the thread's that has it.
LEMMA SoleRef ==
    ASSUME Control, NEW t \in Threads, ThreadHas(t), th[t].pc # "put", buf[th[t].b].ref = 1
    PROVE  /\ \A u \in Threads \ {t} : th[u].b = th[t].b => th[u].pc = "put"
           /\ \A s \in Syncers : sy[s].b # th[t].b
<1> DEFINE b == th[t].b
<1>1. b \in Bufs /\ IsFiniteSet(Pins(b)) /\ Cardinality(Pins(b)) = 1
  BY PinsFinite DEF Control, Refs, ThreadHas
<1>2. PICK x : Pins(b) = {x}
  BY <1>1, FS_Singleton
<1>3. t \in Pins(b)
  BY DEF Pins
<1>4. Pins(b) = {t}
  BY <1>2, <1>3
<1>5. t \notin Syncers
  BY DEF ThreadHas
<1> QED BY <1>4, <1>5 DEF Pins

\* The buffer is given up for another one: it stays as it is.
LEMMA NextHbStep ==
    ASSUME Control, NEW t \in Threads, th[t].pc \in {"trylatch", "reuse"},
           NextHb(t, buf[th[t].b]), UNCHANGED <<hashDirty, fileWritten, open, sy, ioVars, syncs>>
    PROVE  Control' /\ Kept
<1> DEFINE b == th[t].b
           g == buf[b]
           c == [th[t] EXCEPT !.b = None, !.pc = "alloc"]
           u == Unpinned(g)
           h == Unlatched(u, t)
<1>1. /\ th[t].pc \in {"trylatch", "reuse"} /\ ThreadHas(t) /\ g \in Headers /\ g.ref # 0
      /\ th[t] \in Calls /\ th[t].mine = None
  BY ThreadAt DEF Evicting, ThreadHas, CallShape
<1>2. /\ u \in Headers /\ u.page = g.page /\ u.val = g.val /\ u.ref = g.ref - 1
      /\ u.flags = g.flags /\ u.owner = g.owner /\ u.sharers = g.sharers
  BY <1>1, UnpinnedIs
<1> HIDE DEF u
<1>3. /\ h \in Headers /\ h.page = g.page /\ h.val = g.val /\ h.ref = g.ref - 1
      /\ g.owner = t => /\ h.owner = None /\ h.sharers = g.sharers
                        /\ h.flags = g.flags \ {"exclusive"}
      /\ g.owner # t => /\ h.owner = g.owner /\ h.sharers = g.sharers \ {t}
                        /\ h.flags = g.flags
  BY <1>1, <1>2, UnlatchedIs
<1>4. /\ c \in Calls /\ c.pc = "alloc" /\ c.page = th[t].page /\ c.mode = th[t].mode
      /\ c.b = None /\ c.mine = None
  <2>1. /\ c \in Calls /\ c.pc = "alloc" /\ c.page = th[t].page /\ c.mode = th[t].mode
        /\ c.b = None /\ c.mine = th[t].mine
    BY <1>1, AllocIs
  <2> QED BY <1>1, <2>1
<1> HIDE DEF h, c
<1>5. CallShape(c)
  BY <1>1, <1>4 DEF ThreadHas, CallShape
<1>6. LatchMoves(t, g, h) /\ LatchOf(t, b, c, h)
  <2>1. CASE g.owner = t
    BY <1>1, <1>3, <2>1 DEF ThreadHas, HeaderOK, LatchMoves, LatchOf
  <2>2. CASE g.owner # t
    BY <1>1, <1>3, <2>2 DEF ThreadHas, HeaderOK, LatchMoves, LatchOf
  <2> QED BY <2>1, <2>2
<1>7. h.ref = Counted(g.ref, Pinning(th[t], b), Pinning(c, b))
  BY <1>1, <1>3, <1>4 DEF Counted, Pinning, ThreadHas
<1>8. /\ "dirty" \in g.flags <=> "dirty" \in h.flags
      /\ "trash" \in g.flags <=> "trash" \in h.flags
      /\ {"dirty", "trash"} \subseteq g.flags => g.owner # t
      /\ h.owner # t
  BY <1>1, <1>3 DEF ThreadHas, HeaderOK
<1>9. ThreadMoves(t, b, c, h)
  BY <1>1, <1>3, <1>4, <1>5, <1>6, <1>7, <1>8, BufAssumption DEF ThreadMoves, ThreadHas
<1>10. /\ buf' = [buf EXCEPT ![b] = h] /\ th' = [th EXCEPT ![t] = c]
       /\ UNCHANGED <<sy, open>> /\ Outside'
       /\ hashDirty' = Counted(hashDirty, "dirty" \in g.flags, "dirty" \in h.flags)
  BY <1>8 DEF NextHb, Counted, Control, Shape, Outside, ioVars, h, u, c
<1>11. Kept
  BY <1>1, <1>3, <1>8, <1>10, KeptOne DEF ThreadHas
<1> QED BY <1>11, <1>9, <1>10, ThreadStep

LEMMA TryLatchStep == ASSUME Control, NEW t \in Threads, TryLatch(t) PROVE Control' /\ Kept
<1> DEFINE b == th[t].b
           g == buf[b]
           pc == IF Has(b, "dirty") THEN "evict" ELSE "reuse"
           c == [th[t] EXCEPT !.pc = pc]
           h == Latched(g, t)
<1>1. /\ th[t].pc = "trylatch" /\ ThreadHas(t) /\ g \in Headers /\ th[t] \in Calls /\ g.ref # 0
  BY ThreadAt DEF TryLatch, ThreadHas
<1>2. CASE g.ref > 1 \/ ~Free(b)
  BY <1>1, <1>2, NextHbStep DEF TryLatch
<1>3. CASE ~(g.ref > 1 \/ ~Free(b))
  <2>1. g.ref = 1 /\ g.owner = None /\ g.sharers = {}
    BY <1>1, <1>3 DEF Free, Headers
  <2>2. /\ pc \in Evicting /\ pc \in {"evict", "reuse"}
        /\ pc = "evict" => "dirty" \in g.flags
    BY DEF Evicting, Has
  <2>3. /\ c \in Calls /\ c.pc = pc /\ c.page = th[t].page /\ c.mode = th[t].mode
        /\ c.b = b /\ c.mine = th[t].mine
    BY <1>1, <2>2, CallIs
  <2>4. /\ h \in Headers /\ h.page = g.page /\ h.val = g.val /\ h.ref = g.ref
        /\ h.flags = g.flags \cup {"exclusive"} /\ h.owner = t /\ h.sharers = g.sharers
    BY <1>1, LatchedIs DEF ThreadHas
  <2>5. buf' = [buf EXCEPT ![b] = h] /\ th' = [th EXCEPT ![t] = c]
    BY <1>3, <2>2 DEF TryLatch, GoTo
  <2> HIDE DEF c, h, pc
  <2>6. ~({"dirty", "trash"} \subseteq g.flags)
    BY <1>1, <2>1 DEF ThreadHas, HeaderOK
  <2>7. CallShape(c) /\ CallOK(t, c, h)
    BY <1>1, <2>2, <2>3, <2>4, <2>6 DEF ThreadHas, CallShape, CallOK, Paged, Evicting
  <2>8. LatchMoves(t, g, h) /\ LatchOf(t, b, c, h)
    BY <1>1, <2>1, <2>2, <2>3, <2>4 DEF ThreadHas, HeaderOK, LatchMoves, LatchOf
  <2>9. \A u \in Threads \ {t} : th[u].b # b
    <3> SUFFICES ASSUME NEW u \in Threads \ {t}, th[u].b = b
                 PROVE  FALSE
      OBVIOUS
    <3>1. th[u].pc = "put"
      BY <1>1, <2>1, SoleRef
    <3>2. ThreadHas(u)
      BY <3>1, ThreadAt
    <3> QED BY <2>1, <3>1, <3>2 DEF ThreadHas, CallOK
  <2>10. h.ref = Counted(g.ref, Pinning(th[t], b), Pinning(c, b))
    BY <1>1, <2>2, <2>3, <2>4 DEF Counted, Pinning
  <2>11. ThreadMoves(t, b, c, h)
    BY <1>1, <2>1, <2>2, <2>3, <2>4, <2>6, <2>7, <2>8, <2>9, <2>10, BufAssumption
       DEF ThreadMoves, ThreadHas
  <2>12. /\ UNCHANGED <<sy, open>> /\ Outside'
         /\ hashDirty' = Counted(hashDirty, "dirty" \in g.flags, "dirty" \in h.flags)
    BY <2>4 DEF TryLatch, Counted, Control, Shape, Outside, ioVars
  <2>13. Kept
    BY <1>1, <2>4, <2>5, KeptOne DEF ThreadHas
  <2> QED BY <2>13, <2>5, <2>11, <2>12, ThreadStep
<1> QED BY <1>2, <1>3

LEMMA EvictStep == ASSUME Control, NEW t \in Threads, Evict(t) PROVE Control'
<1> DEFINE b == th[t].b
           g == buf[b]
           h == [g EXCEPT !.flags = @ \cup {"trash"}]
<1>1. /\ th[t].pc = "evict" /\ ThreadHas(t) /\ g \in Headers /\ th[t] \in Calls
      /\ g.owner = t /\ "dirty" \in g.flags /\ g.page \in Pages
  BY ThreadAt DEF Evict, ThreadHas, CallOK, Evicting
<1>2. /\ h \in Headers /\ h.page = g.page /\ h.val = g.val /\ h.ref = g.ref
      /\ h.flags = g.flags \cup {"trash"} /\ h.owner = g.owner /\ h.sharers = g.sharers
  <2>1. g.flags \cup {"trash"} \in SUBSET Flags
    BY <1>1 DEF Headers, Flags
  <2> QED BY <1>1, <2>1, FlagsIs
<1>3. PICK pc \in {"evicted", "unwritten"} : th' = [th EXCEPT ![t].pc = pc]
  BY DEF Evict, GoTo
<1> DEFINE c == [th[t] EXCEPT !.pc = pc]
<1>4. /\ c \in Calls /\ c.pc = pc /\ c.page = th[t].page /\ c.mode = th[t].mode
      /\ c.b = b /\ c.mine = th[t].mine
  BY <1>1, CallIs DEF Evicting
<1>5. buf' = [buf EXCEPT ![b] = h] /\ th' = [th EXCEPT ![t] = c]
  BY <1>3 DEF Evict
<1>6. Outside'
  <2>1. g.val \in Nat /\ os \in [Pages -> Nat]
    BY <1>1 DEF Headers, Control, Shape, Outside
  <2>2. os' \in [Pages -> Nat]
    BY <2>1 DEF Evict
  <2> QED BY <2>2 DEF Evict, Control, Shape, Outside
<1> HIDE DEF c, h
<1>7. CallShape(c) /\ CallOK(t, c, h)
  BY <1>1, <1>2, <1>4 DEF ThreadHas, CallShape, CallOK, Paged, Evicting
<1>8. LatchMoves(t, g, h) /\ LatchOf(t, b, c, h)
  BY <1>1, <1>2, <1>4 DEF ThreadHas, HeaderOK, LatchMoves, LatchOf, Evicting
<1>9. h.ref = Counted(g.ref, Pinning(th[t], b), Pinning(c, b))
  BY <1>1, <1>2, <1>4 DEF Counted, Pinning
<1>10. \A u \in Threads \ {t} : th[u].b = b => th[u].pc \in {"latch", "readlatch"}
  BY <1>1 DEF ThreadHas, HeaderOK, Evicting
<1>11. ThreadMoves(t, b, c, h)
  BY <1>1, <1>2, <1>4, <1>7, <1>8, <1>9, <1>10, BufAssumption DEF ThreadMoves, ThreadHas
<1>12. /\ UNCHANGED <<sy, open>>
       /\ hashDirty' = Counted(hashDirty, "dirty" \in g.flags, "dirty" \in h.flags)
  BY <1>2 DEF Evict, Counted, Control, Shape
<1> QED BY <1>5, <1>6, <1>11, <1>12, ThreadStep

LEMMA EvictedStep ==
    ASSUME Control, NEW t \in Threads, Evicted(t)
    PROVE Control' /\ (Values => Steady)
<1> DEFINE b == th[t].b
           g == buf[b]
           c == [th[t] EXCEPT !.pc = "reuse"]
<1>1. /\ th[t].pc \in {"evicted", "unwritten"} /\ ThreadHas(t) /\ g \in Headers
      /\ th[t] \in Calls /\ g.owner = t /\ "dirty" \in g.flags
  BY ThreadAt DEF Evicted, ThreadHas, CallOK, Evicting
<1>2. PICK F \in SUBSET Flags :
        /\ F \in {g.flags \ {"dirty"}, g.flags \ {"dirty", "trash"}, g.flags \ {"trash"}}
        /\ buf' = [buf EXCEPT ![b] = [g EXCEPT !.flags = F]]
        /\ hashDirty' = IF "dirty" \in F THEN hashDirty ELSE hashDirty - 1
        /\ "dirty" \notin F => th[t].pc = "evicted"
  <2>1. /\ g.flags \ {"dirty"} \in SUBSET Flags /\ g.flags \ {"dirty", "trash"} \in SUBSET Flags
        /\ g.flags \ {"trash"} \in SUBSET Flags
    BY <1>1 DEF Headers
  <2>2. CASE th[t].pc = "unwritten"
    <3>1. buf' = [buf EXCEPT ![b] = [g EXCEPT !.flags = g.flags \ {"trash"}]]
      BY <2>2 DEF Evicted, PutBack
    <3>2. hashDirty' = hashDirty /\ "dirty" \in g.flags \ {"trash"}
      BY <1>1, <2>2 DEF Evicted
    <3> QED BY <2>1, <3>1, <3>2
  <2>3. CASE th[t].pc = "evicted" /\ g.ref > 1
    <3> DEFINE p == PutBack(g)
    <3>1. p.flags = g.flags \ {"trash"} /\ p \in Headers
      BY <1>1 DEF PutBack, Headers
    <3>2. ClearDirty(b, p)
      BY <2>3 DEF Evicted
    <3>3. Cleaned(p) = [g EXCEPT !.flags = g.flags \ {"dirty", "trash"}]
      BY <1>1 DEF Cleaned, PutBack, Headers
    <3> HIDE DEF p
    <3>4. hashDirty' = hashDirty - 1 /\ "dirty" \notin g.flags \ {"dirty", "trash"}
      BY <1>1, <3>1, <3>2 DEF ClearDirty
    <3> QED BY <2>1, <2>3, <3>2, <3>3, <3>4 DEF ClearDirty
  <2>4. CASE th[t].pc = "evicted" /\ ~(g.ref > 1)
    <3>1. ClearDirty(b, g)
      BY <2>4 DEF Evicted
    <3>2. Cleaned(g) = [g EXCEPT !.flags = g.flags \ {"dirty"}]
      BY DEF Cleaned
    <3>3. hashDirty' = hashDirty - 1 /\ "dirty" \notin g.flags \ {"dirty"}
      BY <1>1, <3>1 DEF ClearDirty
    <3> QED BY <2>1, <2>4, <3>1, <3>2, <3>3 DEF ClearDirty
  <2> QED BY <1>1, <2>2, <2>3, <2>4
<1> DEFINE h == [g EXCEPT !.flags = F]
<1>3. /\ h \in Headers /\ h.page = g.page /\ h.val = g.val /\ h.ref = g.ref
      /\ h.flags = F /\ h.owner = g.owner /\ h.sharers = g.sharers
  BY <1>1, FlagsIs
<1>4. /\ c \in Calls /\ c.pc = "reuse" /\ c.page = th[t].page /\ c.mode = th[t].mode
      /\ c.b = b /\ c.mine = th[t].mine
  BY <1>1, CallIs DEF Evicting
<1>5. buf' = [buf EXCEPT ![b] = h] /\ th' = [th EXCEPT ![t] = c]
  BY <1>2 DEF Evicted, GoTo
<1> HIDE DEF c, h
<1>6. CallShape(c) /\ CallOK(t, c, h)
  BY <1>1, <1>3, <1>4 DEF ThreadHas, CallShape, CallOK, Paged, Evicting
<1>7. LatchMoves(t, g, h) /\ LatchOf(t, b, c, h)
  <2>1. "exclusive" \in F <=> "exclusive" \in g.flags
    BY <1>2
  <2> QED BY <1>1, <1>3, <1>4, <2>1 DEF ThreadHas, HeaderOK, LatchMoves, LatchOf, Evicting
<1>8. h.ref = Counted(g.ref, Pinning(th[t], b), Pinning(c, b))
  BY <1>1, <1>3, <1>4 DEF Counted, Pinning
<1>9. \A u \in Threads \ {t} : th[u].b = b => th[u].pc \in {"latch", "readlatch"}
  BY <1>1 DEF ThreadHas, HeaderOK, Evicting
<1>10. ~({"dirty", "trash"} \subseteq F) /\ ~("trash" \in F \ g.flags)
  BY <1>2
<1>11. ThreadMoves(t, b, c, h)
  BY <1>1, <1>3, <1>4, <1>6, <1>7, <1>8, <1>9, <1>10, BufAssumption DEF ThreadMoves, ThreadHas
<1>12. /\ UNCHANGED <<sy, open>> /\ Outside'
       /\ hashDirty' = Counted(hashDirty, "dirty" \in g.flags, "dirty" \in h.flags)
  BY <1>1, <1>2, <1>3 DEF Evicted, Counted, Control, Shape, Outside, ioVars
<1>13. ASSUME Values PROVE Steady
  <2>1. CASE "dirty" \in F
    <3>1. Same(g, h)
      BY <1>1, <1>3, <2>1 DEF Same, Good
    <3> QED BY <1>1, <1>5, <3>1, SteadyOne DEF ThreadHas
  <2>2. CASE "dirty" \notin F
    <3>1. g.val = os[g.page] /\ g.val <= lsn
      BY <1>1, <1>2, <1>13, <2>2 DEF Values, ValueOf, ThreadHas
    <3>2. AtFile(g) /\ AtFile(h) /\ h.val <= lsn
      BY <1>3, <3>1 DEF AtFile
    <3> QED BY <1>1, <1>5, <3>2, SteadyOne DEF ThreadHas
  <2> QED BY <2>1, <2>2
<1> QED BY <1>5, <1>11, <1>12, <1>13, ThreadStep

LEMMA ChooseStep == ASSUME Control, NEW t \in Threads, Choose(t) PROVE Control' /\ Kept
<1>1. PICK b \in Bufs :
        /\ buf[b].page # None /\ buf[b].ref = 0
        /\ buf' = [buf EXCEPT ![b] = Pinned(@)]
        /\ th' = [th EXCEPT ![t].b = b, ![t].pc = "trylatch"]
  BY DEF Choose
<1> DEFINE g == buf[b]
           c == [th[t] EXCEPT !.b = b, !.pc = "trylatch"]
           h == Pinned(g)
<1>2. /\ th[t].pc = "alloc" /\ th[t] \in Calls /\ ThreadOf(t) /\ CallShape(th[t])
      /\ th[t].b = None /\ th[t].mine = None /\ open[t]
      /\ t # None /\ b # None /\ t \notin Syncers
      /\ g \in Headers /\ HeaderOK(b, g)
  BY BufAssumption DEF Choose, Control, Shape, ThreadOf, CallShape
<1>3. /\ h \in Headers /\ h.page = g.page /\ h.val = g.val /\ h.ref = g.ref + 1
      /\ h.flags = g.flags /\ h.owner = g.owner /\ h.sharers = g.sharers
  BY <1>2, PinnedIs
<1>4. /\ c \in Calls /\ c.pc = "trylatch" /\ c.page = th[t].page /\ c.mode = th[t].mode
      /\ c.b = b /\ c.mine = th[t].mine
  BY <1>2 DEF Calls
<1>5. buf' = [buf EXCEPT ![b] = h] /\ th' = [th EXCEPT ![t] = c]
  BY <1>1
<1> HIDE DEF c, h
<1>6. CallShape(c) /\ CallOK(t, c, h)
  BY <1>1, <1>2, <1>3, <1>4 DEF CallShape, CallOK, Paged, Evicting
<1>7. g.owner # t /\ t \notin g.sharers
  BY <1>2 DEF HeaderOK, Owns, Shares
<1>8. LatchMoves(t, g, h) /\ LatchOf(t, b, c, h)
  BY <1>2, <1>3, <1>4, <1>7 DEF HeaderOK, LatchMoves, LatchOf
<1>9. h.ref = Counted(g.ref, Pinning(th[t], b), Pinning(c, b))
  BY <1>2, <1>3, <1>4 DEF Counted, Pinning
<1>10. g.owner # None => th[g.owner].pc \notin Evicting
  <2> SUFFICES ASSUME g.owner # None, th[g.owner].pc \in Evicting
               PROVE  FALSE
    OBVIOUS
  <2>1. g.owner \in Threads /\ th[g.owner].b = b
    BY <1>2 DEF HeaderOK, Owns, Headers
  <2>2. g.owner \in Pins(b)
    BY <2>1 DEF Pins, Evicting
  <2> QED BY <1>1, <2>2, PinnedRef DEF Control
<1>11. ThreadMoves(t, b, c, h)
  BY <1>1, <1>2, <1>3, <1>4, <1>6, <1>7, <1>8, <1>9, <1>10 DEF ThreadMoves
<1>12. /\ UNCHANGED <<sy, open>> /\ Outside'
       /\ hashDirty' = Counted(hashDirty, "dirty" \in g.flags, "dirty" \in h.flags)
  BY <1>3 DEF Choose, Counted, Control, Shape, Outside, ioVars
<1>13. Kept
  BY <1>3, <1>5, KeptOne
<1> QED BY <1>13, <1>5, <1>11, <1>12, ThreadStep

\* The search finds the page: its buffer is pinned.
LEMMA FoundStep ==
    ASSUME Control, NEW t \in Threads, th[t].pc \in {"idle", "search"}, open[t],
           NEW call \in Calls, call.page \in Pages, call.mode \in Modes,
           call.mine = th[t].mine, call.b = None,
           Search(t, call), Cached(call.page) # {},
           UNCHANGED <<hashDirty, fileWritten, open, sy, ioVars, syncs>>
    PROVE  Control' /\ Kept
<1>1. PICK b \in Bufs :
        /\ buf[b].page = call.page /\ buf' = [buf EXCEPT ![b] = Pinned(@)]
        /\ th' = [th EXCEPT ![t] = [call EXCEPT !.b = b, !.pc = IF call.mode = "read"
                                                                 THEN "readlatch"
                                                                 ELSE "latch"]]
  BY DEF Search, Cached
<1> DEFINE g == buf[b]
           pc == IF call.mode = "read" THEN "readlatch" ELSE "latch"
           c == [call EXCEPT !.b = b, !.pc = pc]
           h == Pinned(g)
<1>2. /\ th[t] \in Calls /\ ThreadOf(t) /\ CallShape(th[t]) /\ th[t].b = None
      /\ t # None /\ b # None /\ t \notin Syncers
      /\ g \in Headers /\ HeaderOK(b, g) /\ g.page \in Pages
  BY <1>1, BufAssumption DEF Control, Shape, ThreadOf, CallShape
<1>3. /\ h \in Headers /\ h.page = g.page /\ h.val = g.val /\ h.ref = g.ref + 1
      /\ h.flags = g.flags /\ h.owner = g.owner /\ h.sharers = g.sharers
  BY <1>2, PinnedIs
<1>4. /\ pc \in Paged /\ pc \in {"latch", "readlatch"}
      /\ pc = "readlatch" => call.mode = "read"
  BY DEF Paged
<1>5. buf' = [buf EXCEPT ![b] = h] /\ th' = [th EXCEPT ![t] = c]
  BY <1>1
<1> HIDE DEF pc
<1>6. /\ c \in Calls /\ c.pc = pc /\ c.page = call.page /\ c.mode = call.mode
      /\ c.b = b /\ c.mine = call.mine
  BY <1>4 DEF Calls
<1> HIDE DEF c, h
<1>7. CallShape(c) /\ CallOK(t, c, h)
  BY <1>1, <1>2, <1>3, <1>4, <1>6 DEF CallShape, CallOK, Paged, Evicting
<1>8. g.owner # t /\ t \notin g.sharers
  BY <1>2 DEF HeaderOK, Owns, Shares
<1>9. LatchMoves(t, g, h) /\ LatchOf(t, b, c, h)
  BY <1>2, <1>3, <1>6, <1>8 DEF HeaderOK, LatchMoves, LatchOf
<1>10. h.ref = Counted(g.ref, Pinning(th[t], b), Pinning(c, b))
  BY <1>2, <1>3, <1>4, <1>6 DEF Counted, Pinning
<1>11. ThreadMoves(t, b, c, h)
  BY <1>1, <1>2, <1>3, <1>4, <1>6, <1>7, <1>8, <1>9, <1>10, BufAssumption DEF ThreadMoves
<1>12. /\ UNCHANGED <<sy, open>> /\ Outside'
       /\ hashDirty' = Counted(hashDirty, "dirty" \in g.flags, "dirty" \in h.flags)
  BY <1>3 DEF Counted, Control, Shape, Outside, ioVars
<1>13. Kept
  BY <1>3, <1>5, KeptOne
<1> QED BY <1>13, <1>5, <1>11, <1>12, ThreadStep

\* A thread without a buffer goes on without one.
LEMMA CallAway ==
    ASSUME Control, NEW t \in Threads, th[t].b = None, NEW c \in Calls, CallShape(c),
           c.b = None, c.pc # "idle" => open[t],
           c.mine # None => /\ buf[c.mine].page = None
                            /\ \A u \in Threads \ {t} : th[u].mine # c.mine,
           th' = [th EXCEPT ![t] = c], UNCHANGED <<buf, hashDirty, sy, open>>, Outside'
    PROVE  Control'
<1>1. th \in [Threads -> Calls] /\ sy' \in [Syncers -> Works] /\ open' \in [Threads -> BOOLEAN]
  BY DEF Control, Shape
<1>2. th' \in [Threads -> Calls] /\ th'[t] = c /\ \A u \in Threads \ {t} : th'[u] = th[u]
  BY <1>1
<1>3. \A u \in Threads : th[u].pc # "idle" => open[u]
  BY DEF Control, ThreadOf
<1>4. Mines'
  BY <1>2 DEF Control, Mines
<1> QED BY <1>1, <1>2, <1>3, <1>4, AwayStep

LEMMA GetStep ==
    ASSUME Control, NEW t \in Threads, NEW p \in Pages, NEW m \in Modes, Get(t, p, m)
    PROVE  Control' /\ Kept
<1> DEFINE call == [Idle EXCEPT !.page = p, !.mode = m]
<1>1. /\ th[t].pc = "idle" /\ th[t] = Idle /\ open[t] /\ Search(t, call)
      /\ UNCHANGED <<hashDirty, fileWritten, open, sy, ioVars, syncs>>
  BY DEF Get, Control, ThreadOf, CallShape
<1>2. /\ call \in Calls /\ call.page = p /\ call.mode = m /\ call.b = None
      /\ call.mine = None
  BY DEF Idle, Calls
<1> HIDE DEF call
<1>3. CASE Cached(call.page) # {}
  BY <1>1, <1>2, <1>3, FoundStep, IdleIs
<1>4. CASE Cached(call.page) = {}
  <2> DEFINE c == [call EXCEPT !.pc = "alloc"]
  <2>1. /\ c \in Calls /\ c.pc = "alloc" /\ c.page = p /\ c.mode = m /\ c.b = None
        /\ c.mine = None
    BY <1>2 DEF Calls
  <2>2. UNCHANGED buf /\ th' = [th EXCEPT ![t] = c]
    BY <1>1, <1>4 DEF Search
  <2> HIDE DEF c
  <2>3. CallShape(c) /\ th[t].b = None /\ Outside'
    BY <1>1, <2>1, IdleIs DEF CallShape, Control, Shape, Outside, ioVars
  <2> QED BY <1>1, <2>1, <2>2, <2>3, CallAway DEF Kept
<1> QED BY <1>3, <1>4

LEMMA RetryStep == ASSUME Control, NEW t \in Threads, Retry(t) PROVE Control' /\ Kept
<1>1. /\ th[t].pc = "search" /\ th[t] \in Calls /\ CallShape(th[t]) /\ open[t]
  BY DEF Retry, Control, Shape, ThreadOf
<1>2. th[t].b = None /\ th[t].page \in Pages /\ th[t].mode \in Modes
  BY <1>1 DEF CallShape
<1> QED BY <1>1, <1>2, FoundStep DEF Retry

LEMMA AllocFreeStep == ASSUME Control, NEW t \in Threads, AllocFree(t) PROVE Control'
<1>1. PICK b \in Bufs : /\ buf[b].page = None
                        /\ \A u \in Threads : th[u].mine # b
                        /\ th' = [th EXCEPT ![t].mine = b, ![t].pc = "search"]
  BY DEF AllocFree, Cached
<1> DEFINE c == [th[t] EXCEPT !.mine = b, !.pc = "search"]
<1>2. /\ th[t].pc = "alloc" /\ th[t] \in Calls /\ CallShape(th[t]) /\ th[t].b = None /\ open[t]
      /\ b # None
  BY BufAssumption DEF AllocFree, Control, Shape, ThreadOf, CallShape
<1>3. /\ c \in Calls /\ c.pc = "search" /\ c.page = th[t].page /\ c.mode = th[t].mode
      /\ c.b = th[t].b /\ c.mine = b
  BY <1>2 DEF Calls
<1>4. th' = [th EXCEPT ![t] = c]
  BY <1>1
<1> HIDE DEF c
<1>5. CallShape(c)
  BY <1>2, <1>3 DEF CallShape
<1>6. UNCHANGED <<buf, hashDirty, sy, open>> /\ Outside'
  BY DEF AllocFree, Control, Shape, Outside, ioVars
<1> QED BY <1>1, <1>2, <1>3, <1>4, <1>5, <1>6, CallAway

LEMMA AllocFailsStep == ASSUME Control, NEW t \in Threads, AllocFails(t) PROVE Control'
<1>1. th[t].b = None
  BY DEF AllocFails, Control, ThreadOf, CallShape
<1>2. th' = [th EXCEPT ![t] = Idle] /\ UNCHANGED <<buf, hashDirty, sy, open>> /\ Outside'
  BY DEF AllocFails, Control, Shape, Outside, ioVars
<1> QED BY <1>1, <1>2, IdleIs, CallAway

\* A handle is opened, or closed by a thread that has no page.
LEMMA HandleStep == ASSUME Control, NEW t \in Threads, Open(t) \/ Close(t) PROVE Control'
<1>1. /\ UNCHANGED <<buf, hashDirty, th, sy>>
      /\ \A u \in Threads : open'[u] = open[u] \/ (u = t /\ (open'[u] \/ th[u].pc = "idle"))
      /\ open' \in [Threads -> BOOLEAN]
  BY DEF Open, Close, Control, Shape
<1>2. Outside'
  BY DEF Open, Close, FlushedAtClose, ioVars, Control, Shape, Outside
<1>3. \A u \in Threads : th'[u].pc # "idle" => open'[u]
  BY <1>1 DEF Control, ThreadOf
<1>4. Mines' /\ th' \in [Threads -> Calls] /\ sy' \in [Syncers -> Works]
  BY <1>1 DEF Control, Mines, Shape
<1> QED BY <1>1, <1>2, <1>3, <1>4, AwayStep

\* A page of the flush of a handle: the latch of its buffer is not exclusive.
LEMMA FlushPageStep == ASSUME Control, NEW t \in Threads, FlushPage(t) PROVE Control'
<1>1. PICK b \in Bufs : /\ Has(b, "dirty") /\ ~Has(b, "exclusive")
                        /\ os' = [os EXCEPT ![buf[b].page] = buf[b].val]
                        /\ ClearDirty(b, buf[b])
  BY DEF FlushPage, Dirties
<1> DEFINE g == buf[b]
           h == Cleaned(g)
           c == th[t]
<1>2. /\ g \in Headers /\ HeaderOK(b, g) /\ c \in Calls /\ c = Idle /\ CallShape(c)
      /\ th \in [Threads -> Calls] /\ hashDirty \in Nat /\ open[t]
      /\ t # None /\ b # None /\ t \notin Syncers
  BY BufAssumption DEF FlushPage, Control, Shape, ThreadOf, CallShape
<1>3. /\ h \in Headers /\ h.page = g.page /\ h.val = g.val /\ h.ref = g.ref
      /\ h.flags = g.flags \ {"dirty"} /\ h.owner = g.owner /\ h.sharers = g.sharers
  BY <1>2 DEF Cleaned, Headers
<1>4. g.owner = None /\ "dirty" \in g.flags /\ "exclusive" \notin g.flags
  BY <1>1, <1>2 DEF HeaderOK, Has
<1>5. g.page \in Pages
  BY <1>2, <1>4 DEF HeaderOK, Headers, Empty
<1>6. c.b = None /\ c.mine = None /\ c.pc = "idle"
  BY <1>2, IdleIs
<1>7. t \notin g.sharers
  BY <1>2, <1>6 DEF HeaderOK, Shares
<1>8. /\ buf' = [buf EXCEPT ![b] = h]
      /\ hashDirty' = Counted(hashDirty, "dirty" \in g.flags, "dirty" \in h.flags)
  BY <1>1, <1>3 DEF ClearDirty, Counted
<1>9. th' = [th EXCEPT ![t] = c] /\ UNCHANGED <<sy, open>>
  BY <1>2 DEF FlushPage
<1>10. Outside'
  BY <1>1, <1>2, <1>5 DEF FlushPage, Control, Shape, Outside, Headers
<1> HIDE DEF h, c
<1>11. LatchMoves(t, g, h) /\ LatchOf(t, b, c, h)
  BY <1>2, <1>3, <1>4, <1>7 DEF LatchMoves, LatchOf
<1>12. h.ref = Counted(g.ref, Pinning(th[t], b), Pinning(c, b))
  BY <1>2, <1>3, <1>6 DEF Counted, Pinning, c
<1>13. ThreadMoves(t, b, c, h)
  BY <1>2, <1>3, <1>4, <1>5, <1>6, <1>11, <1>12, BufAssumption DEF ThreadMoves, c
<1> QED BY <1>8, <1>9, <1>10, <1>13, ThreadStep

\* A thread changes a header nobody else works on, and that is not dirty.
LoneMoves(t, b, c, h) ==
    /\ t \in Threads /\ b \in Bufs /\ c \in Calls /\ h \in Headers
    /\ open[t] /\ th[t].b \in {b, None} /\ c.b \in {b, None}
    /\ CallShape(c)
    /\ c.b = b => CallOK(t, c, h)
    /\ \A u \in Threads \ {t} : th[u].b # b
    /\ \A s \in Syncers : sy[s].b # b
    /\ "dirty" \notin buf[b].flags /\ "dirty" \notin h.flags
    /\ h.ref = IF Pinning(c, b) THEN 1 ELSE 0

LEMMA LoneStep ==
    ASSUME Control, NEW t, NEW b, NEW c, NEW h, LoneMoves(t, b, c, h),
           buf' = [buf EXCEPT ![b] = h], th' = [th EXCEPT ![t] = c],
           UNCHANGED <<hashDirty, sy, open>>, Outside',
           \A d \in Bufs : d = b => HeaderOK(d, buf[d])', Mines', UniquePage'
    PROVE  Control'
<1> USE DEF LoneMoves
<1>0. /\ t # None /\ b # None /\ t \notin Syncers
      /\ Shape /\ Refs /\ Mines /\ UniquePage /\ DirtyExact
  BY BufAssumption DEF Control
<1>1. /\ buf' \in [Bufs -> Headers] /\ th' \in [Threads -> Calls]
      /\ buf'[b] = h /\ \A d \in Bufs \ {b} : buf'[d] = buf[d]
      /\ th'[t] = c /\ \A u \in Threads \ {t} : th'[u] = th[u]
  BY <1>0 DEF Shape
<1>2. Shape' /\ DirtyExact'
  BY <1>0, <1>1, CountDirty DEF Shape
<1>3. ASSUME NEW u \in Threads
      PROVE  ThreadOf(u)'
  <2>1. CASE u = t
    BY <1>1, <2>1, <1>0 DEF ThreadOf
  <2>2. CASE u # t
    <3>1. ThreadOf(u) /\ (th[u].b # None => th[u].b \in Bufs)
      BY <1>0 DEF Control, Shape, Calls
    <3> QED BY <1>1, <2>2, <3>1 DEF ThreadOf
  <2> QED BY <2>1, <2>2
<1>4. ASSUME NEW s \in Syncers
      PROVE  SyncerOf(s)'
  <2>1. SyncerOf(s) /\ (sy[s].b # None => sy[s].b \in Bufs)
    BY <1>0 DEF Control, Shape, Works
  <2> QED BY <1>1, <2>1 DEF SyncerOf
<1>5. ASSUME NEW d \in Bufs
      PROVE  HeaderOK(d, buf[d])'
  <2>1. CASE d = b
    BY <1>1, <2>1
  <2>2. CASE d # b
    <3>1. HeaderOK(d, buf[d]) /\ buf'[d] = buf[d]
      BY <1>1, <2>2 DEF Control
    <3>2. th[t].b # d /\ th'[t].b # d
      BY <1>0, <1>1, <2>2, BufAssumption
    <3>3. \A x \in Threads : Owns(x, d) => x # t /\ Owns(x, d)'
      BY <1>1, <3>2 DEF Owns
    <3>4. \A x \in Threads \cup Syncers : Shares(x, d) => Shares(x, d)'
      BY <1>0, <1>1, <3>2 DEF Shares
    <3>5. buf[d].owner \in Threads \cup {None} /\ buf[d].sharers \subseteq Threads \cup Syncers
      BY <1>0 DEF Shape, Headers
    <3>6. buf[d].owner # None => buf[d].owner # t /\ th'[buf[d].owner] = th[buf[d].owner]
      BY <1>1, <3>1, <3>3, <3>5 DEF HeaderOK
    <3>7. \A u \in Threads : th'[u].b = d => u # t /\ th'[u] = th[u]
      BY <1>1, <3>2
    <3> QED BY <3>1, <3>3, <3>4, <3>5, <3>6, <3>7 DEF HeaderOK
  <2> QED BY <2>1, <2>2
<1>6. Refs'
  <2> SUFFICES ASSUME NEW d \in Bufs
               PROVE  buf'[d].ref = Cardinality(Pins(d)')
    BY DEF Refs
  <2>1. CASE d # b
    <3>1. Pins(d)' = Pins(d)
      <4>1. th[t].b # d /\ th'[t].b # d
        BY <1>0, <1>1, <2>1, BufAssumption
      <4> QED BY <1>1, <4>1 DEF Pins
    <3> QED BY <1>0, <1>1, <2>1, <3>1 DEF Refs
  <2>2. CASE d = b
    <3>1. Pins(b)' = IF Pinning(c, b) THEN {t} ELSE {}
      BY <1>0, <1>1 DEF Pins, Pinning
    <3>2. Cardinality({t}) = 1 /\ Cardinality({}) = 0
      BY FS_Singleton, FS_EmptySet
    <3> QED BY <1>1, <2>2, <3>1, <3>2
  <2> QED BY <2>1, <2>2
<1> QED BY <1>2, <1>3, <1>4, <1>5, <1>6 DEF Control

LEMMA ReuseStep == ASSUME Control, NEW t \in Threads, Reuse(t) PROVE Control' /\ (Values => Steady)
<1> DEFINE b == th[t].b
           g == buf[b]
           c == [th[t] EXCEPT !.mine = b, !.b = None, !.pc = "search"]
<1>1. /\ th[t].pc = "reuse" /\ ThreadHas(t) /\ g \in Headers /\ th[t] \in Calls
      /\ g.owner = t /\ g.sharers = {} /\ b \in Bufs /\ b # None
  BY ThreadAt DEF Reuse, ThreadHas, CallOK, HeaderOK, Evicting
<1>2. CASE Wanted(b)
  BY <1>1, <1>2, NextHbStep, KeptSteady DEF Reuse
<1>3. CASE ~Wanted(b)
  <2>1. g.ref = 1 /\ "dirty" \notin g.flags
    BY <1>3 DEF Wanted, Has
  <2>2. \A u \in Threads \ {t} : th[u].b # b
    <3> SUFFICES ASSUME NEW u \in Threads \ {t}, th[u].b = b
                 PROVE  FALSE
      OBVIOUS
    <3>1. th[u].pc = "put"
      BY <1>1, <2>1, SoleRef
    <3>2. ThreadHas(u)
      BY <3>1, ThreadAt
    <3> QED BY <1>1, <3>1, <3>2 DEF ThreadHas, CallOK
  <2>3. \A s \in Syncers : sy[s].b # b
    BY <1>1, <2>1, SoleRef
  <2>4. /\ c \in Calls /\ c.pc = "search" /\ c.page = th[t].page /\ c.mode = th[t].mode
        /\ c.b = None /\ c.mine = b
    BY <1>1 DEF Calls
  <2>5. buf' = [buf EXCEPT ![b] = Empty] /\ th' = [th EXCEPT ![t] = c]
    BY <1>3 DEF Reuse
  <2> HIDE DEF c
  <2>6. CallShape(c)
    BY <1>1, <2>4 DEF CallShape, ThreadHas
  <2>7. /\ Empty \in Headers /\ Empty.page = None /\ Empty.ref = 0 /\ Empty.flags = {}
        /\ Empty.owner = None /\ Empty.sharers = {}
    BY EmptyIs DEF Empty
  <2>9. /\ buf \in [Bufs -> Headers] /\ th \in [Threads -> Calls]
        /\ buf'[b] = Empty /\ \A d \in Bufs \ {b} : buf'[d] = buf[d]
        /\ th'[t] = c /\ \A u \in Threads \ {t} : th'[u] = th[u]
    BY <1>1, <2>5 DEF Control, Shape
  <2>8. \A d \in Bufs : d = b => HeaderOK(d, buf[d])'
    BY <2>7, <2>9 DEF HeaderOK
  <2>10. Mines'
    <3>1. \A u \in Threads \ {t} : th[u].mine # b
      BY <1>1, BufAssumption DEF Control, Mines, ThreadHas
    <3>2. \A u \in Threads : th[u].mine # None => th[u].mine \in Bufs
      BY <2>9 DEF Calls
    <3>3. Mines /\ th[t].mine = None
      BY <1>1 DEF Control, ThreadHas, CallShape
    <3> QED BY <1>1, <2>4, <2>7, <2>9, <3>1, <3>2, <3>3 DEF Mines
  <2>11. UniquePage'
    BY <2>7, <2>9 DEF Control, UniquePage
  <2>12. UNCHANGED <<hashDirty, sy, open>> /\ Outside'
    BY DEF Reuse, Control, Shape, Outside, ioVars
  <2>13. Empty.ref = IF Pinning(c, b) THEN 1 ELSE 0
    BY <1>1, <2>4, <2>7 DEF Pinning
  <2>14. open[t] /\ c.b # b
    BY <1>1, <2>4 DEF ThreadHas
  <2>15. LoneMoves(t, b, c, Empty)
    BY <1>1, <2>1, <2>2, <2>3, <2>4, <2>6, <2>7, <2>13, <2>14 DEF LoneMoves
  <2>16. ASSUME Values PROVE Steady
    <3>1. AtFile(g) /\ AtFile(Empty)
      BY <1>1, <2>1, <2>7, <2>16 DEF Values, ValueOf, AtFile, Good
    <3>2. Empty.val <= lsn
      BY DEF Control, Shape, Outside, Empty
    <3> QED BY <1>1, <2>5, <3>1, <3>2, SteadyOne
  <2> QED BY <2>5, <2>8, <2>10, <2>11, <2>12, <2>15, <2>16, LoneStep
<1> QED BY <1>2, <1>3

LEMMA InstantiateStep ==
    ASSUME Control, NEW t \in Threads, Instantiate(t)
    PROVE Control' /\ (Values => Steady)
<1> DEFINE b == th[t].mine
           p == th[t].page
           e == [Empty EXCEPT !.page = p, !.ref = 1, !.flags = {"trash"}]
           h == Latched(e, t)
           c == [th[t] EXCEPT !.b = b, !.mine = None, !.pc = "fill"]
<1>1. /\ th[t].pc = "search" /\ th[t] \in Calls /\ CallShape(th[t]) /\ open[t]
      /\ Cached(p) = {} /\ t # None /\ t \notin Syncers
  BY BufAssumption DEF Instantiate, Control, Shape, ThreadOf
<1>2. /\ b \in Bufs /\ b # None /\ p \in Pages /\ p # None /\ th[t].b = None
      /\ th[t].mode \in Modes
  BY <1>1, BufAssumption DEF CallShape, Calls
<1>3. buf[b].page = None /\ buf[b] = Empty /\ \A u \in Threads \ {t} : th[u].mine # b
  BY <1>2 DEF Control, Mines, HeaderOK
<1>4. /\ e \in Headers /\ e.page = p /\ e.val = 0 /\ e.ref = 1 /\ e.flags = {"trash"} /\ e.owner = None
      /\ e.sharers = {}
  BY <1>2 DEF Empty, Headers, Flags
<1> HIDE DEF e
<1>5. /\ h \in Headers /\ h.page = p /\ h.val = 0 /\ h.ref = 1 /\ h.flags = {"trash", "exclusive"}
      /\ h.owner = t /\ h.sharers = {}
  BY <1>4, LatchedIs
<1>6. /\ c \in Calls /\ c.pc = "fill" /\ c.page = p /\ c.mode = th[t].mode
      /\ c.b = b /\ c.mine = None
  BY <1>1, <1>2 DEF Calls, Paged
<1>7. buf' = [buf EXCEPT ![b] = h] /\ th' = [th EXCEPT ![t] = c]
  BY DEF Instantiate, e
<1> HIDE DEF h, c
<1>8. CallShape(c) /\ CallOK(t, c, h)
  BY <1>1, <1>2, <1>5, <1>6 DEF CallShape, CallOK, Paged, Evicting
<1>9. \A u \in Threads : th[u].b # b
  <2> SUFFICES ASSUME NEW u \in Threads, th[u].b = b
               PROVE  FALSE
    OBVIOUS
  <2>1. th[u].pc \notin {"idle", "alloc", "search"}
    BY <1>2 DEF Control, ThreadOf, CallShape
  <2> QED BY <1>3, <2>1, ThreadAt, BufAssumption DEF ThreadHas
<1>10. \A s \in Syncers : sy[s].b # b
  <2> SUFFICES ASSUME NEW s \in Syncers, sy[s].b = b
               PROVE  FALSE
    OBVIOUS
  <2>1. buf[b].page \in sy[s].todo /\ sy[s].todo \subseteq Pages
    BY <1>2 DEF Control, SyncerOf, SyncOK, Shape, Works
  <2> QED BY <1>3, <2>1, BufAssumption
<1>11. /\ buf \in [Bufs -> Headers] /\ th \in [Threads -> Calls]
       /\ buf'[b] = h /\ \A d \in Bufs \ {b} : buf'[d] = buf[d]
       /\ th'[t] = c /\ \A u \in Threads \ {t} : th'[u] = th[u]
  BY <1>2, <1>7 DEF Control, Shape
<1>12. \A d \in Bufs : d = b => HeaderOK(d, buf[d])'
  <2> SUFFICES ASSUME NEW d, d = b
               PROVE  HeaderOK(d, buf[d])'
    OBVIOUS
  <2>1. /\ buf'[d].page # None /\ buf'[d].flags = {"trash", "exclusive"}
        /\ buf'[d].owner = t /\ buf'[d].sharers = {}
    BY <1>2, <1>5, <1>11
  <2>2. th'[t].b = d /\ th'[t].pc = "fill"
    BY <1>6, <1>11
  <2>3. Owns(t, d)' /\ th'[t].pc \notin Evicting
    BY <2>2 DEF Owns, Latching, Evicting
  <2> HIDE DEF b
  <2> QED BY <1>1, <2>1, <2>3 DEF HeaderOK
<1>13. Mines'
  <2>1. \A u \in Threads : th[u].mine # None => th[u].mine \in Bufs
    BY <1>11 DEF Calls
  <2> QED BY <1>3, <1>6, <1>11, <2>1 DEF Control, Mines
<1>14. UniquePage'
  <2>1. \A d \in Bufs : buf[d].page # p
    BY <1>1 DEF Cached
  <2> QED BY <1>5, <1>11, <2>1 DEF Control, UniquePage
<1>15. UNCHANGED <<hashDirty, sy, open>> /\ Outside'
  BY DEF Instantiate, Control, Shape, Outside, ioVars
<1>16. /\ h.ref = IF Pinning(c, b) THEN 1 ELSE 0
       /\ "dirty" \notin buf[b].flags /\ "dirty" \notin h.flags
  BY <1>3, <1>5, <1>6 DEF Pinning, Empty
<1>17. LoneMoves(t, b, c, h)
  BY <1>1, <1>2, <1>5, <1>6, <1>8, <1>9, <1>10, <1>16 DEF LoneMoves
<1>18. Steady
  <2>1. AtFile(buf[b]) /\ AtFile(h)
    BY <1>3, <1>5 DEF AtFile, Good
  <2>2. h.val <= lsn
    BY <1>5 DEF Control, Shape, Outside
  <2> QED BY <1>2, <1>7, <2>1, <2>2, SteadyOne
<1> QED BY <1>7, <1>12, <1>13, <1>14, <1>15, <1>17, <1>18, LoneStep

LEMMA FilledIs ==
    ASSUME NEW b \in Bufs, buf[b] \in Headers, buf[b].page \in Pages, Outside
    PROVE  LET f == Filled(b)
           IN  /\ f \in Headers /\ f.page = buf[b].page /\ f.ref = buf[b].ref
               /\ f.val = IF "trash" \in buf[b].flags THEN os[buf[b].page] ELSE buf[b].val
               /\ f.flags = buf[b].flags \ {"trash"}
               /\ f.owner = buf[b].owner /\ f.sharers = buf[b].sharers
<1>1. os[buf[b].page] \in Nat
  BY DEF Outside
<1>2. CASE "trash" \in buf[b].flags
  BY <1>1, <1>2 DEF Filled, Has, Headers
<1>3. CASE "trash" \notin buf[b].flags
  <2>1. Filled(b) = buf[b]
    BY <1>3 DEF Filled, Has
  <2> QED BY <1>3, <2>1
<1> QED BY <1>2, <1>3

LEMMA FillStep == ASSUME Control, NEW t \in Threads, Fill(t) PROVE Control' /\ (Values => Steady)
<1> DEFINE b == th[t].b
           g == buf[b]
           f == Filled(b)
<1>1. /\ th[t].pc = "fill" /\ ThreadHas(t) /\ g \in Headers /\ th[t] \in Calls
      /\ Outside /\ g.page \in Pages /\ b \in Bufs /\ t # None
      /\ th[t].mode \in Modes
  BY ThreadAt DEF Fill, ThreadHas, Control, Shape, CallShape
<1>2. /\ f \in Headers /\ f.page = g.page /\ f.ref = g.ref /\ f.flags = g.flags \ {"trash"}
      /\ f.val = IF "trash" \in g.flags THEN os[g.page] ELSE g.val
      /\ f.owner = g.owner /\ f.sharers = g.sharers
  BY <1>1, FilledIs
<1> HIDE DEF f
<1>3. None \in Bufs \cup {None}
  OBVIOUS
<1>4. UNCHANGED <<sy, open>> /\ Outside'
  BY DEF Fill, Control, Shape, Outside, ioVars
<1>5. ASSUME Values, NEW h, buf' = [buf EXCEPT ![b] = h],
             h.page = g.page, h.val = f.val, "trash" \notin h.flags,
             "dirty" \in g.flags => "dirty" \in h.flags
      PROVE  Steady
  <2>1. CASE "trash" \in g.flags
    <3>1. ~Good(g)
      BY <1>1, <2>1 DEF Good, ThreadHas, CallOK, HeaderOK
    <3>2. h.val = os[g.page] /\ os[g.page] <= lsn
      <4>1. h.val = os[g.page]
        BY <1>2, <1>5, <2>1
      <4>2. os[g.page] <= logged /\ logged <= lsn /\ logged \in Nat /\ lsn \in Nat
        BY <1>1, <1>5 DEF Values, Outside
      <4>3. os[g.page] \in Nat
        BY <1>1 DEF Outside
      <4> QED BY <4>1, <4>2, <4>3
    <3> QED BY <1>1, <1>5, <3>1, <3>2, SteadyOne DEF AtFile
  <2>2. CASE "trash" \notin g.flags
    <3>1. Same(g, h)
      BY <1>2, <1>5, <2>2 DEF Same, Good
    <3> QED BY <1>1, <1>5, <3>1, SteadyOne
  <2> QED BY <2>1, <2>2
<1>6. CASE th[t].mode = "write"
  <2> DEFINE c == [th[t] EXCEPT !.pc = "hold", !.mine = None]
             h == [f EXCEPT !.flags = @ \cup {"dirty"}]
  <2>1. g.owner = t /\ g.sharers = {}
    BY <1>1, <1>6 DEF ThreadHas, CallOK, HeaderOK
  <2>2. /\ c \in Calls /\ c.pc = "hold" /\ c.page = th[t].page /\ c.mode = "write"
        /\ c.b = b /\ c.mine = None
    BY <1>1, <1>6 DEF Calls, Paged
  <2>3. /\ h \in Headers /\ h.page = g.page /\ h.ref = g.ref /\ h.val = f.val
        /\ h.flags = (g.flags \ {"trash"}) \cup {"dirty"} /\ h.owner = t /\ h.sharers = {}
    <3>1. f \in Headers /\ f.flags \cup {"dirty"} \in SUBSET Flags
      BY <1>2 DEF Headers, Flags
    <3>2. /\ h \in Headers /\ h.page = f.page /\ h.val = f.val /\ h.ref = f.ref
          /\ h.flags = f.flags \cup {"dirty"} /\ h.owner = f.owner /\ h.sharers = f.sharers
      BY <3>1, FlagsIs
    <3> HIDE DEF h
    <3> QED BY <1>2, <2>1, <3>2
  <2>4. buf' = [buf EXCEPT ![b] = h] /\ th' = [th EXCEPT ![t] = c]
    BY <1>6 DEF Fill, MarkDirty, f
  <2>5. hashDirty' = Counted(hashDirty, "dirty" \in g.flags, "dirty" \in h.flags)
    BY <1>2, <1>6, <2>3 DEF Fill, MarkDirty, Counted, f
  <2> HIDE DEF c, h
  <2>6. CallShape(c) /\ CallOK(t, c, h)
    BY <1>1, <2>2, <2>3 DEF ThreadHas, CallShape, CallOK, Paged, Evicting, Modes
  <2>7. LatchMoves(t, g, h) /\ LatchOf(t, b, c, h)
    BY <1>1, <2>1, <2>2, <2>3 DEF ThreadHas, HeaderOK, LatchMoves, LatchOf, Latching
  <2>8. h.ref = Counted(g.ref, Pinning(th[t], b), Pinning(c, b))
    BY <1>1, <2>2, <2>3 DEF Counted, Pinning
  <2>9. ThreadMoves(t, b, c, h)
    BY <1>1, <2>1, <2>2, <2>3, <2>6, <2>7, <2>8, BufAssumption
       DEF ThreadMoves, ThreadHas, Evicting
  <2>10. Values => Steady
    BY <1>5, <2>3, <2>4
  <2> QED BY <1>4, <2>4, <2>5, <2>9, <2>10, ThreadStep
<1>7. CASE th[t].mode # "write" /\ "exclusive" \in g.flags
  <2> DEFINE c == [th[t] EXCEPT !.pc = "relatch", !.mine = None]
             h == Unlatched(f, t)
  <2>1. g.owner = t /\ g.sharers = {} /\ th[t].mode = "read"
    BY <1>1, <1>7 DEF ThreadHas, CallOK, HeaderOK, Modes
  <2>2. /\ c \in Calls /\ c.pc = "relatch" /\ c.page = th[t].page /\ c.mode = "read"
        /\ c.b = b /\ c.mine = None
    BY <1>1, <2>1 DEF Calls, Paged
  <2>3. /\ h \in Headers /\ h.page = g.page /\ h.ref = g.ref /\ h.val = f.val
        /\ h.flags = g.flags \ {"trash", "exclusive"} /\ h.owner = None /\ h.sharers = {}
    BY <1>2, <2>1, UnlatchedIs
  <2>4. buf' = [buf EXCEPT ![b] = h] /\ th' = [th EXCEPT ![t] = c]
    BY <1>7 DEF Fill, Has, f
  <2>5. hashDirty' = Counted(hashDirty, "dirty" \in g.flags, "dirty" \in h.flags)
    BY <1>7, <2>3 DEF Fill, Counted
  <2> HIDE DEF c, h
  <2>6. CallShape(c) /\ CallOK(t, c, h)
    BY <1>1, <2>2, <2>3 DEF ThreadHas, CallShape, CallOK, Paged, Evicting, Modes
  <2>7. LatchMoves(t, g, h) /\ LatchOf(t, b, c, h)
    BY <1>1, <2>1, <2>2, <2>3 DEF ThreadHas, HeaderOK, LatchMoves, LatchOf, Latching
  <2>8. h.ref = Counted(g.ref, Pinning(th[t], b), Pinning(c, b))
    BY <1>1, <2>2, <2>3 DEF Counted, Pinning
  <2>9. ThreadMoves(t, b, c, h)
    BY <1>1, <2>1, <2>2, <2>3, <2>6, <2>7, <2>8, BufAssumption
       DEF ThreadMoves, ThreadHas, Evicting
  <2>10. Values => Steady
    BY <1>5, <2>3, <2>4
  <2> QED BY <1>4, <2>4, <2>5, <2>9, <2>10, ThreadStep
<1>8. CASE th[t].mode # "write" /\ "exclusive" \notin g.flags
  <2> DEFINE c == [th[t] EXCEPT !.pc = "hold", !.mine = None]
  <2>1. g.owner = None /\ t \in g.sharers /\ th[t].mode = "read" /\ "trash" \notin g.flags
    BY <1>1, <1>8 DEF ThreadHas, CallOK, HeaderOK, Modes
  <2>2. /\ c \in Calls /\ c.pc = "hold" /\ c.page = th[t].page /\ c.mode = "read"
        /\ c.b = b /\ c.mine = None
    BY <1>1, <2>1 DEF Calls, Paged
  <2>3. buf' = [buf EXCEPT ![b] = g] /\ th' = [th EXCEPT ![t] = c]
    BY <1>1, <1>8 DEF Fill, Has, Control, Shape
  <2>4. hashDirty' = Counted(hashDirty, "dirty" \in g.flags, "dirty" \in g.flags)
    BY <1>8 DEF Fill, Counted
  <2> HIDE DEF c
  <2>5. CallShape(c) /\ CallOK(t, c, g)
    BY <1>1, <2>1, <2>2 DEF ThreadHas, CallShape, CallOK, Paged, Evicting, Modes
  <2>6. LatchMoves(t, g, g) /\ LatchOf(t, b, c, g)
    BY <1>1, <2>1, <2>2 DEF ThreadHas, HeaderOK, LatchMoves, LatchOf, Latching
  <2>7. g.ref = Counted(g.ref, Pinning(th[t], b), Pinning(c, b))
    BY <1>1, <2>2 DEF Counted, Pinning
  <2>8. ThreadMoves(t, b, c, g)
    BY <1>1, <2>1, <2>2, <2>5, <2>6, <2>7, BufAssumption
       DEF ThreadMoves, ThreadHas, Evicting
  <2>9. Values => Steady
    BY <1>2, <1>5, <2>1, <2>3
  <2> QED BY <1>4, <2>3, <2>4, <2>8, <2>9, ThreadStep
<1> QED BY <1>6, <1>7, <1>8

\* What a syncer with a buffer may rely on.
SyncerHas(s) ==
    LET b == sy[s].b
        g == buf[b]
    IN  /\ b \in Bufs /\ g \in Headers /\ sy[s] \in Works
        /\ s # None /\ b # None /\ s \notin Threads
        /\ g.page \in Pages
        /\ SyncOK(s, sy[s], g) /\ HeaderOK(b, g)
        /\ g.ref # 0
        /\ sy[s].pc \notin SyncLatched => s \notin g.sharers

LEMMA SyncerAt ==
    ASSUME Control, NEW s \in Syncers, sy[s].pc \in SyncPinned
    PROVE  SyncerHas(s)
<1> DEFINE b == sy[s].b
           g == buf[b]
<1>1. sy[s] \in Works /\ SyncerOf(s) /\ s # None /\ s \notin Threads
  BY BufAssumption DEF Control, Shape
<1>2. b # None /\ b \in Bufs
  BY <1>1 DEF SyncerOf, Works
<1>3. SyncOK(s, sy[s], g) /\ HeaderOK(b, g) /\ g \in Headers
  BY <1>1, <1>2 DEF SyncerOf, Control, Shape
<1>4. g.page \in Pages
  BY <1>1, <1>3 DEF SyncOK, Works
<1>5. g.ref # 0
  <2>1. s \in Pins(b)
    BY DEF Pins
  <2> QED BY <1>2, <2>1, PinnedRef DEF Control
<1>6. sy[s].pc \notin SyncLatched => s \notin g.sharers
  BY <1>1, <1>3 DEF HeaderOK, Shares
<1> QED BY <1>1, <1>2, <1>3, <1>4, <1>5, <1>6 DEF SyncerHas

\* A syncer goes on without a buffer, or with the one it has.
LEMMA WorkAway ==
    ASSUME Control, NEW s \in Syncers, NEW d \in Works,
           \/ d.b = sy[s].b /\ d.pc = sy[s].pc /\ d.todo = sy[s].todo
           \/ sy[s].b = None /\ d.b = None /\ d.pc \notin SyncPinned,
           sy' = [sy EXCEPT ![s] = d], UNCHANGED <<buf, hashDirty, th, open>>, Outside'
    PROVE  Control'
<1>1. sy \in [Syncers -> Works] /\ th' \in [Threads -> Calls] /\ open' \in [Threads -> BOOLEAN]
  BY DEF Control, Shape
<1>2. sy' \in [Syncers -> Works] /\ sy'[s] = d /\ \A r \in Syncers \ {s} : sy'[r] = sy[r]
  BY <1>1
<1>3. \A t \in Threads : th'[t].pc # "idle" => open'[t]
  BY DEF Control, ThreadOf
<1>4. Mines'
  BY DEF Control, Mines
<1> QED BY <1>1, <1>2, <1>3, <1>4, AwayStep

LEMMA SyncPinStep ==
    ASSUME Control, NEW s \in Syncers, NEW p \in Pages, SyncPin(s, p)
    PROVE  Control' /\ Kept
<1>1. PICK b \in Bufs : /\ buf[b].page = p
                        /\ buf' = [buf EXCEPT ![b] = Pinned(@)]
                        /\ sy' = [sy EXCEPT ![s].b = b, ![s].pc = "readlatch"]
  BY DEF SyncPin, Unwritten, Cached
<1> DEFINE g == buf[b]
           h == Pinned(g)
           d == [sy[s] EXCEPT !.b = b, !.pc = "readlatch"]
<1>2. /\ sy[s].pc = "walk" /\ p \in sy[s].todo /\ sy[s] \in Works /\ sy[s].b = None
      /\ s # None /\ b # None /\ s \notin Threads /\ g \in Headers /\ HeaderOK(b, g)
      /\ g.page # None
  BY <1>1, BufAssumption
     DEF SyncPin, Control, Shape, SyncerOf, SyncPinned, SyncLatched
<1>3. /\ h \in Headers /\ h.page = g.page /\ h.val = g.val /\ h.ref = g.ref + 1
      /\ h.flags = g.flags /\ h.owner = g.owner /\ h.sharers = g.sharers
  BY <1>2, PinnedIs
<1>4. d \in Works /\ d.pc = "readlatch" /\ d.b = b /\ d.todo = sy[s].todo
  BY <1>2 DEF Works, SyncPinned
<1>5. buf' = [buf EXCEPT ![b] = h] /\ sy' = [sy EXCEPT ![s] = d]
  BY <1>1
<1> HIDE DEF h, d
<1>6. SyncOK(s, d, h) /\ s \notin g.sharers
  BY <1>1, <1>2, <1>3, <1>4 DEF SyncOK, SyncLatched, HeaderOK, Shares
<1>7. g.owner # None => g.sharers = {}
  BY <1>2 DEF HeaderOK
<1>8. h.ref = Counted(g.ref, sy[s].b = b, d.b = b)
  BY <1>2, <1>3, <1>4 DEF Counted
<1>9. SyncerMoves(s, b, d, h)
  BY <1>2, <1>3, <1>4, <1>6, <1>7, <1>8 DEF SyncerMoves, SyncPinned
<1>10. /\ UNCHANGED <<th, open>> /\ Outside'
       /\ hashDirty' = Counted(hashDirty, "dirty" \in g.flags, "dirty" \in h.flags)
  BY <1>3 DEF SyncPin, Counted, Control, Shape, Outside, ioVars
<1>11. Kept
  BY <1>3, <1>5, KeptOne
<1> QED BY <1>11, <1>5, <1>9, <1>10, SyncerStep

LEMMA SyncLatchStep == ASSUME Control, NEW s \in Syncers, SyncLatch(s) PROVE Control' /\ Kept
<1> DEFINE b == sy[s].b
           g == buf[b]
           h == ReadLatched(g, s)
           pc == IF Has(b, "dirty") THEN "write" ELSE "clean"
           d == [sy[s] EXCEPT !.pc = pc]
<1>1. /\ sy[s].pc = "readlatch" /\ SyncerHas(s) /\ g.owner = None /\ g \in Headers
      /\ sy[s] \in Works
  BY SyncerAt DEF SyncLatch, Shared, SyncPinned, SyncerHas
<1>2. /\ h \in Headers /\ h.page = g.page /\ h.val = g.val /\ h.ref = g.ref
      /\ h.flags = g.flags /\ h.owner = g.owner /\ h.sharers = g.sharers \cup {s}
  BY <1>1, ReadLatchedIs
<1>3. pc \in SyncLatched /\ (pc \in {"write", "written"} => "dirty" \in g.flags)
  BY DEF SyncLatched, Has
<1>4. sy' = [sy EXCEPT ![s] = d]
  BY DEF SyncLatch
<1> HIDE DEF pc
<1>5. d \in Works /\ d.pc = pc /\ d.b = b /\ d.todo = sy[s].todo
  BY <1>1, <1>3 DEF Works, SyncPinned
<1>6. buf' = [buf EXCEPT ![b] = h]
  BY DEF SyncLatch
<1> HIDE DEF h, d
<1>7. SyncOK(s, d, h)
  BY <1>1, <1>2, <1>3, <1>5 DEF SyncOK, SyncerHas, HeaderOK
<1>8. h.ref = Counted(g.ref, sy[s].b = b, d.b = b)
  BY <1>1, <1>2, <1>5 DEF Counted
<1>9. SyncerMoves(s, b, d, h)
  BY <1>1, <1>2, <1>3, <1>5, <1>7, <1>8, BufAssumption DEF SyncerMoves, SyncPinned, SyncerHas
<1>10. /\ UNCHANGED <<th, open>> /\ Outside'
       /\ hashDirty' = Counted(hashDirty, "dirty" \in g.flags, "dirty" \in h.flags)
  BY <1>2 DEF SyncLatch, Counted, Control, Shape, Outside, ioVars
<1>11. Kept
  BY <1>1, <1>2, <1>6, KeptOne DEF SyncerHas
<1> QED BY <1>11, <1>4, <1>6, <1>9, <1>10, SyncerStep

LEMMA SyncWriteStep == ASSUME Control, NEW s \in Syncers, SyncWrite(s) PROVE Control'
<1> DEFINE b == sy[s].b
           g == buf[b]
<1>1. /\ sy[s].pc = "write" /\ SyncerHas(s) /\ g \in Headers /\ sy[s] \in Works
      /\ "trash" \notin g.flags /\ s \in g.sharers
  BY SyncerAt DEF SyncWrite, SyncPinned, SyncLatched, SyncerHas, SyncOK
<1>2. PICK pc \in {"written", "clean"}, ok \in BOOLEAN :
        sy' = [sy EXCEPT ![s].pc = pc, ![s].flushes = TRUE, ![s].ok = @ /\ ok]
  BY DEF SyncWrite
<1> DEFINE d == [sy[s] EXCEPT !.pc = pc, !.flushes = TRUE, !.ok = @ /\ ok]
<1>3. sy' = [sy EXCEPT ![s] = d]
  BY <1>2
<1>4. d \in Works /\ d.pc = pc /\ d.b = b /\ d.todo = sy[s].todo
  BY <1>1 DEF Works, SyncPinned, SyncLatched
<1> HIDE DEF d
<1>5. SyncOK(s, d, g)
  BY <1>1, <1>4 DEF SyncOK, SyncerHas, SyncLatched
<1>6. g.ref = Counted(g.ref, sy[s].b = b, d.b = b)
  BY <1>4 DEF Counted
<1>7. SyncerMoves(s, b, d, g)
  BY <1>1, <1>4, <1>5, <1>6, BufAssumption
     DEF SyncerMoves, SyncPinned, SyncLatched, SyncerHas, HeaderOK
<1>8. Outside'
  <2>1. g.val \in Nat /\ os \in [Pages -> Nat]
    BY <1>1 DEF Headers, Control, Shape, Outside
  <2>2. os' \in [Pages -> Nat]
    BY <2>1 DEF SyncWrite
  <2> QED BY <2>2 DEF SyncWrite, Control, Shape, Outside
<1>9. /\ buf' = [buf EXCEPT ![b] = g] /\ UNCHANGED <<th, open>>
      /\ hashDirty' = Counted(hashDirty, "dirty" \in g.flags, "dirty" \in g.flags)
  BY DEF SyncWrite, Counted, Control, Shape
<1> QED BY <1>3, <1>7, <1>8, <1>9, SyncerStep

LEMMA SyncWrittenStep ==
    ASSUME Control, NEW s \in Syncers, SyncWritten(s)
    PROVE Control' /\ (Values => Steady)
<1> DEFINE b == sy[s].b
           g == buf[b]
           u == Unpinned(g)
           l == Unlatched(u, s)
           d == [sy[s] EXCEPT !.pc = "walk", !.b = None, !.todo = @ \ {g.page}]
<1>1. /\ sy[s].pc \in {"written", "clean"} /\ SyncerHas(s) /\ g \in Headers /\ g.ref # 0
      /\ sy[s] \in Works /\ s \in g.sharers /\ g.owner = None /\ s # None
  BY SyncerAt DEF SyncWritten, SyncPinned, SyncLatched, SyncerHas, SyncOK, HeaderOK
<1>2. /\ u \in Headers /\ u.page = g.page /\ u.val = g.val /\ u.ref = g.ref - 1
      /\ u.flags = g.flags /\ u.owner = g.owner /\ u.sharers = g.sharers
  BY <1>1, UnpinnedIs
<1> HIDE DEF u
<1>3. /\ l \in Headers /\ l.page = g.page /\ l.val = g.val /\ l.ref = g.ref - 1
      /\ l.flags = g.flags /\ l.owner = None /\ l.sharers = g.sharers \ {s}
  BY <1>1, <1>2, UnlatchedIs
<1> HIDE DEF l
<1>4. PICK F \in {g.flags, g.flags \ {"dirty"}} :
        /\ buf' = [buf EXCEPT ![b] = [l EXCEPT !.flags = F]]
        /\ hashDirty' = IF "dirty" \in g.flags /\ "dirty" \notin F THEN hashDirty - 1
                        ELSE hashDirty
        /\ F # g.flags => sy[s].pc = "written"
  <2>1. CASE sy[s].pc = "written"
    <3>1. ClearDirty(b, l)
      BY <2>1 DEF SyncWritten, l, u
    <3> QED BY <1>3, <2>1, <3>1 DEF ClearDirty, Cleaned
  <2>2. CASE sy[s].pc = "clean"
    <3>1. buf' = [buf EXCEPT ![b] = l] /\ hashDirty' = hashDirty
      BY <2>2 DEF SyncWritten, l, u
    <3>2. l = [l EXCEPT !.flags = g.flags]
      BY <1>3 DEF Headers
    <3> QED BY <3>1, <3>2
  <2> QED BY <1>1, <2>1, <2>2
<1> DEFINE h == [l EXCEPT !.flags = F]
<1>5. /\ h \in Headers /\ h.page = g.page /\ h.val = g.val /\ h.ref = g.ref - 1
      /\ h.flags = F /\ h.owner = None /\ h.sharers = g.sharers \ {s}
  <2>1. F \in SUBSET Flags
    BY <1>1 DEF Headers
  <2> QED BY <1>3, <2>1, FlagsIs
<1>6. buf' = [buf EXCEPT ![b] = h]
  BY <1>4
<1>7. d \in Works /\ d.pc = "walk" /\ d.b = None
  BY <1>1 DEF Works
<1>8. sy' = [sy EXCEPT ![s] = d]
  BY DEF SyncWritten
<1> HIDE DEF h, d
<1>9. h.ref = Counted(g.ref, sy[s].b = b, d.b = b)
  BY <1>1, <1>5, <1>7 DEF Counted, SyncerHas
<1>10. SyncerMoves(s, b, d, h)
  BY <1>1, <1>4, <1>5, <1>7, <1>9, BufAssumption
     DEF SyncerMoves, SyncPinned, SyncLatched, SyncerHas
<1>11. /\ UNCHANGED <<th, open>> /\ Outside'
       /\ hashDirty' = Counted(hashDirty, "dirty" \in g.flags, "dirty" \in h.flags)
  BY <1>4, <1>5 DEF SyncWritten, Counted, Control, Shape, Outside, ioVars
<1>12. ASSUME Values PROVE Steady
  <2>1. CASE F = g.flags
    <3>1. Same(g, h)
      BY <1>5, <2>1 DEF Same, Good
    <3> QED BY <1>1, <1>6, <3>1, SteadyOne DEF SyncerHas
  <2>2. CASE F # g.flags
    <3>1. g.val = os[g.page] /\ g.val <= lsn
      BY <1>1, <1>4, <1>12, <2>2 DEF Values, ValueOf, SyncerHas
    <3>2. AtFile(g) /\ AtFile(h) /\ h.val <= lsn
      BY <1>5, <3>1 DEF AtFile
    <3> QED BY <1>1, <1>6, <3>2, SteadyOne DEF SyncerHas
  <2> QED BY <2>1, <2>2
<1> QED BY <1>6, <1>8, <1>10, <1>11, <1>12, SyncerStep

LEMMA ContentType == ASSUME Shape PROVE Content \in [Pages -> Nat]
<1> SUFFICES ASSUME NEW p \in Pages
             PROVE  Content[p] \in Nat
  BY DEF Content
<1> DEFINE good == {b \in Cached(p) : Has(b, "dirty") \/ ~Has(b, "trash")}
<1>1. Content[p] = IF good = {} THEN os[p] ELSE buf[CHOOSE b \in good : TRUE].val
  BY DEF Content
<1>2. good # {} => (CHOOSE b \in good : TRUE) \in Bufs
  BY DEF Cached
<1> HIDE DEF good
<1> QED BY <1>1, <1>2 DEF Shape, Outside, Headers

LEMMA SyncStartStep == ASSUME Control, NEW s \in Syncers, SyncStart(s) PROVE Control'
<1>1. PICK todo : /\ todo = IF hashDirty = 0 THEN {} ELSE {buf[b].page : b \in Dirties}
                  /\ sy' = [sy EXCEPT ![s] = [Resting EXCEPT !.pc = "walk", !.todo = todo,
                                                             !.goal = Content]]
  BY DEF SyncStart
<1> DEFINE d == [Resting EXCEPT !.pc = "walk", !.todo = todo, !.goal = Content]
<1>2. todo \in SUBSET Pages
  <2>1. \A b \in Dirties : buf[b].page # None
    BY DEF Control, HeaderOK, Empty, Dirties, Has
  <2>2. \A b \in Dirties : buf[b].page \in Pages \cup {None}
    BY DEF Control, Shape, Headers, Dirties
  <2> QED BY <1>1, <2>1, <2>2
<1>3. Content \in [Pages -> Nat]
  BY ContentType DEF Control
<1>4. d \in Works /\ d.pc = "walk" /\ d.b = None
  BY <1>2, <1>3 DEF Resting, Works
<1>5. sy' = [sy EXCEPT ![s] = d]
  BY <1>1
<1> HIDE DEF d
<1>6. sy[s].b = None
  BY DEF SyncStart, Control, SyncerOf, SyncPinned, SyncLatched
<1>7. UNCHANGED <<buf, hashDirty, th, open>> /\ Outside'
  BY DEF SyncStart, Control, Shape, Outside
<1> QED BY <1>4, <1>5, <1>6, <1>7, WorkAway DEF SyncPinned, SyncLatched

LEMMA SyncSkipStep ==
    ASSUME Control, NEW s \in Syncers, NEW p \in Pages, SyncSkip(s, p)
    PROVE  Control'
<1> DEFINE d == [sy[s] EXCEPT !.todo = @ \ {p}]
<1>1. sy[s] \in Works /\ sy[s].b = None /\ sy[s].pc = "walk"
  BY DEF SyncSkip, Control, Shape, SyncerOf, SyncPinned, SyncLatched
<1>2. d \in Works /\ d.pc = "walk" /\ d.b = None
  BY <1>1 DEF Works
<1>3. sy' = [sy EXCEPT ![s] = d]
  BY DEF SyncSkip
<1> HIDE DEF d
<1>4. UNCHANGED <<buf, hashDirty, th, open>> /\ Outside'
  BY DEF SyncSkip, Control, Shape, Outside, ioVars
<1> QED BY <1>1, <1>2, <1>3, <1>4, WorkAway DEF SyncPinned, SyncLatched

LEMMA SyncFileStep == ASSUME Control, NEW s \in Syncers, SyncFile(s) PROVE Control'
<1>1. sy[s] \in Works /\ sy[s].b = None
  BY DEF SyncFile, Control, Shape, SyncerOf, SyncPinned, SyncLatched
<1>2. PICK d : /\ d \in {[sy[s] EXCEPT !.pc = "fsync", !.refers = TRUE],
                         [sy[s] EXCEPT !.pc = "done"]}
               /\ sy' = [sy EXCEPT ![s] = d]
  <2>1. \/ sy' = [sy EXCEPT ![s] = [sy[s] EXCEPT !.pc = "fsync", !.refers = TRUE]]
        \/ sy' = [sy EXCEPT ![s] = [sy[s] EXCEPT !.pc = "done"]]
    BY DEF SyncFile
  <2> QED BY <2>1
<1>3. d \in Works /\ d.pc \in {"fsync", "done"} /\ d.b = None
  <2>1. CASE d = [sy[s] EXCEPT !.pc = "fsync", !.refers = TRUE]
    BY <1>1, <2>1 DEF Works
  <2>2. CASE d = [sy[s] EXCEPT !.pc = "done"]
    BY <1>1, <2>2 DEF Works
  <2> QED BY <1>2, <2>1, <2>2
<1>4. UNCHANGED <<buf, hashDirty, th, open>> /\ Outside'
  BY DEF SyncFile, Control, Shape, Outside, ioVars
<1> QED BY <1>1, <1>2, <1>3, <1>4, WorkAway DEF SyncPinned, SyncLatched

LEMMA FsyncStep == ASSUME Control, NEW s \in Syncers, Fsync(s) PROVE Control'
<1>1. sy[s] \in Works /\ sy[s].b = None
  BY DEF Fsync, Control, Shape, SyncerOf, SyncPinned, SyncLatched
<1>2. PICK d \in {[sy[s] EXCEPT !.pc = "synced"],
                  [sy[s] EXCEPT !.pc = "synced", !.ok = FALSE]} :
        sy' = [sy EXCEPT ![s] = d]
  BY DEF Fsync
<1>3. d \in Works /\ d.pc = "synced" /\ d.b = None
  BY <1>1, <1>2 DEF Works
<1>4. UNCHANGED <<buf, hashDirty, th, open>> /\ Outside'
  BY DEF Fsync, Control, Shape, Outside
<1> QED BY <1>1, <1>2, <1>3, <1>4, WorkAway DEF SyncPinned, SyncLatched

LEMMA SyncFileEndStep == ASSUME Control, NEW s \in Syncers, SyncFileEnd(s) PROVE Control'
<1> DEFINE d == [sy[s] EXCEPT !.pc = "done", !.refers = FALSE]
<1>1. sy[s] \in Works /\ sy[s].b = None
  BY DEF SyncFileEnd, Control, Shape, SyncerOf, SyncPinned, SyncLatched
<1>2. d \in Works /\ d.pc = "done" /\ d.b = None
  BY <1>1 DEF Works
<1>3. sy' = [sy EXCEPT ![s] = d]
  BY DEF SyncFileEnd
<1> HIDE DEF d
<1>4. UNCHANGED <<buf, hashDirty, th, open>> /\ Outside'
  BY DEF SyncFileEnd, Control, Shape, Outside, ioVars
<1> QED BY <1>1, <1>2, <1>3, <1>4, WorkAway DEF SyncPinned, SyncLatched

LEMMA RestingIs == Resting \in Works /\ Resting.pc = "idle" /\ Resting.b = None
BY DEF Resting, Works

LEMMA SyncDoneStep == ASSUME Control, NEW s \in Syncers, SyncDone(s) PROVE Control'
<1>1. sy[s].b = None
  BY DEF SyncDone, Control, SyncerOf, SyncPinned, SyncLatched
<1>2. UNCHANGED <<buf, hashDirty, th, open>> /\ Outside' /\ sy' = [sy EXCEPT ![s] = Resting]
  BY DEF SyncDone, Control, Shape, Outside, ioVars
<1> QED BY <1>1, <1>2, RestingIs, WorkAway DEF SyncPinned, SyncLatched

LEMMA ControlInit == Init => Control
<1> SUFFICES ASSUME Init PROVE Control
  OBVIOUS
<1>1. Shape
  <2>1. /\ buf \in [Bufs -> Headers] /\ th \in [Threads -> Calls]
        /\ sy \in [Syncers -> Works] /\ open \in [Threads -> BOOLEAN]
    BY EmptyIs, IdleIs, RestingIs DEF Init
  <2>2. os \in [Pages -> Nat] /\ stable \in [Pages -> Nat]
    BY DEF Init
  <2> QED BY <2>1, <2>2 DEF Init, Shape, Outside
<1>2. /\ \A t \in Threads : ThreadOf(t)
      /\ \A s \in Syncers : SyncerOf(s)
  BY IdleIs, RestingIs DEF Init, ThreadOf, SyncerOf, SyncPinned, SyncLatched
<1>3. \A b \in Bufs : HeaderOK(b, buf[b])
  BY DEF Init, HeaderOK, Empty
<1>4. Refs
  <2>1. \A b \in Bufs : Pins(b) = {}
    BY IdleIs, RestingIs, BufAssumption DEF Init, Pins
  <2> QED BY <2>1, FS_EmptySet DEF Init, Refs, Empty
<1>5. Mines /\ UniquePage
  BY IdleIs DEF Init, Mines, UniquePage, Empty
<1>6. DirtyExact
  <2>1. Dirties = {}
    BY DEF Init, Dirties, Has, Empty
  <2> QED BY <2>1, FS_EmptySet DEF Init, DirtyExact
<1> QED BY <1>1, <1>2, <1>3, <1>4, <1>5, <1>6 DEF Control

LEMMA ControlNext == Control /\ [Next]_vars => Control'
<1> SUFFICES ASSUME Control, [Next]_vars PROVE Control'
  OBVIOUS
<1>1. ASSUME NEW t \in Threads, FgetNext(t) PROVE Control'
  <2>1. ASSUME NEW p \in Pages, NEW m \in {"read", "write"}, Get(t, p, m) PROVE Control'
    BY <2>1, GetStep DEF Modes
  <2> QED BY <1>1, <2>1, RetryStep, InstantiateStep, LatchStep, ReadLatchStep, FillStep,
             FillFailsStep, RelatchStep DEF FgetNext
<1>2. ASSUME NEW t \in Threads, AllocNext(t) PROVE Control'
  BY <1>2, AllocFreeStep, ChooseStep, TryLatchStep, EvictStep, EvictedStep, ReuseStep,
     AllocFailsStep DEF AllocNext
<1>3. ASSUME NEW t \in Threads, HoldNext(t) PROVE Control'
  BY <1>3, UpdateStep, DirtyStep, UpgradeStep, DowngradeStep, PutStep, ReleaseStep, HandleStep,
     FlushPageStep DEF HoldNext
<1>4. ASSUME NEW s \in Syncers, SyncNext(s) PROVE Control'
  <2>1. ASSUME NEW p \in Pages, SyncSkip(s, p) \/ SyncPin(s, p) PROVE Control'
    BY <2>1, SyncSkipStep, SyncPinStep
  <2> QED BY <1>4, <2>1, SyncStartStep, SyncLatchStep, SyncWriteStep, SyncWrittenStep,
             SyncFileStep, FsyncStep, SyncFileEndStep, SyncDoneStep DEF SyncNext
<1>5. ASSUME UNCHANGED vars PROVE Control'
  <2>1. UNCHANGED <<buf, hashDirty, th, sy, open, fileWritten, os, stable, lsn>>
    BY <1>5 DEF vars, ioVars
  <2>2. Outside' /\ th' \in [Threads -> Calls] /\ sy' \in [Syncers -> Works]
        /\ open' \in [Threads -> BOOLEAN]
    BY <2>1 DEF Control, Shape, Outside
  <2>3. Mines' /\ \A t \in Threads : th'[t].pc # "idle" => open'[t]
    BY <2>1 DEF Control, Mines, ThreadOf
  <2> QED BY <2>1, <2>2, <2>3, AwayStep
<1> QED BY <1>1, <1>2, <1>3, <1>4, <1>5 DEF Next

-----------------------------------------------------------------------------
(* What every action does to the contents.                                 *)

\* The threads at "evicted" and the syncers at "written" were there before.
MarksStay ==
    /\ \A t \in Threads : th'[t].pc = "evicted" => th[t].pc = "evicted" /\ th'[t].b = th[t].b
    /\ \A s \in Syncers : sy'[s].pc = "written" => sy[s].pc = "written" /\ sy'[s].b = sy[s].b

\* No page's content changes, and none is written to the file.
Quiet ==
    /\ UNCHANGED <<os, lsn>> /\ logged' \in {logged, lsn} /\ stable' \in {stable, os}
    /\ Steady /\ MarksStay

\* Buffer b is written to the file, and may be clean then, or the write fails.
WritesOut(b) ==
    LET g == buf[b]
    IN  /\ b \in Bufs /\ "dirty" \in g.flags /\ g.page \in Pages
        /\ UNCHANGED <<lsn, stable>> /\ LogFlush(b)
        /\ os' \in {os, [os EXCEPT ![g.page] = g.val]}
        /\ \A d \in Bufs : /\ buf'[d].page = buf[d].page /\ buf'[d].val = buf[d].val
                           /\ Good(buf'[d]) <=> Good(buf[d])
                           /\ \/ "dirty" \in buf'[d].flags <=> "dirty" \in buf[d].flags
                              \/ /\ "dirty" \notin buf'[d].flags
                                 /\ d = b /\ os'[g.page] = g.val
        /\ \A t \in Threads : th'[t].pc = "evicted" =>
             \/ th[t].pc = "evicted" /\ th'[t].b = th[t].b
             \/ th'[t].b = b /\ os'[g.page] = g.val
        /\ \A s \in Syncers : sy'[s].pc = "written" =>
             \/ sy[s].pc = "written" /\ sy'[s].b = sy[s].b
             \/ sy'[s].b = b /\ os'[g.page] = g.val

LEMMA MarksMove ==
    ASSUME Control, NEW t \in Threads, NEW c, c.pc # "evicted", th' = [th EXCEPT ![t] = c],
           UNCHANGED sy
    PROVE  MarksStay
<1>1. th \in [Threads -> Calls]
  BY DEF Control, Shape
<1> QED BY <1>1 DEF MarksStay

LEMMA SearchMarks ==
    ASSUME Control, NEW t \in Threads, NEW call \in Calls, Search(t, call), UNCHANGED sy
    PROVE  MarksStay
<1>1. CASE Cached(call.page) = {}
  <2> DEFINE c == [call EXCEPT !.pc = "alloc"]
  <2>1. c.pc = "alloc"
    BY DEF Calls
  <2>2. th' = [th EXCEPT ![t] = c]
    BY <1>1 DEF Search
  <2> HIDE DEF c
  <2> QED BY <2>1, <2>2, MarksMove
<1>2. CASE Cached(call.page) # {}
  <2> DEFINE pc == IF call.mode = "read" THEN "readlatch" ELSE "latch"
  <2>1. PICK b \in Bufs : th' = [th EXCEPT ![t] = [call EXCEPT !.b = b, !.pc = pc]]
    BY <1>2 DEF Search, Cached
  <2>2. pc # "evicted"
    OBVIOUS
  <2> HIDE DEF pc
  <2> DEFINE c == [call EXCEPT !.b = b, !.pc = pc]
  <2>3. c.pc = pc
    BY DEF Calls
  <2>4. th' = [th EXCEPT ![t] = c]
    BY <2>1
  <2> HIDE DEF c
  <2> QED BY <2>2, <2>3, <2>4, MarksMove
<1> QED BY <1>1, <1>2

\* "Back to the search" of __memp_alloc.
LEMMA NextHbMarks ==
    ASSUME Control, NEW t \in Threads, NEW h, NextHb(t, h), UNCHANGED sy
    PROVE  MarksStay
<1> DEFINE c == [th[t] EXCEPT !.b = None, !.pc = "alloc"]
<1>1. th[t] \in Calls
  BY DEF Control, Shape
<1>2. c.pc = "alloc"
  BY <1>1, AllocIs
<1>3. th' = [th EXCEPT ![t] = c]
  BY DEF NextHb
<1> HIDE DEF c
<1> QED BY <1>2, <1>3, MarksMove

LEMMA FgetQuiet ==
    ASSUME Control, Values, NEW t \in Threads, FgetNext(t)
    PROVE  Quiet
<1>1. th \in [Threads -> Calls]
  BY DEF Control, Shape
<1>2. ASSUME NEW p \in Pages, NEW m \in {"read", "write"}, Get(t, p, m)
      PROVE  Quiet
  <2>1. Steady
    BY <1>2, GetStep, KeptSteady DEF Modes
  <2>2. MarksStay
    <3>1. [Idle EXCEPT !.page = p, !.mode = m] \in Calls
      BY DEF Idle, Calls, Modes
    <3> QED BY <1>2, <3>1, SearchMarks DEF Get
  <2> QED BY <1>2, <2>1, <2>2 DEF Quiet, Get, ioVars
<1>3. ASSUME Retry(t) PROVE Quiet
  <2>1. Steady
    BY <1>3, RetryStep, KeptSteady
  <2>2. MarksStay
    BY <1>1, <1>3, SearchMarks DEF Retry
  <2> QED BY <1>3, <2>1, <2>2 DEF Quiet, Retry, ioVars
<1>4. ASSUME Instantiate(t) PROVE Quiet
  <2>1. Steady
    BY <1>4, InstantiateStep
  <2>2. MarksStay
    BY <1>1, <1>4 DEF MarksStay, Instantiate
  <2> QED BY <1>4, <2>1, <2>2 DEF Quiet, Instantiate, ioVars
<1>5. ASSUME Latch(t) PROVE Quiet
  <2>1. Steady
    BY <1>5, LatchStep, KeptSteady
  <2>2. MarksStay
    BY <1>1, <1>5 DEF MarksStay, Latch, GoTo
  <2> QED BY <1>5, <2>1, <2>2 DEF Quiet, Latch, ioVars
<1>6. ASSUME ReadLatch(t) PROVE Quiet
  <2>1. Steady
    BY <1>6, ReadLatchStep, KeptSteady
  <2>2. MarksStay
    <3>1. PICK pc \in {"latch", "fill"} : th' = [th EXCEPT ![t].pc = pc]
      BY <1>6 DEF ReadLatch, GoTo
    <3> QED BY <1>1, <1>6, <3>1 DEF MarksStay, ReadLatch
  <2> QED BY <1>6, <2>1, <2>2 DEF Quiet, ReadLatch, ioVars
<1>7. ASSUME Fill(t) PROVE Quiet
  <2>1. Steady
    BY <1>7, FillStep
  <2>2. MarksStay
    <3>1. PICK pc \in {"hold", "relatch"} :
            th' = [th EXCEPT ![t].pc = pc, ![t].mine = None]
      BY <1>7 DEF Fill
    <3> QED BY <1>1, <1>7, <3>1 DEF MarksStay, Fill
  <2> QED BY <1>7, <2>1, <2>2 DEF Quiet, Fill, ioVars
<1>8. ASSUME FillFails(t) PROVE Quiet
  <2>1. Steady
    BY <1>8, FillFailsStep, KeptSteady
  <2>2. MarksStay
    BY <1>1, <1>8, IdleIs DEF MarksStay, FillFails
  <2> QED BY <1>8, <2>1, <2>2 DEF Quiet, FillFails, ioVars
<1>9. ASSUME Relatch(t) PROVE Quiet
  <2>1. Steady
    BY <1>9, RelatchStep, KeptSteady
  <2>2. MarksStay
    BY <1>1, <1>9 DEF MarksStay, Relatch, GoTo
  <2> QED BY <1>9, <2>1, <2>2 DEF Quiet, Relatch, ioVars
<1> QED BY <1>2, <1>3, <1>4, <1>5, <1>6, <1>7, <1>8, <1>9 DEF FgetNext

LEMMA AllocQuiet ==
    ASSUME Control, Values, NEW t \in Threads, AllocNext(t), ~Evict(t)
    PROVE  Quiet
<1>1. th \in [Threads -> Calls]
  BY DEF Control, Shape
<1>2. ASSUME AllocFree(t) PROVE Quiet
  <2>1. Steady
    BY <1>2, KeptSteady DEF AllocFree, Kept
  <2>2. MarksStay
    BY <1>1, <1>2 DEF MarksStay, AllocFree
  <2> QED BY <1>2, <2>1, <2>2 DEF Quiet, AllocFree, ioVars
<1>3. ASSUME Choose(t) PROVE Quiet
  <2>1. Steady
    BY <1>3, ChooseStep, KeptSteady
  <2>2. MarksStay
    BY <1>1, <1>3 DEF MarksStay, Choose
  <2> QED BY <1>3, <2>1, <2>2 DEF Quiet, Choose, ioVars
<1>4. ASSUME TryLatch(t) PROVE Quiet
  <2>1. Steady
    BY <1>4, TryLatchStep, KeptSteady
  <2>2. MarksStay
    <3>1. CASE buf[th[t].b].ref > 1 \/ ~Free(th[t].b)
      BY <1>4, <3>1, NextHbMarks DEF TryLatch
    <3>2. CASE ~(buf[th[t].b].ref > 1 \/ ~Free(th[t].b))
      <4>1. PICK pc \in {"evict", "reuse"} : th' = [th EXCEPT ![t].pc = pc]
        <5>1. GoTo(t, IF Has(th[t].b, "dirty") THEN "evict" ELSE "reuse")
          BY <1>4, <3>2 DEF TryLatch
        <5> QED BY <5>1 DEF GoTo
      <4> QED BY <1>1, <1>4, <4>1 DEF MarksStay, TryLatch
    <3> QED BY <3>1, <3>2
  <2> QED BY <1>4, <2>1, <2>2 DEF Quiet, TryLatch, ioVars
<1>5. ASSUME Evicted(t) PROVE Quiet
  <2>1. Steady
    BY <1>5, EvictedStep
  <2>2. MarksStay
    BY <1>1, <1>5 DEF MarksStay, Evicted, GoTo
  <2> QED BY <1>5, <2>1, <2>2 DEF Quiet, Evicted, ioVars
<1>6. ASSUME Reuse(t) PROVE Quiet
  <2>1. Steady
    BY <1>6, ReuseStep
  <2>2. MarksStay
    <3>1. CASE Wanted(th[t].b)
      BY <1>6, <3>1, NextHbMarks DEF Reuse
    <3>2. CASE ~Wanted(th[t].b)
      <4> DEFINE c == [th[t] EXCEPT !.mine = th[t].b, !.b = None, !.pc = "search"]
      <4>1. c.pc = "search"
        BY <1>1 DEF Calls
      <4>2. th' = [th EXCEPT ![t] = c] /\ UNCHANGED sy
        BY <1>6, <3>2 DEF Reuse
      <4> HIDE DEF c
      <4> QED BY <4>1, <4>2, MarksMove
    <3> QED BY <3>1, <3>2
  <2> QED BY <1>6, <2>1, <2>2 DEF Quiet, Reuse, ioVars
<1>7. ASSUME AllocFails(t) PROVE Quiet
  <2>1. Steady
    BY <1>7, KeptSteady DEF AllocFails, Kept
  <2>2. MarksStay
    BY <1>1, <1>7, IdleIs DEF MarksStay, AllocFails
  <2> QED BY <1>7, <2>1, <2>2 DEF Quiet, AllocFails, ioVars
<1> QED BY <1>2, <1>3, <1>4, <1>5, <1>6, <1>7 DEF AllocNext

LEMMA HoldQuiet ==
    ASSUME Control, Values, NEW t \in Threads, HoldNext(t), ~Update(t), ~FlushPage(t)
    PROVE  Quiet
<1>1. th \in [Threads -> Calls]
  BY DEF Control, Shape
<1>2. ASSUME Dirty(t) PROVE Quiet
  <2>1. Steady
    BY <1>2, DirtyStep, KeptSteady
  <2>2. MarksStay
    BY <1>1, <1>2 DEF MarksStay, Dirty
  <2> QED BY <1>2, <2>1, <2>2 DEF Quiet, Dirty, ioVars
<1>3. ASSUME Upgrade(t) PROVE Quiet
  <2>1. Steady
    BY <1>3, UpgradeStep
  <2>2. MarksStay
    BY <1>1, <1>3 DEF MarksStay, Upgrade, GoTo
  <2> QED BY <1>3, <2>1, <2>2 DEF Quiet, Upgrade, ioVars
<1>4. ASSUME Downgrade(t) PROVE Quiet
  <2>1. Steady
    BY <1>4, DowngradeStep, KeptSteady
  <2>2. MarksStay
    BY <1>1, <1>4 DEF MarksStay, Downgrade
  <2> QED BY <1>4, <2>1, <2>2 DEF Quiet, Downgrade, ioVars
<1>5. ASSUME Put(t) PROVE Quiet
  <2>1. Steady
    BY <1>5, PutStep, KeptSteady
  <2>2. MarksStay
    BY <1>1, <1>5 DEF MarksStay, Put, GoTo
  <2> QED BY <1>5, <2>1, <2>2 DEF Quiet, Put, ioVars
<1>6. ASSUME Release(t) PROVE Quiet
  <2>1. Steady
    BY <1>6, ReleaseStep, KeptSteady
  <2>2. MarksStay
    BY <1>1, <1>6, IdleIs DEF MarksStay, Release
  <2> QED BY <1>6, <2>1, <2>2 DEF Quiet, Release, ioVars
<1>7. ASSUME Open(t) \/ Close(t) PROVE Quiet
  <2>1. Steady
    BY <1>7, KeptSteady DEF Open, Close, Kept
  <2>2. MarksStay
    BY <1>7 DEF MarksStay, Open, Close
  <2> QED BY <1>7, <2>1, <2>2 DEF Quiet, Open, Close, FlushedAtClose, ioVars
<1> QED BY <1>2, <1>3, <1>4, <1>5, <1>6, <1>7 DEF HoldNext

LEMMA SyncQuiet ==
    ASSUME Control, Values, NEW s \in Syncers, SyncNext(s), ~SyncWrite(s)
    PROVE  Quiet
<1>1. sy \in [Syncers -> Works]
  BY DEF Control, Shape
<1>2. ASSUME SyncStart(s) PROVE Quiet
  <2>1. Steady
    BY <1>2, KeptSteady DEF SyncStart, Kept
  <2>2. MarksStay
    BY <1>1, <1>2 DEF MarksStay, SyncStart, Resting
  <2> QED BY <1>2, <2>1, <2>2 DEF Quiet, SyncStart
<1>3. ASSUME NEW p \in Pages, SyncSkip(s, p) PROVE Quiet
  <2>1. Steady
    BY <1>3, KeptSteady DEF SyncSkip, Kept
  <2>2. MarksStay
    BY <1>1, <1>3 DEF MarksStay, SyncSkip
  <2> QED BY <1>3, <2>1, <2>2 DEF Quiet, SyncSkip, ioVars
<1>4. ASSUME NEW p \in Pages, SyncPin(s, p) PROVE Quiet
  <2>1. Steady
    BY <1>4, SyncPinStep, KeptSteady
  <2>2. MarksStay
    BY <1>1, <1>4 DEF MarksStay, SyncPin
  <2> QED BY <1>4, <2>1, <2>2 DEF Quiet, SyncPin, ioVars
<1>5. ASSUME SyncLatch(s) PROVE Quiet
  <2>1. Steady
    BY <1>5, SyncLatchStep, KeptSteady
  <2>2. MarksStay
    BY <1>1, <1>5 DEF MarksStay, SyncLatch
  <2> QED BY <1>5, <2>1, <2>2 DEF Quiet, SyncLatch, ioVars
<1>6. ASSUME SyncWritten(s) PROVE Quiet
  <2>1. Steady
    BY <1>6, SyncWrittenStep
  <2>2. MarksStay
    BY <1>1, <1>6 DEF MarksStay, SyncWritten
  <2> QED BY <1>6, <2>1, <2>2 DEF Quiet, SyncWritten, ioVars
<1>7. ASSUME SyncFile(s) PROVE Quiet
  <2>1. Steady
    BY <1>7, KeptSteady DEF SyncFile, Kept
  <2>2. MarksStay
    BY <1>1, <1>7 DEF MarksStay, SyncFile
  <2> QED BY <1>7, <2>1, <2>2 DEF Quiet, SyncFile, ioVars
<1>8. ASSUME Fsync(s) PROVE Quiet
  <2>1. Steady
    BY <1>8, KeptSteady DEF Fsync, Kept
  <2>2. PICK ok \in BOOLEAN : sy' = [sy EXCEPT ![s].pc = "synced", ![s].ok = ok]
    <3>1. sy' = [sy EXCEPT ![s].pc = "synced"] =>
            sy' = [sy EXCEPT ![s].pc = "synced", ![s].ok = sy[s].ok]
      BY <1>1 DEF Works
    <3>2. sy[s].ok \in BOOLEAN
      BY <1>1 DEF Works
    <3> QED BY <1>8, <3>1, <3>2 DEF Fsync
  <2>3. MarksStay
    BY <1>1, <1>8, <2>2 DEF MarksStay, Fsync
  <2> QED BY <1>8, <2>1, <2>3 DEF Quiet, Fsync
<1>9. ASSUME SyncFileEnd(s) PROVE Quiet
  <2>1. Steady
    BY <1>9, KeptSteady DEF SyncFileEnd, Kept
  <2>2. MarksStay
    BY <1>1, <1>9 DEF MarksStay, SyncFileEnd
  <2> QED BY <1>9, <2>1, <2>2 DEF Quiet, SyncFileEnd, ioVars
<1>10. ASSUME SyncDone(s) PROVE Quiet
  <2>1. Steady
    BY <1>10, KeptSteady DEF SyncDone, Kept
  <2>2. MarksStay
    BY <1>1, <1>10, RestingIs DEF MarksStay, SyncDone
  <2> QED BY <1>10, <2>1, <2>2 DEF Quiet, SyncDone, ioVars
<1> QED BY <1>2, <1>3, <1>4, <1>5, <1>6, <1>7, <1>8, <1>9, <1>10 DEF SyncNext

LEMMA EvictWrites ==
    ASSUME Control, NEW t \in Threads, Evict(t)
    PROVE  WritesOut(th[t].b)
<1> DEFINE b == th[t].b
           g == buf[b]
           h == [g EXCEPT !.flags = @ \cup {"trash"}]
<1>1. /\ b \in Bufs /\ g \in Headers /\ g.page \in Pages /\ "dirty" \in g.flags
      /\ os \in [Pages -> Nat] /\ th \in [Threads -> Calls] /\ buf \in [Bufs -> Headers]
  BY ThreadAt DEF Evict, ThreadHas, CallOK, Control, Shape, Outside
<1>2. h.page = g.page /\ h.val = g.val /\ h.flags = g.flags \cup {"trash"}
  BY <1>1 DEF Headers
<1>3. buf' = [buf EXCEPT ![b] = h]
  BY DEF Evict
<1> HIDE DEF h
<1>4. buf'[b] = h /\ \A d \in Bufs \ {b} : buf'[d] = buf[d]
  BY <1>1, <1>3
<1>5. \A d \in Bufs : /\ buf'[d].page = buf[d].page /\ buf'[d].val = buf[d].val
                      /\ "dirty" \in buf'[d].flags <=> "dirty" \in buf[d].flags
                      /\ Good(buf'[d]) <=> Good(buf[d])
  BY <1>1, <1>2, <1>4 DEF Good
<1>6. \/ os' = [os EXCEPT ![g.page] = g.val] /\ th' = [th EXCEPT ![t].pc = "evicted"]
      \/ os' = os /\ th' = [th EXCEPT ![t].pc = "unwritten"]
  BY DEF Evict, GoTo
<1>7. ASSUME NEW u \in Threads, th'[u].pc = "evicted"
      PROVE  \/ th[u].pc = "evicted" /\ th'[u].b = th[u].b
             \/ th'[u].b = b /\ os'[g.page] = g.val
  <2>1. CASE os' = [os EXCEPT ![g.page] = g.val] /\ th' = [th EXCEPT ![t].pc = "evicted"]
    BY <1>1, <1>7, <2>1
  <2>2. CASE os' = os /\ th' = [th EXCEPT ![t].pc = "unwritten"]
    BY <1>1, <1>7, <2>2
  <2> QED BY <1>6, <2>1, <2>2
<1>8. UNCHANGED <<lsn, stable, sy>> /\ LogFlush(b)
  BY DEF Evict
<1> QED BY <1>1, <1>5, <1>6, <1>7, <1>8 DEF WritesOut

LEMMA FlushWrites ==
    ASSUME Control, NEW t \in Threads, FlushPage(t)
    PROVE  \E b \in Bufs : WritesOut(b)
<1>1. PICK b \in Bufs : /\ Has(b, "dirty") /\ ~Has(b, "exclusive") /\ LogFlush(b)
                        /\ os' = [os EXCEPT ![buf[b].page] = buf[b].val]
                        /\ ClearDirty(b, buf[b])
  BY DEF FlushPage, Dirties
<1> DEFINE g == buf[b]
           h == Cleaned(g)
<1>2. /\ g \in Headers /\ HeaderOK(b, g) /\ buf \in [Bufs -> Headers]
      /\ os \in [Pages -> Nat]
  BY DEF Control, Shape, Outside
<1>3. h.page = g.page /\ h.val = g.val /\ h.flags = g.flags \ {"dirty"}
  BY <1>2 DEF Cleaned, Headers
<1>4. "dirty" \in g.flags /\ "trash" \notin g.flags /\ g.page \in Pages
  BY <1>1, <1>2 DEF HeaderOK, Has, Headers, Empty
<1>5. buf' = [buf EXCEPT ![b] = h]
  BY <1>1 DEF ClearDirty
<1> HIDE DEF h
<1>6. buf'[b] = h /\ \A d \in Bufs \ {b} : buf'[d] = buf[d]
  BY <1>2, <1>5
<1>7. os'[g.page] = g.val
  BY <1>1, <1>2, <1>4
<1>8. Good(g) <=> Good(h)
  BY <1>3, <1>4 DEF Good
<1>9. \A d \in Bufs : /\ buf'[d].page = buf[d].page /\ buf'[d].val = buf[d].val
                      /\ Good(buf'[d]) <=> Good(buf[d])
                      /\ \/ "dirty" \in buf'[d].flags <=> "dirty" \in buf[d].flags
                         \/ "dirty" \notin buf'[d].flags /\ d = b
  BY <1>3, <1>6, <1>8
<1>10. UNCHANGED <<lsn, stable, th, sy>>
  BY DEF FlushPage
<1> QED BY <1>1, <1>4, <1>7, <1>9, <1>10 DEF WritesOut

LEMMA SyncWrites ==
    ASSUME Control, NEW s \in Syncers, SyncWrite(s)
    PROVE  Quiet \/ WritesOut(sy[s].b)
<1> DEFINE b == sy[s].b
           g == buf[b]
<1>1. /\ b \in Bufs /\ g \in Headers /\ g.page \in Pages
      /\ os \in [Pages -> Nat] /\ sy \in [Syncers -> Works] /\ sy[s].pc = "write"
  BY SyncerAt DEF SyncWrite, SyncerHas, SyncPinned, SyncLatched, Control, Shape, Outside
<1>2. PICK pc \in {"written", "clean"}, ok \in BOOLEAN :
        /\ sy' = [sy EXCEPT ![s].pc = pc, ![s].flushes = TRUE, ![s].ok = @ /\ ok]
        /\ pc = "written" => Has(b, "dirty") /\ os' = [os EXCEPT ![g.page] = g.val]
        /\ pc = "clean" => os' = os
  BY DEF SyncWrite
<1>3. sy'[s].b = b /\ sy'[s].pc = pc /\ \A r \in Syncers \ {s} : sy'[r] = sy[r]
  <2> DEFINE d == [sy[s] EXCEPT !.pc = pc, !.flushes = TRUE, !.ok = @ /\ ok]
  <2>1. d.pc = pc /\ d.b = b
    BY <1>1 DEF Works
  <2>2. sy' = [sy EXCEPT ![s] = d]
    BY <1>2
  <2> HIDE DEF d
  <2> QED BY <1>1, <2>1, <2>2
<1>4. CASE ~Has(b, "dirty")
  <2>1. UNCHANGED <<buf, os, logged, lsn, stable, th>>
    BY <1>4 DEF SyncWrite
  <2>2. \A r \in Syncers : sy'[r].pc = "written" => sy[r].pc = "written" /\ sy'[r].b = sy[r].b
    BY <1>2, <1>3, <1>4
  <2> QED BY <2>1, <2>2, KeptSteady DEF Quiet, MarksStay, Kept
<1>5. CASE Has(b, "dirty")
  <2>1. UNCHANGED <<buf, lsn, stable, th>> /\ LogFlush(b)
    BY <1>5 DEF SyncWrite
  <2>2. ASSUME NEW r \in Syncers, sy'[r].pc = "written"
        PROVE  \/ sy[r].pc = "written" /\ sy'[r].b = sy[r].b
               \/ sy'[r].b = b /\ os'[g.page] = g.val
    BY <1>1, <1>2, <1>3, <2>2
  <2>3. os' \in {os, [os EXCEPT ![g.page] = g.val]}
    BY <1>2
  <2> QED BY <1>1, <1>5, <2>1, <2>2, <2>3 DEF WritesOut, Has
<1> QED BY <1>4, <1>5

\* An application's change of the page that it has.
Changes(t) ==
    LET b == th[t].b
    IN  /\ t \in Threads /\ b \in Bufs
        /\ th[t].pc = "hold" /\ th[t].mode = "write"
        /\ lsn < MaxLsn /\ lsn' = lsn + 1
        /\ UNCHANGED <<os, stable, logged, th, sy, open, fileWritten>>
        /\ buf[b].page \in Pages /\ buf[b].owner = t /\ buf[b].sharers = {}
        /\ "dirty" \in buf[b].flags /\ "trash" \notin buf[b].flags
        /\ \A d \in Bufs \ {b} : buf'[d] = buf[d]
        /\ buf'[b].val = lsn + 1 /\ buf'[b].page = buf[b].page
        /\ buf'[b].flags = buf[b].flags /\ buf'[b].owner = t

LEMMA UpdateChanges == ASSUME Control, NEW t \in Threads, Update(t) PROVE Changes(t)
<1> DEFINE b == th[t].b
           g == buf[b]
           h == [g EXCEPT !.val = lsn + 1]
<1>1. /\ th[t].pc = "hold" /\ th[t].mode = "write" /\ ThreadHas(t)
      /\ b \in Bufs /\ g \in Headers /\ buf \in [Bufs -> Headers]
  BY ThreadAt DEF Update, ThreadHas, Control, Shape
<1>2. /\ g.page \in Pages /\ g.owner = t /\ g.sharers = {}
      /\ "dirty" \in g.flags /\ "trash" \notin g.flags
  BY <1>1 DEF ThreadHas, CallOK, HeaderOK
<1>3. h.val = lsn + 1 /\ h.page = g.page /\ h.flags = g.flags /\ h.owner = g.owner
  BY <1>1 DEF Headers
<1>4. buf' = [buf EXCEPT ![b] = h]
  BY DEF Update
<1> HIDE DEF h
<1>5. buf'[b] = h /\ \A d \in Bufs \ {b} : buf'[d] = buf[d]
  BY <1>1, <1>4
<1> QED BY <1>1, <1>2, <1>3, <1>5 DEF Changes, Update

\* What any step does to the contents of buffers and file.
LEMMA NextData ==
    ASSUME Control, Values, [Next]_vars
    PROVE  Quiet \/ (\E b \in Bufs : WritesOut(b)) \/ (\E t \in Threads : Changes(t))
<1>1. ASSUME NEW t \in Threads, Evict(t) PROVE \E b \in Bufs : WritesOut(b)
  BY <1>1, EvictWrites DEF WritesOut
<1>2. ASSUME NEW s \in Syncers, SyncWrite(s) PROVE Quiet \/ \E b \in Bufs : WritesOut(b)
  BY <1>2, SyncWrites DEF WritesOut
<1>3. ASSUME UNCHANGED vars PROVE Quiet
  BY <1>3, KeptSteady DEF Quiet, MarksStay, Kept, vars, ioVars
<1> QED BY <1>1, <1>2, <1>3, FgetQuiet, AllocQuiet, HoldQuiet, SyncQuiet, FlushWrites,
           UpdateChanges
        DEF Next

\* The buffers that were just written have the page in them.
Marked ==
    /\ \A t \in Threads : th[t].pc = "evicted" => th[t].b \in Bufs /\ Good(buf[th[t].b])
    /\ \A s \in Syncers : sy[s].pc = "written" => sy[s].b \in Bufs /\ Good(buf[sy[s].b])
    /\ \A b \in Bufs : Good(buf[b]) => buf[b].page \in Pages

LEMMA MarkedGood == Control => Marked
<1> SUFFICES ASSUME Control PROVE Marked
  OBVIOUS
<1>1. \A t \in Threads : th[t].pc = "evicted" => th[t].b \in Bufs /\ Good(buf[th[t].b])
  BY ThreadAt, BufAssumption DEF ThreadHas, CallOK, Good, Evicting, Paged
<1>2. \A s \in Syncers : sy[s].pc = "written" => sy[s].b \in Bufs /\ Good(buf[sy[s].b])
  BY SyncerAt, BufAssumption DEF SyncerHas, SyncOK, SyncPinned, SyncLatched, Good
<1>3. \A b \in Bufs : Good(buf[b]) => buf[b].page \in Pages
  BY DEF Good, Control, Shape, Headers
<1> QED BY <1>1, <1>2, <1>3 DEF Marked

LEMMA MarkedGoodNext == Control' => Marked'
BY MarkedGood, PTL

\* The numbers that Values compares.
LEMMA Numbers ==
    ASSUME Shape
    PROVE  /\ lsn \in Nat /\ \A p \in Pages : os[p] \in Nat /\ stable[p] \in Nat
           /\ \A b \in Bufs : buf[b].val \in Nat
BY DEF Shape, Outside, Headers

LEMMA ValuesInit == Init => Values
<1> SUFFICES ASSUME Init PROVE Values
  OBVIOUS
<1>1. \A b \in Bufs : buf[b] = Empty
  BY DEF Init
<1>2. Empty.page = None /\ Empty.val = 0
  BY DEF Empty
<1>3. \A b \in Bufs : ValueOf(b)
  BY <1>1, <1>2 DEF ValueOf, Good, Init
<1>4. \A p \in Pages : stable[p] = 0 /\ os[p] = 0
  BY DEF Init
<1>5. lsn = 0 /\ logged = 0
  BY DEF Init
<1>6. (\A t \in Threads : th[t].pc = "idle") /\ (\A s \in Syncers : sy[s].pc = "idle")
  BY DEF Init, Idle, Resting
<1> QED BY <1>3, <1>4, <1>5, <1>6, BufAssumption DEF Values

LEMMA QuietValues == ASSUME Control, Control', Values, Quiet PROVE Values'
<1>1. Marked /\ Marked'
  BY MarkedGood, MarkedGoodNext
<1>2. ASSUME NEW d \in Bufs PROVE ValueOf(d)'
  BY <1>2, Numbers, <1>1 DEF Quiet, Steady, Same, AtFile, Values, ValueOf, Marked, Control
<1>3. ASSUME NEW t \in Threads, th'[t].pc = "evicted"
      PROVE  buf'[th'[t].b].val = os'[buf'[th'[t].b].page]
  BY <1>1, <1>3 DEF Quiet, MarksStay, Steady, Same, AtFile, Values, Marked
<1>4. ASSUME NEW s \in Syncers, sy'[s].pc = "written"
      PROVE  buf'[sy'[s].b].val = os'[buf'[sy'[s].b].page]
  BY <1>1, <1>4 DEF Quiet, MarksStay, Steady, Same, AtFile, Values, Marked
<1>5. lsn' \in 0 .. MaxLsn /\ logged' \in 0 .. lsn'
  BY BufAssumption DEF Quiet, Values
<1>6. \A p \in Pages : stable'[p] <= os'[p] /\ os'[p] <= logged'
  <2> SUFFICES ASSUME NEW p \in Pages PROVE stable'[p] <= os'[p] /\ os'[p] <= logged'
    OBVIOUS
  <2>1. lsn \in Nat /\ logged \in Nat /\ os[p] \in Nat /\ stable[p] \in Nat /\ logged <= lsn
        /\ stable[p] <= os[p] /\ os[p] <= logged
    BY BufAssumption, Numbers DEF Values, Control
  <2> QED BY <2>1 DEF Quiet
<1> QED BY <1>2, <1>3, <1>4, <1>5, <1>6 DEF Values

LEMMA WritesValues ==
    ASSUME Control, Control', Values, NEW b \in Bufs, WritesOut(b)
    PROVE  Values'
<1> DEFINE g == buf[b]
<1>1. Marked /\ Marked' /\ Good(g) /\ g.page \in Pages
  BY MarkedGood, MarkedGoodNext, BufAssumption DEF WritesOut, Good
<1>2. /\ lsn \in Nat /\ logged \in Nat /\ g.val \in Nat /\ logged <= lsn /\ g.val <= lsn
      /\ os[g.page] <= g.val /\ \A p \in Pages : os[p] \in Nat /\ stable[p] \in Nat
      /\ lsn <= MaxLsn
  BY <1>1, BufAssumption, Numbers DEF Values, Control, ValueOf
<1>3. logged' \in Nat /\ logged <= logged' /\ g.val <= logged' /\ logged' <= lsn /\ lsn' = lsn
  BY <1>2 DEF WritesOut, LogFlush
<1>4. \A p \in Pages : /\ os'[p] = os[p] \/ (p = g.page /\ os'[p] = g.val)
                       /\ os'[p] \in Nat /\ os[p] <= os'[p]
  BY <1>1, <1>2 DEF WritesOut, Control, Shape, Outside
<1>5. \A p \in Pages : stable'[p] <= os'[p] /\ os'[p] <= logged'
  <2> SUFFICES ASSUME NEW p \in Pages PROVE stable'[p] <= os'[p] /\ os'[p] <= logged'
    OBVIOUS
  <2>1. stable'[p] = stable[p] /\ stable[p] <= os[p] /\ os[p] <= logged
    BY DEF WritesOut, Values
  <2> QED BY <1>2, <1>3, <1>4, <2>1
<1>6. \A d \in Bufs \ {b} : Good(buf[d]) => os'[buf[d].page] = os[buf[d].page]
  BY <1>1, <1>4 DEF Control, UniquePage, Marked, Good
<1>7. \A d \in Bufs : /\ buf'[d].page = buf[d].page /\ buf'[d].val = buf[d].val
                      /\ Good(buf'[d]) <=> Good(buf[d])
                      /\ d # b => ("dirty" \in buf'[d].flags <=> "dirty" \in buf[d].flags)
  BY DEF WritesOut
<1>8. ASSUME NEW d \in Bufs PROVE ValueOf(d)'
  <2>1. ValueOf(d)
    BY DEF Values
  <2>2. CASE d = b
    <3>1. "dirty" \in g.flags
      BY DEF WritesOut
    <3>2. os'[g.page] <= g.val
      BY <1>1, <1>2, <1>4
    <3>3. "dirty" \in buf'[b].flags \/ os'[g.page] = g.val
      BY <3>1 DEF WritesOut
    <3> QED BY <1>2, <1>3, <1>7, <2>1, <2>2, <3>2, <3>3 DEF ValueOf
  <2>3. CASE d # b
    BY <1>3, <1>6, <1>7, <2>1, <2>3 DEF ValueOf
  <2> QED BY <2>2, <2>3
<1>9. \A d \in Bufs : Good(buf[d]) /\ buf[d].val = os[buf[d].page] =>
                        buf'[d].val = os'[buf'[d].page]
  <2> SUFFICES ASSUME NEW d \in Bufs, Good(buf[d]), buf[d].val = os[buf[d].page]
               PROVE  buf[d].val = os'[buf[d].page]
    BY <1>7
  <2>1. CASE d = b
    BY <1>1, <1>4, <2>1
  <2>2. CASE d # b
    BY <1>6, <2>2
  <2> QED BY <2>1, <2>2
<1>10. ASSUME NEW t \in Threads, th'[t].pc = "evicted"
       PROVE  buf'[th'[t].b].val = os'[buf'[th'[t].b].page]
  <2>1. CASE th[t].pc = "evicted" /\ th'[t].b = th[t].b
    BY <1>1, <1>9, <2>1 DEF Marked, Values
  <2>2. CASE th'[t].b = b /\ os'[g.page] = g.val
    BY <1>7, <2>2
  <2> QED BY <1>10, <2>1, <2>2 DEF WritesOut
<1>11. ASSUME NEW s \in Syncers, sy'[s].pc = "written"
       PROVE  buf'[sy'[s].b].val = os'[buf'[sy'[s].b].page]
  <2>1. CASE sy[s].pc = "written" /\ sy'[s].b = sy[s].b
    BY <1>1, <1>9, <2>1 DEF Marked, Values
  <2>2. CASE sy'[s].b = b /\ os'[g.page] = g.val
    BY <1>7, <2>2
  <2> QED BY <1>11, <2>1, <2>2 DEF WritesOut
<1>12. lsn' \in 0 .. MaxLsn /\ logged' \in 0 .. lsn'
  BY <1>2, <1>3, BufAssumption
<1> QED BY <1>5, <1>8, <1>10, <1>11, <1>12 DEF Values

\* The buffer of a change is not one that was just written: its latch is taken.
LEMMA ChangesValues ==
    ASSUME Control, Values, NEW t \in Threads, Changes(t)
    PROVE  Values'
<1> DEFINE b == th[t].b
<1>1. Marked
  BY MarkedGood
<1>2. /\ lsn \in Nat /\ logged \in Nat /\ logged <= lsn /\ lsn + 1 <= MaxLsn
      /\ \A p \in Pages : os[p] \in Nat /\ os[p] <= lsn
      /\ \A d \in Bufs : buf[d].val \in Nat
  <2>1. lsn \in Nat /\ logged \in Nat /\ logged <= lsn /\ lsn + 1 <= MaxLsn
    <3>1. lsn \in 0 .. MaxLsn /\ logged \in 0 .. lsn
      BY DEF Values
    <3>2. lsn < MaxLsn
      BY DEF Changes
    <3> QED BY <3>1, <3>2, BufAssumption
  <2>2. \A p \in Pages : os[p] \in Nat /\ os[p] <= logged
    BY Numbers DEF Values, Control
  <2>3. \A d \in Bufs : buf[d].val \in Nat
    BY Numbers DEF Control
  <2> QED BY <2>1, <2>2, <2>3
<1>3. lsn' = lsn + 1 /\ lsn' \in Nat /\ b \in Bufs
      /\ UNCHANGED <<os, stable, logged, th, sy>>
  BY <1>2 DEF Changes
<1>4. ASSUME NEW d \in Bufs PROVE ValueOf(d)'
  <2>1. CASE d = b
    <3>1. buf'[d].val = lsn' /\ "dirty" \in buf'[d].flags /\ buf'[d].page \in Pages
      BY <1>3, <2>1 DEF Changes
    <3>2. os'[buf'[d].page] <= lsn'
      BY <1>2, <1>3, <3>1
    <3> QED BY <1>3, <3>1, <3>2 DEF ValueOf
  <2>2. CASE d # b
    <3>1. buf'[d] = buf[d] /\ ValueOf(d)
      BY <2>2 DEF Changes, Values
    <3>2. buf'[d].val <= lsn'
      BY <1>2, <1>3, <3>1 DEF ValueOf
    <3> QED BY <1>3, <3>1, <3>2 DEF ValueOf
  <2> QED BY <2>1, <2>2
<1>5. ASSUME NEW u \in Threads, th[u].pc = "evicted" PROVE th[u].b # b
  <2>1. u # t /\ buf[th[u].b].owner = u
    BY <1>5, ThreadAt DEF ThreadHas, CallOK, Evicting, Changes
  <2> QED BY <2>1 DEF Changes
<1>6. ASSUME NEW s \in Syncers, sy[s].pc = "written" PROVE sy[s].b # b
  <2>1. s \in buf[sy[s].b].sharers
    BY <1>6, SyncerAt DEF SyncerHas, SyncOK, SyncPinned, SyncLatched
  <2> QED BY <2>1 DEF Changes
<1>7. \A u \in Threads : th'[u].pc = "evicted" =>
        buf'[th'[u].b].val = os'[buf'[th'[u].b].page]
  <2> SUFFICES ASSUME NEW u \in Threads, th'[u].pc = "evicted"
               PROVE  buf'[th'[u].b].val = os'[buf'[th'[u].b].page]
    OBVIOUS
  <2>1. th[u] = th'[u]
    BY <1>1 DEF Changes
  <2>2. buf'[th[u].b] = buf[th[u].b]
    BY <1>1, <1>5, <2>1 DEF Changes, Marked
  <2> QED BY <1>3, <2>1, <2>2 DEF Values
<1>8. \A s \in Syncers : sy'[s].pc = "written" =>
        buf'[sy'[s].b].val = os'[buf'[sy'[s].b].page]
  <2> SUFFICES ASSUME NEW s \in Syncers, sy'[s].pc = "written"
               PROVE  buf'[sy'[s].b].val = os'[buf'[sy'[s].b].page]
    OBVIOUS
  <2>1. sy[s] = sy'[s] /\ buf'[sy[s].b] = buf[sy[s].b]
    BY <1>1, <1>6 DEF Changes, Marked
  <2> QED BY <1>3, <2>1 DEF Values
<1>9. lsn' \in 0 .. MaxLsn /\ logged' \in 0 .. lsn'
  BY <1>2, <1>3, BufAssumption
<1>10. \A p \in Pages : stable'[p] <= os'[p] /\ os'[p] <= logged'
  BY <1>3 DEF Values
<1> QED BY <1>4, <1>7, <1>8, <1>9, <1>10 DEF Values

LEMMA ValuesNext == ASSUME Control, Control', Values, [Next]_vars PROVE Values'
BY NextData, QuietValues, WritesValues, ChangesValues DEF WritesOut

-----------------------------------------------------------------------------
(* The content of a page.                                                  *)

InCache(b, p) == Good(buf[b]) /\ buf[b].page = p

\* It is that of the page's buffer, or of the file if no buffer has it.
Contents ==
    \A p \in Pages :
        /\ \A b \in Bufs : InCache(b, p) => Content[p] = buf[b].val
        /\ (\A b \in Bufs : ~InCache(b, p)) => Content[p] = os[p]

LEMMA ContentIs == Control => Contents
<1> SUFFICES ASSUME Control, NEW p \in Pages
             PROVE  /\ \A b \in Bufs : InCache(b, p) => Content[p] = buf[b].val
                    /\ (\A b \in Bufs : ~InCache(b, p)) => Content[p] = os[p]
  BY DEF Contents
<1> DEFINE good == {b \in Cached(p) : Has(b, "dirty") \/ ~Has(b, "trash")}
<1>1. Content[p] = IF good = {} THEN os[p] ELSE buf[CHOOSE b \in good : TRUE].val
  BY DEF Content
<1>2. \A b \in Bufs : InCache(b, p) <=> b \in good
  BY BufAssumption DEF InCache, Good, Cached, Has
<1>3. good \subseteq Bufs
  BY DEF Cached
<1>4. \A b, c \in good : b = c
  BY BufAssumption DEF Cached, Control, UniquePage
<1> HIDE DEF good
<1>5. ASSUME NEW b \in Bufs, InCache(b, p) PROVE Content[p] = buf[b].val
  <2>1. b \in good
    BY <1>2, <1>5
  <2>2. (CHOOSE c \in good : TRUE) \in good
    BY <2>1
  <2>3. (CHOOSE c \in good : TRUE) = b
    BY <1>4, <2>1, <2>2
  <2> QED BY <1>1, <2>1, <2>3
<1>6. ASSUME \A b \in Bufs : ~InCache(b, p) PROVE Content[p] = os[p]
  <2>1. good = {}
    BY <1>2, <1>3, <1>6
  <2> QED BY <1>1, <2>1
<1> QED BY <1>5, <1>6

LEMMA ContentIsNext == Control' => Contents'
BY ContentIs, PTL

LEMMA ContentDomain == /\ Content = [p \in Pages |-> Content[p]]
                       /\ Content' = [p \in Pages |-> Content'[p]]
BY DEF Content

LEMMA QuietContent == ASSUME Control, Control', Quiet PROVE Content' = Content
<1>1. Contents /\ Contents' /\ os' = os
  BY ContentIs, ContentIsNext DEF Quiet
<1> SUFFICES ASSUME NEW p \in Pages PROVE Content'[p] = Content[p]
  BY ContentDomain
<1>2. CASE \E d \in Bufs : InCache(d, p) /\ Same(buf[d], buf'[d])
  <2>1. PICK d \in Bufs : InCache(d, p) /\ Same(buf[d], buf'[d])
    BY <1>2
  <2>2. InCache(d, p)' /\ buf'[d].val = buf[d].val
    BY <2>1 DEF InCache, Same
  <2>3. Content[p] = buf[d].val /\ Content'[p] = buf'[d].val
    BY <1>1, <2>1, <2>2 DEF Contents
  <2> QED BY <2>2, <2>3
<1>3. CASE \A d \in Bufs : InCache(d, p) => ~Same(buf[d], buf'[d])
  <2>1. \A d \in Bufs : InCache(d, p) => buf[d].val = os[p]
    BY <1>3 DEF Quiet, Steady, AtFile, InCache
  <2>2. Content[p] = os[p]
    BY <1>1, <2>1 DEF Contents
  <2>3. \A d \in Bufs : InCache(d, p)' => buf'[d].val = os[p]
    BY <1>3 DEF Quiet, Steady, AtFile, InCache, Same
  <2>4. Content'[p] = os[p]
    BY <1>1, <2>3 DEF Contents
  <2> QED BY <2>2, <2>4
<1> QED BY <1>2, <1>3

LEMMA WritesContent ==
    ASSUME Control, Control', NEW b \in Bufs, WritesOut(b)
    PROVE  Content' = Content
<1>1. Contents /\ Contents'
  BY ContentIs, ContentIsNext
<1> SUFFICES ASSUME NEW p \in Pages PROVE Content'[p] = Content[p]
  BY ContentDomain
<1>2. \A d \in Bufs : (InCache(d, p)' <=> InCache(d, p)) /\ buf'[d].val = buf[d].val
  BY DEF WritesOut, InCache
<1>3. CASE \E d \in Bufs : InCache(d, p)
  BY <1>1, <1>2, <1>3 DEF Contents
<1>4. CASE \A d \in Bufs : ~InCache(d, p)
  <2>1. p # buf[b].page
    BY <1>4, BufAssumption DEF InCache, Good, WritesOut
  <2>2. os'[p] = os[p]
    BY <2>1 DEF WritesOut, Control, Shape, Outside
  <2> QED BY <1>1, <1>2, <1>4, <2>2 DEF Contents
<1> QED BY <1>3, <1>4

LEMMA ChangesContent ==
    ASSUME Control, Control', NEW t \in Threads, Changes(t)
    PROVE  Content' = [Content EXCEPT ![buf[th[t].b].page] = lsn + 1]
<1>1. PICK b \in Bufs, p \in Pages : b = th[t].b /\ p = buf[b].page
  BY DEF Changes
<1>2. /\ Contents /\ Contents' /\ os' = os
      /\ buf'[b].page = p /\ buf'[b].val = lsn + 1
      /\ "dirty" \in buf[b].flags /\ buf'[b].flags = buf[b].flags
      /\ \A d \in Bufs \ {b} : buf'[d] = buf[d]
  BY <1>1, ContentIs, ContentIsNext DEF Changes
<1>3. InCache(b, p) /\ InCache(b, p)'
  BY <1>1, <1>2, BufAssumption DEF InCache, Good
<1>4. Content'[p] = lsn + 1
  BY <1>2, <1>3 DEF Contents
<1>5. ASSUME NEW q \in Pages, q # p PROVE Content'[q] = Content[q]
  <2>1. \A d \in Bufs : (InCache(d, q)' <=> InCache(d, q)) /\ (InCache(d, q) => buf'[d] = buf[d])
    BY <1>1, <1>2, <1>5 DEF InCache
  <2> QED BY <1>2, <2>1 DEF Contents
<1> QED BY <1>1, <1>4, <1>5, ContentDomain

-----------------------------------------------------------------------------
(* The store that the threads see.                                         *)

Having == {"hold", "put"}

\* What a thread that has a page sees is the page's content.
Seen(c, content) ==
    IF c.pc \in Having THEN [page |-> c.page, mode |-> c.mode, val |-> content[c.page]]
    ELSE [page |-> None, mode |-> "none", val |-> 0]

LEMMA SeenIs ==
    ASSUME NEW c, NEW content
    PROVE  /\ c.pc \in Having =>
                /\ Seen(c, content).page = c.page /\ Seen(c, content).mode = c.mode
                /\ Seen(c, content).val = content[c.page]
           /\ c.pc \notin Having => Seen(c, content) = Store!Away
           /\ Store!Away.page = None
BY DEF Seen, Store!Away

Views ==
    \A t \in Threads :
        /\ View(t) = Seen(th[t], Content)
        /\ th[t].pc \in Having => th[t].page \in Pages /\ th[t].mode \in Modes
        \* Threads that have the same page only read it.
        /\ \A u \in Threads \ {t} :
             th[t].pc \in Having /\ th[u].pc \in Having /\ th[t].page = th[u].page =>
                th[t].mode = "read" /\ th[u].mode = "read"

LEMMA ViewIs == Control => Views
<1> SUFFICES ASSUME Control, NEW t \in Threads
             PROVE  /\ View(t) = Seen(th[t], Content)
                    /\ th[t].pc \in Having => th[t].page \in Pages /\ th[t].mode \in Modes
                    /\ \A u \in Threads \ {t} :
                         th[t].pc \in Having /\ th[u].pc \in Having /\ th[t].page = th[u].page =>
                            th[t].mode = "read" /\ th[u].mode = "read"
  BY DEF Views
<1>1. ASSUME NEW u \in Threads, th[u].pc \in Having
      PROVE  /\ th[u].page \in Pages /\ th[u].mode \in Modes
             /\ th[u].b \in Bufs /\ InCache(th[u].b, th[u].page)
             /\ IF th[u].mode = "write" THEN buf[th[u].b].owner = u
                ELSE u \in buf[th[u].b].sharers
  <2>1. ThreadHas(u)
    BY <1>1, ThreadAt DEF Having
  <2>2. CallShape(th[u]) /\ CallOK(u, th[u], buf[th[u].b]) /\ th[u].b \in Bufs
        /\ buf[th[u].b].page \in Pages
    BY <2>1 DEF ThreadHas
  <2>3. th[u].page \in Pages /\ th[u].mode \in Modes
    BY <1>1, <2>2 DEF CallShape, Having
  <2>4. InCache(th[u].b, th[u].page)
    BY <1>1, <2>2, BufAssumption DEF CallOK, InCache, Good, Having, Paged
  <2> QED BY <1>1, <2>2, <2>3, <2>4 DEF CallOK, Having
<1>2. View(t) = Seen(th[t], Content)
  <2>1. CASE th[t].pc \in Having
    <3>1. Content[th[t].page] = buf[th[t].b].val
      BY <1>1, <2>1, ContentIs DEF Contents
    <3> QED BY <2>1, <3>1 DEF View, Seen, Having
  <2>2. CASE th[t].pc \notin Having
    BY <2>2 DEF View, Seen, Having
  <2> QED BY <2>1, <2>2
<1>3. ASSUME NEW u \in Threads \ {t}, th[t].pc \in Having, th[u].pc \in Having,
             th[t].page = th[u].page
      PROVE  th[t].mode = "read" /\ th[u].mode = "read"
  <2> DEFINE b == th[t].b
  <2>1. th[u].b = b /\ b \in Bufs
    BY <1>1, <1>3, BufAssumption DEF InCache, Good, Control, UniquePage
  <2>2. HeaderOK(b, buf[b]) /\ t # None /\ u # None
    BY <2>1, BufAssumption DEF Control
  <2>3. buf[b].owner # None => buf[b].sharers = {}
    BY <2>2 DEF HeaderOK
  <2> QED BY <1>1, <1>3, <2>1, <2>2, <2>3 DEF Modes
<1> QED BY <1>1, <1>2, <1>3

LEMMA ViewIsNext == Control' => Views'
BY ViewIs, PTL

\* A step moves one thread, and one that keeps its page keeps it as it has it.
Moves(t) ==
    /\ \A u \in Threads \ {t} : th'[u] = th[u]
    /\ th[t].pc \in Having /\ th'[t].pc \in Having =>
         th'[t].page = th[t].page /\ th'[t].mode = th[t].mode
    /\ th[t].pc \notin Having => th'[t].pc # "put"

LEMMA FgetMoves == ASSUME Control, NEW t \in Threads, FgetNext(t) PROVE Moves(t)
<1>1. th \in [Threads -> Calls] /\ th[t] \in Calls
  BY DEF Control, Shape
<1>2. ASSUME NEW call \in Calls, Search(t, call), th[t].pc \notin Having PROVE Moves(t)
  <2>1. CASE Cached(call.page) = {}
    BY <1>1, <1>2, <2>1 DEF Search, Moves, Calls, Having
  <2>2. CASE Cached(call.page) # {}
    <3> DEFINE pc == IF call.mode = "read" THEN "readlatch" ELSE "latch"
    <3>1. PICK b \in Bufs : th' = [th EXCEPT ![t] = [call EXCEPT !.b = b, !.pc = pc]]
      BY <1>2, <2>2 DEF Search, Cached
    <3>2. pc # "put"
      OBVIOUS
    <3> HIDE DEF pc
    <3> DEFINE c == [call EXCEPT !.b = b, !.pc = pc]
    <3>3. c.pc = pc
      BY DEF Calls
    <3>4. th' = [th EXCEPT ![t] = c]
      BY <3>1
    <3> HIDE DEF c
    <3> QED BY <1>1, <1>2, <3>2, <3>3, <3>4 DEF Moves
  <2> QED BY <2>1, <2>2
<1>3. ASSUME NEW p \in Pages, NEW m \in {"read", "write"}, Get(t, p, m) PROVE Moves(t)
  <2>1. [Idle EXCEPT !.page = p, !.mode = m] \in Calls
    BY DEF Idle, Calls, Modes
  <2> QED BY <1>2, <1>3, <2>1 DEF Get, Having
<1>4. ASSUME Retry(t) PROVE Moves(t)
  BY <1>1, <1>2, <1>4 DEF Retry, Having
<1>5. ASSUME Instantiate(t) PROVE Moves(t)
  BY <1>1, <1>5 DEF Instantiate, Moves, Having, Calls
<1>6. ASSUME Latch(t) \/ ReadLatch(t) \/ Relatch(t) PROVE Moves(t)
  BY <1>1, <1>6 DEF Latch, ReadLatch, Relatch, GoTo, Moves, Having, Calls
<1>7. ASSUME Fill(t) PROVE Moves(t)
  BY <1>1, <1>7 DEF Fill, Moves, Having, Calls
<1>8. ASSUME FillFails(t) PROVE Moves(t)
  BY <1>1, <1>8 DEF FillFails, Idle, Moves, Having, Calls
<1> QED BY <1>3, <1>4, <1>5, <1>6, <1>7, <1>8 DEF FgetNext

LEMMA AllocMoves == ASSUME Control, NEW t \in Threads, AllocNext(t) PROVE Moves(t)
<1>1. th \in [Threads -> Calls] /\ th[t] \in Calls
  BY DEF Control, Shape
<1>2. ASSUME NEW h, th[t].pc \notin Having, NextHb(t, h) PROVE Moves(t)
  BY <1>1, <1>2 DEF NextHb, Moves, Having, Calls
<1>3. ASSUME AllocFree(t) PROVE Moves(t)
  BY <1>1, <1>3 DEF AllocFree, Moves, Having, Calls
<1>4. ASSUME Choose(t) PROVE Moves(t)
  BY <1>1, <1>4 DEF Choose, Moves, Having, Calls
<1>5. ASSUME TryLatch(t) PROVE Moves(t)
  <2>1. CASE NextHb(t, buf[th[t].b])
    BY <1>2, <1>5, <2>1 DEF TryLatch, Having
  <2>2. CASE GoTo(t, IF Has(th[t].b, "dirty") THEN "evict" ELSE "reuse")
    BY <1>1, <1>5, <2>2 DEF TryLatch, GoTo, Moves, Having, Calls
  <2> QED BY <1>5, <2>1, <2>2 DEF TryLatch
<1>6. ASSUME Evict(t) PROVE Moves(t)
  BY <1>1, <1>6 DEF Evict, GoTo, Moves, Having, Calls
<1>7. ASSUME Evicted(t) PROVE Moves(t)
  BY <1>1, <1>7 DEF Evicted, GoTo, Moves, Having, Calls
<1>8. ASSUME Reuse(t) PROVE Moves(t)
  <2>1. CASE NextHb(t, buf[th[t].b])
    BY <1>2, <1>8, <2>1 DEF Reuse, Having
  <2>2. CASE th' = [th EXCEPT ![t].mine = th[t].b, ![t].b = None, ![t].pc = "search"]
    BY <1>1, <1>8, <2>2 DEF Reuse, Moves, Having, Calls
  <2> QED BY <1>8, <2>1, <2>2 DEF Reuse
<1>9. ASSUME AllocFails(t) PROVE Moves(t)
  BY <1>1, <1>9 DEF AllocFails, Idle, Moves, Having, Calls
<1> QED BY <1>3, <1>4, <1>5, <1>6, <1>7, <1>8, <1>9 DEF AllocNext

LEMMA HoldMoves == ASSUME Control, NEW t \in Threads, HoldNext(t) PROVE Moves(t)
<1>1. th \in [Threads -> Calls] /\ th[t] \in Calls
  BY DEF Control, Shape
<1>2. ASSUME Update(t) \/ Close(t) \/ Open(t) \/ FlushPage(t) PROVE Moves(t)
  BY <1>2 DEF Update, Close, Open, FlushPage, Moves, Having
<1>3. ASSUME Dirty(t) \/ Downgrade(t) \/ Release(t) PROVE Moves(t)
  BY <1>1, <1>3 DEF Dirty, Downgrade, Release, Idle, Moves, Having, Calls
<1>4. ASSUME Upgrade(t) \/ Put(t) PROVE Moves(t)
  BY <1>1, <1>4 DEF Upgrade, Put, GoTo, Moves, Having, Calls
<1> QED BY <1>2, <1>3, <1>4 DEF HoldNext


LEMMA NextMoves ==
    ASSUME Control, [Next]_vars
    PROVE  th' = th \/ \E t \in Threads : Moves(t)
<1>1. ASSUME NEW s \in Syncers, SyncNext(s) PROVE th' = th
  BY <1>1 DEF SyncNext, SyncStart, SyncSkip, SyncPin, SyncLatch, SyncWrite, SyncWritten,
              SyncFile, Fsync, SyncFileEnd, SyncDone
<1>2. UNCHANGED vars => th' = th
  BY DEF vars
<1> QED BY <1>1, <1>2, FgetMoves, AllocMoves, HoldMoves DEF Next

Seeing == [t \in Threads |-> View(t)]

\* A step that keeps the contents is a thread that takes a page or leaves one.
LEMMA StoreKeeps ==
    ASSUME Views, Views', Content' = Content, th' = th \/ \E t \in Threads : Moves(t)
    PROVE  Store!Next \/ (Content' = Content /\ Seeing' = Seeing)
<1>1. \A u \in Threads : /\ Seeing[u] = Seen(th[u], Content)
                         /\ Seeing'[u] = Seen(th'[u], Content)
  BY DEF Views, Seeing
<1>2. CASE th' = th
  BY <1>1, <1>2 DEF Seeing
<1>3. CASE \E t \in Threads : Moves(t)
  <2>1. PICK t \in Threads : Moves(t)
    BY <1>3
  <2> DEFINE c == th[t]
             d == th'[t]
  <2>2. \A u \in Threads \ {t} : th'[u] = th[u] /\ Seeing'[u] = Seeing[u]
    BY <1>1, <2>1 DEF Moves
  <2>3. Seeing' = [Seeing EXCEPT ![t] = Seen(d, Content)]
    BY <1>1, <2>2 DEF Seeing
  <2>4. CASE c.pc \in Having <=> d.pc \in Having
    <3>1. Seen(d, Content) = Seen(c, Content)
      BY <2>1, <2>4 DEF Seen, Moves
    <3>2. \A u \in Threads : Seeing'[u] = Seeing[u]
      BY <1>1, <2>2, <3>1
    <3> QED BY <3>2 DEF Seeing
  <2>5. CASE c.pc \in Having /\ d.pc \notin Having
    <3>1. Seen(d, Content) = Store!Away
      BY <2>5 DEF Seen, Store!Away
    <3>2. c.page # None
      BY <2>5, BufAssumption DEF Views
    <3>3. Seeing[t] # Store!Away
      BY <1>1, <2>5, <3>2, SeenIs
    <3>4. Store!Leave(t)
      BY <2>3, <3>1, <3>3 DEF Store!Leave, Seeing
    <3> QED BY <3>4 DEF Store!Next
  <2>6. CASE c.pc \notin Having /\ d.pc \in Having
    <3>1. d.page \in Pages /\ d.mode \in {"read", "write"}
      BY <2>6 DEF Views, Modes
    <3>2. Seeing[t] = Store!Away
      BY <1>1, <2>6 DEF Seen, Store!Away
    <3>3. ASSUME NEW u \in Threads, Seeing[u].page = d.page
          PROVE  u # t /\ th'[u].pc \in Having /\ th'[u].page = d.page
                 /\ Seeing[u].mode = th'[u].mode
      <4>1. u # t
        BY <1>1, <2>6, <3>1, <3>3, SeenIs, BufAssumption
      <4>2. th[u].pc \in Having
        BY <1>1, <3>1, <3>3, SeenIs, BufAssumption
      <4>3. Seeing[u].page = th[u].page /\ Seeing[u].mode = th[u].mode
        BY <1>1, <4>2, SeenIs
      <4> QED BY <2>2, <3>3, <4>1, <4>2, <4>3
    <3>4. \A u \in Threads : Seeing[u].page = d.page =>
             d.mode = "read" /\ Seeing[u].mode = "read"
      BY <2>6, <3>3 DEF Views
    <3>5. d.mode = "write" => Store!Holders(d.page) = {}
      BY <3>4 DEF Store!Holders, Seeing
    <3>6. Store!Writers(d.page) = {}
      BY <3>4 DEF Store!Writers, Store!Holders, Seeing
    <3>7. Seen(d, Content) = [page |-> d.page, mode |-> d.mode, val |-> Content[d.page]]
      BY <2>6 DEF Seen
    <3>8. Store!Take(t, d.page, d.mode)
      BY <2>3, <3>2, <3>5, <3>6, <3>7 DEF Store!Take, Seeing
    <3> QED BY <3>1, <3>8 DEF Store!Next
  <2> QED BY <2>4, <2>5, <2>6
<1> QED BY <1>2, <1>3

\* An application's change is a change of the page that it has alone.
LEMMA StoreWrites ==
    ASSUME Control, Control', Values, NEW t \in Threads, Changes(t)
    PROVE  Store!Next
<1> DEFINE p == th[t].page
           v == lsn + 1
<1>1. /\ Views /\ Views' /\ UNCHANGED th
      /\ th[t].pc \in Having /\ th[t].mode = "write" /\ p \in Pages
  BY ViewIs, ViewIsNext DEF Changes, Having, Views
<1>2. p = buf[th[t].b].page
  BY ThreadAt DEF ThreadHas, CallOK, Changes, Paged
<1>3. Content' = [Content EXCEPT ![p] = v]
  BY <1>2, ChangesContent
<1>4. v \in 1 .. MaxLsn
  BY Numbers, BufAssumption DEF Changes, Control
<1>5. \A u \in Threads : /\ Seeing[u] = Seen(th[u], Content)
                         /\ Seeing'[u] = Seen(th[u], Content')
  BY <1>1 DEF Views, Seeing
<1>6. \A u \in Threads \ {t} : Seeing'[u] = Seeing[u]
  <2> SUFFICES ASSUME NEW u \in Threads \ {t}, th[u].pc \in Having
               PROVE  Content'[th[u].page] = Content[th[u].page]
    BY <1>5 DEF Seen
  <2>1. th[u].page \in Pages /\ th[u].page # p
    BY <1>1 DEF Views
  <2> QED BY <1>3, <2>1, ContentDomain
<1>7. Content'[p] = v
  BY <1>1, <1>3, ContentDomain
<1>8. Seeing[t] = [page |-> p, mode |-> "write", val |-> Content[p]]
      /\ Seeing'[t] = [page |-> p, mode |-> "write", val |-> v]
  BY <1>1, <1>5, <1>7 DEF Seen
<1>9. Seeing'[t] = [Seeing[t] EXCEPT !.val = v]
  BY <1>8
<1>10. Seeing' = [Seeing EXCEPT ![t].val = v]
  BY <1>6, <1>9 DEF Seeing
<1>11. Store!Write(t, v)
  <2>1. Seeing[t].mode = "write" /\ Seeing[t].page = p
    BY <1>8
  <2>2. Content' = [Content EXCEPT ![Seeing[t].page] = v]
    BY <1>3, <2>1
  <2> HIDE DEF v, p
  <2> QED BY <1>10, <2>1, <2>2 DEF Store!Write, Seeing
<1> QED BY <1>4, <1>11 DEF Store!Next

LEMMA StoreInit == ASSUME Init PROVE Store!Init
<1>1. \A t \in Threads : View(t) = Store!Away
  BY DEF Init, Idle, View, Store!Away
<1>2. \A p \in Pages : Content[p] = 0
  <2>1. Contents
    BY ControlInit, ContentIs
  <2>2. \A b \in Bufs : Empty = buf[b] /\ Empty.page = None
    BY DEF Init, Empty
  <2>3. \A p \in Pages : Content[p] = os[p] /\ os[p] = 0
    BY <2>1, <2>2 DEF Contents, InCache, Good, Init
  <2> QED BY <2>3
<1>3. Content = [p \in Pages |-> 0]
  BY <1>2, ContentDomain
<1> QED BY <1>1, <1>3 DEF Store!Init

LEMMA StoreNext ==
    ASSUME Control, Control', Values, [Next]_vars
    PROVE  [Store!Next]_(Store!vars)
<1>1. Views /\ Views' /\ (th' = th \/ \E t \in Threads : Moves(t))
  BY ViewIs, ViewIsNext, NextMoves
<1>2. CASE \E t \in Threads : Changes(t)
  BY <1>2, StoreWrites
<1>3. CASE Quiet \/ \E b \in Bufs : WritesOut(b)
  <2>1. Content' = Content
    BY <1>3, QuietContent, WritesContent
  <2>2. Store!Next \/ (Content' = Content /\ Seeing' = Seeing)
    BY <1>1, <2>1, StoreKeeps
  <2> QED BY <2>2 DEF Seeing, Store!vars
<1> QED BY <1>2, <1>3, NextData


-----------------------------------------------------------------------------
(* What a sync brings to the disk.                                         *)

\* A buffer becomes dirty for a thread that has its page to write, and gets
\* another page only by way of the free memory.
Turns ==
    \A d \in Bufs :
        /\ "dirty" \in buf'[d].flags /\ "dirty" \notin buf[d].flags =>
             \E t \in Threads : th'[t].b = d /\ th'[t].pc = "hold" /\ th'[t].mode = "write"
        /\ buf'[d].page = buf[d].page \/ None \in {buf[d].page, buf'[d].page}

LEMMA KeptTurns == ASSUME Kept PROVE Turns
BY DEF Kept, Turns

LEMMA TurnsOne ==
    ASSUME Control, NEW b \in Bufs, NEW h, buf' = [buf EXCEPT ![b] = h],
           h.page = buf[b].page \/ None \in {h.page, buf[b].page},
           "dirty" \in h.flags => "dirty" \in buf[b].flags
    PROVE  Turns
<1>1. buf \in [Bufs -> Headers]
  BY DEF Control, Shape
<1> QED BY <1>1 DEF Turns

\* A thread that gets to write.
LEMMA TurnsHold ==
    ASSUME Control, Control', NEW t \in Threads, th[t].pc \in {"fill", "upgrade"},
           \A d \in Bufs \ {th[t].b} : buf'[d] = buf[d],
           th'[t].b = th[t].b, th'[t].page = th[t].page, th'[t].pc = "hold",
           th'[t].mode = "write"
    PROVE  Turns
<1>1. th[t].b \in Bufs /\ buf[th[t].b].page = th[t].page
  BY ThreadAt DEF ThreadHas, CallOK, Paged
<1>2. th'[t].b # None /\ ThreadOf(t)'
  BY <1>1, BufAssumption DEF Control
<1>3. buf'[th[t].b].page = th[t].page
  BY <1>2 DEF ThreadOf, CallOK, Paged
<1> QED BY <1>1, <1>3 DEF Turns

LEMMA FgetTurns ==
    ASSUME Control, Control', NEW t \in Threads, FgetNext(t)
    PROVE  Turns
<1>1. th \in [Threads -> Calls] /\ th[t] \in Calls
  BY DEF Control, Shape
<1>2. ASSUME NEW p \in Pages, NEW m \in {"read", "write"}, Get(t, p, m) PROVE Turns
  BY <1>2, GetStep, KeptTurns DEF Modes
<1>3. ASSUME Retry(t) \/ Latch(t) \/ ReadLatch(t) \/ FillFails(t) \/ Relatch(t) PROVE Turns
  BY <1>3, RetryStep, LatchStep, ReadLatchStep, FillFailsStep, RelatchStep, KeptTurns
<1>4. ASSUME Instantiate(t) PROVE Turns
  <2> DEFINE b == th[t].mine
             e == [Empty EXCEPT !.page = th[t].page, !.ref = 1, !.flags = {"trash"}]
             h == Latched(e, t)
  <2>1. th[t].pc = "search" /\ CallShape(th[t])
    BY <1>4 DEF Instantiate, Control, ThreadOf
  <2>2. b \in Bufs /\ buf[b].page = None
    BY <1>1, <2>1, BufAssumption DEF CallShape, Calls, Control, Mines
  <2>3. "dirty" \notin h.flags
    BY DEF Empty, Latched
  <2>4. buf' = [buf EXCEPT ![b] = h]
    BY <1>4 DEF Instantiate
  <2> HIDE DEF h
  <2> QED BY <2>2, <2>3, <2>4, TurnsOne
<1>5. ASSUME Fill(t) PROVE Turns
  <2> DEFINE b == th[t].b
             f == Filled(b)
  <2>1. /\ th[t].pc = "fill" /\ ThreadHas(t) /\ b \in Bufs /\ Outside
        /\ buf[b] \in Headers /\ buf[b].page \in Pages
    BY <1>5, ThreadAt DEF Fill, ThreadHas, Control, Shape
  <2>2. /\ f \in Headers /\ f.page = buf[b].page /\ f.flags = buf[b].flags \ {"trash"}
    BY <2>1, FilledIs
  <2>3. CASE th[t].mode = "write"
    <3> DEFINE h == [f EXCEPT !.flags = @ \cup {"dirty"}]
               c == [th[t] EXCEPT !.pc = "hold", !.mine = None]
    <3>1. buf' = [buf EXCEPT ![b] = h] /\ th' = [th EXCEPT ![t] = c]
      BY <1>5, <2>3 DEF Fill, MarkDirty
    <3>2. c.b = b /\ c.page = th[t].page /\ c.pc = "hold" /\ c.mode = "write"
      BY <1>1, <2>3 DEF Calls
    <3> HIDE DEF h, c
    <3>3. th'[t] = c
      BY <1>1, <3>1
    <3>4. /\ \A d \in Bufs \ {th[t].b} : buf'[d] = buf[d]
          /\ th[t].pc \in {"fill", "upgrade"} /\ th'[t].b = th[t].b
          /\ th'[t].page = th[t].page /\ th'[t].pc = "hold" /\ th'[t].mode = "write"
      BY <2>1, <3>1, <3>2, <3>3 DEF Control, Shape
    <3> HIDE DEF b
    <3> QED BY <3>4, TurnsHold
  <2>4. CASE th[t].mode # "write" /\ Has(b, "exclusive")
    <3> DEFINE h == Unlatched(f, t)
    <3>1. buf' = [buf EXCEPT ![b] = h]
      BY <1>5, <2>4 DEF Fill
    <3>2. h.page = f.page /\ h.flags \subseteq f.flags
      BY <2>2, UnlatchedIs
    <3> HIDE DEF h, f
    <3> QED BY <2>1, <2>2, <3>1, <3>2, TurnsOne
  <2>5. CASE th[t].mode # "write" /\ ~Has(b, "exclusive")
    BY <1>5, <2>5, KeptTurns DEF Fill, Kept
  <2> QED BY <2>3, <2>4, <2>5
<1> QED BY <1>2, <1>3, <1>4, <1>5 DEF FgetNext

LEMMA AllocTurns == ASSUME Control, NEW t \in Threads, AllocNext(t) PROVE Turns
<1> DEFINE b == th[t].b
<1>1. ASSUME Choose(t) \/ TryLatch(t) PROVE Turns
  BY <1>1, ChooseStep, TryLatchStep, KeptTurns
<1>2. ASSUME AllocFree(t) \/ AllocFails(t) PROVE Turns
  BY <1>2, KeptTurns DEF AllocFree, AllocFails, Kept
<1>3. ASSUME Evict(t) PROVE Turns
  BY <1>3, EvictWrites DEF WritesOut, Turns
<1>4. ASSUME Evicted(t) PROVE Turns
  <2>1. b \in Bufs /\ buf[b] \in Headers
    BY <1>4, ThreadAt DEF Evicted, ThreadHas
  <2>2. PICK h \in {Cleaned(PutBack(buf[b])), Cleaned(buf[b]), PutBack(buf[b])} :
          buf' = [buf EXCEPT ![b] = h]
    BY <1>4 DEF Evicted, ClearDirty
  <2>3. h.page = buf[b].page /\ h.flags \subseteq buf[b].flags
    BY <2>1 DEF Cleaned, PutBack, Headers
  <2> QED BY <2>1, <2>2, <2>3, TurnsOne
<1>5. ASSUME Reuse(t) PROVE Turns
  <2>1. b \in Bufs /\ th[t].pc = "reuse"
    BY <1>5, ThreadAt DEF Reuse, ThreadHas
  <2>2. CASE Wanted(b)
    BY <1>5, <2>1, <2>2, NextHbStep, KeptTurns DEF Reuse
  <2>3. CASE ~Wanted(b)
    <3>1. buf' = [buf EXCEPT ![b] = Empty]
      BY <1>5, <2>3 DEF Reuse
    <3>2. Empty.page = None /\ Empty.flags = {}
      BY DEF Empty
    <3> QED BY <2>1, <3>1, <3>2, TurnsOne
  <2> QED BY <2>2, <2>3
<1> QED BY <1>1, <1>2, <1>3, <1>4, <1>5 DEF AllocNext

LEMMA HoldTurns ==
    ASSUME Control, Control', NEW t \in Threads, HoldNext(t)
    PROVE  Turns
<1>1. ASSUME Dirty(t) \/ Downgrade(t) \/ Put(t) \/ Release(t) PROVE Turns
  BY <1>1, DirtyStep, DowngradeStep, PutStep, ReleaseStep, KeptTurns
<1>2. ASSUME Open(t) \/ Close(t) PROVE Turns
  BY <1>2, KeptTurns DEF Open, Close, Kept
<1>5. ASSUME FlushPage(t) PROVE Turns
  BY <1>5, FlushWrites DEF WritesOut, Turns
<1>3. ASSUME Update(t) PROVE Turns
  BY <1>3, UpdateChanges DEF Changes, Turns
<1>4. ASSUME Upgrade(t) PROVE Turns
  <2> DEFINE b == th[t].b
             h == [Latched(buf[b], t) EXCEPT !.flags = @ \cup {"dirty"}]
             c == [th[t] EXCEPT !.pc = "hold"]
  <2>1. th[t].pc = "upgrade" /\ th[t].mode = "write" /\ th \in [Threads -> Calls]
    BY <1>4, ThreadAt DEF Upgrade, ThreadHas, CallShape, Control, Shape
  <2>2. buf' = [buf EXCEPT ![b] = h] /\ th' = [th EXCEPT ![t] = c]
    BY <1>4 DEF Upgrade, MarkDirty, GoTo
  <2>3. c.b = b /\ c.page = th[t].page /\ c.pc = "hold" /\ c.mode = "write"
    BY <2>1 DEF Calls
  <2> HIDE DEF h, c
  <2>4. th'[t] = c
    BY <2>1, <2>2
  <2>5. /\ \A d \in Bufs \ {th[t].b} : buf'[d] = buf[d]
        /\ th[t].pc \in {"fill", "upgrade"} /\ th'[t].b = th[t].b
        /\ th'[t].page = th[t].page /\ th'[t].pc = "hold" /\ th'[t].mode = "write"
    BY <2>1, <2>2, <2>3, <2>4 DEF Control, Shape
  <2> HIDE DEF b
  <2> QED BY <2>5, TurnsHold
<1> QED BY <1>1, <1>2, <1>3, <1>4, <1>5 DEF HoldNext

LEMMA SyncTurns == ASSUME Control, NEW s \in Syncers, SyncNext(s) PROVE Turns
<1>1. ASSUME NEW p \in Pages, SyncPin(s, p) PROVE Turns
  BY <1>1, SyncPinStep, KeptTurns
<1>2. ASSUME SyncLatch(s) PROVE Turns
  BY <1>2, SyncLatchStep, KeptTurns
<1>3. ASSUME SyncWritten(s) PROVE Turns
  <2> DEFINE b == sy[s].b
             l == Unlatched(Unpinned(buf[b]), s)
  <2>1. b \in Bufs /\ buf[b] \in Headers /\ buf[b].ref # 0 /\ s # None /\ buf[b].owner = None
    BY <1>3, SyncerAt DEF SyncWritten, SyncPinned, SyncLatched, SyncerHas, SyncOK, HeaderOK
  <2>2. l = [Unpinned(buf[b]) EXCEPT !.sharers = @ \ {s}]
    <3>1. Unpinned(buf[b]).owner = None
      BY <2>1, UnpinnedIs
    <3> QED BY <2>1, <3>1 DEF Unlatched
  <2>3. Unpinned(buf[b]) \in Headers /\ Unpinned(buf[b]).page = buf[b].page
        /\ Unpinned(buf[b]).flags = buf[b].flags
    BY <2>1, UnpinnedIs
  <2>4. PICK h \in {l, Cleaned(l)} : buf' = [buf EXCEPT ![b] = h]
    BY <1>3 DEF SyncWritten, ClearDirty
  <2>5. h.page = buf[b].page /\ h.flags \subseteq buf[b].flags
    <3> DEFINE u == Unpinned(buf[b])
    <3>1. h \in {[u EXCEPT !.sharers = @ \ {s}], Cleaned([u EXCEPT !.sharers = @ \ {s}])}
      BY <2>2, <2>4
    <3> HIDE DEF u
    <3>2. u \in Headers
      BY <2>3 DEF u
    <3>3. h.page = u.page /\ h.flags \subseteq u.flags
      BY <3>1, <3>2 DEF Cleaned, Headers
    <3> QED BY <2>3, <3>3 DEF u
  <2> QED BY <2>1, <2>4, <2>5, TurnsOne
<1>4. ASSUME UNCHANGED buf PROVE Turns
  BY <1>4, KeptTurns DEF Kept
<1> QED BY <1>1, <1>2, <1>3, <1>4 DEF SyncNext, SyncStart, SyncSkip, SyncWrite, SyncFile, Fsync,
                                      SyncFileEnd, SyncDone


LEMMA NextTurns == ASSUME Control, Control', [Next]_vars PROVE Turns
<1>1. UNCHANGED vars => Turns
  BY KeptTurns DEF vars, Kept
<1> QED BY <1>1, FgetTurns, AllocTurns, HoldTurns, SyncTurns DEF Next

\* A thread lets a page go that it has to write only once file_written is set.
Holding(t) == th[t].pc = "hold" /\ th[t].mode = "write"

LetsGo ==
    /\ \A t \in Threads : Holding(t) => th'[t] = th[t] \/ fileWritten'
    /\ fileWritten => fileWritten' \/ \E s \in Syncers : SyncFileEnd(s)

LEMMA HoldLetsGo == ASSUME Control, NEW t \in Threads, HoldNext(t) PROVE LetsGo
<1>1. th \in [Threads -> Calls] /\ fileWritten \in BOOLEAN
  BY DEF Control, Shape, Outside
<1>2. ASSUME Update(t) \/ Close(t) \/ Open(t) \/ FlushPage(t) PROVE LetsGo
  BY <1>2 DEF Update, Close, Open, FlushPage, LetsGo
<1>3. ASSUME Dirty(t) \/ Release(t) PROVE LetsGo
  BY <1>1, <1>3 DEF Dirty, Release, LetsGo, Holding, ioVars
<1>4. ASSUME Upgrade(t) PROVE LetsGo
  BY <1>1, <1>4 DEF Upgrade, GoTo, LetsGo, Holding
<1>5. ASSUME Downgrade(t) \/ Put(t) PROVE LetsGo
  <2>1. \A u \in Threads \ {t} : th'[u] = th[u]
    BY <1>1, <1>5 DEF Downgrade, Put, GoTo
  <2>2. NoteWritten(th[t].b)
    BY <1>5 DEF Downgrade, Put
  <2>3. Holding(t) => Has(th[t].b, "exclusive") /\ Has(th[t].b, "dirty")
    BY ThreadAt, BufAssumption DEF Holding, ThreadHas, CallOK, HeaderOK, Has
  <2> QED BY <1>1, <2>1, <2>2, <2>3 DEF NoteWritten, LetsGo
<1> QED BY <1>2, <1>3, <1>4, <1>5 DEF HoldNext

LEMMA NextLetsGo == ASSUME Control, [Next]_vars PROVE LetsGo
<1>1. ASSUME NEW t \in Threads, FgetNext(t) PROVE LetsGo
  <2>1. Moves(t) /\ th[t].pc # "hold"
    BY <1>1, FgetMoves DEF FgetNext, Get, Retry, Instantiate, Latch, ReadLatch, Fill, FillFails,
                           Relatch
  <2>2. fileWritten' = fileWritten
    BY <1>1 DEF FgetNext, Get, Retry, Instantiate, Latch, ReadLatch, Fill, FillFails, Relatch
  <2> QED BY <2>1, <2>2 DEF LetsGo, Moves, Holding
<1>2. ASSUME NEW t \in Threads, AllocNext(t) PROVE LetsGo
  <2>1. Moves(t) /\ th[t].pc # "hold"
    BY <1>2, AllocMoves DEF AllocNext, AllocFree, Choose, TryLatch, Evict, Evicted, Reuse,
                            AllocFails
  <2>2. fileWritten' = fileWritten
    BY <1>2 DEF AllocNext, AllocFree, Choose, TryLatch, Evict, Evicted, Reuse, AllocFails
  <2> QED BY <2>1, <2>2 DEF LetsGo, Moves, Holding
<1>3. ASSUME NEW s \in Syncers, SyncNext(s) PROVE LetsGo
  <2>1. th' = th
    BY <1>3 DEF SyncNext, SyncStart, SyncSkip, SyncPin, SyncLatch, SyncWrite, SyncWritten,
                SyncFile, Fsync, SyncFileEnd, SyncDone
  <2>2. fileWritten' = fileWritten \/ SyncFileEnd(s)
    BY <1>3 DEF SyncNext, SyncStart, SyncSkip, SyncPin, SyncLatch, SyncWrite, SyncWritten,
                SyncFile, Fsync, SyncDone
  <2> QED BY <2>1, <2>2 DEF LetsGo
<1>4. UNCHANGED vars => LetsGo
  BY DEF vars, LetsGo
<1> QED BY <1>1, <1>2, <1>3, <1>4, HoldLetsGo DEF Next

\* If a single reference to the file is left besides a syncer's handle, no
\* thread has the file open.
LEMMA SoleUserAlone ==
    ASSUME Shape, NEW s \in Syncers, SoleUser(s), sy[s].refers
    PROVE  \A t \in Threads : ~open[t]
<1> DEFINE O == {t \in Threads : open[t]}
           F == {r \in Syncers : sy[r].flushes}
           R == {r \in Syncers : sy[r].refers}
<1>1. IsFiniteSet(O) /\ IsFiniteSet(F) /\ IsFiniteSet(R)
  <2>1. O \subseteq Threads \cup Syncers /\ F \subseteq Threads \cup Syncers
        /\ R \subseteq Threads \cup Syncers
    OBVIOUS
  <2> QED BY <2>1, BufAssumption, FS_Subset
<1>2. Cardinality(O) \in Nat /\ Cardinality(F) \in Nat /\ Cardinality(R) \in Nat
  BY <1>1, FS_CardinalityType
<1>3. MpfCnt = Cardinality(O) + Cardinality(F) + Cardinality(R)
  BY DEF MpfCnt
<1>4. R # {} /\ (sy[s].flushes => F # {})
  OBVIOUS
<1> HIDE DEF O, F, R
<1>5. Cardinality(R) # 0 /\ (sy[s].flushes => Cardinality(F) # 0)
  BY <1>1, <1>4, FS_EmptySet
<1>6. Cardinality(O) = 0
  BY <1>2, <1>3, <1>5 DEF SoleUser
<1>7. O = {}
  BY <1>1, <1>6, FS_EmptySet
<1> QED BY <1>7 DEF O

LEMMA ReferringNext == ASSUME Control, Referring, [Next]_vars PROVE Referring'
<1>1. sy \in [Syncers -> Works]
  BY DEF Control, Shape
<1>2. ASSUME NEW s \in Syncers, \A r \in Syncers \ {s} : sy'[r] = sy[r],
             sy'[s].pc \in {"fsync", "synced", "done"} => sy'[s].todo = {},
             sy'[s].refers <=> sy'[s].pc \in {"fsync", "synced"}
      PROVE  Referring'
  BY <1>2 DEF Referring
<1>3. ASSUME NEW s \in Syncers, SyncNext(s) PROVE Referring'
  <2>1. CASE SyncStart(s)
    <3> DEFINE d == [Resting EXCEPT !.pc = "walk", !.goal = Content,
                         !.todo = IF hashDirty = 0 THEN {} ELSE {buf[b].page : b \in Dirties}]
    <3>1. sy' = [sy EXCEPT ![s] = d]
      BY <2>1 DEF SyncStart
    <3>2. d.pc = "walk" /\ ~d.refers
      BY DEF Resting
    <3> HIDE DEF d
    <3> QED BY <1>1, <1>2, <3>1, <3>2
  <2>2. ASSUME NEW p \in Pages, SyncSkip(s, p) PROVE Referring'
    BY <1>1, <1>2, <2>2 DEF SyncSkip, Works, Referring
  <2>10. ASSUME NEW p \in Pages, SyncPin(s, p) PROVE Referring'
    BY <1>1, <1>2, <2>10 DEF SyncPin, Works, Referring
  <2>3. CASE SyncLatch(s)
    BY <1>1, <1>2, <2>3 DEF SyncLatch, Works, Referring
  <2>4. CASE SyncWrite(s)
    BY <1>1, <1>2, <2>4 DEF SyncWrite, Works, Referring
  <2>5. CASE SyncWritten(s)
    BY <1>1, <1>2, <2>5 DEF SyncWritten, Works, Referring
  <2>6. CASE SyncFile(s)
    BY <1>1, <1>2, <2>6 DEF SyncFile, Works, Referring
  <2>7. CASE Fsync(s)
    BY <1>1, <1>2, <2>7 DEF Fsync, Works, Referring
  <2>8. CASE SyncFileEnd(s)
    BY <1>1, <1>2, <2>8 DEF SyncFileEnd, Works, Referring
  <2>9. CASE SyncDone(s)
    BY <1>1, <1>2, <2>9 DEF SyncDone, Resting
  <2> QED BY <1>3, <2>1, <2>2, <2>3, <2>4, <2>5, <2>6, <2>7, <2>8, <2>9, <2>10 DEF SyncNext
<1>4. ASSUME UNCHANGED sy PROVE Referring'
  BY <1>4 DEF Referring
<1>5. ASSUME NEW t \in Threads, FgetNext(t) \/ AllocNext(t) \/ HoldNext(t) PROVE UNCHANGED sy
  BY <1>5 DEF FgetNext, Get, Retry, Instantiate, Latch, ReadLatch, Fill, FillFails, Relatch,
              AllocNext, AllocFree, Choose, TryLatch, Evict, Evicted, Reuse, AllocFails,
              HoldNext, Update, Dirty, Upgrade, Downgrade, Put, Release,
              FlushPage, Close, Open
<1>6. UNCHANGED vars => UNCHANGED sy
  BY DEF vars
<1> QED BY <1>3, <1>4, <1>5, <1>6 DEF Next


\* Who holds a page to write, owns its latch.
HolderOwns ==
    \A t \in Threads :
        /\ th[t].pc = "hold" => open[t]
        /\ Holding(t) => th[t].b \in Bufs /\ buf[th[t].b].owner = t

LEMMA Holders == Control => HolderOwns
BY ThreadAt DEF HolderOwns, Holding, ThreadHas, CallOK

LEMMA HoldersNext == Control' => HolderOwns'
BY Holders, PTL

\* What is written is dirty, and no thread has it.
LEMMA OsMoves ==
    ASSUME Control, [Next]_vars
    PROVE  \/ os' = os
           \/ \E b \in Dirties : buf[b].owner # None => th[buf[b].owner].pc # "hold"
<1> DEFINE Goal == \/ os' = os
                   \/ \E b \in Dirties : buf[b].owner # None => th[buf[b].owner].pc # "hold"
<1>1. ASSUME NEW t \in Threads, Evict(t) PROVE Goal
  <2>1. th[t].b \in Dirties /\ buf[th[t].b].owner = t /\ th[t].pc = "evict"
    BY <1>1, ThreadAt DEF Evict, ThreadHas, CallOK, Evicting, Dirties, Has
  <2> QED BY <2>1
<1>2. ASSUME NEW s \in Syncers, SyncWrite(s) PROVE Goal
  <2>1. CASE Has(sy[s].b, "dirty")
    <3>1. sy[s].b \in Dirties /\ buf[sy[s].b].owner = None
      BY <1>2, <2>1, SyncerAt
         DEF SyncWrite, SyncPinned, SyncLatched, SyncerHas, SyncOK, HeaderOK, Dirties
    <3> QED BY <3>1
  <2>2. CASE ~Has(sy[s].b, "dirty")
    BY <1>2, <2>2 DEF SyncWrite
  <2> QED BY <2>1, <2>2
<1>6. ASSUME NEW t \in Threads, FlushPage(t) PROVE Goal
  <2>1. PICK b \in Dirties : ~Has(b, "exclusive")
    BY <1>6 DEF FlushPage
  <2>2. buf[b].owner = None
    BY <2>1 DEF Dirties, Has, Control, HeaderOK
  <2> QED BY <2>2
<1>3. ASSUME NEW t \in Threads, FgetNext(t) \/ AllocNext(t) \/ HoldNext(t), ~Evict(t),
             ~FlushPage(t)
      PROVE  os' = os
  BY <1>3 DEF FgetNext, Get, Retry, Instantiate, Latch, ReadLatch, Fill, FillFails, Relatch,
              AllocNext, AllocFree, Choose, TryLatch, Evicted, Reuse, AllocFails,
              HoldNext, Update, Dirty, Upgrade, Downgrade, Put, Release, Close, Open, ioVars
<1>4. ASSUME NEW s \in Syncers, SyncNext(s), ~SyncWrite(s) PROVE os' = os
  BY <1>4 DEF SyncNext, SyncStart, SyncSkip, SyncPin, SyncLatch, SyncWritten, SyncFile, Fsync,
              SyncFileEnd, SyncDone, ioVars
<1>5. UNCHANGED vars => os' = os
  BY DEF vars, ioVars
<1> QED BY <1>1, <1>2, <1>3, <1>4, <1>5, <1>6 DEF Next

LEMMA OpenMoves ==
    ASSUME [Next]_vars
    PROVE  open' = open \/ \E t \in Threads : Open(t) \/ Close(t)
<1>1. ASSUME NEW t \in Threads, FgetNext(t) \/ AllocNext(t) \/ HoldNext(t), ~Open(t), ~Close(t)
      PROVE  open' = open
  BY <1>1 DEF FgetNext, Get, Retry, Instantiate, Latch, ReadLatch, Fill, FillFails, Relatch,
              AllocNext, AllocFree, Choose, TryLatch, Evict, Evicted, Reuse, AllocFails,
              HoldNext, Update, Dirty, Upgrade, Downgrade, Put, Release, FlushPage
<1>2. ASSUME NEW s \in Syncers, SyncNext(s) PROVE open' = open
  BY <1>2 DEF SyncNext, SyncStart, SyncSkip, SyncPin, SyncLatch, SyncWrite, SyncWritten, SyncFile,
              Fsync, SyncFileEnd, SyncDone
<1>3. UNCHANGED vars => open' = open
  BY DEF vars
<1> QED BY <1>1, <1>2, <1>3 DEF Next

LEMMA StableMoves ==
    ASSUME Control, Values, [Next]_vars
    PROVE  stable' \in {stable, os} /\ (stable' # stable => os' = os)
BY NextData DEF Quiet, WritesOut, Changes

LEMMA SlipStays == ASSUME [Next]_vars PROVE slip => slip'
<1>1. ASSUME NEW t \in Threads, FgetNext(t) \/ AllocNext(t) \/ HoldNext(t), slip PROVE slip'
  BY <1>1 DEF FgetNext, Get, Retry, Instantiate, Latch, ReadLatch, Fill, FillFails, Relatch,
              AllocNext, AllocFree, Choose, TryLatch, Evict, Evicted, Reuse, AllocFails,
              HoldNext, Update, Dirty, Upgrade, Downgrade, Put, Release, FlushPage, Close,
              FlushedAtClose, Open
<1>2. ASSUME NEW s \in Syncers, SyncNext(s), slip PROVE slip'
  BY <1>2 DEF SyncNext, SyncStart, SyncSkip, SyncPin, SyncLatch, SyncWrite, SyncWritten, SyncFile,
              Fsync, SyncFileEnd, SyncDone
<1>3. UNCHANGED vars => slip' = slip
  BY DEF vars
<1> QED BY <1>1, <1>2, <1>3 DEF Next

\* While no thread has the file open, no page gets dirty.
NoneDirtied == \A d \in Dirties' : d \in Dirties /\ buf'[d].page = buf[d].page

LEMMA NoneOpenNoneDirtied ==
    ASSUME Control, Control', [Next]_vars, \A t \in Threads : ~open'[t]
    PROVE  NoneDirtied
<1>1. Turns /\ HolderOwns'
  BY NextTurns, HoldersNext
<1> SUFFICES ASSUME NEW d \in Dirties' PROVE d \in Dirties /\ buf'[d].page = buf[d].page
  BY DEF NoneDirtied
<1>2. d \in Bufs /\ "dirty" \in buf'[d].flags
  BY DEF Dirties, Has
<1>3. \A t \in Threads : th'[t].pc # "hold"
  BY <1>1 DEF HolderOwns
<1>4. "dirty" \in buf[d].flags
  BY <1>1, <1>2, <1>3 DEF Turns
<1>5. buf'[d].page # None /\ buf[d].page # None
  BY <1>2, <1>4 DEF Control, HeaderOK, Empty
<1> QED BY <1>1, <1>2, <1>4, <1>5 DEF Turns, Dirties, Has

\* A syncer goes on while no page gets dirty.
LEMMA CoveredGoes ==
    ASSUME NoneDirtied, NEW s \in Syncers, Covered(s),
           sy[s].pc # "idle", sy'[s].ok => sy[s].ok,
           sy'[s].ok => /\ \A b \in Dirties' : buf[b].page \in sy[s].todo =>
                                               buf[b].page \in sy'[s].todo
                        /\ sy'[s].pc = "clean" => sy'[s].b \notin Dirties'
                        /\ sy'[s].pc = "synced" => stable' = os'
    PROVE  Covered(s)'
BY DEF Covered, NoneDirtied

LEMMA CoveredOwn ==
    ASSUME Control, NoneDirtied, NEW s \in Syncers, Covered(s), SyncNext(s)
    PROVE  Covered(s)'
<1>1. sy \in [Syncers -> Works] /\ sy[s] \in Works
  BY DEF Control, Shape
<1>2. CASE SyncStart(s)
  <2> DEFINE todo == IF hashDirty = 0 THEN {} ELSE {buf[b].page : b \in Dirties}
             d == [Resting EXCEPT !.pc = "walk", !.todo = todo, !.goal = Content]
  <2>1. sy' = [sy EXCEPT ![s] = d]
    BY <1>2 DEF SyncStart
  <2>2. d.pc = "walk" /\ d.todo = todo
    BY DEF Resting
  <2>3. \A b \in Dirties : buf[b].page \in todo
    <3>1. hashDirty = 0 => Dirties = {}
      <4>1. IsFiniteSet(Dirties) /\ hashDirty = Cardinality(Dirties)
        BY DirtiesFinite DEF Control, DirtyExact
      <4> QED BY <4>1, FS_EmptySet
    <3> QED BY <3>1
  <2> HIDE DEF d, todo
  <2>4. sy'[s] = d
    BY <1>1, <2>1
  <2> QED BY <2>2, <2>3, <2>4 DEF Covered, NoneDirtied
<1>3. ASSUME NEW p \in Pages, SyncSkip(s, p) PROVE Covered(s)'
  <2>1. /\ sy[s].pc = "walk" /\ sy'[s].pc = "walk" /\ sy'[s].todo = sy[s].todo \ {p}
        /\ sy'[s].ok = sy[s].ok
    BY <1>1, <1>3 DEF SyncSkip, Works
  <2>2. \A b \in Dirties : buf[b].page # p
    BY <1>3 DEF SyncSkip, Unwritten, Cached, Dirties
  <2> QED BY <2>1, <2>2, CoveredGoes DEF NoneDirtied
<1>4. ASSUME NEW p \in Pages, SyncPin(s, p) PROVE Covered(s)'
  <2>1. /\ sy[s].pc = "walk" /\ sy'[s].pc = "readlatch" /\ sy'[s].todo = sy[s].todo
        /\ sy'[s].ok = sy[s].ok
    BY <1>1, <1>4 DEF SyncPin, Works
  <2> QED BY <2>1, CoveredGoes
<1>5. CASE SyncLatch(s)
  <2>1. /\ sy[s].pc = "readlatch" /\ sy'[s].pc \in {"write", "clean"}
        /\ sy'[s].todo = sy[s].todo /\ sy'[s].ok = sy[s].ok /\ sy'[s].b = sy[s].b
        /\ sy'[s].pc = "clean" => ~Has(sy[s].b, "dirty")
    BY <1>1, <1>5 DEF SyncLatch, Works
  <2>2. sy'[s].pc = "clean" => sy[s].b \notin Dirties'
    BY <2>1 DEF NoneDirtied, Dirties
  <2> QED BY <2>1, <2>2, CoveredGoes
<1>6. CASE SyncWrite(s)
  <2>1. PICK pc \in {"written", "clean"}, ok \in BOOLEAN :
          /\ sy' = [sy EXCEPT ![s].pc = pc, ![s].flushes = TRUE, ![s].ok = @ /\ ok]
          /\ ok /\ pc = "clean" => ~Has(sy[s].b, "dirty")
    BY <1>6 DEF SyncWrite
  <2>2. /\ sy[s].pc = "write" /\ sy'[s].pc = pc /\ sy'[s].todo = sy[s].todo
        /\ sy'[s].ok = (sy[s].ok /\ ok) /\ sy'[s].b = sy[s].b
    BY <1>1, <1>6, <2>1 DEF SyncWrite, Works
  <2>3. sy'[s].ok /\ pc = "clean" => sy[s].b \notin Dirties'
    BY <2>1, <2>2 DEF NoneDirtied, Dirties
  <2> QED BY <2>2, <2>3, CoveredGoes
<1>7. CASE SyncWritten(s)
  <2> DEFINE b == sy[s].b
  <2>1. /\ sy[s].pc \in {"written", "clean"} /\ sy'[s].pc = "walk" /\ sy'[s].ok = sy[s].ok
        /\ sy'[s].todo = sy[s].todo \ {buf[b].page}
    BY <1>1, <1>7 DEF SyncWritten, Works
  <2>2. b \in Bufs /\ buf[b] \in Headers /\ buf[b].ref # 0
    BY <2>1, SyncerAt DEF SyncPinned, SyncLatched, SyncerHas
  <2>3. sy[s].ok => b \notin Dirties'
    <3>1. CASE sy[s].pc = "written"
      <4> DEFINE l == Unlatched(Unpinned(buf[b]), s)
      <4>1. buf' = [buf EXCEPT ![b] = Cleaned(l)]
        BY <1>7, <3>1 DEF SyncWritten, ClearDirty
      <4>2. l \in Headers
        <5>1. Unpinned(buf[b]) \in Headers
          BY <2>2, UnpinnedIs
        <5> QED BY <5>1, UnlatchedIs
      <4> HIDE DEF l
      <4>3. "dirty" \notin Cleaned(l).flags
        BY <4>2 DEF Cleaned, Headers
      <4>4. buf'[b] = Cleaned(l)
        BY <2>2, <4>1 DEF Control, Shape
      <4> QED BY <4>3, <4>4 DEF Dirties, Has
    <3>2. CASE sy[s].pc = "clean"
      BY <3>2 DEF Covered, NoneDirtied
    <3> QED BY <2>1, <3>1, <3>2
  <2>4. ASSUME sy[s].ok, NEW d \in Dirties' PROVE buf[d].page # buf[b].page
    <3>1. d \in Bufs /\ d \in Dirties /\ d # b
      BY <2>3, <2>4 DEF NoneDirtied, Dirties
    <3>2. buf[d].page # None
      BY <3>1 DEF Control, HeaderOK, Dirties, Has, Empty
    <3> QED BY <2>2, <3>1, <3>2 DEF Control, UniquePage
  <2> QED BY <2>1, <2>4, CoveredGoes
<1>8. CASE SyncFile(s)
  <2>1. /\ sy[s].pc = "walk" /\ sy'[s].pc \in {"fsync", "done"}
        /\ sy'[s].todo = sy[s].todo /\ sy'[s].ok = sy[s].ok
    BY <1>1, <1>8 DEF SyncFile, Works
  <2> QED BY <2>1, CoveredGoes
<1>9. CASE Fsync(s)
  <2>1. /\ sy[s].pc = "fsync" /\ sy'[s].pc = "synced" /\ sy'[s].todo = sy[s].todo
        /\ sy'[s].ok => sy[s].ok /\ stable' = os /\ os' = os
    BY <1>1, <1>9 DEF Fsync, Works
  <2> QED BY <2>1, CoveredGoes
<1>10. CASE SyncFileEnd(s)
  <2>1. /\ sy[s].pc = "synced" /\ sy'[s].pc = "done" /\ sy'[s].todo = sy[s].todo
        /\ sy'[s].ok = sy[s].ok
    BY <1>1, <1>10 DEF SyncFileEnd, Works
  <2> QED BY <2>1, CoveredGoes
<1>11. CASE SyncDone(s)
  <2>1. sy'[s].pc = "idle"
    BY <1>1, <1>11 DEF SyncDone, Resting
  <2> QED BY <2>1 DEF Covered
<1> QED BY <1>2, <1>3, <1>4, <1>5, <1>6, <1>7, <1>8, <1>9, <1>10, <1>11 DEF SyncNext

\* A step moves one syncer, or none.
LEMMA SyncersMove ==
    ASSUME Control, [Next]_vars, NEW s \in Syncers
    PROVE  sy'[s] = sy[s] \/ SyncNext(s)
<1>1. sy \in [Syncers -> Works]
  BY DEF Control, Shape
<1>2. ASSUME NEW r \in Syncers, SyncNext(r), r # s PROVE sy'[s] = sy[s]
  BY <1>1, <1>2 DEF SyncNext, SyncStart, SyncSkip, SyncPin, SyncLatch, SyncWrite, SyncWritten,
                    SyncFile, Fsync, SyncFileEnd, SyncDone
<1>3. ASSUME NEW t \in Threads, FgetNext(t) \/ AllocNext(t) \/ HoldNext(t) PROVE UNCHANGED sy
  BY <1>3 DEF FgetNext, Get, Retry, Instantiate, Latch, ReadLatch, Fill, FillFails, Relatch,
              AllocNext, AllocFree, Choose, TryLatch, Evict, Evicted, Reuse, AllocFails,
              HoldNext, Update, Dirty, Upgrade, Downgrade, Put, Release,
              FlushPage, Close, Open
<1>4. UNCHANGED vars => UNCHANGED sy
  BY DEF vars
<1> QED BY <1>2, <1>3, <1>4 DEF Next

LEMMA CoveredNext ==
    ASSUME Control, Control', Values, Referring, [Next]_vars, NoneDirtied,
           NEW s \in Syncers, Covered(s)
    PROVE  Covered(s)'
<1>1. CASE SyncNext(s)
  BY <1>1, CoveredOwn
<1>2. CASE sy'[s] = sy[s]
  <2> SUFFICES ASSUME sy[s].ok, sy[s].pc # "idle" PROVE Covered(s)'
    BY <1>2 DEF Covered
  <2>1. sy[s].pc = "synced" => stable' = os'
    <3> SUFFICES ASSUME sy[s].pc = "synced" PROVE stable' = os'
      OBVIOUS
    <3>1. Dirties = {} /\ stable = os
      BY DEF Covered, Referring
    <3> QED BY <3>1, OsMoves, StableMoves
  <2>2. sy[s].pc = "clean" => sy[s].b \notin Dirties'
    BY DEF Covered, NoneDirtied
  <2> QED BY <1>2, <2>1, <2>2, CoveredGoes
<1> QED BY <1>1, <1>2, SyncersMove

LEMMA CleanNext ==
    ASSUME Control, Values, [Next]_vars, NoneDirtied, Clean
    PROVE  Clean'
BY OsMoves, StableMoves DEF Clean, NoneDirtied

\* file_written is cleared only when there is nothing left to be written.
LEMMA ClearedClean ==
    ASSUME Control, Flushed, Referring, [Next]_vars, ~slip', fileWritten, ~fileWritten'
    PROVE  Clean /\ Clean'
<1>1. ~slip
  BY SlipStays
<1>2. PICK s \in Syncers : SyncFileEnd(s)
  BY NextLetsGo DEF LetsGo
<1>3. SoleUser(s) /\ sy[s].refers /\ sy[s].ok /\ sy[s].pc = "synced"
  BY <1>2 DEF SyncFileEnd, Referring
<1>4. Clean \/ Covered(s)
  BY <1>1, <1>3, SoleUserAlone DEF Flushed, Control
<1>5. Clean
  BY <1>3, <1>4 DEF Covered, Clean, Referring
<1>6. UNCHANGED <<buf, os, stable>>
  BY <1>2 DEF SyncFileEnd, ioVars
<1>7. Dirties' = Dirties
  BY <1>6 DEF Dirties, Has
<1> QED BY <1>5, <1>6, <1>7 DEF Clean

LEMMA LastClose ==
    ASSUME Control, Flushed, ~slip', NEW t \in Threads, Close(t), ~slip,
           \A u \in Threads \ {t} : ~open[u]
    PROVE  Clean' \/ (fileWritten' /\ \A s \in Syncers : Covered(s)')
<1>1. UNCHANGED <<buf, os, sy, fileWritten>> /\ FlushedAtClose(t) /\ th[t].pc = "idle"
  BY DEF Close
<1>2. Dirties' = Dirties
  BY <1>1 DEF Dirties, Has
<1>3. CASE ~fileWritten /\ UNCHANGED stable
  <2>1. \A d \in Dirties : buf[d].owner # None /\ th[buf[d].owner].pc = "hold"
    BY <1>3 DEF Flushed
  <2>2. \A d \in Dirties : buf[d].owner \in Threads \cup {None}
    BY DEF Dirties, Control, Shape, Headers
  <2>3. \A u \in Threads : th[u].pc # "hold"
    BY <1>1, Holders DEF HolderOwns
  <2>4. Dirties = {}
    BY <2>1, <2>2, <2>3
  <2> QED BY <1>1, <1>2, <1>3, <2>4 DEF Flushed, Clean
<1>4. CASE Dirties = {} /\ stable' = os
  BY <1>1, <1>2, <1>4 DEF Clean
<1>5. CASE fileWritten /\ \A s \in Syncers : sy[s].pc = "idle"
  BY <1>1, <1>5 DEF Covered
<1> QED BY <1>1, <1>3, <1>4, <1>5 DEF FlushedAtClose

LEMMA FlushedNext ==
    ASSUME Control, Control', Values, Flushed, Referring, [Next]_vars
    PROVE  Flushed'
<1> SUFFICES ASSUME ~slip' PROVE Flushed'
  BY DEF Flushed
<1>1. Turns /\ LetsGo /\ HolderOwns' /\ stable' \in {stable, os} /\ ~slip
  BY NextTurns, NextLetsGo, HoldersNext, StableMoves, SlipStays
<1>2. /\ \A d \in Bufs : d \in Dirties <=> "dirty" \in buf[d].flags
      /\ \A d \in Bufs : d \in Dirties' <=> "dirty" \in buf'[d].flags
      /\ Dirties \subseteq Bufs /\ Dirties' \subseteq Bufs
  BY DEF Dirties, Has
<1>3. ASSUME \A t \in Threads : ~open'[t]
      PROVE  Clean' \/ (fileWritten' /\ \A s \in Syncers : Covered(s)')
  <2>1. CASE \A t \in Threads : ~open[t]
    <3>1. NoneDirtied
      BY <1>3, NoneOpenNoneDirtied
    <3>2. CASE Clean
      BY <3>1, <3>2, CleanNext
    <3>3. CASE fileWritten /\ \A s \in Syncers : Covered(s)
      <4>1. \A s \in Syncers : Covered(s)'
        BY <3>1, <3>3, CoveredNext
      <4> QED BY <3>3, <4>1, ClearedClean
    <3> QED BY <1>1, <2>1, <3>2, <3>3 DEF Flushed
  <2>2. CASE \E t \in Threads : open[t]
    <3>1. open \in [Threads -> BOOLEAN]
      BY DEF Control, Shape
    <3>2. PICK t \in Threads : Close(t)
      BY <1>3, <2>2, <3>1, OpenMoves DEF Open
    <3>3. \A u \in Threads \ {t} : ~open[u]
      BY <1>3, <3>1, <3>2 DEF Close
    <3> QED BY <1>1, <3>2, <3>3, LastClose
  <2> QED BY <2>1, <2>2
<1>4. ASSUME ~fileWritten'
      PROVE  /\ stable' = os'
             /\ \A d \in Dirties' : buf'[d].owner # None /\ th'[buf'[d].owner].pc = "hold"
  <2>1. CASE fileWritten
    BY <1>4, <2>1, ClearedClean DEF Clean
  <2>2. CASE ~fileWritten
    <3>1. /\ stable = os
          /\ \A b \in Dirties : buf[b].owner # None /\ th[buf[b].owner].pc = "hold"
      BY <1>1, <2>2 DEF Flushed
    <3>2. os' = os /\ stable' = os'
      BY <1>1, <3>1, OsMoves
    <3>3. ASSUME NEW d \in Dirties'
          PROVE  buf'[d].owner # None /\ th'[buf'[d].owner].pc = "hold"
      <4>1. \E t \in Threads : th'[t].b = d /\ th'[t].pc = "hold" /\ th'[t].mode = "write"
        <5>1. CASE d \in Dirties
          <6> DEFINE o == buf[d].owner
          <6>1. d \in Bufs /\ o # None /\ th[o].pc = "hold"
            BY <1>2, <3>1, <5>1
          <6>2. o \in Threads /\ Owns(o, d)
            BY <6>1 DEF Control, Shape, Headers, HeaderOK
          <6>3. Holding(o) /\ th[o].b = d
            BY <6>1, <6>2 DEF Owns, Holding
          <6>4. th'[o] = th[o]
            BY <1>1, <1>4, <6>2, <6>3 DEF LetsGo
          <6> QED BY <6>2, <6>3, <6>4 DEF Holding
        <5>2. CASE d \notin Dirties
          BY <1>1, <1>2, <5>2 DEF Turns
        <5> QED BY <5>1, <5>2
      <4>2. PICK t \in Threads : th'[t].b = d /\ th'[t].pc = "hold" /\ th'[t].mode = "write"
        BY <4>1
      <4>3. buf'[d].owner = t
        BY <1>1, <4>2 DEF HolderOwns, Holding
      <4> QED BY <4>2, <4>3, BufAssumption
    <3> QED BY <3>2, <3>3
  <2> QED BY <2>1, <2>2
<1> QED BY <1>3, <1>4 DEF Flushed


\* Contents only get newer.
Grows ==
    \A p \in Pages :
        /\ {Content[p], Content'[p], os[p], os'[p], stable[p], stable'[p]} \subseteq Nat
        /\ Content[p] <= Content'[p] /\ os[p] <= os'[p] /\ stable[p] <= stable'[p]

ContentNat == Content \in [Pages -> Nat]

LEMMA ContentTypeNext == Shape' => Content' \in [Pages -> Nat]
<1>1. Shape => ContentNat
  BY ContentType DEF ContentNat
<1>2. Shape' => ContentNat'
  BY <1>1, PTL
<1> QED BY <1>2 DEF ContentNat

LEMMA NumbersNext ==
    Shape' => \A p \in Pages : os'[p] \in Nat /\ stable'[p] \in Nat
BY DEF Shape, Outside

LEMMA GrowsNext ==
    ASSUME Control, Control', Values, [Next]_vars
    PROVE  Grows
<1> SUFFICES ASSUME NEW p \in Pages
             PROVE  /\ {Content[p], Content'[p], os[p], os'[p], stable[p], stable'[p]} \subseteq Nat
                    /\ Content[p] <= Content'[p] /\ os[p] <= os'[p] /\ stable[p] <= stable'[p]
  BY DEF Grows
<1>1. {Content[p], Content'[p], os[p], os'[p], stable[p], stable'[p]} \subseteq Nat
  BY ContentType, ContentTypeNext, Numbers, NumbersNext DEF Control
<1>2. stable[p] <= stable'[p]
  <2>1. stable' \in {stable, os} /\ stable[p] <= os[p]
    BY StableMoves DEF Values
  <2> QED BY <1>1, <2>1
<1>3. CASE Quiet
  <2>1. Content' = Content /\ os' = os
    BY <1>3, QuietContent DEF Quiet
  <2> QED BY <1>1, <1>2, <2>1
<1>4. CASE \E b \in Bufs : WritesOut(b)
  <2>1. PICK b \in Bufs : WritesOut(b)
    BY <1>4
  <2>2. Content' = Content
    BY <2>1, WritesContent
  <2>3. os[p] <= os'[p]
    <3>1. Good(buf[b]) /\ buf[b].page \in Pages /\ os \in [Pages -> Nat]
      BY <2>1, BufAssumption DEF WritesOut, Good, Control, Shape, Outside
    <3>2. os[buf[b].page] <= buf[b].val
      BY <3>1 DEF Values, ValueOf
    <3> QED BY <1>1, <2>1, <3>1, <3>2 DEF WritesOut
  <2> QED BY <1>1, <1>2, <2>2, <2>3
<1>5. CASE \E t \in Threads : Changes(t)
  <2>1. PICK t \in Threads : Changes(t)
    BY <1>5
  <2>2. os' = os /\ Content' = [Content EXCEPT ![buf[th[t].b].page] = lsn + 1]
    BY <2>1, ChangesContent DEF Changes
  <2>3. Content[p] <= lsn
    <3>1. lsn \in Nat /\ os[p] \in Nat /\ os[p] <= logged /\ logged \in Nat /\ logged <= lsn
          /\ \A b \in Bufs : buf[b].val \in Nat /\ buf[b].val <= lsn
      BY Numbers, BufAssumption DEF Values, ValueOf, Control
    <3> QED BY <3>1, ContentIs DEF Contents
  <2>4. lsn \in Nat
    BY Numbers DEF Control
  <2>5. Content'[p] \in {Content[p], lsn + 1}
    BY <2>2, ContentDomain
  <2> QED BY <1>1, <1>2, <2>2, <2>3, <2>4, <2>5
<1> QED BY <1>3, <1>4, <1>5, NextData

\* A page without a dirty buffer is in the file as it is.
LEMMA CleanContent ==
    ASSUME Control, Values, NEW p \in Pages,
           \A b \in Bufs : buf[b].page = p => "dirty" \notin buf[b].flags
    PROVE  Content[p] = os[p]
<1>1. \A b \in Bufs : InCache(b, p) => buf[b].val = os[p]
  BY DEF InCache, Values, ValueOf
<1> QED BY <1>1, ContentIs DEF Contents

\* The buffer of a syncer keeps its page.
LEMMA SyncerPage ==
    ASSUME Control, Control', Turns, NEW s \in Syncers, sy'[s] = sy[s], sy[s].b # None
    PROVE  buf'[sy[s].b].page = buf[sy[s].b].page
<1>1. sy[s].b \in Bufs /\ sy[s] \in Works
  BY DEF Control, Shape, Works
<1>2. SyncerOf(s) /\ SyncerOf(s)'
  BY DEF Control
<1>3. buf[sy[s].b].page \in Pages /\ buf'[sy[s].b].page \in Pages
  BY <1>1, <1>2 DEF SyncerOf, SyncOK, Works
<1> QED BY <1>1, <1>3, BufAssumption DEF Turns

\* A syncer stays where it is.
LEMMA ReachedStays ==
    ASSUME Control, Control', Values, [Next]_vars, NEW s \in Syncers, sy'[s] = sy[s], Reached(s)
    PROVE  Reached(s)'
<1>1. Grows /\ Turns
  BY GrowsNext, NextTurns
<1>2. sy[s] \in Works
  BY DEF Control, Shape
<1>3. sy[s].pc \in {"written", "clean"} => sy[s].b # None
  BY DEF Control, SyncerOf, SyncPinned, SyncLatched
<1>4. sy[s].b # None => buf'[sy[s].b].page = buf[sy[s].b].page
  BY <1>1, SyncerPage
<1> SUFFICES ASSUME sy[s].ok, sy[s].pc # "idle", NEW p \in Pages
             PROVE  /\ sy[s].goal[p] <= Content'[p]
                    /\ p \notin sy[s].todo => sy[s].goal[p] <= os'[p]
                    /\ sy[s].pc \in {"written", "clean"} /\ p = buf'[sy[s].b].page =>
                         sy[s].goal[p] <= os'[p]
                    /\ sy[s].pc = "synced" \/ (sy[s].pc = "done" /\ ~slip') =>
                         sy[s].goal[p] <= stable'[p]
  BY DEF Reached
<1>5. sy[s].goal[p] \in Nat
  BY <1>2 DEF Works
<1> QED BY <1>1, <1>3, <1>4, <1>5, SlipStays DEF Reached, Grows

\* A syncer goes on, and what it is about to leave out of account is there.
LEMMA ReachedGoes ==
    ASSUME Control, Control', Values, [Next]_vars, NEW s \in Syncers, Reached(s),
           sy[s].pc # "idle", sy'[s].ok => sy[s].ok, sy'[s].goal = sy[s].goal,
           \A p \in Pages : sy'[s].ok =>
              /\ p \notin sy'[s].todo /\ p \in sy[s].todo => sy[s].goal[p] <= os'[p]
              /\ sy'[s].pc \in {"written", "clean"} /\ p = buf'[sy'[s].b].page =>
                   sy[s].goal[p] <= os'[p]
              /\ sy'[s].pc = "synced" \/ (sy'[s].pc = "done" /\ ~slip') =>
                   sy[s].goal[p] <= stable'[p]
    PROVE  Reached(s)'
<1>1. Grows /\ sy[s] \in Works
  BY GrowsNext DEF Control, Shape
<1> SUFFICES ASSUME sy'[s].ok, NEW p \in Pages
             PROVE  /\ sy[s].goal[p] <= Content'[p]
                    /\ p \notin sy'[s].todo => sy[s].goal[p] <= os'[p]
                    /\ sy'[s].pc \in {"written", "clean"} /\ p = buf'[sy'[s].b].page =>
                         sy[s].goal[p] <= os'[p]
                    /\ sy'[s].pc = "synced" \/ (sy'[s].pc = "done" /\ ~slip') =>
                         sy[s].goal[p] <= stable'[p]
  BY DEF Reached
<1>2. sy[s].goal[p] \in Nat
  BY <1>1 DEF Works
<1>3. sy[s].goal[p] <= Content[p] /\ (p \notin sy[s].todo => sy[s].goal[p] <= os[p])
  BY DEF Reached
<1> QED BY <1>1, <1>2, <1>3 DEF Grows


LEMMA ReachedOwn ==
    ASSUME Control, Control', Values, Flushed, Referring, [Next]_vars,
           NEW s \in Syncers, Reached(s), SyncNext(s)
    PROVE  Reached(s)'
<1>1. /\ sy \in [Syncers -> Works] /\ sy[s] \in Works /\ os \in [Pages -> Nat]
      /\ \A p \in Pages : sy[s].goal[p] \in Nat
  BY DEF Control, Shape, Outside, Works
<1>2. Content' \in [Pages -> Nat] /\ Grows
  BY ContentTypeNext, GrowsNext DEF Control
<1>3. CASE SyncStart(s)
  <2> DEFINE todo == IF hashDirty = 0 THEN {} ELSE {buf[b].page : b \in Dirties}
             d == [Resting EXCEPT !.pc = "walk", !.todo = todo, !.goal = Content]
  <2>1. sy' = [sy EXCEPT ![s] = d] /\ UNCHANGED <<buf, os>>
    BY <1>3 DEF SyncStart
  <2>2. d.pc = "walk" /\ d.todo = todo /\ d.goal = Content
    BY DEF Resting
  <2>3. Content' = Content
    BY <2>1 DEF Content, Cached, Has
  <2>4. ASSUME NEW p \in Pages, p \notin todo PROVE Content[p] = os[p]
    <3>1. hashDirty = 0 => Dirties = {}
      <4>1. IsFiniteSet(Dirties) /\ hashDirty = Cardinality(Dirties)
        BY DirtiesFinite DEF Control, DirtyExact
      <4> QED BY <4>1, FS_EmptySet
    <3>2. \A b \in Dirties : buf[b].page # p
      BY <2>4, <3>1
    <3> QED BY <3>2, CleanContent DEF Dirties, Has
  <2> HIDE DEF d, todo
  <2>5. sy'[s] = d
    BY <1>1, <2>1
  <2>6. \A p \in Pages : Content[p] \in Nat
    BY <1>2, <2>3
  <2> QED BY <2>1, <2>2, <2>3, <2>4, <2>5, <2>6 DEF Reached
<1>4. ASSUME NEW p \in Pages, SyncSkip(s, p) PROVE Reached(s)'
  <2> DEFINE d == [sy[s] EXCEPT !.todo = @ \ {p}]
  <2>1. d.pc = "walk" /\ d.todo = sy[s].todo \ {p} /\ d.goal = sy[s].goal /\ d.ok = sy[s].ok
    BY <1>1, <1>4 DEF Works, SyncSkip
  <2>2. sy' = [sy EXCEPT ![s] = d] /\ os' = os /\ sy[s].pc = "walk"
    BY <1>4 DEF SyncSkip, ioVars
  <2> HIDE DEF d
  <2>3. sy'[s] = d
    BY <1>1, <2>2
  <2>4. Content[p] = os[p]
    BY <1>4, CleanContent DEF SyncSkip, Unwritten, Cached, Dirties, Has
  <2>5. sy[s].ok => sy[s].goal[p] <= os[p]
    BY <2>2, <2>4 DEF Reached
  <2> QED BY <2>1, <2>2, <2>3, <2>5, ReachedGoes
<1>5. ASSUME NEW p \in Pages, SyncPin(s, p) PROVE Reached(s)'
  <2>1. PICK b \in Bufs : sy' = [sy EXCEPT ![s].b = b, ![s].pc = "readlatch"]
    BY <1>5 DEF SyncPin, Unwritten, Cached
  <2> DEFINE d == [sy[s] EXCEPT !.b = b, !.pc = "readlatch"]
  <2>2. d.pc = "readlatch" /\ d.todo = sy[s].todo /\ d.goal = sy[s].goal /\ d.ok = sy[s].ok
    BY <1>1 DEF Works
  <2>3. sy'[s] = d /\ sy[s].pc = "walk"
    BY <1>1, <1>5, <2>1 DEF SyncPin
  <2> HIDE DEF d
  <2> QED BY <2>2, <2>3, ReachedGoes
<1>6. CASE SyncLatch(s)
  <2> DEFINE b == sy[s].b
             p == buf[b].page
             pc == IF Has(b, "dirty") THEN "write" ELSE "clean"
             d == [sy[s] EXCEPT !.pc = pc]
  <2>1. /\ d.pc = pc /\ d.todo = sy[s].todo /\ d.goal = sy[s].goal /\ d.ok = sy[s].ok
        /\ d.b = b
    BY <1>1 DEF Works
  <2>2. sy' = [sy EXCEPT ![s] = d] /\ os' = os /\ sy[s].pc = "readlatch"
    BY <1>6 DEF SyncLatch, ioVars
  <2> HIDE DEF d
  <2>3. sy'[s] = d
    BY <1>1, <2>2
  <2>4. b \in Bufs /\ p \in Pages
    BY <2>2, SyncerAt DEF SyncPinned, SyncerHas
  <2>5. buf'[b].page = p
    BY <1>6, <2>4, SyncLatchStep DEF Kept
  <2>6. CASE Has(b, "dirty")
    BY <2>1, <2>2, <2>3, <2>6, ReachedGoes
  <2>7. CASE ~Has(b, "dirty")
    <3>1. Content[p] = os[p]
      BY <2>4, <2>7, BufAssumption, CleanContent DEF Has, Control, UniquePage
    <3>2. sy[s].ok => sy[s].goal[p] <= os'[p]
      BY <2>2, <2>4, <3>1 DEF Reached
    <3> QED BY <2>1, <2>2, <2>3, <2>5, <2>7, <3>2, ReachedGoes
  <2> QED BY <2>6, <2>7
<1>7. CASE SyncWrite(s)
  <2> DEFINE b == sy[s].b
             p == buf[b].page
  <2>1. PICK pc \in {"written", "clean"}, ok \in BOOLEAN :
          /\ sy' = [sy EXCEPT ![s].pc = pc, ![s].flushes = TRUE, ![s].ok = @ /\ ok]
          /\ Has(b, "dirty") => ~ok \/ os' = [os EXCEPT ![p] = buf[b].val]
          /\ ~Has(b, "dirty") => os' = os
    BY <1>7 DEF SyncWrite
  <2> DEFINE d == [sy[s] EXCEPT !.pc = pc, !.flushes = TRUE, !.ok = @ /\ ok]
  <2>2. /\ d.pc = pc /\ d.todo = sy[s].todo /\ d.goal = sy[s].goal /\ d.ok = (sy[s].ok /\ ok)
        /\ d.b = b
    BY <1>1 DEF Works
  <2>3. sy'[s] = d /\ sy[s].pc = "write" /\ UNCHANGED buf
    BY <1>1, <1>7, <2>1 DEF SyncWrite
  <2> HIDE DEF d
  <2>4. b \in Bufs /\ p \in Pages
    BY <2>3, SyncerAt DEF SyncPinned, SyncLatched, SyncerHas
  <2>5. ASSUME sy[s].ok, ok PROVE sy[s].goal[p] <= os'[p]
    <3>1. sy[s].goal[p] <= Content[p]
      BY <2>3, <2>4, <2>5 DEF Reached
    <3>2. CASE Has(b, "dirty")
      <4>1. Content[p] = buf[b].val
        BY <2>4, <3>2, BufAssumption, ContentIs DEF Contents, InCache, Good, Has
      <4> QED BY <1>1, <2>1, <2>4, <2>5, <3>1, <3>2, <4>1
    <3>3. CASE ~Has(b, "dirty")
      <4>1. Content[p] = os[p]
        BY <2>4, <3>3, BufAssumption, CleanContent DEF Has, Control, UniquePage
      <4> QED BY <2>1, <3>1, <3>3, <4>1
    <3> QED BY <3>2, <3>3
  <2> QED BY <2>2, <2>3, <2>5, ReachedGoes
<1>8. CASE SyncWritten(s)
  <2> DEFINE p == buf[sy[s].b].page
             d == [sy[s] EXCEPT !.pc = "walk", !.b = None, !.todo = @ \ {p}]
  <2>1. d.pc = "walk" /\ d.todo = sy[s].todo \ {p} /\ d.goal = sy[s].goal /\ d.ok = sy[s].ok
    BY <1>1 DEF Works
  <2>2. sy' = [sy EXCEPT ![s] = d] /\ os' = os /\ sy[s].pc \in {"written", "clean"}
    BY <1>8 DEF SyncWritten, ioVars
  <2> HIDE DEF d
  <2>3. sy'[s] = d
    BY <1>1, <2>2
  <2>4. p \in Pages
    BY <2>2, SyncerAt DEF SyncPinned, SyncLatched, SyncerHas
  <2>5. sy[s].ok => sy[s].goal[p] <= os'[p]
    BY <2>2, <2>4 DEF Reached
  <2> QED BY <2>1, <2>2, <2>3, <2>5, ReachedGoes
<1>9. CASE SyncFile(s)
  <2>1. sy[s].pc = "walk" /\ sy[s].todo = {} /\ UNCHANGED <<os, stable>>
    BY <1>9 DEF SyncFile, ioVars
  <2>2. sy[s].ok => \A p \in Pages : sy[s].goal[p] <= os[p]
    BY <2>1 DEF Reached
  <2>3. CASE sy[s].ok /\ fileWritten
    <3>1. /\ sy'[s].pc = "fsync" /\ sy'[s].todo = {} /\ sy'[s].goal = sy[s].goal
          /\ sy'[s].ok = sy[s].ok
      BY <1>1, <1>9, <2>1, <2>3 DEF SyncFile, Works
    <3> QED BY <2>1, <3>1, <2>2, ReachedGoes
  <2>4. CASE ~(sy[s].ok /\ fileWritten)
    <3>1. /\ sy'[s].pc = "done" /\ sy'[s].todo = {} /\ sy'[s].goal = sy[s].goal
          /\ sy'[s].ok = sy[s].ok
      BY <1>1, <1>9, <2>1, <2>4 DEF SyncFile, Works
    <3>2. sy[s].ok /\ ~slip' => stable = os
      BY <2>4, SlipStays DEF Flushed
    <3> QED BY <2>1, <2>2, <3>1, <3>2, ReachedGoes
  <2> QED BY <2>3, <2>4
<1>10. CASE Fsync(s)
  <2>1. /\ sy[s].pc = "fsync"
        /\ sy'[s].pc = "synced" /\ sy'[s].todo = sy[s].todo /\ sy'[s].goal = sy[s].goal
        /\ sy'[s].ok => sy[s].ok /\ stable' = os
    BY <1>1, <1>10 DEF Fsync, Works
  <2>2. sy[s].ok => \A p \in Pages : sy[s].goal[p] <= os[p]
    BY <2>1 DEF Reached, Referring
  <2> QED BY <2>1, <2>2, ReachedGoes
<1>11. CASE SyncFileEnd(s)
  <2>1. /\ sy[s].pc = "synced" /\ stable' = stable
        /\ sy'[s].pc = "done" /\ sy'[s].todo = sy[s].todo /\ sy'[s].goal = sy[s].goal
        /\ sy'[s].ok = sy[s].ok
    BY <1>1, <1>11 DEF SyncFileEnd, Works, ioVars
  <2>2. sy[s].ok => \A p \in Pages : sy[s].goal[p] <= stable[p]
    BY <2>1 DEF Reached
  <2> QED BY <2>1, <2>2, ReachedGoes
<1>12. CASE SyncDone(s)
  <2>1. sy'[s].pc = "idle"
    BY <1>1, <1>12 DEF SyncDone, Resting
  <2> QED BY <2>1 DEF Reached
<1> QED BY <1>3, <1>4, <1>5, <1>6, <1>7, <1>8, <1>9, <1>10, <1>11, <1>12 DEF SyncNext


LEMMA DurableInit == Init => Durable
<1> SUFFICES ASSUME Init PROVE Durable
  OBVIOUS
<1>1. Dirties = {} /\ stable = os
  BY DEF Init, Dirties, Has, Empty
<1>2. \A s \in Syncers : sy[s].pc = "idle" /\ ~sy[s].refers
  BY DEF Init, Resting
<1> QED BY <1>1, <1>2 DEF Durable, Flushed, Clean, Referring, Reached

LEMMA DurableNext ==
    ASSUME Control, Control', Values, Durable, [Next]_vars
    PROVE  Durable'
<1>1. Flushed' /\ Referring'
  BY FlushedNext, ReferringNext DEF Durable
<1>2. ASSUME NEW s \in Syncers PROVE Reached(s)'
  BY <1>2, SyncersMove, ReachedStays, ReachedOwn DEF Durable
<1> QED BY <1>1, <1>2 DEF Durable


-----------------------------------------------------------------------------
(* What the invariant is for.                                              *)

\* In every reachable state each header tells who works on the buffer, and each
\* process is where it may rely on that.
THEOREM Invariant == Spec => []Control
BY ControlInit, ControlNext, PTL DEF Spec

\* A page has one buffer: the second search of __memp_fget and the insertion of
\* the buffer are under one locking of the bucket.
THEOREM OnePageOneBuffer == Spec => []OneBuffer
<1>1. Control => OneBuffer
  <2> SUFFICES ASSUME Control, NEW p \in Pages
               PROVE  Cardinality(Cached(p)) <= 1
    BY DEF OneBuffer
  <2>1. CASE Cached(p) = {}
    <3>1. Cardinality({}) = 0
      BY FS_EmptySet
    <3> QED BY <2>1, <3>1
  <2>2. CASE Cached(p) # {}
    <3>1. PICK b : b \in Cached(p)
      BY <2>2
    <3>2. Cached(p) = {b}
      BY <3>1, BufAssumption DEF Cached, Control, UniquePage
    <3>3. Cardinality({b}) = 1
      BY FS_Singleton
    <3> QED BY <3>2, <3>3
  <2> QED BY <2>1, <2>2
<1> QED BY <1>1, Invariant, PTL

\* hash_page_dirty is the number of dirty buffers, whoever writes them at once.
THEOREM DirtyCount == Spec => []DirtyExact
<1>1. Control => DirtyExact
  BY DEF Control
<1> QED BY <1>1, Invariant, PTL

\* No buffer that is or may be written is trash.
THEOREM WrittenIsPage == Spec => []NoTrashWritten
<1>1. Control => NoTrashWritten
  <2> SUFFICES ASSUME Control
               PROVE  NoTrashWritten
    OBVIOUS
  <2>1. \A t \in Threads : th[t].pc = "evict" => ~Has(th[t].b, "trash")
    BY ThreadAt DEF ThreadHas, CallOK, Has
  <2>2. \A s \in Syncers : sy[s].pc = "write" => ~Has(sy[s].b, "trash")
    BY SyncerAt DEF SyncerHas, SyncOK, SyncPinned, SyncLatched, Has
  <2> QED BY <2>1, <2>2 DEF NoTrashWritten
<1> QED BY <1>1, Invariant, PTL

\* What is in every buffer, and what was written to the file and to the disk.
THEOREM DataInvariant == Spec => []Values
<1>1. Control /\ Values /\ [Next]_vars => Values'
  BY ControlNext, ValuesNext
<1> QED BY <1>1, Invariant, ValuesInit, PTL DEF Spec

\* The variables have the values they are meant to have: no counter goes below
\* zero or beyond what there is to count.
THEOREM TypeCorrect == Spec => []TypeOK
<1>1. Control /\ Values => TypeOK
  <2> SUFFICES ASSUME Control, Values PROVE TypeOK
    OBVIOUS
  <2> DEFINE N == Cardinality(Threads \cup Syncers)
  <2>1. lsn \in Nat /\ lsn <= MaxLsn /\ lsn \in 0 .. MaxLsn /\ logged \in 0 .. lsn
    BY BufAssumption DEF Values
  <2>2. ASSUME NEW b \in Bufs
        PROVE  buf[b].val \in 0 .. MaxLsn /\ buf[b].ref \in 0 .. N
    <3>1. buf[b].val \in 0 .. MaxLsn
      BY <2>1, Numbers, BufAssumption DEF Control, Values, ValueOf
    <3>2. Pins(b) \subseteq Threads \cup Syncers
      BY DEF Pins
    <3>3. Cardinality(Pins(b)) <= N /\ Cardinality(Pins(b)) \in Nat /\ N \in Nat
      BY <3>2, BufAssumption, FS_Subset, FS_CardinalityType
    <3>4. buf[b].ref = Cardinality(Pins(b))
      BY DEF Control, Refs
    <3> QED BY <3>1, <3>3, <3>4
  <2> HIDE DEF N
  <2>3. buf \in [Bufs -> [page : Pages \cup {None}, val : 0 .. MaxLsn, ref : 0 .. N,
                          flags : SUBSET Flags, owner : Threads \cup {None},
                          sharers : SUBSET (Threads \cup Syncers)]]
    BY <2>2 DEF Control, Shape, Headers
  <2>4. hashDirty \in 0 .. Cardinality(Bufs)
    <3>1. Dirties \subseteq Bufs
      BY DEF Dirties
    <3>2. /\ Cardinality(Dirties) <= Cardinality(Bufs)
          /\ Cardinality(Dirties) \in Nat /\ Cardinality(Bufs) \in Nat
      BY <3>1, BufAssumption, FS_Subset, FS_CardinalityType
    <3> QED BY <3>2 DEF Control, DirtyExact
  <2>5. \A t \in Threads :
          /\ th[t].page \in Pages \cup {None} /\ th[t].mode \in {"none", "read", "write"}
          /\ {th[t].b, th[t].mine} \subseteq Bufs \cup {None}
    BY DEF Control, Shape, Calls, Modes
  <2>6. \A s \in Syncers : sy[s].todo \subseteq Pages
    BY DEF Control, Shape, Works
  <2>7. {os, stable} \subseteq [Pages -> 0 .. MaxLsn]
    <3>1. \A p \in Pages : os[p] \in 0 .. MaxLsn /\ stable[p] \in 0 .. MaxLsn
      <4> SUFFICES ASSUME NEW p \in Pages
                   PROVE  os[p] \in 0 .. MaxLsn /\ stable[p] \in 0 .. MaxLsn
        OBVIOUS
      <4>1. /\ os[p] \in Nat /\ stable[p] \in Nat /\ stable[p] <= os[p] /\ os[p] <= logged
            /\ logged \in Nat /\ logged <= lsn /\ MaxLsn \in Nat
        BY <2>1, Numbers, BufAssumption DEF Values, Control
      <4> QED BY <2>1, <4>1
    <3> QED BY <3>1 DEF Control, Shape, Outside
  <2>8. fileWritten \in BOOLEAN /\ open \in [Threads -> BOOLEAN]
    BY DEF Control, Shape, Outside
  <2> QED BY <2>1, <2>3, <2>4, <2>5, <2>6, <2>7, <2>8 DEF TypeOK, Flags, N
<1> QED BY <1>1, Invariant, DataInvariant, PTL

\* Write-ahead logging: no page is in the file before its log record is on the
\* disk, whoever writes it.
THEOREM LogFirst == Spec => []WriteAhead
<1>1. Values => WriteAhead
  BY DEF Values, WriteAhead
<1> QED BY <1>1, DataInvariant, PTL

\* The cache is a store in which every page has one content: a thread sees the
\* last change of its page, whatever was evicted and read again meanwhile.
THEOREM ImplementsStore == Spec => PageStoreSpec
<1>1. Init => Store!Init
  BY StoreInit
<1>2. Control /\ Control' /\ Values /\ [Next]_vars => [Store!Next]_(Store!vars)
  BY StoreNext
<1> QED BY <1>1, <1>2, Invariant, DataInvariant, PTL DEF Spec, PageStoreSpec, Store!Spec

\* When the sync of a checkpoint succeeds, what was in the cache when it began
\* is on the disk, whatever else fails and whoever closes the file, unless a
\* last handle went unflushed during a sync or a failed fsync was forgotten.
THEOREM CheckpointIsDurable == Spec => []CheckpointDurable
<1>1. Control /\ Control' /\ Values /\ Durable /\ [Next]_vars => Durable'
  BY DurableNext
<1>2. Control /\ Values /\ Durable => CheckpointDurable
  <2> SUFFICES ASSUME Control, Values, Durable, NEW s \in Syncers, sy[s].pc = "done", sy[s].ok,
                      ~slip, NEW p \in Pages
               PROVE  stable[p] >= sy[s].goal[p]
    BY DEF CheckpointDurable
  <2>1. stable[p] \in Nat /\ sy[s].goal[p] \in Nat
    BY Numbers DEF Control, Shape, Works
  <2>2. sy[s].goal[p] <= stable[p]
    BY DEF Durable, Reached
  <2> QED BY <2>1, <2>2
<1> QED BY <1>1, <1>2, DurableInit, Invariant, DataInvariant, PTL DEF Spec
=============================================================================
