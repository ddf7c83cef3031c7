---------------------------- MODULE LockDetect ----------------------------
(***************************************************************************)
(* The deadlock detector of lock/lock_deadlock.c beside the transactions   *)
(* it watches: the walk over the objects with waiters that builds the      *)
(* waits-for matrix while other threads lock and unlock, the search for    *)
(* cycles, the choice of a victim for each, the abort of the victims, and  *)
(* need_dd, which says whether the next call of the detector does anything.*)
(*                                                                         *)
(* Lockers are numbered by the row of the matrix they get (dd_id).  Each   *)
(* runs one transaction: it locks, may sleep, and releases all its locks   *)
(* when it commits or after it was chosen as a victim.  LockMgr has the    *)
(* lock table in full; here it is what the detector reads of it.  There    *)
(* are no dirty reads, so that no locker has DB_LOCKER_INABORT set, no     *)
(* families and no timeouts.                                               *)
(***************************************************************************)
EXTENDS Sequences, ShQueue

CONSTANTS
    N,          \* lockers, and rows of the matrix
    Objs,       \* lockable objects
    NoObj,      \* the end of dd_objs
    Settings    \* what the transactions lock, and how victims are chosen

Lockers == 0 .. N - 1

ASSUME RowAssumption == N \in Nat \ {0} /\ IsFiniteSet(Objs) /\ NoObj \notin Objs

\* accesses[l]: the <<object, mode>> that l locks, in order, none of them twice
\* (which would only be counted).  kind: "default" (and random), or "merit" for
\* the other policies; merit[l]: the standing of l under OLDEST, MINWRITE and so
\* on; priority[l]: the lowest goes first.
ASSUME SettingAssumption ==
    \A s \in Settings :
        /\ s.accesses \in [Lockers -> Seq(Objs \X {"R", "W"})]
        /\ \A l \in Lockers : \A i, j \in DOMAIN s.accesses[l] :
             s.accesses[l][i] = s.accesses[l][j] => i = j
        /\ s.kind \in {"default", "merit"}
        /\ s.merit \in [Lockers -> Int]
        /\ s.priority \in [Lockers -> Nat]

VARIABLES
    setting,    \* the one of Settings at hand, fixed
    todo,       \* todo[l]: the locks l still asks for
    held,       \* held[o][l]: the mode l holds o in, "N" for none
    holders,    \* holders[o]: the lockers of the holders list, by their first lock
    queue,      \* queue[o]: the waiters list
    want,       \* want[l]: the mode l waits for, "N" if it does not
    last,       \* last[l]: the object of the newest lock on l's list
    st,         \* what the thread of l is doing
    ddObjs,     \* dd_objs
    needDD,     \* need_dd
    pc,         \* the detector: "idle", "build" or "kill"
    at,         \* the object of dd_objs it has come to
    stale,      \* that object's generation changed since
    matrix,     \* matrix[l]: the row of l
    selfWait,   \* self_wait
    victims     \* those it still has to abort, one for each deadlock

lockVars == <<held, holders, queue, want, last, st, ddObjs, todo>>
ddVars   == <<pc, at, matrix, selfWait, victims>>
vars     == <<setting, lockVars, needDD, stale, ddVars>>

\* "granted": let in, not running yet; "aborted": a victim that has yet to
\* release its locks; "ending": at commit, releasing them.
States == {"run", "wait", "granted", "aborted", "ending", "done"}

NoRow == [l \in Lockers |-> {}]

Init ==
    /\ setting \in Settings
    /\ todo = [l \in Lockers |-> setting.accesses[l]]
    /\ held = [o \in Objs |-> [l \in Lockers |-> "N"]]
    /\ holders = [o \in Objs |-> EmptyList]
    /\ queue = [o \in Objs |-> EmptyList]
    /\ want = [l \in Lockers |-> "N"]
    /\ last = [l \in Lockers |-> NoObj]
    /\ st = [l \in Lockers |-> "run"]
    /\ ddObjs = EmptyList
    /\ needDD = FALSE
    /\ pc = "idle"
    /\ at = NoObj
    /\ stale = FALSE
    /\ matrix = NoRow
    /\ selfWait = [l \in Lockers |-> FALSE]
    /\ victims = {}

-----------------------------------------------------------------------------
(* The lock table.                                                         *)

ModesConflict(a, b) == "N" \notin {a, b} /\ "W" \in {a, b}

\* Is l kept out in mode m by the locks hs of the other lockers?
KeptOut(hs, l, m) == \E h \in Lockers \ {l} : ModesConflict(hs[h], m)

\* What a locker that held a has when it gets b as well.
And(a, b) == IF "W" \in {a, b} THEN "W" ELSE b

\* The locks on an object after the waiters S were let in.
LetIn(hs, S) == [l \in Lockers |-> IF l \in S THEN And(hs[l], want[l]) ELSE hs[l]]

AheadOf(q, l) == {j \in Members(q) : q[j] < q[l]}

\* The waiters that __lock_promote lets in: each up to the first that is kept
\* out by the locks there are with those of the waiters ahead of it.
Promotable(hs, q) ==
    {l \in Members(q) : \A j \in AheadOf(q, l) \cup {l} :
        ~KeptOut(LetIn(hs, AheadOf(q, j)), j, want[j])}

\* Promotion on object o with locks hs of the holders hl and queue q, threads
\* in states s that want w.  A locker that held a lock before goes on holding
\* it, and so counts as running; the others are PENDING until they wake up.
Promote(o, hs, hl, q, s, w) ==
    LET P == Promotable(hs, q)
    IN /\ held' = [held EXCEPT ![o] = LetIn(hs, P)]
       /\ holders' = [holders EXCEPT ![o] = AppendAll(hl, q, {l \in P : hs[l] = "N"})]
       /\ queue' = [queue EXCEPT ![o] = RemoveAll(q, P)]
       /\ want' = [l \in Lockers |-> IF l \in P THEN "N" ELSE w[l]]
       /\ st' = [l \in Lockers |->
                   IF l \notin P THEN s[l]
                   ELSE IF hs[l] = "N" THEN "granted" ELSE "run"]
       /\ ddObjs' = IF P = Members(q) THEN RemoveAll(ddObjs, {o}) ELSE ddObjs

\* Mutant: an object that leaves dd_objs keeps its generation.
RegeneratedNever(o) == stale' = stale

\* An object that leaves dd_objs gets a new generation.
Regenerated(o) == stale' = (stale \/ (at = o /\ o \notin Members(ddObjs')))

Holds(l, o) == held[o][l] # "N"

\* Did the scan of the holders, which ends at the first one in conflict with
\* mode m, come to a lock of l?
IHold(l, o, m) ==
    /\ Holds(l, o)
    /\ \A h \in Lockers \ {l} :
         ModesConflict(held[o][h], m) => holders[o][l] < holders[o][h]

WaiterConflict(l, o, m) ==
    \E j \in Members(queue[o]) : ModesConflict(want[j], m)

Granted(l, o, m) ==
    /\ ~KeptOut(held[o], l, m)
    /\ IHold(l, o, m) \/ ~WaiterConflict(l, o, m)

Requests(l, o, m) ==
    /\ st[l] = "run"
    /\ todo[l] # <<>>
    /\ Head(todo[l]) = <<o, m>>

Get(l, o, m) ==
    /\ Requests(l, o, m)
    /\ Granted(l, o, m)
    /\ held' = [held EXCEPT ![o][l] = And(@, m)]
    /\ holders' = IF Holds(l, o) THEN holders
                  ELSE [holders EXCEPT ![o] = InsertTail(@, l)]
    /\ last' = [last EXCEPT ![l] = o]
    /\ todo' = [todo EXCEPT ![l] = Tail(@)]
    /\ UNCHANGED <<setting, queue, want, st, ddObjs, needDD, stale, ddVars>>

\* Mutant: going to sleep does not ask for the detector.
SleepQuietly(l, o, m) ==
    /\ Requests(l, o, m)
    /\ ~Granted(l, o, m)
    /\ queue' = [queue EXCEPT ![o] =
                   IF IHold(l, o, m) THEN InsertHead(@, l) ELSE InsertTail(@, l)]
    /\ want' = [want EXCEPT ![l] = m]
    /\ ddObjs' = IF Members(queue[o]) = {} THEN InsertHead(ddObjs, o) ELSE ddObjs
    /\ last' = [last EXCEPT ![l] = o]
    /\ st' = [st EXCEPT ![l] = "wait"]
    /\ todo' = [todo EXCEPT ![l] = Tail(@)]
    /\ needDD' = (needDD \/ pc = "idle")
    /\ UNCHANGED <<setting, held, holders, stale, ddVars>>

\* Who has a lock on the object, and was seen to, waits at the head of its
\* queue.  With its first waiter an object goes to the head of dd_objs, which
\* a walk has behind it.
Sleep(l, o, m) ==
    /\ Requests(l, o, m)
    /\ ~Granted(l, o, m)
    /\ queue' = [queue EXCEPT ![o] =
                   IF IHold(l, o, m) THEN InsertHead(@, l) ELSE InsertTail(@, l)]
    /\ want' = [want EXCEPT ![l] = m]
    /\ ddObjs' = IF Members(queue[o]) = {} THEN InsertHead(ddObjs, o) ELSE ddObjs
    /\ last' = [last EXCEPT ![l] = o]
    /\ st' = [st EXCEPT ![l] = "wait"]
    /\ todo' = [todo EXCEPT ![l] = Tail(@)]
    /\ needDD' = TRUE
    /\ UNCHANGED <<setting, held, holders, stale, ddVars>>

Wake(l) ==
    /\ st[l] = "granted"
    /\ st' = [st EXCEPT ![l] = "run"]
    /\ UNCHANGED <<setting, todo, held, holders, queue, want, last, ddObjs, needDD,
                   stale, ddVars>>

Commit(l) ==
    /\ st[l] = "run"
    /\ st' = [st EXCEPT ![l] = "ending"]
    /\ todo' = [todo EXCEPT ![l] = <<>>]
    /\ UNCHANGED <<setting, held, holders, queue, want, last, ddObjs, needDD, stale,
                   ddVars>>

\* One lock of DB_LOCK_PUT_ALL.  If somebody waits and nobody is let in, the
\* detector has to look again.
Release(l, o) ==
    /\ st[l] \in {"ending", "aborted"}
    /\ Holds(l, o)
    /\ Promote(o, [held[o] EXCEPT ![l] = "N"], RemoveAll(holders[o], {l}), queue[o],
               st, want)
    /\ needDD' = (needDD \/ (Members(queue[o]) # {} /\ queue'[o] = queue[o]))
    /\ Regenerated(o)
    /\ UNCHANGED <<setting, todo, last, ddVars>>

End(l) ==
    /\ st[l] \in {"ending", "aborted"}
    /\ \A o \in Objs : ~Holds(l, o)
    /\ st' = [st EXCEPT ![l] = "done"]
    /\ last' = [last EXCEPT ![l] = NoObj]
    /\ UNCHANGED <<setting, todo, held, holders, queue, want, ddObjs, needDD, stale,
                   ddVars>>

-----------------------------------------------------------------------------
(* __dd_build.                                                             *)

NextOf(o) ==
    LET later == {p \in Members(ddObjs) : ddObjs[p] > ddObjs[o]} IN
    IF later = {} THEN NoObj ELSE FirstIn(ddObjs, later)

FirstObj ==
    IF Members(ddObjs) = {} THEN NoObj ELSE FirstIn(ddObjs, Members(ddObjs))

\* __lock_detect starts if need_dd is set, and clears it first.
Start ==
    /\ pc = "idle"
    /\ needDD
    /\ needDD' = FALSE
    /\ pc' = "build"
    /\ at' = FirstObj
    /\ stale' = FALSE
    /\ UNCHANGED <<setting, lockVars, matrix, selfWait, victims>>

\* The holders of o, without those that have not woken up yet.
Holders(o) ==
    {l \in Lockers : Holds(l, o) /\ ~(st[l] = "granted" /\ last[l] = o)}

IsFirst(l, o) ==
    l \in Members(queue[o]) /\ \A j \in Members(queue[o]) : queue[o][l] <= queue[o][j]

\* Mutant: the first waiter, too, waits for itself.
RowWithSelf(o, l) ==
    IF l \in Members(queue[o]) THEN matrix[l] \cup Holders(o) ELSE matrix[l]

\* The row of l after object o: a locker first on the queue does not wait
\* for itself, one further down that also holds the object does.
RowAfter(o, l) ==
    IF l \notin Members(queue[o]) THEN matrix[l]
    ELSE (matrix[l] \cup Holders(o)) \ {j \in {l} : IsFirst(j, o)}

SelfWaitAfter(o, l) ==
    selfWait[l] \/ (IsFirst(l, o) /\ l \in matrix[l] \cup Holders(o))

\* Mutant: the object is not looked at again after its generation changed.
ScanStale ==
    /\ pc = "build"
    /\ at # NoObj
    /\ matrix' = [l \in Lockers |-> RowAfter(at, l)]
    /\ selfWait' = [l \in Lockers |-> SelfWaitAfter(at, l)]
    /\ at' = IF at \in Members(ddObjs) THEN NextOf(at) ELSE NoObj
    /\ stale' = FALSE
    /\ UNCHANGED <<setting, lockVars, needDD, pc, victims>>

\* The next object, locked; if it left dd_objs meanwhile, all over again.
Scan ==
    /\ pc = "build"
    /\ at # NoObj
    /\ IF stale
       THEN /\ matrix' = NoRow
            /\ at' = FirstObj
            /\ UNCHANGED selfWait
       ELSE /\ matrix' = [l \in Lockers |-> RowAfter(at, l)]
            /\ selfWait' = [l \in Lockers |-> SelfWaitAfter(at, l)]
            /\ at' = NextOf(at)
    /\ stale' = FALSE
    /\ UNCHANGED <<setting, lockVars, needDD, pc, victims>>

-----------------------------------------------------------------------------
(* __dd_find, __dd_verify and the choice in __lock_detect.                 *)

\* Row j ORed into the row of i, if the row has that bit; that is a deadlock
\* if it then has the bit of i.
OrRow(rows, i, r, j) ==
    IF r.dead \/ j \notin r.row THEN r
    ELSE [row |-> r.row \cup rows[j], dead |-> i \in r.row \cup rows[j]]

\* All the others in turn, until there is a deadlock.
Closure(rows, i) ==
    LET c[n \in 0 .. N] ==
          IF n = 0 THEN [row |-> rows[i], dead |-> FALSE]
          ELSE OrRow(rows, i, c[n - 1], n - 1)
    IN c[N]

\* Row i: all that a deadlock has the bits of are not looked at any more.
FindRow(f, i) ==
    IF i \in f.invalid THEN f
    ELSE LET c == Closure(f.rows, i) IN
         [rows |-> [f.rows EXCEPT ![i] = c.row],
          invalid |-> IF c.dead THEN f.invalid \cup c.row ELSE f.invalid,
          found |-> IF c.dead THEN f.found \cup {i} ELSE f.found]

\* The owners of the rows with a deadlock, and the rows.
Find ==
    LET f[n \in 0 .. N] ==
          IF n = 0 THEN [rows |-> matrix, invalid |-> {}, found |-> {}]
          ELSE FindRow(f[n - 1], n - 1)
    IN f[N]

\* Would the deadlock be broken by aborting w?
Verify(dead, w) ==
    LET others == dead \ {w}
        waitedFor == UNION {matrix[j] : j \in others}
                     \cup {j \in others : selfWait[j]}
    IN Cardinality(others) = 1 \/ ~(others \subseteq waitedFor)

PrioritySet ==
    \E i \in Lockers \ {0} : setting.priority[i - 1] # setting.priority[i]

\* Is i to be preferred to the candidate c?
Preferred(i, c) ==
    \/ setting.priority[i] < setting.priority[c]
    \/ /\ setting.priority[i] = setting.priority[c]
       /\ setting.kind = "merit"
       /\ setting.merit[i] >= setting.merit[c]

NoLocker == -1

\* Locker i against the best so far: kill is the best that passed Verify, keep
\* the last one that was preferred.
Better(dead, b, i) ==
    IF i \notin dead \/ ~Preferred(i, IF b.kill # NoLocker THEN b.kill ELSE b.keep)
    THEN b
    ELSE [keep |-> i, kill |-> IF Verify(dead, i) THEN i ELSE b.kill]

\* The others of a deadlock are tried in turn from its owner on.
Best(owner, dead) ==
    LET b[n \in 0 .. N - 1] ==
          IF n = 0
          THEN [keep |-> owner, kill |-> IF Verify(dead, owner) THEN owner ELSE NoLocker]
          ELSE Better(dead, b[n - 1], (owner + n) % N)
    IN b[N - 1]

VictimOf(owner, who, sure) ==
    [owner |-> owner, who |-> who, last |-> last[who], sure |-> sure]

Victim(owner, dead) ==
    LET b == Best(owner, dead)
    IN IF setting.kind = "default" /\ ~PrioritySet /\ Verify(dead, owner)
       THEN VictimOf(owner, owner, TRUE)
       ELSE VictimOf(owner, IF b.kill # NoLocker THEN b.kill ELSE b.keep,
                     b.kill # NoLocker)

\* The end of the walk, with the lockers' last locks read and the choice made.
Choose ==
    /\ pc = "build"
    /\ at = NoObj
    /\ LET f == Find IN victims' = {Victim(i, f.rows[i]) : i \in f.found}
    /\ pc' = "kill"
    /\ UNCHANGED <<setting, lockVars, needDD, stale, at, matrix, selfWait>>

\* __dd_abort: the victim may have been granted its lock, or be gone.
Abortable(v) == st[v.who] = "wait" /\ last[v.who] = v.last

\* The deadlocks in the order of their owners.
Kill ==
    /\ pc = "kill"
    /\ \E v \in victims :
         /\ \A w \in victims : v.owner <= w.owner
         /\ victims' = victims \ {v}
         /\ LET o == last[v.who]
            IN IF Abortable(v)
               THEN /\ Promote(o, held[o], holders[o], RemoveAll(queue[o], {v.who}),
                               [st EXCEPT ![v.who] = "aborted"],
                               [want EXCEPT ![v.who] = "N"])
                    /\ todo' = [todo EXCEPT ![v.who] = <<>>]
                    /\ needDD' = (needDD \/ ~v.sure)
               ELSE /\ needDD' = TRUE
                    /\ UNCHANGED <<held, holders, queue, want, st, ddObjs, todo>>
    /\ UNCHANGED <<setting, last, stale, pc, at, matrix, selfWait>>

\* The matrix is freed.
Finish ==
    /\ pc = "kill"
    /\ victims = {}
    /\ pc' = "idle"
    /\ matrix' = NoRow
    /\ selfWait' = [l \in Lockers |-> FALSE]
    /\ UNCHANGED <<setting, lockVars, needDD, stale, at, victims>>

Next ==
    \/ \E l \in Lockers :
         \/ \E o \in Objs, m \in {"R", "W"} : Get(l, o, m) \/ Sleep(l, o, m)
         \/ \E o \in Objs : Release(l, o)
         \/ Wake(l) \/ Commit(l) \/ End(l)
    \/ Start \/ Scan \/ Choose \/ Kill \/ Finish

Spec == Init /\ [][Next]_vars

-----------------------------------------------------------------------------
(* Properties.                                                             *)

\* Every variable has its type, and a locker waits, for some lock, if and only
\* if it is queued, for the object it asked for last and for no other.
TypeOK ==
    /\ setting \in Settings
    /\ todo \in [Lockers -> Seq(Objs \X {"R", "W"})]
    /\ held \in [Objs -> [Lockers -> {"N", "R", "W"}]]
    /\ IsListArray(holders, Objs, Lockers)
    /\ \A o \in Objs : Members(holders[o]) = {l \in Lockers : Holds(l, o)}
    /\ IsListArray(queue, Objs, Lockers)
    /\ want \in [Lockers -> {"N", "R", "W"}]
    /\ last \in [Lockers -> Objs \cup {NoObj}]
    /\ st \in [Lockers -> States]
    /\ \A l \in Lockers, o \in Objs :
         l \in Members(queue[o]) <=> st[l] = "wait" /\ last[l] = o
    /\ \A l \in Lockers : st[l] = "wait" <=> want[l] # "N"
    /\ IsList(ddObjs, Objs)
    /\ needDD \in BOOLEAN /\ stale \in BOOLEAN
    /\ pc \in {"idle", "build", "kill"}
    /\ at \in Objs \cup {NoObj}
    /\ matrix \in [Lockers -> SUBSET Lockers]
    /\ selfWait \in [Lockers -> BOOLEAN]
    /\ victims \subseteq [owner : Lockers, who : Lockers,
                         last : Objs \cup {NoObj}, sure : BOOLEAN]

\* What a deadlock is, whatever the detector does: a set of waiters of whom
\* each is kept out by a lock of another of them, or queued behind one.
Stuck(D) ==
    \A l \in D :
        LET o == last[l] IN
        \/ \E h \in D \ {l} : ModesConflict(held[o][h], want[l])
        \/ AheadOf(queue[o], l) \cap D # {}

Deadlocked ==
    UNION {D \in SUBSET {l \in Lockers : st[l] = "wait"} : Stuck(D)}

\* The objects the detector visits are those with waiters, each in a place of
\* its own, and the one it has come to is still there unless it knows better.
DdObjsExact ==
    /\ Members(ddObjs) = {o \in Objs : Members(queue[o]) # {}}
    /\ \A o, p \in Members(ddObjs) : ddObjs[o] = ddObjs[p] => o = p
    /\ (pc = "build" /\ at # NoObj /\ ~stale) => at \in Members(ddObjs)

Chosen == pc = "build" /\ pc' = "kill"

\* Although the matrix is put together object by object while others lock and
\* unlock, nobody is chosen who is not deadlocked (under the default policy,
\* with equal priorities).
VictimsDeadlocked ==
    [][Chosen /\ setting.kind = "default" /\ ~PrioritySet => \A v \in victims' : v.who \in Deadlocked]_vars

\* A deadlock is either found or there is reason to run again.
DeadlockFound ==
    [][Chosen /\ Deadlocked # {} => victims' # {} \/ needDD]_vars

AllExclusive ==
    \A l \in Lockers : \A i \in DOMAIN setting.accesses[l] :
        setting.accesses[l][i][2] = "W"

\* With exclusive locks only, one pass breaks every deadlock: when the detector
\* has nothing more to do nobody is deadlocked.
ExclusiveBroken ==
    AllExclusive /\ pc = "idle" /\ ~needDD => Deadlocked = {}

=============================================================================
