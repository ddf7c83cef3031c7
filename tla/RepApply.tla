------------------------------ MODULE RepApply ------------------------------
(***************************************************************************)
(* How a replication client applies the master's log (__rep_apply,          *)
(* __rep_process_rec and what they call in src/rep/rep_record.c; the        *)
(* requests for missing records and the master's answers in rep_log.c).     *)
(*                                                                          *)
(* The master's log is a sequence of items: records, and the switches to a  *)
(* next log file, each at its LSN; positions in it stand for LSNs.  Every   *)
(* item is broadcast when it is written; a message may be lost, arrive      *)
(* twice, or arrive late.  Message threads of the client work on the log    *)
(* under mtx_clientdb, and drop it while a checkpoint record has the cache  *)
(* synced and while a log file is switched; records that come out of order  *)
(* wait in the temporary database __db.rep.db.                              *)
(***************************************************************************)
EXTENDS Integers, Sequences, FiniteSets, FiniteSetsExt

CONSTANTS
  Thread,      \* the message threads of the client
  NoThread,    \* no owner of mtx_clientdb
  Kind,        \* the master's log: "commit", "ckp", "other" or "newfile" items
  Throttled,   \* whether the master limits its answers (rep_set_limit)
  MaxRequests, \* bound: requests under way at a time
  MaxFaults,   \* bound: messages lost or duplicated
  MaxElections,\* bound: elections in which the client takes part
  MaxCrashes   \* bound: crashes of the client

Item == DOMAIN Kind

ASSUME ThreadAssumption == NoThread \notin Thread
ASSUME KindAssumption == Kind \in Seq({"commit", "ckp", "other", "newfile"})
ASSUME BoundAssumption ==
  Throttled \in BOOLEAN /\ {MaxRequests, MaxFaults, MaxElections, MaxCrashes} \subseteq Nat

VARIABLES
  written,   \* how much of its log the master has written
  net,       \* messages under way
  log,       \* the client's log: the items in the order they were put there
  flushed,   \* how much of it is on disk
  ready,     \* lp->ready_lsn: the item expected next
  waiting,   \* lp->waiting_lsn: the first item of the temporary database
  maxWait,   \* lp->max_wait_lsn: how far records have been requested
  maxPerm,   \* lp->max_perm_lsn
  temp,      \* the temporary database
  newfile,   \* REP_F_NEWFILE
  lockout,   \* REP_LOCKOUT_APPLY
  skipped,   \* REP_F_SKIPPED_APPLY
  clientdb,  \* the owner of mtx_clientdb
  pc, job,   \* where each thread is, and its local variables
  acked,     \* history: the last LSN returned with DB_REP_ISPERM
  faults, elections, crashes   \* so far

client == <<log, flushed, ready, waiting, maxWait, maxPerm, temp, newfile, acked>>
vars == <<written, net, client, lockout, skipped, clientdb, pc, job,
          faults, elections, crashes>>

ZeroLsn == 0

NoJob == [item |-> 0, msg |-> 0, more |-> FALSE, queued |-> FALSE, max |-> ZeroLsn]

LogMsg(i, more) == [type |-> "log", item |-> i, more |-> more]

(* A request for the items from "from" up to "upto"; for all there are when *)
(* upto is zero.                                                            *)
Req(from, upto) == [type |-> "req", from |-> from, upto |-> upto]

Perm(i) == Kind[i] \in {"commit", "ckp"}
LastPerm(k) == Max({i \in 1 .. k : Perm(i)} \cup {ZeroLsn})

Init ==
  /\ written = 0 /\ net = {}
  /\ log = <<>> /\ flushed = 0
  /\ ready = 1 /\ waiting = ZeroLsn /\ maxWait = ZeroLsn /\ maxPerm = ZeroLsn
  /\ temp = {} /\ newfile = FALSE /\ lockout = FALSE /\ skipped = FALSE
  /\ clientdb = NoThread
  /\ pc = [t \in Thread |-> "idle"] /\ job = [t \in Thread |-> NoJob]
  /\ acked = ZeroLsn
  /\ faults = 0 /\ elections = 0 /\ crashes = 0

----------------------------------------------------------------------------
(* The master and the network *)

Write ==
  /\ written < Len(Kind)
  /\ written' = written + 1
  /\ net' = net \cup {LogMsg(written', FALSE)}
  /\ UNCHANGED <<client, lockout, skipped, clientdb, pc, job, faults, elections, crashes>>

(* __rep_logreq and __rep_allreq.  A request for the first item of a file   *)
(* the master has not begun is ignored; one for all items that begins with  *)
(* a switch of files sends the record before it again (__rep_chk_newfile).  *)
Asked(m) ==
  LET last == IF m.upto = ZeroLsn THEN written ELSE Min({m.upto - 1, written})
      back == IF m.upto = ZeroLsn /\ Kind[m.from] = "newfile" THEN {m.from - 1} ELSE {}
  IN  {m.from} \cup (m.from .. last) \cup (back \cap Item)

(* A throttled answer ends with a record sent as REP_LOG_MORE: any but the  *)
(* first, which is sent before the limit is looked at, and never a switch.  *)
Cuts(m) ==
  IF Throttled
  THEN {i \in Asked(m) : Kind[i] # "newfile" /\ i > m.from /\ i < Max(Asked(m))}
  ELSE {}

Answer(m, end, more) ==
  {LogMsg(i, FALSE) : i \in {j \in Asked(m) : j < end}} \cup {LogMsg(end, more)}

Serve(m) ==
  /\ m \in net /\ m.type = "req"
  /\ IF m.from > written
     THEN net' = net \ {m}
     ELSE \/ net' = (net \ {m}) \cup Answer(m, Max(Asked(m)), FALSE)
          \/ \E cut \in Cuts(m) : net' = (net \ {m}) \cup Answer(m, cut, TRUE)
  /\ UNCHANGED <<written, client, lockout, skipped, clientdb, pc, job,
                 faults, elections, crashes>>

Lose(m) ==
  /\ m \in net /\ faults < MaxFaults
  /\ net' = net \ {m} /\ faults' = faults + 1
  /\ UNCHANGED <<written, client, lockout, skipped, clientdb, pc, job, elections, crashes>>

----------------------------------------------------------------------------
(* Requests of the client *)

(* A request is sent; above MaxRequests it is lost. *)
Send(rest, m) ==
  IF Cardinality({x \in rest : x.type = "req"}) < MaxRequests THEN rest \cup {m} ELSE rest

(* __rep_loggap_req decides between the whole gap and a single record: the  *)
(* gap when nothing has been asked for yet, or when what was asked for has  *)
(* come.  lsn is the record being handled; r, w and asked are ready,        *)
(* waiting and maxWait at that point.                                       *)
WholeGap(lsn, asked) == asked = ZeroLsn \/ lsn = asked

(* The request is made if it is time (__rep_check_doreq); rest is what else *)
(* the network holds.                                                       *)
MaybeRequest(rest, lsn, r, w, asked) ==
  \/ net' = rest /\ maxWait' = asked
  \/ IF WholeGap(lsn, asked)
     THEN net' = Send(rest, Req(r, w)) /\ maxWait' = w
     ELSE net' = Send(rest, Req(r, r + 1)) /\ maxWait' = r

----------------------------------------------------------------------------
(* __rep_apply: a message thread receives a log record *)

Goto(t, l) == pc' = [pc EXCEPT ![t] = l]

(* The end of __rep_apply: DB_REP_ISPERM with the largest permanent LSN     *)
(* this thread has dealt with, unless there is none.                        *)
ReturnPerm(max) ==
  IF max # ZeroLsn
  THEN maxPerm' = max /\ acked' = max
  ELSE UNCHANGED <<maxPerm, acked>>

(* __rep_log goes on to ask for more after a REP_LOG_MORE, unless the       *)
(* record was a duplicate.                                                  *)
Return(t, i, more) ==
  /\ Goto(t, IF more THEN "more" ELSE "idle")
  /\ job' = [job EXCEPT ![t] = [NoJob EXCEPT !.msg = IF more THEN i ELSE 0]]

(* A mutant of PastDup: the switch in progress is not looked at. *)
PastDupAfter(i) == i < ready

(* A record the client has, or the switch that another thread is making.    *)
PastDup(i) == i < ready \/ (newfile /\ i = ready)

(* The permanent LSN of a duplicate is the last one known. *)
ReceiveDup(t, m) ==
  /\ PastDup(m.item)
  /\ ReturnPerm(IF Perm(m.item) THEN maxPerm ELSE ZeroLsn)
  /\ UNCHANGED <<log, flushed, ready, waiting, maxWait, temp, newfile, clientdb, pc, job>>

(* The next record, during an election: this site's vote holds the end of   *)
(* its log, so the record is dropped.                                       *)
ReceiveLocked(t, m) ==
  /\ m.item = ready /\ ~PastDup(m.item) /\ lockout
  /\ Return(t, m.item, m.more)
  /\ UNCHANGED <<client, clientdb>>

(* The next record. *)
ReceiveNext(t, m) ==
  /\ m.item = ready /\ ~PastDup(m.item) /\ ~lockout
  /\ clientdb' = t
  /\ Goto(t, "process")
  /\ job' = [job EXCEPT ![t] =
               [NoJob EXCEPT !.item = m.item, !.msg = m.item, !.more = m.more]]
  /\ UNCHANGED client

(* A record that comes too early waits in the temporary database. *)
ReceiveEarly(t, m, rest) ==
  LET i == m.item
      w == IF waiting = ZeroLsn \/ i < waiting THEN i ELSE waiting
  IN  /\ i > ready
      /\ temp' = temp \cup {i}
      /\ waiting' = w
      /\ MaybeRequest(rest, i, ready, w, maxWait)
      /\ Return(t, i, m.more /\ i \notin temp)
      /\ UNCHANGED <<log, flushed, ready, maxPerm, newfile, acked, clientdb>>

(* The message is used up, or will arrive once more. *)
Receive(t, m) ==
  /\ m \in net /\ m.type = "log" /\ pc[t] = "idle" /\ clientdb = NoThread
  /\ skipped' = (skipped \/ (lockout /\ m.item >= ready))
  /\ \E again \in {0, 1} :
       LET rest == IF again = 1 THEN net ELSE net \ {m}
       IN  /\ faults' = faults + again /\ faults' <= MaxFaults
           /\ \/ ReceiveEarly(t, m, rest)
              \/ /\ ReceiveDup(t, m) \/ ReceiveLocked(t, m) \/ ReceiveNext(t, m)
                 /\ net' = rest
  /\ UNCHANGED <<written, lockout, elections, crashes>>

----------------------------------------------------------------------------
(* __rep_process_rec, with mtx_clientdb held *)

(* __log_rep_put *)
Put(i) == log' = Append(log, i) /\ ready' = i + 1

(* A commit is applied and the log flushed; any other record is only put in *)
(* the log.                                                                 *)
ProcessRecord(t) ==
  LET i == job[t].item
  IN  /\ pc[t] = "process" /\ Kind[i] \in {"commit", "other"}
      /\ Put(i)
      /\ flushed' = IF Kind[i] = "commit" THEN Len(log') ELSE flushed
      /\ job' = [job EXCEPT ![t].max = IF Kind[i] = "commit" THEN i ELSE @]
      /\ Goto(t, "next")
      /\ UNCHANGED <<net, waiting, maxWait, maxPerm, temp, newfile, acked, clientdb>>

(* __rep_newfile: the mutex is dropped while the file is created. *)
ProcessNewfile(t) ==
  /\ pc[t] = "process" /\ Kind[job[t].item] = "newfile"
  /\ newfile' = TRUE
  /\ clientdb' = NoThread
  /\ Goto(t, "switch")
  /\ UNCHANGED <<net, log, flushed, ready, waiting, maxWait, maxPerm, temp, acked, job>>

Switched(t) ==
  /\ pc[t] = "switch" /\ clientdb = NoThread
  /\ clientdb' = t
  /\ Put(job[t].item)
  /\ flushed' = Len(log')
  /\ newfile' = FALSE
  /\ Goto(t, "next")
  /\ UNCHANGED <<net, waiting, maxWait, maxPerm, temp, acked, job>>

(* A mutant of BeingSynced: the record is overwritten in the queue. *)
BeingSyncedNever(i) == i \notin Item

(* A checkpoint record is queued, and the mutex dropped while the cache is  *)
(* synced; when it is queued already, another thread is doing that.         *)
BeingSynced(i) == i \in temp

ProcessCkp(t) ==
  LET i == job[t].item
  IN  /\ pc[t] = "process" /\ Kind[i] = "ckp"
      /\ clientdb' = NoThread
      /\ IF BeingSynced(i)
         THEN Return(t, job[t].msg, job[t].more) /\ UNCHANGED temp
         ELSE temp' = temp \cup {i} /\ Goto(t, "sync") /\ UNCHANGED job
      /\ UNCHANGED <<net, log, flushed, ready, waiting, maxWait, maxPerm, newfile, acked>>

(* Then it goes to the log, its copy (__rep_remfirst: the first of the      *)
(* queue) is removed, and the log flushed.                                  *)
Synced(t) ==
  /\ pc[t] = "sync" /\ clientdb = NoThread
  /\ clientdb' = t
  /\ Put(job[t].item)
  /\ temp' = temp \ {Min(temp)}
  /\ flushed' = Len(log')
  /\ job' = [job EXCEPT ![t].max = job[t].item]
  /\ Goto(t, "next")
  /\ UNCHANGED <<net, waiting, maxWait, maxPerm, newfile, acked>>

(* The record expected next has come, so the next gap is a new one.  Then   *)
(* the loop of __rep_apply: a queued record has been removed, and           *)
(* __rep_getnext sets waiting to the first of those left.                   *)
RequestedTo(t) == IF job[t].queued THEN maxWait ELSE ZeroLsn

(* A mutant of Waiting: __rep_getnext is not called. *)
WaitingKept(t) == IF job[t].queued /\ temp = {} THEN ZeroLsn ELSE waiting

Waiting(t) ==
  IF job[t].queued THEN (IF temp = {} THEN ZeroLsn ELSE Min(temp)) ELSE waiting

(* While the first queued record is the one expected next, it is taken off  *)
(* the queue and processed.                                                 *)
TakeQueued(t) ==
  /\ pc[t] = "next" /\ Waiting(t) = ready
  /\ waiting' = Waiting(t) /\ maxWait' = RequestedTo(t)
  /\ temp' = temp \ {Min(temp)}
  /\ job' = [job EXCEPT ![t].item = Min(temp), ![t].queued = TRUE]
  /\ Goto(t, "process")
  /\ UNCHANGED <<net, log, flushed, ready, maxPerm, newfile, acked, clientdb>>

(* No such record: ask for what is missing, and return. *)
Finish(t) ==
  LET w == Waiting(t)
  IN  /\ pc[t] = "next" /\ w # ready
      /\ waiting' = w
      /\ IF w = ZeroLsn
         THEN net' = net /\ maxWait' = ZeroLsn
         ELSE MaybeRequest(net, job[t].item, ready, w, RequestedTo(t))
      /\ ReturnPerm(job[t].max)
      /\ clientdb' = NoThread
      /\ Return(t, job[t].msg, job[t].more)
      /\ UNCHANGED <<log, flushed, ready, temp, newfile>>

(* __rep_log after a REP_LOG_MORE: the answer goes on where it stopped, or  *)
(* where this log ends if that is later (REP_GAP_FORCE).                    *)
More(t) ==
  LET lsn == Max({ready, job[t].msg})
      end == IF waiting > lsn THEN waiting ELSE ZeroLsn
  IN  /\ pc[t] = "more" /\ clientdb = NoThread
      /\ net' = Send(net, Req(lsn, end)) /\ maxWait' = end
      /\ Return(t, 0, FALSE)
      /\ UNCHANGED <<log, flushed, ready, waiting, maxPerm, temp, newfile, acked, clientdb>>

----------------------------------------------------------------------------
(* Requests that do not wait for a record *)

(* A mutant of Missing: the record at the master's permanent LSN itself is  *)
(* taken to be there.                                                       *)
MissingBefore(perm) == waiting # ZeroLsn \/ ready < perm

(* __rep_check_missing on a heartbeat of the master, which holds its last   *)
(* permanent LSN: something is missing if records are queued or that one    *)
(* has not come.                                                            *)
Missing(perm) == waiting # ZeroLsn \/ ready <= perm

CheckMissing(t) ==
  /\ pc[t] = "idle" /\ clientdb = NoThread /\ Missing(LastPerm(written))
  /\ Goto(t, "missing")
  /\ UNCHANGED <<net, client, clientdb, job>>

(* __rep_resend_req, which takes the mutex again. *)
ResendReq ==
  /\ clientdb = NoThread
  /\ IF maxWait = ZeroLsn
     THEN net' = Send(net, Req(ready, waiting)) /\ maxWait' = waiting
     ELSE net' = Send(net, Req(ready, ready + 1)) /\ maxWait' = ready

Resend(t) ==
  /\ pc[t] = "missing" /\ ResendReq
  /\ Goto(t, "idle")
  /\ UNCHANGED <<log, flushed, ready, waiting, maxPerm, temp, newfile, acked, clientdb, job>>

Step(t) ==
  \/ ProcessRecord(t) \/ ProcessNewfile(t) \/ Switched(t)
  \/ ProcessCkp(t) \/ Synced(t)
  \/ TakeQueued(t) \/ Finish(t) \/ More(t) \/ CheckMissing(t) \/ Resend(t)

(* The client takes part in an election: from its vote on it applies        *)
(* nothing, and when the election fails it asks for what it has skipped.    *)
Vote ==
  /\ ~lockout /\ elections < MaxElections
  /\ lockout' = TRUE /\ elections' = elections + 1
  /\ UNCHANGED <<net, client, skipped, clientdb, pc, job>>

ElectionFails ==
  /\ lockout
  /\ lockout' = FALSE /\ skipped' = FALSE
  /\ IF skipped THEN ResendReq ELSE UNCHANGED <<net, maxWait>>
  /\ UNCHANGED <<log, flushed, ready, waiting, maxPerm, temp, newfile, acked,
                 clientdb, pc, job, elections>>

----------------------------------------------------------------------------
(* The client crashes, and some of what was not flushed is lost; it finds   *)
(* its last permanent record in the master's log, cuts its own log off      *)
(* behind it and asks for the rest (__rep_verify_match).                    *)
Crash ==
  /\ crashes < MaxCrashes
  /\ \E n \in flushed .. Len(log) :
       LET match == LastPerm(n)
       IN  /\ match # ZeroLsn
           /\ log' = SubSeq(log, 1, match) /\ flushed' = match
           /\ ready' = match + 1 /\ maxPerm' = match
           /\ net' = Send(net, Req(match, ZeroLsn))
  /\ waiting' = ZeroLsn /\ maxWait' = ZeroLsn
  /\ temp' = {} /\ newfile' = FALSE /\ lockout' = FALSE /\ skipped' = FALSE
  /\ clientdb' = NoThread
  /\ pc' = [t \in Thread |-> "idle"] /\ job' = [t \in Thread |-> NoJob]
  /\ crashes' = crashes + 1
  /\ UNCHANGED <<written, acked, faults, elections>>

Next ==
  \/ Write \/ Crash
  \/ \E m \in net : Serve(m) \/ Lose(m) \/ \E t \in Thread : Receive(t, m)
  \/ /\ \E t \in Thread : Step(t)
     /\ UNCHANGED <<written, lockout, skipped, faults, elections, crashes>>
  \/ /\ Vote \/ ElectionFails
     /\ UNCHANGED <<written, faults, crashes>>

(* Every thread that has begun goes on, the mutex being handed around; the  *)
(* heartbeats go on, and a record or request that is sent again and again   *)
(* is at last received; elections end.                                      *)
Working(t) ==
  /\ Step(t) /\ ~CheckMissing(t)
  /\ UNCHANGED <<written, lockout, skipped, faults, elections, crashes>>

Heartbeat ==
  /\ \E t \in Thread : CheckMissing(t)
  /\ UNCHANGED <<written, lockout, skipped, faults, elections, crashes>>

ReceiveReady ==
  \E t \in Thread, m \in net : m.type = "log" /\ m.item = ready /\ Receive(t, m)

Fairness ==
  /\ \A t \in Thread : SF_vars(Working(t))
  /\ SF_vars(Heartbeat)
  /\ SF_vars(ReceiveReady)
  /\ WF_vars(\E m \in net : Serve(m))
  /\ SF_vars(ElectionFails /\ UNCHANGED <<written, faults, crashes>>)

Spec == Init /\ [][Next]_vars

FairSpec == Spec /\ Fairness

----------------------------------------------------------------------------
(* Properties *)

(* The client's log grows by the master's next item and nothing else, keeps *)
(* what has been returned as permanent over a crash, and what is returned   *)
(* as permanent is on disk and never steps back (the assertion at the end   *)
(* of __rep_apply).                                                         *)
Log == INSTANCE RepLog WITH copied <- log, stable <- flushed
LogSpec == Log!Spec

(* waiting_lsn is the first record of the temporary database, or zero when  *)
(* that is empty, whenever no thread is at work with the mutex dropped: a   *)
(* wrong one hides a gap, or takes the wrong record off the queue.          *)
WaitingExact ==
  clientdb = NoThread /\ (\A t \in Thread : pc[t] \notin {"sync", "switch"}) =>
    waiting = IF temp = {} THEN ZeroLsn ELSE Min(temp)

(* A checkpoint is synced by one thread, and its copy is the first record   *)
(* of the queue then, so that it is what __rep_remfirst removes afterwards, *)
(* whatever other threads have queued while the mutex was dropped.          *)
SyncFirst ==
  \A t \in Thread : pc[t] = "sync" =>
    /\ temp # {} /\ Min(temp) = job[t].item
    /\ \A u \in Thread \ {t} : pc[u] # "sync"

(* The client gets everything up to the master's last permanent record,     *)
(* whatever messages are lost, late or repeated on the way.                 *)
CaughtUp == <>[](ready > LastPerm(written))
=============================================================================
