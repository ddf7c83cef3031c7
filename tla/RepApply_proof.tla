--------------------------- MODULE RepApply_proof ---------------------------
(***************************************************************************)
(* Proofs about RepApply, for every number of threads, every log of the    *)
(* master and every bound: the queue of early records and waiting_lsn, the *)
(* thread that syncs a checkpoint, and that the client implements RepLog.  *)
(*                                                                         *)
(* The threads' mutual exclusion carries the rest.  mtx_clientdb alone is  *)
(* not enough, since it is dropped for a checkpoint and for a switch of    *)
(* files: then the copy of the checkpoint in the queue and REP_F_NEWFILE   *)
(* keep other threads from the record expected next (Alone).               *)
(***************************************************************************)
EXTENDS RepApply, OrderFacts

\* The threads that are in __rep_process_rec or in the loop around it.
WorkStates == {"process", "switch", "sync", "next"}
States == WorkStates \cup {"idle", "more", "missing"}

Messages ==
    [type : {"log"}, item : 1 .. written, more : BOOLEAN]
        \cup [type : {"req"}, from : Nat \ {0}, upto : Nat]

Jobs == [item : Nat, msg : Nat, more : BOOLEAN, queued : BOOLEAN, max : Nat]

\* What the variables hold, and how far each part of the log is ahead of the next.
Shape ==
    /\ written \in 0 .. Len(Kind)
    /\ net \subseteq Messages
    /\ ready \in Nat \ {0} /\ ready - 1 <= written
    /\ log \in Seq(Nat) /\ Len(log) = ready - 1
    /\ flushed \in 0 .. Len(log)
    /\ maxPerm \in 0 .. flushed
    /\ acked \in 0 .. maxPerm
    /\ maxPerm # ZeroLsn => Perm(maxPerm)
    /\ acked # ZeroLsn => Perm(acked)
    /\ waiting \in Nat /\ maxWait \in Nat
    /\ temp \subseteq 1 .. written
    /\ newfile \in BOOLEAN
    /\ clientdb \in Thread \cup {NoThread}
    /\ pc \in [Thread -> States]
    /\ job \in [Thread -> Jobs]

\* What a thread works on is the record expected next, and the permanent LSN
\* it will return is on disk, and not behind the last one.
WorkOf(t) ==
    /\ clientdb = t <=> pc[t] \in {"process", "next"}
    /\ pc[t] \in {"process", "sync", "switch"} =>
         job[t].item = ready /\ ready <= written
    /\ pc[t] = "sync" => Kind[ready] = "ckp" /\ ready \in temp
    /\ pc[t] = "switch" => Kind[ready] = "newfile" /\ newfile
    /\ job[t].max # ZeroLsn => job[t].max \in maxPerm .. flushed /\ Perm(job[t].max)
    /\ job[t].queued \/ job[t].max # ZeroLsn => pc[t] \in WorkStates
    /\ pc[t] = "process" /\ job[t].queued => ready \notin temp

\* Nobody goes on with the log while another syncs a checkpoint or switches
\* files with the mutex dropped.
Alone ==
    \A t, u \in Thread : t # u =>
        /\ pc[t] \in {"sync", "switch"} => pc[u] \notin {"sync", "switch", "next"}
        /\ pc[t] = "switch" => pc[u] # "process"

\* A switch in progress has a thread that makes it.
SwitchOwned == newfile => \E t \in Thread : pc[t] = "switch"

\* The record expected next is in the queue only while it is being synced, or
\* about to be taken off.
QueueBeyond ==
    \A i \in temp :
        /\ i >= ready
        /\ i = ready => \E t \in Thread : pc[t] \in {"sync", "next"}

\* waiting_lsn, but for a thread that has taken a record off the queue and has
\* not come to look at the next one.
First(S) == IF S = {} THEN ZeroLsn ELSE Min(S)
Syncing == {i \in {ready} : \E t \in Thread : pc[t] = "sync"}
WaitingFirst == (\A t \in Thread : ~job[t].queued) => waiting = First(temp \ Syncing)

IInv ==
    /\ Shape
    /\ \A t \in Thread : WorkOf(t)
    /\ Alone
    /\ SwitchOwned
    /\ QueueBeyond
    /\ WaitingFirst

-----------------------------------------------------------------------------
(* The operators of the model.                                             *)

LEMMA KindType == Len(Kind) \in Nat /\ Item = 1 .. Len(Kind)
BY KindAssumption DEF Item

\* The last permanent record up to a position is one, or there is none.
LEMMA LastPermExact ==
    ASSUME NEW k \in Nat
    PROVE  /\ LastPerm(k) \in 0 .. k
           /\ LastPerm(k) # ZeroLsn => Perm(LastPerm(k))
           /\ \A i \in 1 .. k : Perm(i) => i <= LastPerm(k)
<1> DEFINE T == {i \in 1 .. k : Perm(i)} \cup {ZeroLsn}
<1>1. T \subseteq Nat /\ T # {} /\ \A y \in T : y <= k
  BY DEF ZeroLsn
<1>2. Max(T) \in T /\ \A y \in T : y <= Max(T)
  <2> HIDE DEF T
  <2> QED BY <1>1, MaxNat
<1> QED BY <1>2 DEF LastPerm, ZeroLsn

\* The first of a set of positions.
LEMMA FirstExact ==
    ASSUME NEW S, S \subseteq Nat \ {0}
    PROVE  /\ First(S) \in Nat
           /\ First(S) = ZeroLsn <=> S = {}
           /\ S # {} => First(S) \in S /\ \A y \in S : First(S) <= y
           /\ \A x \in S : (\A y \in S : x <= y) => First(S) = x
<1>1. S # {} => Min(S) \in S /\ \A y \in S : Min(S) <= y
  BY MinNat
<1>2. CASE S = {}
  BY <1>2 DEF First, ZeroLsn
<1>3. CASE S # {}
  <2>1. First(S) = Min(S) /\ First(S) \in S /\ \A y \in S : First(S) <= y
    BY <1>1, <1>3 DEF First
  <2>2. First(S) \in Nat /\ First(S) # ZeroLsn
    BY <2>1 DEF ZeroLsn
  <2>3. \A x \in S : (\A y \in S : x <= y) => First(S) = x
    BY <2>1, <2>2
  <2> QED BY <1>3, <2>1, <2>2, <2>3
<1> QED BY <1>2, <1>3

\* An answer holds items that the master has written.
LEMMA AskedWithin ==
    ASSUME written \in 0 .. Len(Kind), NEW m \in Messages,
           m.type = "req", ~ m.from > written
    PROVE  /\ Asked(m) \subseteq 1 .. written
           /\ Max(Asked(m)) \in Asked(m)
<1>1. m.from \in 1 .. written /\ m.upto \in Nat
  BY KindType DEF Messages
<1> DEFINE last == IF m.upto = ZeroLsn THEN written ELSE Min({m.upto - 1, written})
           back == IF m.upto = ZeroLsn /\ Kind[m.from] = "newfile" THEN {m.from - 1} ELSE {}
<1>2. last \in 0 .. written
  <2>1. CASE m.upto = ZeroLsn
    BY <2>1, KindType
  <2>2. CASE m.upto # ZeroLsn
    <3> DEFINE T == {m.upto - 1, written}
    <3>1. T \subseteq Nat /\ T # {} /\ written \in T
      BY <2>2, <1>1, KindType DEF ZeroLsn
    <3>2. Min(T) \in T /\ Min(T) <= written
      <4> HIDE DEF T
      <4> QED BY <3>1, MinNat
    <3>3. Min(T) \in 0 .. written
      <4>1. Min(T) \in Nat
        BY <3>1, <3>2
      <4> HIDE DEF T
      <4> QED BY <3>2, <4>1
    <3> QED BY <2>2, <3>3
  <2> QED BY <2>1, <2>2
<1>3. back \cap Item \subseteq 1 .. written
  BY <1>1, KindType
<1>4. Asked(m) = {m.from} \cup (m.from .. last) \cup (back \cap Item)
  BY DEF Asked
<1> HIDE DEF last, back
<1>5. Asked(m) \subseteq 1 .. written /\ Asked(m) # {}
  BY <1>1, <1>2, <1>3, <1>4
<1>6. Asked(m) \subseteq Nat /\ written \in Nat /\ \A y \in Asked(m) : y <= written
  BY <1>5, KindType
<1> QED BY <1>5, <1>6, MaxNat

LEMMA SendWithin ==
    ASSUME NEW rest, NEW m
    PROVE  Send(rest, m) \subseteq rest \cup {m}
BY DEF Send

LEMMA ReqType ==
    ASSUME NEW from \in Nat \ {0}, NEW upto \in Nat
    PROVE  Req(from, upto) \in Messages
BY DEF Req, Messages

\* A request for what is missing is a message, and keeps maxWait an LSN.
LEMMA RequestWithin ==
    ASSUME NEW rest, rest \subseteq Messages, NEW lsn, NEW r \in Nat \ {0}, NEW w \in Nat,
           NEW asked \in Nat, MaybeRequest(rest, lsn, r, w, asked)
    PROVE  net' \subseteq Messages /\ maxWait' \in Nat
<1>1. Req(r, w) \in Messages /\ Req(r, r + 1) \in Messages
  BY ReqType
<1>2. net' \in {rest, Send(rest, Req(r, w)), Send(rest, Req(r, r + 1))}
  BY DEF MaybeRequest
<1>3. net' \subseteq Messages
  BY <1>1, <1>2, SendWithin
<1> QED BY <1>3 DEF MaybeRequest

\* The same of __rep_resend_req.
LEMMA ResendWithin ==
    ASSUME Shape, ResendReq
    PROVE  net' \subseteq Messages /\ maxWait' \in Nat
<1>1. ready \in Nat \ {0} /\ waiting \in Nat /\ net \subseteq Messages
  BY DEF Shape
<1>2. Req(ready, waiting) \in Messages /\ Req(ready, ready + 1) \in Messages
  BY <1>1, ReqType
<1>3. net' \in {Send(net, Req(ready, waiting)), Send(net, Req(ready, ready + 1))}
  BY DEF ResendReq
<1>4. net' \subseteq Messages
  BY <1>1, <1>2, <1>3, SendWithin
<1> QED BY <1>1, <1>4 DEF ResendReq

-----------------------------------------------------------------------------
(* Each step keeps the inductive invariant.                                *)

\* What a thread that returns from __rep_apply keeps of its work: nothing.
LEMMA ReturnType ==
    ASSUME NEW i \in Nat, NEW more, Shape, NEW t \in Thread, Return(t, i, more)
    PROVE  /\ pc' \in [Thread -> States] /\ job' \in [Thread -> Jobs]
           /\ pc'[t] \in {"idle", "more"} /\ ~job'[t].queued /\ job'[t].max = ZeroLsn
           /\ \A u \in Thread \ {t} : pc'[u] = pc[u] /\ job'[u] = job[u]
<1> DEFINE j == [NoJob EXCEPT !.msg = IF more THEN i ELSE 0]
<1>1. j \in Jobs /\ ~j.queued /\ j.max = ZeroLsn
  BY DEF NoJob, Jobs, ZeroLsn
<1>2. /\ pc' = [pc EXCEPT ![t] = IF more THEN "more" ELSE "idle"]
      /\ job' = [job EXCEPT ![t] = j]
  BY DEF Return, Goto
<1>3. pc \in [Thread -> States] /\ job \in [Thread -> Jobs]
  BY DEF Shape
<1> HIDE DEF j
<1> QED BY <1>1, <1>2, <1>3 DEF States

\* Nothing but the network, or the master's log, changes.
LEMMA OutsideStep ==
    ASSUME IInv, written' \in written .. Len(Kind), net' \subseteq Messages',
           maxWait' \in Nat,
           UNCHANGED <<log, flushed, ready, waiting, maxPerm, temp, newfile, acked,
                       clientdb, pc, job>>
    PROVE  IInv'
<1>1. Shape'
  <2>1. Shape
    BY DEF IInv
  <2>2. /\ written' \in 0 .. Len(Kind) /\ 1 .. written \subseteq 1 .. written'
        /\ ready' - 1 <= written'
    <3>1. written \in 0 .. Len(Kind) /\ ready \in Nat /\ ready - 1 <= written
      BY <2>1 DEF Shape
    <3> QED BY <3>1, KindType
  <2>3. (acked # ZeroLsn => Perm(acked))' /\ (maxPerm # ZeroLsn => Perm(maxPerm))'
    BY <2>1 DEF Shape, Perm
  <2>4. temp' \subseteq 1 .. written'
    BY <2>1, <2>2 DEF Shape
  <2> QED BY <2>1, <2>2, <2>3, <2>4 DEF Shape
<1>2. \A t \in Thread : WorkOf(t)'
  BY KindType DEF IInv, Shape, WorkOf, Perm
<1>3. Alone' /\ SwitchOwned' /\ QueueBeyond'
  BY DEF IInv, Alone, SwitchOwned, QueueBeyond
<1>4. WaitingFirst'
  BY DEF IInv, WaitingFirst, First, Syncing
<1> QED BY <1>1, <1>2, <1>3, <1>4 DEF IInv

\* A thread goes from one state to another, in neither of which it works on
\* the log.
LEMMA AsideStep ==
    ASSUME IInv, net' \subseteq Messages, maxWait' \in Nat, NEW t \in Thread,
           pc[t] \notin WorkStates, pc'[t] \notin WorkStates,
           ~job'[t].queued, job'[t].max = ZeroLsn,
           pc' \in [Thread -> States], job' \in [Thread -> Jobs],
           \A u \in Thread \ {t} : pc'[u] = pc[u] /\ job'[u] = job[u],
           UNCHANGED <<written, log, flushed, ready, waiting, maxPerm, temp, newfile,
                       clientdb>>,
           acked' \in {acked, maxPerm}
    PROVE  IInv'
<1> USE DEF WorkStates
<1>1. Shape'
  <2>1. Shape /\ net' \subseteq Messages' /\ (acked' = acked \/ acked' = maxPerm)
    BY DEF IInv, Messages
  <2>2. maxPerm \in Nat /\ acked' \in 0 .. maxPerm /\ (acked' # ZeroLsn => Perm(acked'))
    BY <2>1 DEF Shape
  <2> QED BY <2>1, <2>2 DEF Shape, Perm
<1>2. \A u \in Thread : WorkOf(u)'
  <2>1. ASSUME NEW u \in Thread \ {t}
        PROVE  WorkOf(u)'
    BY <2>1 DEF IInv, WorkOf, Perm
  <2>2. WorkOf(t)'
    BY DEF IInv, WorkOf
  <2> QED BY <2>1, <2>2
<1>3. \A u \in Thread : /\ pc'[u] = "sync" <=> pc[u] = "sync"
                        /\ pc'[u] = "switch" <=> pc[u] = "switch"
                        /\ pc'[u] = "next" <=> pc[u] = "next"
                        /\ pc'[u] = "process" <=> pc[u] = "process"
  OBVIOUS
<1>4. Alone' /\ SwitchOwned' /\ QueueBeyond'
  BY <1>3 DEF IInv, Alone, SwitchOwned, QueueBeyond
<1>5. WaitingFirst'
  <2>1. Syncing' = Syncing
    BY <1>3 DEF Syncing
  <2>2. \A u \in Thread : ~job'[u].queued => ~job[u].queued
    BY DEF IInv, WorkOf
  <2> QED BY <2>1, <2>2 DEF IInv, WaitingFirst, First
<1> QED BY <1>1, <1>2, <1>4, <1>5 DEF IInv

\* The master writes, or the network loses or delivers a request.
LEMMA WriteStep ==
    ASSUME IInv, Write
    PROVE  IInv'
<1>1. /\ written \in Nat /\ written < Len(Kind) /\ written' = written + 1
      /\ net \subseteq Messages /\ maxWait \in Nat
  BY KindType DEF IInv, Shape, Write
<1>2. written' \in written .. Len(Kind) /\ 1 .. written \subseteq 1 .. written'
  BY <1>1, KindType
<1>3. Messages \subseteq Messages' /\ LogMsg(written', FALSE) \in Messages'
  BY <1>1, <1>2 DEF Messages, LogMsg
<1>4. net' = net \cup {LogMsg(written', FALSE)}
  BY DEF Write
<1> QED BY <1>1, <1>2, <1>3, <1>4, OutsideStep DEF Write, client

LEMMA ServeStep ==
    ASSUME IInv, NEW m \in net, Serve(m)
    PROVE  IInv'
<1>1. written' = written /\ written \in 0 .. Len(Kind) /\ net \subseteq Messages /\ m \in Messages
  BY DEF IInv, Shape, Serve
<1>2. Messages' = Messages
  BY <1>1 DEF Messages
<1>3. CASE m.from > written
  <2>1. net' \subseteq Messages
    BY <1>1, <1>3 DEF Serve
  <2> QED BY <1>1, <1>2, <2>1, KindType, OutsideStep DEF Serve, client, IInv, Shape
<1>4. CASE ~ m.from > written
  <2>1. Asked(m) \subseteq 1 .. written /\ Max(Asked(m)) \in Asked(m)
    BY <1>1, <1>4, AskedWithin DEF Serve
  <2>2. ASSUME NEW e \in Asked(m), NEW b \in BOOLEAN
        PROVE  Answer(m, e, b) \subseteq Messages
    <3>1. \A i \in 1 .. written, more \in BOOLEAN : LogMsg(i, more) \in Messages
      BY DEF LogMsg, Messages
    <3> QED BY <2>1, <3>1 DEF Answer
  <2>3. Cuts(m) \subseteq Asked(m)
    BY DEF Cuts
  <2>4. \E e \in Asked(m), b \in BOOLEAN : net' = (net \ {m}) \cup Answer(m, e, b)
    BY <1>4, <2>1, <2>3 DEF Serve
  <2>5. net' \subseteq Messages
    BY <1>1, <2>2, <2>4
  <2> QED BY <1>1, <1>2, <2>5, KindType, OutsideStep DEF Serve, client, IInv, Shape
<1> QED BY <1>3, <1>4

LEMMA LoseStep ==
    ASSUME IInv, NEW m \in net, Lose(m)
    PROVE  IInv'
<1>1. written' = written /\ written \in 0 .. Len(Kind) /\ net' \subseteq Messages
  BY DEF IInv, Shape, Lose
<1>2. Messages' = Messages
  BY <1>1 DEF Messages
<1> QED BY <1>1, <1>2, KindType, OutsideStep DEF Lose, client, IInv, Shape

\* An election, and the request for what was skipped when it fails.
LEMMA ElectionStep ==
    ASSUME IInv, Vote \/ ElectionFails, UNCHANGED written
    PROVE  IInv'
<1>1. /\ written \in 0 .. Len(Kind) /\ net \subseteq Messages /\ maxWait \in Nat
      /\ Shape
  BY DEF IInv, Shape
<1>2. net' \subseteq Messages /\ maxWait' \in Nat
  <2>1. CASE UNCHANGED <<net, maxWait>>
    BY <1>1, <2>1
  <2>2. CASE ResendReq
    BY <1>1, <2>2, ResendWithin
  <2> QED BY <2>1, <2>2 DEF Vote, ElectionFails, client
<1>3. Messages' = Messages
  BY DEF Messages
<1> QED BY <1>1, <1>2, <1>3, KindType, OutsideStep DEF Vote, ElectionFails, client

\* Requests, which are made with the mutex but leave the log alone.
LEMMA RequestActions ==
    ASSUME IInv, NEW t \in Thread, More(t) \/ CheckMissing(t) \/ Resend(t), UNCHANGED written
    PROVE  IInv'
<1>1. Shape
  BY DEF IInv
<1>2. /\ net \subseteq Messages /\ maxWait \in Nat /\ ready \in Nat \ {0} /\ waiting \in Nat
      /\ pc \in [Thread -> States] /\ job \in [Thread -> Jobs]
  BY <1>1 DEF Shape
<1>3. CASE More(t)
  <2> DEFINE lsn == Max({ready, job[t].msg})
             end == IF waiting > lsn THEN waiting ELSE ZeroLsn
  <2>1. lsn \in Nat \ {0}
    <3> DEFINE T == {ready, job[t].msg}
               n == ready + job[t].msg
    <3>1. job[t].msg \in Nat
      BY <1>2 DEF Jobs
    <3>2. T \subseteq Nat /\ T # {} /\ n \in Nat /\ (\A y \in T : y <= n) /\ ready \in T
      BY <1>2, <3>1
    <3>3. Max(T) \in T /\ ready <= Max(T)
      <4> HIDE DEF T, n
      <4> QED BY <3>2, MaxNat
    <3>4. Max(T) \in Nat
      BY <3>2, <3>3
    <3> QED BY <1>2, <3>3, <3>4
  <2>2. end \in Nat
    BY <1>2 DEF ZeroLsn
  <2>3. net' = Send(net, Req(lsn, end)) /\ maxWait' = end /\ Return(t, 0, FALSE)
    BY <1>3 DEF More
  <2> HIDE DEF lsn, end
  <2>4. net' \subseteq Messages
    BY <1>2, <2>1, <2>2, <2>3, ReqType, SendWithin
  <2> QED BY <1>1, <1>3, <2>2, <2>3, <2>4, ReturnType, AsideStep DEF More, WorkStates
<1>4. CASE CheckMissing(t)
  <2>1. ~job[t].queued /\ job[t].max = ZeroLsn
    BY <1>4 DEF CheckMissing, IInv, WorkOf, WorkStates
  <2>2. pc' = [pc EXCEPT ![t] = "missing"] /\ job' = job /\ pc[t] = "idle"
    BY <1>4 DEF CheckMissing, Goto
  <2>3. UNCHANGED <<net, client, clientdb>>
    BY <1>4 DEF CheckMissing
  <2> QED BY <1>2, <2>1, <2>2, <2>3, AsideStep DEF client, WorkStates, States
<1>5. CASE Resend(t)
  <2>1. ~job[t].queued /\ job[t].max = ZeroLsn
    BY <1>5 DEF Resend, IInv, WorkOf, WorkStates
  <2>2. pc' = [pc EXCEPT ![t] = "idle"] /\ job' = job /\ pc[t] = "missing"
    BY <1>5 DEF Resend, Goto
  <2>3. net' \subseteq Messages /\ maxWait' \in Nat
    BY <1>1, <1>5, ResendWithin DEF Resend
  <2> QED BY <1>2, <1>5, <2>1, <2>2, <2>3, AsideStep DEF Resend, WorkStates, States
<1> QED BY <1>3, <1>4, <1>5

\* A record the client has: what is called permanent does not change.
LEMMA DupStep ==
    ASSUME IInv, NEW t \in Thread, NEW m, ReceiveDup(t, m), pc[t] = "idle",
           UNCHANGED written, net' \subseteq Messages
    PROVE  IInv'
<1>1. UNCHANGED <<log, flushed, ready, waiting, maxWait, temp, newfile, clientdb, pc, job>>
  BY DEF ReceiveDup
<1>2. maxPerm' = maxPerm /\ acked' \in {acked, maxPerm}
  BY DEF ReceiveDup, ReturnPerm
<1>3. ~job[t].queued /\ job[t].max = ZeroLsn
  BY DEF IInv, WorkOf, WorkStates
<1>4. maxWait \in Nat /\ pc \in [Thread -> States] /\ job \in [Thread -> Jobs]
  BY DEF IInv, Shape
<1> QED BY <1>1, <1>2, <1>3, <1>4, AsideStep DEF WorkStates

LEMMA LockedStep ==
    ASSUME IInv, NEW t \in Thread, NEW m \in Messages, m.type = "log",
           ReceiveLocked(t, m), pc[t] = "idle", UNCHANGED written, net' \subseteq Messages
    PROVE  IInv'
<1>1. m.item \in Nat /\ Shape /\ maxWait \in Nat
  BY DEF Messages, IInv, Shape
<1>2. Return(t, m.item, m.more) /\ UNCHANGED <<client, clientdb>>
  BY DEF ReceiveLocked
<1> QED BY <1>1, <1>2, ReturnType, AsideStep DEF client, WorkStates

\* The local variables of a thread that begins with a record.
LEMMA BeginJob ==
    ASSUME NEW i \in Nat, NEW more \in BOOLEAN
    PROVE  \A j : j = [NoJob EXCEPT !.item = i, !.msg = i, !.more = more] =>
             j \in Jobs /\ j.item = i /\ ~j.queued /\ j.max = ZeroLsn
<1> DEFINE r == [item |-> i, msg |-> i, more |-> more, queued |-> FALSE, max |-> ZeroLsn]
<1>1. r \in Jobs /\ r.item = i /\ ~r.queued /\ r.max = ZeroLsn
  BY DEF Jobs, ZeroLsn
<1>2. ASSUME NEW j, j = [NoJob EXCEPT !.item = i, !.msg = i, !.more = more]
      PROVE  j = r
  BY <1>2, Zenon DEF NoJob
<1> HIDE DEF r
<1> QED BY <1>1, <1>2, Zenon

\* The record expected next: its thread takes the mutex to process it.
LEMMA NextStep ==
    ASSUME IInv, NEW t \in Thread, NEW m \in Messages, m.type = "log",
           ReceiveNext(t, m), pc[t] = "idle", clientdb = NoThread,
           UNCHANGED written, net' \subseteq Messages
    PROVE  IInv'
<1> DEFINE j == [NoJob EXCEPT !.item = m.item, !.msg = m.item, !.more = m.more]
<1>1. m.item \in 1 .. written /\ m.more \in BOOLEAN
  BY DEF Messages
<1>2. Shape
  BY DEF IInv
<1>3. written \in Nat
  BY <1>2, KindType DEF Shape
<1>4. j \in Jobs /\ j.item = m.item /\ ~j.queued /\ j.max = ZeroLsn
  <2>1. m.item \in Nat
    BY <1>1, <1>3
  <2>2. j = [NoJob EXCEPT !.item = m.item, !.msg = m.item, !.more = m.more]
    BY Zenon
  <2> HIDE DEF j
  <2> QED BY <1>1, <2>1, <2>2, BeginJob, Zenon
<1>5. /\ pc' = [pc EXCEPT ![t] = "process"] /\ job' = [job EXCEPT ![t] = j]
      /\ clientdb' = t /\ UNCHANGED client /\ m.item = ready /\ ~newfile
  BY <1>2 DEF ReceiveNext, Goto, PastDup, Shape
<1> HIDE DEF j
<1>6. /\ pc \in [Thread -> States] /\ job \in [Thread -> Jobs]
      /\ pc' \in [Thread -> States] /\ job' \in [Thread -> Jobs]
      /\ pc'[t] = "process" /\ job'[t] = j
      /\ \A u \in Thread \ {t} : pc'[u] = pc[u] /\ job'[u] = job[u]
  BY <1>2, <1>4, <1>5 DEF Shape, States, WorkStates
<1>7. \A u \in Thread : pc[u] \notin {"process", "next", "switch"}
  <2>1. \A u \in Thread : u # NoThread
    BY ThreadAssumption
  <2> QED BY <1>5, <2>1 DEF IInv, WorkOf
<1>8. Shape'
  BY <1>2, <1>5, <1>6 DEF Shape, client, Messages, Perm
<1>9. \A u \in Thread : WorkOf(u)'
  <2>1. ASSUME NEW u \in Thread \ {t}
        PROVE  WorkOf(u)'
    <3>1. WorkOf(u) /\ u # clientdb' /\ pc[u] \notin {"process", "next"}
      BY <1>5, <1>7 DEF IInv
    <3> QED BY <1>5, <1>6, <3>1 DEF WorkOf, client, Perm
  <2>2. WorkOf(t)'
    BY <1>1, <1>2, <1>3, <1>4, <1>5, <1>6 DEF WorkOf, client, WorkStates, Shape
  <2> QED BY <2>1, <2>2
<1>10. Alone'
  BY <1>6, <1>7 DEF IInv, Alone
<1>11. SwitchOwned'
  BY <1>5 DEF SwitchOwned, client
<1>12. QueueBeyond'
  BY <1>5, <1>6 DEF IInv, QueueBeyond, client
<1>13. WaitingFirst'
  <2>1. Syncing' = Syncing
    BY <1>5, <1>6 DEF Syncing, client
  <2>2. \A u \in Thread : ~job'[u].queued => ~job[u].queued
    BY <1>6 DEF IInv, WorkOf, WorkStates
  <2> QED BY <1>5, <2>1, <2>2 DEF IInv, WaitingFirst, First, client
<1> QED BY <1>8, <1>9, <1>10, <1>11, <1>12, <1>13 DEF IInv

\* A record that comes too early joins the queue, and waiting_lsn stays the
\* first of it.
LEMMA EarlyStep ==
    ASSUME IInv, NEW t \in Thread, NEW m \in Messages, m.type = "log",
           NEW rest, rest \subseteq Messages, ReceiveEarly(t, m, rest),
           pc[t] = "idle", clientdb = NoThread, UNCHANGED written
    PROVE  IInv'
<1> DEFINE i == m.item
           w == IF waiting = ZeroLsn \/ i < waiting THEN i ELSE waiting
<1>1. Shape
  BY DEF IInv
<1>2. i \in 1 .. written /\ written \in Nat
  BY <1>1, KindType DEF Messages, Shape
<1>3. /\ i > ready /\ temp' = temp \cup {i} /\ waiting' = w
      /\ UNCHANGED <<log, flushed, ready, maxPerm, newfile, acked, clientdb>>
      /\ Return(t, i, m.more /\ i \notin temp)
      /\ MaybeRequest(rest, i, ready, w, maxWait)
  BY DEF ReceiveEarly
<1>4. /\ ready \in Nat \ {0} /\ waiting \in Nat /\ maxWait \in Nat /\ i \in Nat \ {0}
      /\ temp \subseteq 1 .. written /\ w \in Nat
  BY <1>1, <1>2 DEF Shape
<1>5. net' \subseteq Messages /\ maxWait' \in Nat
  <2> HIDE DEF w
  <2> QED BY <1>3, <1>4, RequestWithin
<1>6. /\ pc' \in [Thread -> States] /\ job' \in [Thread -> Jobs]
      /\ pc'[t] \in {"idle", "more"} /\ ~job'[t].queued /\ job'[t].max = ZeroLsn
      /\ \A u \in Thread \ {t} : pc'[u] = pc[u] /\ job'[u] = job[u]
  BY <1>1, <1>3, <1>4, ReturnType
<1>7. Shape'
  BY <1>1, <1>2, <1>3, <1>4, <1>5, <1>6 DEF Shape, Messages, Perm
<1>8. \A u \in Thread : WorkOf(u)'
  <2>1. ASSUME NEW u \in Thread \ {t}
        PROVE  WorkOf(u)'
    <3>1. ready \in temp' <=> ready \in temp
      BY <1>3, <1>4
    <3> QED BY <1>3, <1>6, <2>1, <3>1 DEF IInv, WorkOf, Perm
  <2>2. WorkOf(t)'
    BY <1>3, <1>6 DEF IInv, WorkOf
  <2> QED BY <2>1, <2>2
<1>9. \A u \in Thread : /\ pc'[u] = "sync" <=> pc[u] = "sync"
                        /\ pc'[u] = "switch" <=> pc[u] = "switch"
                        /\ pc'[u] = "next" <=> pc[u] = "next"
                        /\ pc'[u] = "process" <=> pc[u] = "process"
  BY <1>6
<1>10. Alone'
  BY <1>9 DEF IInv, Alone
<1>11. SwitchOwned'
  BY <1>3, <1>9 DEF IInv, SwitchOwned
<1>12. QueueBeyond'
  BY <1>3, <1>4, <1>9 DEF IInv, QueueBeyond
<1>13. WaitingFirst'
  <2> DEFINE S == temp \ Syncing
  <2>1. Syncing' = Syncing
    BY <1>3, <1>9 DEF Syncing
  <2>2. \A u \in Thread : ~job'[u].queued => ~job[u].queued
    BY <1>6 DEF IInv, WorkOf, WorkStates
  <2>3. temp' \ Syncing' = S \cup {i}
    BY <1>3, <1>4, <2>1 DEF Syncing
  <2>4. S \subseteq Nat \ {0} /\ S \cup {i} \subseteq Nat \ {0}
    <3>1. S \subseteq 1 .. written /\ i \in Nat \ {0}
      BY <1>4
    <3> QED BY <1>2, <3>1
  <2>5. ASSUME waiting = First(S)
        PROVE  w = First(S \cup {i})
    <3> HIDE DEF S
    <3>1. CASE S = {}
      <4>1. waiting = ZeroLsn
        BY <2>4, <2>5, <3>1, FirstExact
      <4>2. w = i /\ w \in S \cup {i} /\ \A y \in S \cup {i} : w <= y
        BY <1>4, <3>1, <4>1
      <4> HIDE DEF w, i
      <4> QED BY <2>4, <4>2, FirstExact
    <3>2. CASE S # {}
      <4>1. waiting \in S /\ waiting # ZeroLsn /\ \A y \in S : waiting <= y
        BY <2>4, <2>5, <3>2, FirstExact
      <4>2. w \in S \cup {i} /\ \A y \in S \cup {i} : w <= y
        BY <1>4, <2>4, <4>1
      <4> HIDE DEF w, i
      <4> QED BY <2>4, <4>2, FirstExact
    <3> QED BY <3>1, <3>2
  <2>6. ASSUME \A u \in Thread : ~job'[u].queued
        PROVE  waiting' = First(S \cup {i})
    <3>1. waiting = First(S)
      BY <2>2, <2>6 DEF IInv, WaitingFirst
    <3> QED BY <1>3, <2>5, <3>1
  <2> QED BY <2>3, <2>6 DEF WaitingFirst, First
<1> QED BY <1>7, <1>8, <1>10, <1>11, <1>12, <1>13 DEF IInv

LEMMA ReceiveStep ==
    ASSUME IInv, NEW t \in Thread, NEW m \in net, Receive(t, m)
    PROVE  IInv'
<1>1. net \subseteq Messages /\ m \in Messages /\ m.type = "log" /\ written' = written
  BY DEF IInv, Shape, Receive
<1>2. PICK again \in {0, 1} :
        LET rest == IF again = 1 THEN net ELSE net \ {m}
        IN  \/ ReceiveEarly(t, m, rest)
            \/ /\ ReceiveDup(t, m) \/ ReceiveLocked(t, m) \/ ReceiveNext(t, m)
               /\ net' = rest
  BY DEF Receive
<1> DEFINE rest == IF again = 1 THEN net ELSE net \ {m}
<1>3. rest \subseteq Messages
  BY <1>1
<1>4. pc[t] = "idle" /\ clientdb = NoThread
  BY DEF Receive
<1> HIDE DEF rest
<1>5. CASE ReceiveEarly(t, m, rest)
  BY <1>1, <1>3, <1>4, <1>5, EarlyStep
<1>6. CASE ReceiveDup(t, m) /\ net' = rest
  BY <1>1, <1>3, <1>4, <1>6, DupStep
<1>7. CASE ReceiveLocked(t, m) /\ net' = rest
  BY <1>1, <1>3, <1>4, <1>7, LockedStep
<1>8. CASE ReceiveNext(t, m) /\ net' = rest
  BY <1>1, <1>3, <1>4, <1>8, NextStep
<1> QED BY <1>2, <1>5, <1>6, <1>7, <1>8 DEF rest

\* Who holds the mutex, and works on the record expected next, is alone, but
\* for a checkpoint record that another thread syncs.
LEMMA Solo ==
    ASSUME IInv, NEW t \in Thread,
           \/ pc[t] = "next"
           \/ pc[t] = "process" /\ Kind[job[t].item] # "ckp"
           \/ pc[t] \in {"sync", "switch"} /\ clientdb = NoThread,
           NEW u \in Thread \ {t}
    PROVE  pc[u] \notin WorkStates /\ ~job[u].queued /\ job[u].max = ZeroLsn
<1>1. WorkOf(t) /\ WorkOf(u) /\ t # NoThread /\ u # NoThread
  BY ThreadAssumption DEF IInv
<1>2. pc[u] \notin {"process", "next"}
  BY <1>1 DEF WorkOf
<1>3. pc[u] \notin {"sync", "switch"}
  BY <1>1 DEF WorkOf, IInv, Alone
<1> QED BY <1>1, <1>2, <1>3 DEF WorkOf, WorkStates

\* The log grows by the record expected next: in ProcessRecord, after a
\* checkpoint was synced, and after a switch of files.
LEMMA PutStep ==
    ASSUME IInv, NEW t \in Thread, pc[t] \in {"process", "sync", "switch"},
           \A u \in Thread \ {t} :
             pc[u] \notin WorkStates /\ ~job[u].queued /\ job[u].max = ZeroLsn,
           log' = Append(log, ready), ready' = ready + 1,
           flushed' \in {flushed, Len(log')},
           clientdb' = t, pc' = [pc EXCEPT ![t] = "next"],
           job' \in [Thread -> Jobs],
           \A u \in Thread \ {t} : job'[u] = job[u],
           job'[t].queued = job[t].queued,
           job'[t].max # job[t].max =>
             job'[t].max = ready /\ Perm(ready) /\ flushed' = Len(log'),
           temp' = temp \ {ready}, ~newfile',  newfile' \in BOOLEAN,
           UNCHANGED <<written, net, waiting, maxWait, maxPerm, acked>>
    PROVE  IInv'
<1>1. Shape /\ WorkOf(t)
  BY DEF IInv
<1>2. ready \in Nat \ {0} /\ ready <= written /\ written \in Nat
  BY <1>1, KindType DEF Shape, WorkOf
<1>3. log' \in Seq(Nat) /\ Len(log') = ready /\ Len(log) = ready - 1
  BY <1>1, <1>2 DEF Shape
<1>4. flushed \in 0 .. Len(log) /\ flushed' \in flushed .. Len(log')
  BY <1>1, <1>2, <1>3 DEF Shape
<1>5. /\ pc \in [Thread -> States] /\ pc' \in [Thread -> States] /\ pc'[t] = "next"
      /\ \A u \in Thread \ {t} : pc'[u] = pc[u]
  BY <1>1 DEF Shape, States, WorkStates
<1>6. ready' - 1 <= written' /\ ready' \in Nat \ {0} /\ Len(log') = ready' - 1
  BY <1>2, <1>3
<1>7. Shape'
  <2>1. maxPerm \in Nat /\ maxPerm <= flushed /\ acked \in 0 .. maxPerm
    BY <1>1, <1>4 DEF Shape
  <2>2. flushed' \in 0 .. Len(log') /\ maxPerm' \in 0 .. flushed'
    BY <1>3, <1>4, <2>1
  <2>3. net' \subseteq Messages' /\ temp' \subseteq 1 .. written' /\ clientdb' \in Thread
    BY <1>1 DEF Shape, Messages
  <2> QED BY <1>1, <1>3, <1>5, <1>6, <2>1, <2>2, <2>3 DEF Shape, Perm
<1>8. \A u \in Thread : WorkOf(u)'
  <2>1. ASSUME NEW u \in Thread \ {t}
        PROVE  WorkOf(u)'
    BY <1>5, <2>1 DEF WorkOf, WorkStates
  <2>2. WorkOf(t)'
    <3> DEFINE max == job'[t].max
    <3>1. max \in Nat /\ job[t].max \in Nat /\ maxPerm \in Nat /\ maxPerm <= flushed
      <4>1. job \in [Thread -> Jobs] /\ job' \in [Thread -> Jobs]
        BY <1>1 DEF Shape
      <4>2. max \in Nat /\ job[t].max \in Nat
        BY <4>1 DEF Jobs
      <4>3. maxPerm \in 0 .. flushed /\ flushed \in Nat
        BY <1>1, <1>3, <1>4 DEF Shape
      <4> QED BY <4>2, <4>3
    <3>2. flushed \in Nat /\ flushed' \in Nat /\ flushed <= flushed'
      BY <1>3, <1>4
    <3>3. max # ZeroLsn => max \in maxPerm .. flushed' /\ Perm(max)
      <4>1. CASE max = job[t].max
        <5>1. max # ZeroLsn => max \in maxPerm .. flushed /\ Perm(max)
          BY <1>1, <4>1 DEF WorkOf
        <5> QED BY <3>1, <3>2, <5>1
      <4>2. CASE max # job[t].max
        <5>1. max = ready /\ Perm(ready) /\ flushed' = ready
          BY <1>3, <4>2
        <5> QED BY <3>1, <3>2, <5>1
      <4> QED BY <4>1, <4>2
    <3>4. pc'[t] = "next" /\ clientdb' = t /\ maxPerm' = maxPerm
      BY <1>5
    <3> QED BY <3>3, <3>4 DEF WorkOf, WorkStates, Perm
  <2> QED BY <2>1, <2>2
<1>9. Alone'
  BY <1>5 DEF Alone, WorkStates
<1>10. SwitchOwned'
  BY DEF SwitchOwned
<1>11. temp \subseteq Nat /\ \A i \in temp : i >= ready
  BY <1>1, <1>2 DEF IInv, QueueBeyond, Shape
<1>12. QueueBeyond'
  BY <1>2, <1>5, <1>11 DEF QueueBeyond
<1>13. WaitingFirst'
  <2>1. temp \ Syncing = temp \ {ready}
    <3>1. CASE pc[t] = "sync"
      BY <3>1 DEF Syncing
    <3>2. CASE pc[t] # "sync"
      <4>1. \A u \in Thread : pc[u] \notin {"sync", "next"}
        BY <3>2 DEF WorkStates
      <4> QED BY <4>1 DEF Syncing, IInv, QueueBeyond
    <3> QED BY <3>1, <3>2
  <2>2. Syncing' = {}
    BY <1>5 DEF Syncing, WorkStates
  <2>3. \A u \in Thread : ~job'[u].queued => ~job[u].queued
    OBVIOUS
  <2> QED BY <2>1, <2>2, <2>3 DEF IInv, WaitingFirst, First
<1> QED BY <1>7, <1>8, <1>9, <1>10, <1>12, <1>13 DEF IInv

LEMMA MaxType ==
    ASSUME Shape, NEW t \in Thread, NEW max \in Nat, job' = [job EXCEPT ![t].max = max]
    PROVE  /\ job' \in [Thread -> Jobs]
           /\ \A u \in Thread \ {t} : job'[u] = job[u]
           /\ job'[t].queued = job[t].queued /\ job'[t].max = max
<1>1. job \in [Thread -> Jobs]
  BY DEF Shape
<1> QED BY <1>1 DEF Jobs

LEMMA ProcessRecordStep ==
    ASSUME IInv, NEW t \in Thread, ProcessRecord(t), UNCHANGED written
    PROVE  IInv'
<1> DEFINE i == job[t].item
           max == IF Kind[i] = "commit" THEN i ELSE job[t].max
<1>1. Shape /\ WorkOf(t) /\ pc[t] = "process" /\ Kind[i] \in {"commit", "other"}
  BY DEF IInv, ProcessRecord
<1>2. i = ready /\ clientdb = t /\ job \in [Thread -> Jobs] /\ ready \in Nat \ {0}
  BY <1>1 DEF WorkOf, Shape
<1>3. /\ log' = Append(log, ready) /\ ready' = ready + 1
      /\ flushed' \in {flushed, Len(log')} /\ (Kind[i] = "commit" => flushed' = Len(log'))
      /\ pc' = [pc EXCEPT ![t] = "next"]
      /\ UNCHANGED <<net, waiting, maxWait, maxPerm, temp, newfile, acked, clientdb>>
  BY <1>2 DEF ProcessRecord, Put, Goto
<1>4. job' = [job EXCEPT ![t].max = max] /\ max \in Nat
  <2>1. max \in Nat
    BY <1>2 DEF Jobs
  <2> QED BY <1>2, <2>1 DEF ProcessRecord
<1>5. \A u \in Thread \ {t} :
        pc[u] \notin WorkStates /\ ~job[u].queued /\ job[u].max = ZeroLsn
  BY <1>1, Solo
<1>6. ~newfile /\ newfile \in BOOLEAN
  BY <1>1, <1>5 DEF IInv, SwitchOwned, WorkStates, Shape
<1>7. temp' = temp \ {ready}
  BY <1>1, <1>3, <1>5 DEF IInv, QueueBeyond, WorkStates
<1>8. /\ job' \in [Thread -> Jobs] /\ (\A u \in Thread \ {t} : job'[u] = job[u])
      /\ job'[t].queued = job[t].queued /\ job'[t].max = max
  <2> HIDE DEF max
  <2> QED BY <1>1, <1>4, MaxType
<1>9. job'[t].max # job[t].max =>
        job'[t].max = ready /\ Perm(ready) /\ flushed' = Len(log')
  BY <1>2, <1>3, <1>8 DEF Perm
<1> HIDE DEF i, max
<1> QED BY <1>1, <1>2, <1>3, <1>5, <1>6, <1>7, <1>8, <1>9, PutStep

LEMMA SwitchedStep ==
    ASSUME IInv, NEW t \in Thread, Switched(t), UNCHANGED written
    PROVE  IInv'
<1>1. Shape /\ WorkOf(t) /\ pc[t] = "switch" /\ clientdb = NoThread
  BY DEF IInv, Switched
<1>2. job[t].item = ready /\ job \in [Thread -> Jobs]
  BY <1>1 DEF WorkOf, Shape
<1>3. \A u \in Thread \ {t} :
        pc[u] \notin WorkStates /\ ~job[u].queued /\ job[u].max = ZeroLsn
  BY <1>1, Solo
<1>4. /\ log' = Append(log, ready) /\ ready' = ready + 1 /\ flushed' = Len(log')
      /\ pc' = [pc EXCEPT ![t] = "next"] /\ clientdb' = t /\ newfile' = FALSE
      /\ UNCHANGED <<net, waiting, maxWait, maxPerm, temp, acked, job>>
  BY <1>2 DEF Switched, Put, Goto
<1>5. temp' = temp \ {ready}
  BY <1>1, <1>3, <1>4 DEF IInv, QueueBeyond, WorkStates
<1> QED BY <1>1, <1>2, <1>3, <1>4, <1>5, PutStep

\* __rep_remfirst removes the copy of the checkpoint record itself.
LEMMA SyncedIsFirst ==
    ASSUME IInv, NEW t \in Thread, pc[t] = "sync"
    PROVE  temp # {} /\ Min(temp) = ready
<1>1. Shape /\ WorkOf(t) /\ ready \in temp /\ \A i \in temp : i >= ready
  BY DEF IInv, WorkOf, QueueBeyond
<1>2. temp \subseteq Nat
  BY <1>1, KindType DEF Shape
<1>3. Min(temp) \in temp /\ Min(temp) <= ready
  BY <1>1, <1>2, MinNat
<1>4. Min(temp) \in Nat /\ ready \in Nat /\ Min(temp) >= ready
  BY <1>1, <1>2, <1>3
<1> QED BY <1>1, <1>3, <1>4

LEMMA SyncedStep ==
    ASSUME IInv, NEW t \in Thread, Synced(t), UNCHANGED written
    PROVE  IInv'
<1>1. Shape /\ WorkOf(t) /\ pc[t] = "sync" /\ clientdb = NoThread
  BY DEF IInv, Synced
<1>2. /\ job[t].item = ready /\ job \in [Thread -> Jobs] /\ ready \in Nat \ {0}
      /\ Perm(ready) /\ newfile \in BOOLEAN
  BY <1>1 DEF WorkOf, Shape, Perm
<1>3. \A u \in Thread \ {t} :
        pc[u] \notin WorkStates /\ ~job[u].queued /\ job[u].max = ZeroLsn
  BY <1>1, Solo
<1>4. /\ log' = Append(log, ready) /\ ready' = ready + 1 /\ flushed' = Len(log')
      /\ pc' = [pc EXCEPT ![t] = "next"] /\ clientdb' = t
      /\ job' = [job EXCEPT ![t].max = ready]
      /\ UNCHANGED <<net, waiting, maxWait, maxPerm, newfile, acked>>
  BY <1>2 DEF Synced, Put, Goto
<1>5. temp' = temp \ {ready}
  BY <1>1, SyncedIsFirst DEF Synced
<1>6. ~newfile
  BY <1>1, <1>3 DEF IInv, SwitchOwned, WorkStates
<1>7. /\ job' \in [Thread -> Jobs] /\ (\A u \in Thread \ {t} : job'[u] = job[u])
      /\ job'[t].queued = job[t].queued /\ job'[t].max = ready
  BY <1>1, <1>2, <1>4, MaxType
<1> QED BY <1>1, <1>2, <1>3, <1>4, <1>5, <1>6, <1>7, PutStep

\* The mutex is dropped to switch files; REP_F_NEWFILE keeps others out.
LEMMA NewfileStep ==
    ASSUME IInv, NEW t \in Thread, ProcessNewfile(t), UNCHANGED written
    PROVE  IInv'
<1>1. Shape /\ WorkOf(t) /\ pc[t] = "process" /\ Kind[job[t].item] = "newfile"
  BY DEF IInv, ProcessNewfile
<1>2. job[t].item = ready /\ clientdb = t
  BY <1>1 DEF WorkOf
<1>3. \A u \in Thread \ {t} :
        pc[u] \notin WorkStates /\ ~job[u].queued /\ job[u].max = ZeroLsn
  BY <1>1, Solo
<1>4. /\ pc' = [pc EXCEPT ![t] = "switch"] /\ newfile' = TRUE /\ clientdb' = NoThread
      /\ UNCHANGED <<net, log, flushed, ready, waiting, maxWait, maxPerm, temp, acked, job>>
  BY DEF ProcessNewfile, Goto
<1>5. /\ pc' \in [Thread -> States] /\ pc'[t] = "switch"
      /\ \A u \in Thread \ {t} : pc'[u] = pc[u]
  BY <1>1, <1>4 DEF Shape, States, WorkStates
<1>6. Shape'
  BY <1>1, <1>4, <1>5 DEF Shape, Messages, Perm
<1>7. \A u \in Thread : WorkOf(u)'
  <2>1. ASSUME NEW u \in Thread \ {t}
        PROVE  WorkOf(u)'
    BY <1>3, <1>4, <1>5, <2>1, ThreadAssumption DEF WorkOf, WorkStates
  <2>2. WorkOf(t)'
    BY <1>1, <1>2, <1>4, <1>5, ThreadAssumption DEF WorkOf, WorkStates, Perm
  <2> QED BY <2>1, <2>2
<1>8. Alone'
  BY <1>3, <1>5 DEF Alone, WorkStates
<1>9. SwitchOwned'
  BY <1>5 DEF SwitchOwned
<1>10. QueueBeyond'
  BY <1>1, <1>3, <1>4 DEF IInv, QueueBeyond, WorkStates
<1>11. WaitingFirst'
  <2>1. Syncing' = Syncing
    BY <1>1, <1>4, <1>5 DEF Syncing
  <2> QED BY <1>4, <2>1 DEF IInv, WaitingFirst, First
<1> QED BY <1>6, <1>7, <1>8, <1>9, <1>10, <1>11 DEF IInv

\* The mutex is dropped to sync a checkpoint; its copy in the queue keeps
\* others out.
LEMMA CkpStep ==
    ASSUME IInv, NEW t \in Thread, ProcessCkp(t), UNCHANGED written
    PROVE  IInv'
<1> DEFINE i == job[t].item
<1>1. Shape /\ WorkOf(t) /\ pc[t] = "process" /\ Kind[i] = "ckp"
  BY DEF IInv, ProcessCkp
<1>2. /\ i = ready /\ clientdb = t /\ ready \in 1 .. written /\ written \in Nat
      /\ temp \subseteq 1 .. written
  BY <1>1, KindType DEF WorkOf, Shape
<1>3. /\ clientdb' = NoThread
      /\ UNCHANGED <<net, log, flushed, ready, waiting, maxWait, maxPerm, newfile, acked>>
  BY DEF ProcessCkp
<1>4. \A u \in Thread \ {t} : pc[u] \notin {"process", "next", "switch"}
  BY <1>1, <1>2 DEF IInv, WorkOf, Alone
<1>5. CASE ready \in temp
  <2>1. Return(t, job[t].msg, job[t].more) /\ temp' = temp
    BY <1>2, <1>5 DEF ProcessCkp, BeingSynced
  <2>2. /\ pc' \in [Thread -> States] /\ job' \in [Thread -> Jobs]
        /\ pc'[t] \in {"idle", "more"} /\ ~job'[t].queued /\ job'[t].max = ZeroLsn
        /\ \A u \in Thread \ {t} : pc'[u] = pc[u] /\ job'[u] = job[u]
    <3>1. job[t].msg \in Nat
      BY <1>1 DEF Shape, Jobs
    <3> QED BY <1>1, <2>1, <3>1, ReturnType
  <2>3. Shape'
    BY <1>1, <1>3, <2>1, <2>2 DEF Shape, Messages, Perm
  <2>4. \A u \in Thread : WorkOf(u)'
    <3>1. ASSUME NEW u \in Thread \ {t}
          PROVE  WorkOf(u)'
      <4>1. WorkOf(u) /\ u # NoThread
        BY ThreadAssumption DEF IInv
      <4> QED BY <1>3, <1>4, <2>1, <2>2, <4>1 DEF WorkOf, Perm
    <3>2. WorkOf(t)'
      BY <1>3, <2>2, ThreadAssumption DEF WorkOf
    <3> QED BY <3>1, <3>2
  <2>5. Alone'
    BY <1>4, <2>2 DEF IInv, Alone
  <2>6. SwitchOwned'
    BY <1>1, <1>3, <2>2 DEF IInv, SwitchOwned
  <2>7. QueueBeyond'
    BY <1>1, <1>3, <2>1, <2>2 DEF IInv, QueueBeyond
  <2>8. WaitingFirst'
    <3>1. Syncing' = Syncing
      BY <1>1, <1>3, <2>2 DEF Syncing
    <3>2. ~job[t].queued
      BY <1>1, <1>5 DEF WorkOf
    <3> QED BY <1>3, <2>1, <2>2, <3>1, <3>2 DEF IInv, WaitingFirst, First
  <2> QED BY <2>3, <2>4, <2>5, <2>6, <2>7, <2>8 DEF IInv
<1>6. CASE ready \notin temp
  <2>1. /\ temp' = temp \cup {ready} /\ pc' = [pc EXCEPT ![t] = "sync"] /\ job' = job
    BY <1>2, <1>6 DEF ProcessCkp, BeingSynced, Goto
  <2>2. /\ pc' \in [Thread -> States] /\ pc'[t] = "sync"
        /\ \A u \in Thread \ {t} : pc'[u] = pc[u]
    BY <1>1, <2>1 DEF Shape, States, WorkStates
  <2>3. \A u \in Thread \ {t} : pc[u] # "sync"
    BY <1>6 DEF IInv, WorkOf
  <2>4. Shape'
    BY <1>1, <1>2, <1>3, <2>1, <2>2 DEF Shape, Messages, Perm
  <2>5. \A u \in Thread : WorkOf(u)'
    <3>1. ASSUME NEW u \in Thread \ {t}
          PROVE  WorkOf(u)'
      <4>1. WorkOf(u) /\ u # NoThread
        BY ThreadAssumption DEF IInv
      <4> QED BY <1>3, <1>4, <2>1, <2>2, <2>3, <4>1 DEF WorkOf, Perm, WorkStates
    <3>2. WorkOf(t)'
      BY <1>1, <1>2, <1>3, <2>1, <2>2, ThreadAssumption DEF WorkOf, Perm, WorkStates
    <3> QED BY <3>1, <3>2
  <2>6. Alone'
    BY <1>4, <2>2, <2>3 DEF IInv, Alone
  <2>7. SwitchOwned'
    BY <1>1, <1>3, <2>2 DEF IInv, SwitchOwned
  <2>8. \A k \in temp' : k \in Nat /\ k >= ready
    BY <1>2, <2>1 DEF IInv, QueueBeyond
  <2>9. QueueBeyond'
    BY <1>3, <2>2, <2>8 DEF QueueBeyond
  <2>10. WaitingFirst'
    <3>1. temp' \ Syncing' = temp \ Syncing
      BY <1>1, <1>3, <1>6, <2>1, <2>2, <2>3 DEF Syncing
    <3> QED BY <1>3, <2>1, <3>1 DEF IInv, WaitingFirst, First
  <2> QED BY <2>4, <2>5, <2>6, <2>7, <2>9, <2>10 DEF IInv
<1> QED BY <1>5, <1>6

\* What a thread that has put a record in the log takes waiting_lsn to be.
LEMMA WaitingIsFirst ==
    ASSUME IInv, NEW t \in Thread, pc[t] = "next"
    PROVE  Waiting(t) = First(temp) /\ Syncing = {}
<1>1. \A u \in Thread \ {t} : pc[u] \notin WorkStates /\ ~job[u].queued
  BY Solo
<1>2. Syncing = {}
  BY <1>1 DEF Syncing, WorkStates
<1>3. CASE job[t].queued
  BY <1>2, <1>3 DEF Waiting, First
<1>4. CASE ~job[t].queued
  <2>1. waiting = First(temp \ Syncing)
    BY <1>1, <1>4 DEF IInv, WaitingFirst
  <2> QED BY <1>2, <1>4, <2>1 DEF Waiting
<1> QED BY <1>2, <1>3, <1>4

\* The first record of the queue is the one expected next.
LEMMA TakeQueuedStep ==
    ASSUME IInv, NEW t \in Thread, TakeQueued(t), UNCHANGED written
    PROVE  IInv'
<1> DEFINE j == [job[t] EXCEPT !.item = ready, !.queued = TRUE]
<1>1. Shape /\ WorkOf(t) /\ pc[t] = "next" /\ Waiting(t) = ready
  BY DEF IInv, TakeQueued
<1>2. /\ ready \in Nat \ {0} /\ temp \subseteq 1 .. written /\ written \in Nat
      /\ job \in [Thread -> Jobs] /\ maxWait \in Nat /\ clientdb = t
  BY <1>1, KindType DEF Shape, WorkOf
<1>3. ready \in temp /\ Min(temp) = ready
  <2>1. temp \subseteq Nat \ {0} /\ First(temp) = ready
    BY <1>1, <1>2, WaitingIsFirst
  <2>2. temp # {}
    BY <1>2, <2>1, FirstExact DEF ZeroLsn
  <2> QED BY <2>1, <2>2, FirstExact DEF First
<1>4. \A u \in Thread \ {t} :
        pc[u] \notin WorkStates /\ ~job[u].queued /\ job[u].max = ZeroLsn
  BY <1>1, Solo
<1>5. /\ waiting' = ready /\ maxWait' \in Nat /\ temp' = temp \ {ready}
      /\ pc' = [pc EXCEPT ![t] = "process"]
      /\ UNCHANGED <<net, log, flushed, ready, maxPerm, newfile, acked, clientdb>>
  BY <1>1, <1>2, <1>3 DEF TakeQueued, Goto, RequestedTo, ZeroLsn
<1>6. job' = [job EXCEPT ![t].item = ready, ![t].queued = TRUE]
  BY <1>3 DEF TakeQueued
<1>7. /\ job' \in [Thread -> Jobs] /\ job'[t].item = ready /\ job'[t].queued
      /\ job'[t].max = job[t].max /\ \A u \in Thread \ {t} : job'[u] = job[u]
  BY <1>2, <1>6 DEF Jobs
<1>8. /\ pc' \in [Thread -> States] /\ pc'[t] = "process"
      /\ \A u \in Thread \ {t} : pc'[u] = pc[u]
  BY <1>1, <1>5 DEF Shape, States, WorkStates
<1>9. Shape'
  BY <1>1, <1>2, <1>5, <1>7, <1>8 DEF Shape, Messages, Perm
<1>10. \A u \in Thread : WorkOf(u)'
  <2>1. ASSUME NEW u \in Thread \ {t}
        PROVE  WorkOf(u)'
    BY <1>2, <1>4, <1>5, <1>7, <1>8, <2>1 DEF WorkOf, WorkStates
  <2>2. WorkOf(t)'
    BY <1>1, <1>2, <1>3, <1>5, <1>7, <1>8 DEF WorkOf, WorkStates, Perm
  <2> QED BY <2>1, <2>2
<1>11. Alone'
  BY <1>4, <1>8 DEF Alone, WorkStates
<1>12. SwitchOwned'
  BY <1>1, <1>4, <1>5 DEF IInv, SwitchOwned, WorkStates
<1>13. QueueBeyond'
  BY <1>5 DEF IInv, QueueBeyond
<1>14. WaitingFirst'
  BY <1>7 DEF WaitingFirst
<1> QED BY <1>9, <1>10, <1>11, <1>12, <1>13, <1>14 DEF IInv

\* The record expected next is not in the queue: the thread asks for it,
\* returns what has become permanent, and drops the mutex.
LEMMA FinishStep ==
    ASSUME IInv, NEW t \in Thread, Finish(t), UNCHANGED written
    PROVE  IInv'
<1> DEFINE w == Waiting(t)
<1>1. Shape /\ WorkOf(t) /\ pc[t] = "next" /\ w # ready
  BY DEF IInv, Finish
<1>2. /\ ready \in Nat \ {0} /\ temp \subseteq 1 .. written /\ written \in Nat
      /\ job \in [Thread -> Jobs] /\ maxWait \in Nat /\ net \subseteq Messages
      /\ job[t].msg \in Nat /\ job[t].max \in Nat
  BY <1>1, KindType DEF Shape, Jobs
<1>3. temp \subseteq Nat \ {0} /\ w = First(temp) /\ w \in Nat /\ Syncing = {}
  <2>1. temp \subseteq Nat \ {0}
    BY <1>2
  <2> QED BY <1>1, <2>1, WaitingIsFirst, FirstExact
<1>4. \A u \in Thread \ {t} :
        pc[u] \notin WorkStates /\ ~job[u].queued /\ job[u].max = ZeroLsn
  BY <1>1, Solo
<1>5. /\ waiting' = w /\ clientdb' = NoThread
      /\ Return(t, job[t].msg, job[t].more) /\ ReturnPerm(job[t].max)
      /\ UNCHANGED <<log, flushed, ready, temp, newfile>>
  BY DEF Finish
<1>6. net' \subseteq Messages /\ maxWait' \in Nat
  <2>1. CASE w = ZeroLsn
    BY <1>2, <2>1 DEF Finish, ZeroLsn
  <2>2. CASE w # ZeroLsn
    <3>1. MaybeRequest(net, job[t].item, ready, w, RequestedTo(t))
      BY <2>2 DEF Finish
    <3>2. RequestedTo(t) \in Nat
      BY <1>2 DEF RequestedTo, ZeroLsn
    <3> HIDE DEF w
    <3> QED BY <1>2, <1>3, <3>1, <3>2, RequestWithin
  <2> QED BY <2>1, <2>2
<1> HIDE DEF w
<1>7. /\ pc' \in [Thread -> States] /\ job' \in [Thread -> Jobs]
      /\ pc'[t] \in {"idle", "more"} /\ ~job'[t].queued /\ job'[t].max = ZeroLsn
      /\ \A u \in Thread \ {t} : pc'[u] = pc[u] /\ job'[u] = job[u]
  BY <1>1, <1>2, <1>5, ReturnType
<1>8. /\ maxPerm' \in 0 .. flushed /\ acked' \in 0 .. maxPerm'
      /\ maxPerm' # ZeroLsn => Perm(maxPerm')
      /\ acked' # ZeroLsn => Perm(acked')
  <2>1. /\ maxPerm \in 0 .. flushed /\ acked \in 0 .. maxPerm
        /\ maxPerm # ZeroLsn => Perm(maxPerm)
        /\ acked # ZeroLsn => Perm(acked)
    BY <1>1 DEF Shape
  <2>2. job[t].max # ZeroLsn => job[t].max \in maxPerm .. flushed /\ Perm(job[t].max)
    BY <1>1 DEF WorkOf
  <2> QED BY <1>2, <1>5, <2>1, <2>2 DEF ReturnPerm
<1>9. Shape'
  BY <1>1, <1>2, <1>3, <1>5, <1>6, <1>7, <1>8 DEF Shape, Messages, Perm
<1>10. \A u \in Thread : WorkOf(u)'
  <2>1. ASSUME NEW u \in Thread \ {t}
        PROVE  WorkOf(u)'
    BY <1>4, <1>5, <1>7, <2>1, ThreadAssumption DEF WorkOf, WorkStates
  <2>2. WorkOf(t)'
    BY <1>5, <1>7, ThreadAssumption DEF WorkOf
  <2> QED BY <2>1, <2>2
<1>11. Alone'
  BY <1>4, <1>7 DEF Alone, WorkStates
<1>12. SwitchOwned'
  BY <1>1, <1>4, <1>5 DEF IInv, SwitchOwned, WorkStates
<1>13. QueueBeyond'
  <2>1. ASSUME ready \in temp
        PROVE  First(temp) = ready
    BY <1>3, <2>1, FirstExact DEF IInv, QueueBeyond
  <2> QED BY <1>1, <1>3, <1>5, <2>1 DEF IInv, QueueBeyond
<1>14. WaitingFirst'
  <2>1. Syncing' = {}
    BY <1>4, <1>7 DEF Syncing, WorkStates
  <2> QED BY <1>3, <1>5, <2>1 DEF WaitingFirst, First
<1> QED BY <1>9, <1>10, <1>11, <1>12, <1>13, <1>14 DEF IInv

\* What is left after a crash ends with a permanent record, and reaches what
\* was returned as permanent.
LEMMA CrashMatch ==
    ASSUME IInv, NEW n \in flushed .. Len(log)
    PROVE  /\ LastPerm(n) \in acked .. Len(log)
           /\ LastPerm(n) # ZeroLsn => Perm(LastPerm(n))
<1>1. /\ flushed \in Nat /\ Len(log) \in Nat /\ flushed <= Len(log)
      /\ acked \in Nat /\ acked <= flushed
      /\ acked # ZeroLsn => Perm(acked)
  BY DEF IInv, Shape
<1>2. n \in Nat /\ n <= Len(log) /\ flushed <= n
  BY <1>1
<1>3. /\ LastPerm(n) \in 0 .. n
      /\ LastPerm(n) # ZeroLsn => Perm(LastPerm(n))
      /\ \A i \in 1 .. n : Perm(i) => i <= LastPerm(n)
  BY <1>2, LastPermExact
<1>4. acked <= LastPerm(n)
  BY <1>1, <1>2, <1>3 DEF ZeroLsn
<1> QED BY <1>1, <1>2, <1>3, <1>4

LEMMA CrashStep ==
    ASSUME IInv, Crash
    PROVE  IInv'
<1>1. PICK n \in flushed .. Len(log) :
        LET match == LastPerm(n)
        IN  /\ match # ZeroLsn
            /\ log' = SubSeq(log, 1, match) /\ flushed' = match
            /\ ready' = match + 1 /\ maxPerm' = match
            /\ net' = Send(net, Req(match, ZeroLsn))
  BY DEF Crash
<1> DEFINE match == LastPerm(n)
<1>2. match \in acked .. Len(log) /\ match # ZeroLsn /\ Perm(match)
  BY <1>1, CrashMatch
<1>3. /\ log' = SubSeq(log, 1, match) /\ flushed' = match
      /\ ready' = match + 1 /\ maxPerm' = match
      /\ net' = Send(net, Req(match, ZeroLsn))
  BY <1>1
<1> HIDE DEF match
<1>4. Shape
  BY DEF IInv
<1>5. /\ acked \in Nat /\ log \in Seq(Nat) /\ Len(log) = ready - 1
      /\ ready - 1 <= written /\ ready \in Nat /\ written \in 0 .. Len(Kind)
      /\ net \subseteq Messages
      /\ acked # ZeroLsn => Perm(acked)
  BY <1>4 DEF Shape
<1>6. /\ match \in Nat \ {0} /\ match <= Len(log) /\ acked <= match
      /\ match <= written
  BY <1>2, <1>5, KindType DEF ZeroLsn
<1>7. log' \in Seq(Nat) /\ Len(log') = match
  BY <1>3, <1>5, <1>6
<1>8. net' \subseteq Messages
  <2>1. Req(match, ZeroLsn) \in Messages
    BY <1>6, ReqType DEF ZeroLsn
  <2> QED BY <1>3, <1>5, <2>1, SendWithin
<1>9. /\ waiting' = 0 /\ maxWait' = 0 /\ temp' = {} /\ newfile' = FALSE
      /\ clientdb' = NoThread /\ UNCHANGED <<written, acked>>
      /\ pc' = [t \in Thread |-> "idle"] /\ job' = [t \in Thread |-> NoJob]
  BY DEF Crash, ZeroLsn
<1>10. NoJob \in Jobs /\ ~NoJob.queued /\ NoJob.max = ZeroLsn
  BY DEF NoJob, Jobs, ZeroLsn
<1>11. Shape'
  <2>1. ready' \in Nat \ {0} /\ ready' - 1 <= written' /\ Len(log') = ready' - 1
    BY <1>3, <1>6, <1>7, <1>9
  <2>2. /\ flushed' \in 0 .. Len(log') /\ maxPerm' \in 0 .. flushed'
        /\ acked' \in 0 .. maxPerm'
    BY <1>3, <1>5, <1>6, <1>7, <1>9
  <2>3. (maxPerm # ZeroLsn => Perm(maxPerm))' /\ (acked # ZeroLsn => Perm(acked))'
    BY <1>2, <1>3, <1>5, <1>9 DEF Perm
  <2>4. pc' \in [Thread -> States] /\ job' \in [Thread -> Jobs]
    BY <1>9, <1>10 DEF States
  <2>5. net' \subseteq Messages'
    BY <1>8, <1>9 DEF Messages
  <2> QED BY <1>5, <1>7, <1>9, <2>1, <2>2, <2>3, <2>4, <2>5 DEF Shape
<1>12. \A t \in Thread : WorkOf(t)'
  BY <1>9, <1>10, ThreadAssumption DEF WorkOf
<1>13. Alone' /\ SwitchOwned' /\ QueueBeyond'
  BY <1>9 DEF Alone, SwitchOwned, QueueBeyond
<1>14. WaitingFirst'
  BY <1>9 DEF WaitingFirst, First, ZeroLsn
<1> QED BY <1>11, <1>12, <1>13, <1>14 DEF IInv

LEMMA InitIInv ==
    ASSUME Init
    PROVE  IInv
<1>1. NoJob \in Jobs /\ ~NoJob.queued /\ NoJob.max = ZeroLsn
  BY DEF NoJob, Jobs, ZeroLsn
<1> USE DEF Init
<1>2. Shape
  <2>1. pc \in [Thread -> States] /\ job \in [Thread -> Jobs]
    BY <1>1 DEF States
  <2>2. log \in Seq(Nat) /\ Len(log) = 0
    OBVIOUS
  <2>3. /\ written \in 0 .. Len(Kind) /\ ready \in Nat \ {0} /\ ready - 1 <= written
        /\ ready - 1 = 0
    BY KindType
  <2>4. /\ flushed \in 0 .. Len(log) /\ maxPerm \in 0 .. flushed /\ acked \in 0 .. maxPerm
        /\ waiting \in Nat /\ maxWait \in Nat /\ maxPerm = ZeroLsn
    BY <2>2 DEF ZeroLsn
  <2> QED BY <2>1, <2>2, <2>3, <2>4 DEF Shape
<1>3. \A t \in Thread : WorkOf(t)
  BY <1>1, ThreadAssumption DEF WorkOf
<1>4. Alone /\ SwitchOwned /\ QueueBeyond
  BY DEF Alone, SwitchOwned, QueueBeyond
<1>5. WaitingFirst
  BY DEF WaitingFirst, First, ZeroLsn
<1> QED BY <1>2, <1>3, <1>4, <1>5 DEF IInv

LEMMA NextIInv ==
    ASSUME IInv, [Next]_vars
    PROVE  IInv'
<1>1. CASE Write
  BY <1>1, WriteStep
<1>2. CASE Crash
  BY <1>2, CrashStep
<1>3. CASE \E m \in net : Serve(m) \/ Lose(m) \/ \E t \in Thread : Receive(t, m)
  BY <1>3, ServeStep, LoseStep, ReceiveStep
<1>4. ASSUME NEW t \in Thread, Step(t), UNCHANGED written
      PROVE  IInv'
  BY <1>4, ProcessRecordStep, NewfileStep, SwitchedStep, CkpStep, SyncedStep,
     TakeQueuedStep, FinishStep, RequestActions DEF Step
<1>5. CASE (Vote \/ ElectionFails) /\ UNCHANGED written
  BY <1>5, ElectionStep
<1>6. CASE UNCHANGED vars
  <2>1. Shape'
    BY <1>6 DEF vars, client, IInv, Shape, Messages, Perm
  <2>2. \A t \in Thread : WorkOf(t)'
    BY <1>6 DEF vars, client, IInv, WorkOf, Perm
  <2> QED BY <1>6, <2>1, <2>2
          DEF vars, client, IInv, Alone, SwitchOwned, QueueBeyond, WaitingFirst, First, Syncing
<1> QED BY <1>1, <1>2, <1>3, <1>4, <1>5, <1>6 DEF Next

-----------------------------------------------------------------------------
(* The theorems.                                                           *)

\* What the properties ask for follows from the invariant.
LEMMA IInvMeaning ==
    ASSUME IInv
    PROVE  WaitingExact /\ SyncFirst
<1>1. WaitingExact
  <2> SUFFICES ASSUME clientdb = NoThread, \A t \in Thread : pc[t] \notin {"sync", "switch"}
               PROVE  waiting = First(temp)
    BY DEF WaitingExact, First
  <2>1. \A t \in Thread : pc[t] \notin WorkStates
    BY ThreadAssumption DEF IInv, WorkOf, WorkStates
  <2>2. Syncing = {} /\ \A t \in Thread : ~job[t].queued
    BY <2>1 DEF IInv, WorkOf, Syncing, WorkStates
  <2> QED BY <2>2 DEF IInv, WaitingFirst
<1>2. SyncFirst
  <2> SUFFICES ASSUME NEW t \in Thread, pc[t] = "sync"
               PROVE  /\ temp # {} /\ Min(temp) = job[t].item
                      /\ \A u \in Thread \ {t} : pc[u] # "sync"
    BY DEF SyncFirst
  <2>1. temp # {} /\ Min(temp) = job[t].item
    BY SyncedIsFirst DEF IInv, WorkOf
  <2> QED BY <2>1 DEF IInv, Alone
<1> QED BY <1>1, <1>2

\* The inductive invariant holds of every reachable state.
THEOREM Invariant == Spec => []IInv
<1>1. Init => IInv
  BY InitIInv
<1>2. IInv /\ [Next]_vars => IInv'
  BY NextIInv
<1> QED BY <1>1, <1>2, PTL DEF Spec

\* lp->waiting_lsn is the first record of the temporary database, or zero.
THEOREM WaitingIsExact == Spec => []WaitingExact
BY Invariant, IInvMeaning, PTL

\* A checkpoint record is synced by one thread, and its copy is the first of
\* the queue as long as that takes.
THEOREM CheckpointSyncedAlone == Spec => []SyncFirst
BY Invariant, IInvMeaning, PTL

\* Each step of the client is a step of the abstract log, or changes none of it.
LEMMA StepRefines ==
    ASSUME IInv, [Next]_vars
    PROVE  [Log!Next]_(Log!vars)
<1> USE DEF Log!vars
<1>1. Shape /\ written \in Nat /\ Len(log) \in Nat /\ flushed \in Nat
  BY KindType DEF IInv, Shape
<1>2. CASE Write
  BY <1>2 DEF Write, client, Log!Next, Log!Write
<1>3. CASE Crash
  <2>1. PICK n \in flushed .. Len(log) :
          log' = SubSeq(log, 1, LastPerm(n)) /\ flushed' = LastPerm(n)
    BY <1>3 DEF Crash
  <2>2. LastPerm(n) \in acked .. Len(log)
    BY <2>1, CrashMatch
  <2>3. Len(log') = LastPerm(n)
    BY <1>1, <2>1, <2>2 DEF Shape
  <2>4. UNCHANGED <<written, acked>>
    BY <1>3 DEF Crash
  <2> QED BY <2>1, <2>2, <2>3, <2>4 DEF Log!Next, Log!Crash
<1>4. CASE \E m \in net : Serve(m) \/ Lose(m)
  BY <1>4 DEF Serve, Lose, client
<1>5. ASSUME NEW m \in net, NEW t \in Thread, Receive(t, m)
      PROVE  [Log!Next]_(Log!vars)
  <2>1. \/ ReceiveDup(t, m) \/ ReceiveLocked(t, m) \/ ReceiveNext(t, m)
        \/ UNCHANGED <<log, flushed, acked>>
    BY <1>5 DEF Receive, ReceiveEarly
  <2>2. UNCHANGED <<log, flushed>> /\ acked' \in {acked, maxPerm}
    BY <2>1 DEF ReceiveDup, ReceiveLocked, ReceiveNext, client, ReturnPerm
  <2>3. maxPerm \in acked .. flushed /\ acked \in acked .. flushed /\ written' = written
    BY <1>1, <1>5 DEF Shape, Receive
  <2> QED BY <2>2, <2>3 DEF Log!Next, Log!Ack
<1>6. ASSUME NEW t \in Thread, Step(t), UNCHANGED written
      PROVE  [Log!Next]_(Log!vars)
  <2>1. CASE ProcessRecord(t) \/ Switched(t) \/ Synced(t)
    <3>1. WorkOf(t) /\ pc[t] \in {"process", "sync", "switch"}
      BY <2>1 DEF IInv, ProcessRecord, Switched, Synced
    <3>2. job[t].item = Len(log) + 1 /\ Len(log) < written
      BY <1>1, <3>1 DEF WorkOf, Shape
    <3>3. /\ log' = Append(log, job[t].item)
          /\ flushed' \in {flushed, Len(log')} /\ UNCHANGED acked
      BY <2>1 DEF ProcessRecord, Switched, Synced, Put
    <3> QED BY <1>6, <3>2, <3>3 DEF Log!Next, Log!Copy
  <2>2. CASE Finish(t)
    <3>1. UNCHANGED <<log, flushed>>
      BY <2>2 DEF Finish, ReturnPerm
    <3>2. job[t].max # ZeroLsn => job[t].max \in maxPerm .. flushed
      BY DEF IInv, WorkOf
    <3>3. maxPerm \in Nat /\ acked \in 0 .. maxPerm /\ maxPerm <= flushed
      BY <1>1 DEF Shape
    <3>4. acked' \in acked .. flushed
      BY <1>1, <2>2, <3>1, <3>2, <3>3 DEF Finish, ReturnPerm
    <3> QED BY <1>6, <3>1, <3>4 DEF Log!Next, Log!Ack
  <2>3. CASE \/ ProcessNewfile(t) \/ ProcessCkp(t) \/ TakeQueued(t)
             \/ More(t) \/ CheckMissing(t) \/ Resend(t)
    BY <1>6, <2>3 DEF ProcessNewfile, ProcessCkp, TakeQueued, More, CheckMissing, Resend, client
  <2> QED BY <1>6, <2>1, <2>2, <2>3 DEF Step
<1>7. CASE (Vote \/ ElectionFails) /\ UNCHANGED written
  BY <1>7 DEF Vote, ElectionFails, client
<1>8. CASE UNCHANGED vars
  BY <1>8 DEF vars, client
<1> QED BY <1>2, <1>3, <1>4, <1>5, <1>6, <1>7, <1>8 DEF Next

\* The client implements log replication: its log is a beginning of the
\* master's, what it has called permanent survives a crash and advances.
THEOREM ImplementsLog == Spec => LogSpec
<1>1. Init => Log!Init
  BY DEF Init, Log!Init, ZeroLsn
<1>2. IInv /\ [Next]_vars => [Log!Next]_(Log!vars)
  BY StepRefines
<1> QED BY <1>1, <1>2, Invariant, PTL DEF Spec, LogSpec, Log!Spec
=============================================================================
