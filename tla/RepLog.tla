------------------------------- MODULE RepLog -------------------------------
(***************************************************************************)
(* What log replication promises an application (the client side of         *)
(* src/rep/rep_record.c and rep_log.c): the log of a client is always a     *)
(* beginning of the master's, in its order and without a hole, it loses     *)
(* nothing it has called permanent, and what it calls permanent advances.   *)
(* Positions in the master's log stand for LSNs.                            *)
(***************************************************************************)
EXTENDS Naturals, Sequences

VARIABLES
  written,  \* the length of the master's log
  copied,   \* the client's: the positions its records have in the master's
  stable,   \* how much of that a crash of the client would leave
  acked     \* the last position for which DB_REP_ISPERM was returned

vars == <<written, copied, stable, acked>>

Init == written = 0 /\ copied = <<>> /\ stable = 0 /\ acked = 0

Write == written' = written + 1 /\ UNCHANGED <<copied, stable, acked>>

(* One record, or the switch to the next file, and perhaps the flush of     *)
(* everything up to it.                                                     *)
Copy ==
  /\ Len(copied) < written
  /\ copied' = Append(copied, Len(copied) + 1)
  /\ stable' \in {stable, Len(copied')}
  /\ UNCHANGED <<written, acked>>

Ack ==
  /\ acked' \in acked .. stable
  /\ UNCHANGED <<written, copied, stable>>

Crash ==
  /\ \E n \in acked .. Len(copied) : copied' = SubSeq(copied, 1, n)
  /\ stable' = Len(copied')
  /\ UNCHANGED <<written, acked>>

Next == Write \/ Copy \/ Ack \/ Crash

Spec == Init /\ [][Next]_vars
=============================================================================
