----------------------------- MODULE MCRepElect -----------------------------
(* A small instance of RepElect for TLC: three sites of one priority.  The   *)
(* former master, site 3, has records of the previous generation that were  *)
(* never replicated; site 2 has all the master has.                         *)
EXTENDS RepElect

MCPriority == [s \in Site |-> 1]

MCFirstData ==
  [s \in Site |-> IF s = 3 THEN [datagen |-> 1, lsn |-> 3] ELSE [datagen |-> 3, lsn |-> 2]]
=============================================================================
