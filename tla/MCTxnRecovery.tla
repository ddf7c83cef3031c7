--------------------------- MODULE MCTxnRecovery ---------------------------
(* Instances of TxnRecovery for TLC.                                       *)
EXTENDS TxnRecovery
CONSTANTS p1, p2
OnePage == {p1}
PageSymmetry == Permutations(Pages)
TwoPages == {p1, p2}
\* Bounds: one transaction is prepared; the application asks for a checkpoint,
\* or a page is evicted, and in histories with a prepared transaction neither
\* goes with two crashes.
Bounds ==
    /\ Cardinality(said.voted) <= 1 /\ ckps + evictions <= 1
    /\ ckps + evictions + crashes <= 2 \/ said.voted = {}
=============================================================================
