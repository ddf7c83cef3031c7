----------------------------- MODULE MCBufPool -----------------------------
(* Instances of BufPool for TLC.                                           *)
EXTENDS BufPool, TLC
CONSTANTS t1, t2, s1, s2, p1, p2, b1, b2
Two == {t1, t2}
OneSyncer == {s1}
TwoSyncers == {s1, s2}
TwoPages == {p1, p2}
OnePage == {p1}
TwoBufs == {b1, b2}
Symmetry == Permutations(Threads) \cup Permutations(Syncers)
                \cup Permutations(Pages) \cup Permutations(Bufs)
=============================================================================
