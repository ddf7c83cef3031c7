------------------------------ MODULE MCLogMgr ------------------------------
(* Instances of LogMgr for TLC.                                            *)
EXTENDS LogMgr, TLC

CONSTANTS th1, th2, th3, nobody

TwoThreads == {th1, th2}
ThreeThreads == {th1, th2, th3}
ThreadSymmetry == Permutations(Threads)
=============================================================================
