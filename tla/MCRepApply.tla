----------------------------- MODULE MCRepApply -----------------------------
(* Small instances of RepApply for TLC: a checkpoint right before a switch   *)
(* of log files, and records to lose on both sides of them.                 *)
EXTENDS RepApply, TLC

FiveItems == <<"commit", "ckp", "newfile", "other", "commit">>
FourItems == <<"commit", "ckp", "newfile", "commit">>

ThreadSymmetry == Permutations(Thread)
=============================================================================
