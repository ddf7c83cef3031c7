------------------------------ MODULE IdSpace ------------------------------
(* The ids that are free for use again: common/db_idspace.c.               *)
EXTENDS Integers, FiniteSets, SequencesExt

\* __db_idspace: the largest gap between the ids in use, as <<lo, hi>>: the
\* next id is lo + 1 and the last one hi.  lo and hi come in as the bounds.
FreeIds(inuse, lo, hi) ==
    LET ids == SetToSortSeq(inuse, <)
        n == Len(ids)
        gap(i) == ids[i + 1] - ids[i]
        widest == CHOOSE i \in 1 .. n - 1 :
                     \A j \in 1 .. n - 1 :
                        gap(j) < gap(i) \/ (gap(j) = gap(i) /\ i <= j)
        around == <<IF ids[n] # hi THEN ids[n] ELSE lo, ids[1] - 1>>
    IN  IF n = 1 \/ (hi - ids[n]) + (ids[1] - lo) > gap(widest)
        THEN around
        ELSE <<ids[widest], ids[widest + 1] - 1>>
=============================================================================
