--------------------------- MODULE MCLockDetect ---------------------------
(* Instances of LockDetect for TLC.                                        *)
EXTENDS LockDetect, TLC

CONSTANTS oa, ob, oc, od

\* A program from the accesses of lockers 0, 1, 2 and 3.
Prog(p0, p1, p2, p3) ==
    (0 :> p0) @@ (1 :> p1) @@ (2 :> p2) @@ (3 :> p3)
R(o) == <<o, "R">>
W(o) == <<o, "W">>

\* Exclusive locks: a pair that deadlocks and one that waits for it; two
\* pairs; a ring of three and one that waits for it.
Pair == Prog(<<W(oa), W(ob)>>, <<W(ob), W(oa)>>, <<W(oa)>>, <<>>)
Pairs == Prog(<<W(oa), W(ob)>>, <<W(oc), W(od)>>, <<W(od), W(oc)>>,
              <<W(ob), W(oa)>>)
Chase == Prog(<<W(oa), W(ob)>>, <<W(ob), W(oc)>>,
              <<W(oc), W(oa), W(ob)>>, <<W(oa)>>)

\* Readers that turn writers, and a reader queued behind a writer.
Upgraders == Prog(<<R(oa), W(oa)>>, <<R(oa), W(ob), W(oa)>>,
                  <<R(ob), W(oa)>>, <<R(oa)>>)
Behind == Prog(<<R(oa), W(ob)>>, <<W(oa)>>, <<W(ob), R(oa)>>, <<R(oa), W(oa)>>)

ABCD == {oa, ob, oc, od}
Equal == [l \in Lockers |-> 0]
Uneven == [l \in Lockers |-> IF l = 2 THEN 1 ELSE 3 - l]
Half == [l \in Lockers |-> IF l < 2 THEN 1 ELSE 0]
Set(a, k, m, p) == [accesses |-> a, kind |-> k, merit |-> m, priority |-> p]

SomeSettings ==
    {Set(Pair, "default", Equal, Equal),
     Set(Pairs, "merit", Uneven, Half),
     Set(Chase, "merit", Uneven, Equal),
     Set(Upgraders, "default", Equal, Equal),
     Set(Behind, "default", Equal, Equal)}
=============================================================================
