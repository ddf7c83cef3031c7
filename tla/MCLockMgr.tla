----------------------------- MODULE MCLockMgr -----------------------------
(* Instances of LockMgr for TLC.                                           *)
EXTENDS LockMgr, TLC

CONSTANTS t1, t2, t3, o1, none

\* Unrelated transactions, interchangeable.
Flat3 == {t1, t2, t3}
Flat3Parent == [l \in Flat3 |-> none]
Flat3Ancestors == [l \in Flat3 |-> {}]
OneObj == {o1}
FlatSymmetry == Permutations(Flat3)
Ids3 == 1..3
Ids4 == 1..4

\* A transaction par with a child c1 and either a second child c2 or an
\* unrelated transaction t1.
CONSTANTS par, c1, c2
Nest == {par, c1, c2}
NestParent == [l \in Nest |-> IF l = par THEN none ELSE par]
NestAncestors == [l \in Nest |-> IF l = par THEN {} ELSE {par}]
NestSymmetry == Permutations({c1, c2})
NestT == {par, c1, t1}
NestTParent == [l \in NestT |-> IF l = c1 THEN par ELSE none]
NestTAncestors == [l \in NestT |-> IF l = c1 THEN {par} ELSE {}]

\* Concurrent Data Store: a write cursor turns its IWRITE lock into a WRITE
\* lock for each update; cursor c1 belongs to the family of par, cursor t1 to none.
CdbUpgrades == {<<"IW", "W">>}
CdbDowngrades == {<<"W", "IW">>}
CdbRoots == {par}
CdbTimed == {t1}
=============================================================================
