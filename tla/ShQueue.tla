------------------------------ MODULE ShQueue ------------------------------
(***************************************************************************)
(* The shared-memory lists of dbinc/shqueue.h (SH_LIST, SH_TAILQ).         *)
(*                                                                         *)
(* A list is the function from its members to their positions 1, 2, ...    *)
(* Membership is then the domain of the function, "earlier in the list" is *)
(* a comparison of positions, and taking members out closes the gaps they  *)
(* leave.  An element is on a list at most once, as its link fields demand.*)
(***************************************************************************)
EXTENDS Integers, FiniteSets

EmptyList == [i \in {} |-> 0]

Members(q) == DOMAIN q

\* Is q a list of elements of S?  Is f an array of such lists, indexed by D?
IsList(q, S) == Members(q) \subseteq S /\ q \in [Members(q) -> Nat]

IsListArray(f, D, S) ==
    f = [d \in D |-> f[d]] /\ \A d \in D : IsList(f[d], S)

\* Position of i among the members S of q.
Rank(q, S, i) == Cardinality({j \in S : q[j] <= q[i]})

\* SH_LIST_INSERT_HEAD, SH_TAILQ_INSERT_HEAD
InsertHead(q, i) ==
    [j \in DOMAIN q \cup {i} |-> IF j = i THEN 1 ELSE q[j] + 1]

\* SH_TAILQ_INSERT_TAIL
InsertTail(q, i) ==
    [j \in DOMAIN q \cup {i} |-> IF j = i THEN Cardinality(DOMAIN q) + 1 ELSE q[j]]

\* SH_TAILQ_INSERT_AFTER with the first element as the list element
InsertSecond(q, i) ==
    [j \in DOMAIN q \cup {i} |->
        IF j = i THEN 2 ELSE IF q[j] = 1 THEN 1 ELSE q[j] + 1]

\* SH_LIST_REMOVE or SH_TAILQ_REMOVE of each element of S
RemoveAll(q, S) ==
    [i \in DOMAIN q \ S |-> Rank(q, DOMAIN q \ S, i)]

\* The members S of r moved one after the other, in the order of r, to the
\* tail of q.
AppendAll(q, r, S) ==
    [i \in DOMAIN q \cup S |->
        IF i \in S THEN Cardinality(DOMAIN q) + Rank(r, S, i) ELSE q[i]]

\* The element of S that comes first in q.
FirstIn(q, S) == CHOOSE i \in S : \A j \in S : q[i] <= q[j]
=============================================================================
