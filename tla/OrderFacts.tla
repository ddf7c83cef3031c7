---------------------------- MODULE OrderFacts ----------------------------
(***************************************************************************)
(* Facts about order.  A nonempty set of numbers has a least element, a    *)
(* bounded or a finite one has a greatest.  The lists of ShQueue order     *)
(* their members by position: what the operations do to a list of elements *)
(* of a finite set is a list again, with the members one expects.          *)
(***************************************************************************)
EXTENDS ShQueue, FiniteSetsExt, FiniteSetTheorems, WellFoundedInduction, TLAPS

\* A nonempty set of natural numbers has a least one.
LEMMA LeastNat ==
    ASSUME NEW T, T \subseteq Nat, T # {}
    PROVE  \E x \in T : \A y \in T : x <= y
<1> DEFINE R == {ss \in Nat \X Nat : ss[1] < ss[2]}
<1>1. IsWellFoundedOn(R, Nat)
  BY NatLessThanWellFounded DEF OpToRel
<1>2. \A x, y \in Nat : <<y, x>> \notin R => x <= y
  OBVIOUS
<1> HIDE DEF R
<1>3. \E x \in T : \A y \in T : <<y, x>> \notin R
  BY <1>1, WFMin
<1> QED BY <1>2, <1>3

\* What holds before the first turn of a loop and is kept by every turn holds
\* after each of them.
LEMMA Loop ==
    ASSUME NEW M \in Nat, NEW S, 0 \in S,
           \A n \in 1 .. M : n - 1 \in S => n \in S
    PROVE  \A n \in 0 .. M : n \in S
<1> DEFINE T == {n \in 0 .. M : n \notin S}
<1> SUFFICES ASSUME T # {} PROVE FALSE
  OBVIOUS
<1>1. T \subseteq Nat
  OBVIOUS
<1>2. PICK t \in T : \A y \in T : t <= y
  <2> HIDE DEF T
  <2> QED BY <1>1, LeastNat
<1>3. t \in 1 .. M /\ t \notin S
  BY <1>2
<1>4. t - 1 \in 0 .. M /\ ~(t <= t - 1)
  BY <1>3
<1>5. t - 1 \notin T
  BY <1>2, <1>4
<1> QED BY <1>3, <1>4, <1>5

\* Min is defined by CHOOSE; on such a set it names that element.
THEOREM MinNat ==
    ASSUME NEW T, T \subseteq Nat, T # {}
    PROVE  Min(T) \in T /\ \A y \in T : Min(T) <= y
BY LeastNat DEF Min

\* The greatest of those below a bound is the least distance to it.
THEOREM MaxNat ==
    ASSUME NEW T, T \subseteq Nat, T # {},
           NEW n \in Nat, \A y \in T : y <= n
    PROVE  Max(T) \in T /\ \A y \in T : y <= Max(T)
<1> DEFINE D == {n - y : y \in T}
<1>1. D \subseteq Nat /\ D # {}
  <2>1. \A y \in T : n - y \in Nat
    OBVIOUS
  <2>2. D \subseteq Nat
    BY <2>1
  <2>3. D # {}
    OBVIOUS
  <2> QED BY <2>2, <2>3
<1>2. PICK d \in D : \A e \in D : d <= e
  <2> HIDE DEF D
  <2> QED BY <1>1, LeastNat
<1>3. PICK x \in T : d = n - x
  OBVIOUS
<1>4. \A y \in T : y <= x
  BY <1>2, <1>3
<1>5. \E z \in T : \A y \in T : z >= y
  BY <1>4
<1> QED BY <1>5 DEF Max

\* A finite nonempty set of natural numbers has a greatest one: the one with
\* the fewest above it.
LEMMA GreatestNat ==
    ASSUME NEW T, T \subseteq Nat, T # {}, IsFiniteSet(T)
    PROVE  \E x \in T : \A y \in T : y <= x
<1> DEFINE Above(x) == {y \in T : y > x}
           N == {Cardinality(Above(x)) : x \in T}
<1>1. \A x \in T : IsFiniteSet(Above(x)) /\ Cardinality(Above(x)) \in Nat
  BY FS_Subset, FS_CardinalityType
<1>2. PICK n \in N : \A m \in N : n <= m
  <2>1. N \subseteq Nat /\ N # {}
    BY <1>1
  <2> HIDE DEF N
  <2> QED BY <2>1, LeastNat
<1>3. PICK x \in T : n = Cardinality(Above(x))
  OBVIOUS
<1>4. \A y \in T : ~(y > x)
  <2> SUFFICES ASSUME NEW y \in T, y > x PROVE FALSE
    OBVIOUS
  <2>1. Above(y) \subseteq Above(x) /\ y \in Above(x) /\ y \notin Above(y)
    <3>1. \A z \in Nat : z > y => z > x
      OBVIOUS
    <3>2. ~(y > y)
      OBVIOUS
    <3> QED BY <3>1, <3>2
  <2>2. Cardinality(Above(y)) < Cardinality(Above(x))
    <3> HIDE DEF Above
    <3>1. Above(y) # Above(x)
      BY <2>1
    <3> QED BY <1>1, <2>1, <3>1, FS_Subset
  <2>3. n <= Cardinality(Above(y)) /\ n \in Nat
    BY <1>1, <1>2, <1>3
  <2> QED BY <1>1, <1>3, <2>2, <2>3
<1> QED BY <1>4
\* SH_TAILQ_FIRST and the walks over part of a list find an element of that
\* part, and no other one is before it.
THEOREM FirstInMember ==
    ASSUME NEW S, NEW q, IsList(q, S), NEW T, T \subseteq Members(q), T # {}
    PROVE  /\ FirstIn(q, T) \in T
           /\ \A j \in T : q[FirstIn(q, T)] <= q[j]
<1> DEFINE P == {q[i] : i \in T}
<1>1. P \subseteq Nat /\ P # {}
  BY DEF IsList, Members
<1>2. PICK x \in P : \A y \in P : x <= y
  <2> HIDE DEF P
  <2> QED BY <1>1, LeastNat
<1>3. \E i \in T : \A j \in T : q[i] <= q[j]
  BY <1>2
<1> QED BY <1>3 DEF FirstIn

\* A list of elements of a finite set has finitely many members, and so has
\* every part of it.
LEMMA PartsFinite ==
    ASSUME NEW S, IsFiniteSet(S), NEW q, IsList(q, S), NEW T, T \subseteq Members(q)
    PROVE  IsFiniteSet(T) /\ Cardinality(T) \in Nat
BY FS_Subset, FS_CardinalityType DEF IsList

\* A rank is a number.
LEMMA RankType ==
    ASSUME NEW S, IsFiniteSet(S), NEW q, IsList(q, S),
           NEW T, T \subseteq Members(q), NEW i
    PROVE  Rank(q, T, i) \in Nat
<1> DEFINE U == {j \in T : q[j] <= q[i]}
<1>1. U \subseteq Members(q)
  OBVIOUS
<1>2. Cardinality(U) \in Nat
  <2> HIDE DEF U
  <2> QED BY <1>1, PartsFinite
<1> QED BY <1>2 DEF Rank

\* The empty list has no members.
THEOREM EmptyListType ==
    ASSUME NEW S
    PROVE  IsList(EmptyList, S) /\ Members(EmptyList) = {}
BY DEF IsList, EmptyList, Members

\* Inserting at the head adds that one element.
THEOREM InsertHeadType ==
    ASSUME NEW S, NEW q, IsList(q, S), NEW i \in S
    PROVE  /\ IsList(InsertHead(q, i), S)
           /\ Members(InsertHead(q, i)) = Members(q) \cup {i}
BY DEF IsList, Members, InsertHead

\* An insertion behind the first element adds that one element.
THEOREM InsertSecondType ==
    ASSUME NEW S, NEW q, IsList(q, S), NEW i \in S
    PROVE  /\ IsList(InsertSecond(q, i), S)
           /\ Members(InsertSecond(q, i)) = Members(q) \cup {i}
BY DEF IsList, Members, InsertSecond

\* An insertion at the tail adds that one element.
THEOREM InsertTailType ==
    ASSUME NEW S, IsFiniteSet(S), NEW q, IsList(q, S), NEW i \in S
    PROVE  /\ IsList(InsertTail(q, i), S)
           /\ Members(InsertTail(q, i)) = Members(q) \cup {i}
<1>1. Cardinality(DOMAIN q) \in Nat
  BY PartsFinite DEF Members
<1> QED BY <1>1 DEF IsList, Members, InsertTail

\* Removing elements leaves the others.
THEOREM RemoveAllType ==
    ASSUME NEW S, IsFiniteSet(S), NEW q, IsList(q, S), NEW T
    PROVE  /\ IsList(RemoveAll(q, T), S)
           /\ Members(RemoveAll(q, T)) = Members(q) \ T
<1>1. \A i : Rank(q, DOMAIN q \ T, i) \in Nat
  BY RankType DEF Members
<1> QED BY <1>1 DEF IsList, Members, RemoveAll

\* Moving part of a list to another one adds that part.
THEOREM AppendAllType ==
    ASSUME NEW S, IsFiniteSet(S), NEW q, IsList(q, S), NEW r, IsList(r, S),
           NEW T, T \subseteq Members(r)
    PROVE  /\ IsList(AppendAll(q, r, T), S)
           /\ Members(AppendAll(q, r, T)) = Members(q) \cup T
<1>1. \A i : Rank(r, T, i) \in Nat
  BY RankType
<1>2. Cardinality(DOMAIN q) \in Nat
  BY PartsFinite DEF Members
<1> QED BY <1>1, <1>2 DEF IsList, Members, AppendAll

-----------------------------------------------------------------------------
(* Places.                                                                 *)

\* Every member has a place of its own, none is past the last, and there is a
\* first one unless the list is empty.
IsQueue(q) ==
    /\ \A i \in Members(q) : q[i] >= 1 /\ q[i] <= Cardinality(Members(q))
    /\ \A i, j \in Members(q) : q[i] = q[j] => i = j
    /\ Members(q) # {} => \E i \in Members(q) : q[i] = 1

\* Ranks are in the order of the places they are counted from.
LEMMA RankOrder ==
    ASSUME NEW S, IsFiniteSet(S), NEW q, IsList(q, S),
           NEW T, T \subseteq Members(q), NEW i \in T, NEW j \in T
    PROVE  /\ Rank(q, T, i) \in 1 .. Cardinality(T)
           /\ Rank(q, T, i) <= Rank(q, T, j) <=> q[i] <= q[j]
<1> DEFINE U(k) == {m \in T : q[m] <= q[k]}
<1>1. IsFiniteSet(T) /\ Cardinality(T) \in Nat
  BY PartsFinite
<1>2. \A k \in T : q[k] \in Nat
  BY DEF IsList
<1>3. \A k \in T : /\ U(k) \subseteq T /\ k \in U(k) /\ IsFiniteSet(U(k))
                   /\ Rank(q, T, k) = Cardinality(U(k))
                   /\ Rank(q, T, k) \in Nat /\ Rank(q, T, k) <= Cardinality(T)
  <2> SUFFICES ASSUME NEW k \in T
               PROVE  /\ U(k) \subseteq T /\ k \in U(k) /\ IsFiniteSet(U(k))
                      /\ Rank(q, T, k) = Cardinality(U(k))
                      /\ Rank(q, T, k) \in Nat /\ Rank(q, T, k) <= Cardinality(T)
    OBVIOUS
  <2>1. U(k) \in SUBSET T /\ k \in U(k) /\ Rank(q, T, k) = Cardinality(U(k))
    BY <1>2 DEF Rank
  <2> HIDE DEF U
  <2>2. IsFiniteSet(U(k)) /\ Cardinality(U(k)) <= Cardinality(T)
    BY <1>1, <2>1, FS_Subset
  <2> QED BY <2>1, <2>2, FS_CardinalityType
<1>4. Rank(q, T, i) >= 1
  <2>1. U(i) # {}
    BY <1>3
  <2> HIDE DEF U
  <2>2. Cardinality(U(i)) # 0
    BY <1>3, <2>1, FS_EmptySet
  <2> QED BY <1>3, <2>2
<1>5. ASSUME NEW k \in T, NEW m \in T, q[k] <= q[m]
      PROVE  Rank(q, T, k) <= Rank(q, T, m)
  <2>1. U(k) \in SUBSET U(m)
    BY <1>2, <1>5
  <2> HIDE DEF U
  <2> QED BY <1>3, <2>1, FS_Subset
<1>6. ASSUME NEW k \in T, NEW m \in T, q[k] < q[m]
      PROVE  Rank(q, T, k) < Rank(q, T, m)
  <2>1. U(k) \in SUBSET U(m) /\ m \notin U(k) /\ m \in U(m)
    BY <1>2, <1>6
  <2> HIDE DEF U
  <2>2. Cardinality(U(k)) <= Cardinality(U(m)) /\ Cardinality(U(k)) # Cardinality(U(m))
    BY <1>3, <2>1, FS_Subset
  <2> QED BY <1>3, <2>2
<1>7. q[i] <= q[j] \/ q[j] < q[i]
  BY <1>2
<1> HIDE DEF U
<1>8. Rank(q, T, i) \in Nat /\ Rank(q, T, j) \in Nat /\ Rank(q, T, i) <= Cardinality(T)
  BY <1>3
<1>9. q[i] <= q[j] => Rank(q, T, i) <= Rank(q, T, j)
  BY <1>5
<1>10. q[j] < q[i] => Rank(q, T, j) < Rank(q, T, i)
  BY <1>6
<1>11. q[i] \in Nat /\ q[j] \in Nat
  BY <1>2
<1> QED BY <1>1, <1>4, <1>8, <1>9, <1>10, <1>11

\* The members that stay keep their order.
THEOREM RemoveAllQueue ==
    ASSUME NEW S, IsFiniteSet(S), NEW q, IsList(q, S), IsQueue(q), NEW T
    PROVE  /\ IsQueue(RemoveAll(q, T))
           /\ \A i, j \in Members(q) \ T :
                RemoveAll(q, T)[i] <= RemoveAll(q, T)[j] <=> q[i] <= q[j]
<1> DEFINE R == Members(q) \ T
           p == RemoveAll(q, T)
<1>1. IsList(p, S) /\ Members(p) = R /\ \A i \in R : p[i] = Rank(q, R, i)
  BY RemoveAllType DEF RemoveAll, Members
<1>2. \A i, j \in R : p[i] \in 1 .. Cardinality(R) /\ (p[i] <= p[j] <=> q[i] <= q[j])
  BY <1>1, RankOrder
<1>3. \A i, j \in R : p[i] = p[j] => i = j
  <2>1. \A i \in R : q[i] \in Nat
    BY DEF IsList
  <2>2. \A i \in R : p[i] \in Nat
    BY <1>1 DEF IsList
  <2> HIDE DEF p
  <2>3. \A i, j \in R : p[i] = p[j] => q[i] = q[j]
    BY <1>2, <2>1, <2>2
  <2> QED BY <2>3 DEF IsQueue
<1>4. R # {} => \E i \in R : p[i] = 1
  <2> SUFFICES ASSUME R # {} PROVE \E i \in R : p[i] = 1
    OBVIOUS
  <2> DEFINE i == FirstIn(q, R)
  <2>1. i \in R /\ \A j \in R : q[i] <= q[j]
    BY FirstInMember
  <2>2. \A j \in R : q[j] <= q[i] => j = i
    BY <2>1 DEF IsQueue, IsList
  <2> HIDE DEF i
  <2>3. {j \in R : q[j] <= q[i]} = {i}
    BY <2>1, <2>2 DEF IsList
  <2>4. Rank(q, R, i) = 1
    BY <2>3, FS_Singleton DEF Rank
  <2> QED BY <1>1, <2>1, <2>4
<1> HIDE DEF p, R
<1>5. \A i \in R : p[i] >= 1 /\ p[i] <= Cardinality(R)
  <2>1. \A i \in R : p[i] \in 1 .. Cardinality(R)
    BY <1>2
  <2>2. Cardinality(R) \in Nat
    BY PartsFinite DEF R
  <2> QED BY <2>1, <2>2
<1>6. IsQueue(p)
  BY <1>1, <1>3, <1>4, <1>5 DEF IsQueue
<1> QED BY <1>2, <1>6 DEF p, R

\* A new member is the first, the second or the last.
THEOREM InsertQueue ==
    ASSUME NEW S, IsFiniteSet(S), NEW q, IsList(q, S), IsQueue(q),
           NEW i \in S, i \notin Members(q)
    PROVE  /\ IsQueue(InsertHead(q, i)) /\ IsQueue(InsertTail(q, i))
           /\ Members(q) # {} => IsQueue(InsertSecond(q, i))
           /\ \A j \in Members(q) :
                /\ InsertHead(q, i)[j] # 1
                /\ InsertTail(q, i)[j] = q[j]
                /\ InsertSecond(q, i)[j] = 1 <=> q[j] = 1
           /\ InsertSecond(q, i)[i] # 1
           /\ Members(q) # {} => InsertTail(q, i)[i] # 1
<1> DEFINE n == Cardinality(Members(q))
<1>1. n \in Nat /\ (Members(q) # {} => n # 0) /\ (Members(q) = {} => n = 0)
  BY PartsFinite, FS_EmptySet
<1>2. Cardinality(Members(q) \cup {i}) = n + 1
  BY PartsFinite, FS_AddElement
<1>3. \A j \in Members(q) : q[j] \in Nat /\ q[j] >= 1 /\ q[j] <= n
  BY DEF IsQueue, IsList
<1>4. \A j, k \in Members(q) : q[j] = q[k] => j = k
  BY DEF IsQueue
<1>5. Members(q) # {} => \E j \in Members(q) : q[j] = 1
  BY DEF IsQueue
<1> HIDE DEF n
<1>6. /\ Members(InsertHead(q, i)) = Members(q) \cup {i} /\ InsertHead(q, i)[i] = 1
      /\ \A j \in Members(q) : InsertHead(q, i)[j] = q[j] + 1
  BY DEF InsertHead, Members
<1>7. /\ Members(InsertTail(q, i)) = Members(q) \cup {i} /\ InsertTail(q, i)[i] = n + 1
      /\ \A j \in Members(q) : InsertTail(q, i)[j] = q[j]
  BY DEF InsertTail, Members, n
<1>8. /\ Members(InsertSecond(q, i)) = Members(q) \cup {i} /\ InsertSecond(q, i)[i] = 2
      /\ \A j \in Members(q) : InsertSecond(q, i)[j] = IF q[j] = 1 THEN 1 ELSE q[j] + 1
  BY DEF InsertSecond, Members
<1>9. IsQueue(InsertHead(q, i))
  BY <1>1, <1>2, <1>3, <1>4, <1>6 DEF IsQueue
<1>10. IsQueue(InsertTail(q, i))
  <2>1. \E j \in Members(q) \cup {i} : InsertTail(q, i)[j] = 1
    BY <1>1, <1>5, <1>7
  <2> QED BY <1>1, <1>2, <1>3, <1>4, <1>7, <2>1 DEF IsQueue
<1>11. ASSUME Members(q) # {} PROVE IsQueue(InsertSecond(q, i))
  <2>1. \E j \in Members(q) \cup {i} : InsertSecond(q, i)[j] = 1
    BY <1>5, <1>8, <1>11
  <2>2. n >= 1
    BY <1>1, <1>11
  <2> QED BY <1>1, <1>2, <1>3, <1>4, <1>8, <2>1, <2>2 DEF IsQueue
<1> QED BY <1>1, <1>3, <1>6, <1>7, <1>8, <1>9, <1>10, <1>11
=============================================================================
