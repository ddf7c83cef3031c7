-------------------------- MODULE TxnRecovery_proof --------------------------
(***************************************************************************)
(* Theorems about TxnRecovery, until the environment first crashes: locks, *)
(* nested transactions, aborts, checkpoints and the store that the pages   *)
(* stand for, for any number of transactions, pages, writes, checkpoints   *)
(* and evictions.  What recovery then makes of the log and the files is    *)
(* checked by TLC.                                                         *)
(***************************************************************************)
EXTENDS TxnRecovery, OrderFacts

\* What holds of 1 and passes from the numbers below one to it holds of all.
LEMMA UpTo ==
    ASSUME NEW M \in Nat, NEW S,
           \A n \in 1 .. M : (\A m \in 1 .. n - 1 : m \in S) => n \in S
    PROVE  \A n \in 1 .. M : n \in S
<1> DEFINE T == {n \in 1 .. M : n \notin S}
<1> SUFFICES ASSUME T # {} PROVE FALSE
  OBVIOUS
<1>1. T \subseteq Nat
  OBVIOUS
<1>2. PICK t \in T : \A y \in T : t <= y
  <2> HIDE DEF T
  <2> QED BY <1>1, LeastNat
<1>3. \A m \in 1 .. t - 1 : m \in S
  <2>1. t \in 1 .. M
    OBVIOUS
  <2>2. \A m \in 1 .. t - 1 : m \in 1 .. M /\ ~(t <= m)
    BY <2>1
  <2> QED BY <1>2, <2>2
<1> QED BY <1>2, <1>3

-----------------------------------------------------------------------------
(* Families.                                                               *)

\* Is L what Lineage is when the parents are par?
IsLine(L, par) ==
    /\ L \in [Txns -> SUBSET Txns]
    /\ \A h \in Txns :
         L[h] = {h} \cup (IF par[h] = NoTxn THEN {} ELSE L[par[h]])

\* A parent's number is lower than its child's.
IsTree(par) == par \in [Txns -> 0 .. MaxTxns] /\ \A h \in Txns : par[h] < h

\* A function on the transactions can be defined by way of the parent.
LEMMA LineExists ==
    ASSUME NEW par, IsTree(par)
    PROVE  \E L : IsLine(L, par)
<1> USE DEF Txns, NoTxn
<1>0. MaxTxns \in Nat
  BY TxnAssumption
<1> DEFINE Line(m, f) ==
             /\ f \in [1 .. m -> SUBSET Txns]
             /\ \A h \in 1 .. m :
                  f[h] = {h} \cup (IF par[h] = 0 THEN {} ELSE f[par[h]])
           S == {m \in 0 .. MaxTxns : \E f : Line(m, f)}
<1>1. 0 \in S
  <2>1. Line(0, [h \in 1 .. 0 |-> {}])
    OBVIOUS
  <2> HIDE DEF Line
  <2> QED BY <1>0, <2>1
<1>2. ASSUME NEW m \in 1 .. MaxTxns, m - 1 \in S PROVE m \in S
  <2>1. PICK f : Line(m - 1, f)
    BY <1>2
  <2>2. par[m] \in 0 .. m - 1
    BY <1>0 DEF IsTree
  <2> DEFINE g == [h \in 1 .. m |->
                     IF h = m THEN {m} \cup (IF par[m] = 0 THEN {} ELSE f[par[m]])
                     ELSE f[h]]
  <2>3. \A h \in 1 .. m - 1 : h \in 1 .. m /\ h # m /\ g[h] = f[h] /\ par[h] \in 0 .. h - 1
    BY <1>0 DEF IsTree
  <2>4. \A h \in 1 .. m - 1 : par[h] # 0 => par[h] \in 1 .. m - 1
    <3> SUFFICES ASSUME NEW h \in 1 .. m - 1, par[h] # 0 PROVE par[h] \in 1 .. m - 1
      OBVIOUS
    <3>1. par[h] \in 0 .. h - 1
      BY <2>3
    <3> HIDE DEF g
    <3> QED BY <1>0, <3>1
  <2>5. g \in [1 .. m -> SUBSET Txns]
    <3>1. \A h \in 1 .. m - 1 : f[h] \in SUBSET Txns
      BY <2>1
    <3>2. \A h \in 1 .. m : h # m => h \in 1 .. m - 1
      OBVIOUS
    <3>3. par[m] # 0 => par[m] \in 1 .. m - 1
      BY <2>2
    <3>4. m \in Txns
      OBVIOUS
    <3> QED BY <3>1, <3>2, <3>3, <3>4
  <2>6. ASSUME NEW h \in 1 .. m
        PROVE  g[h] = {h} \cup (IF par[h] = 0 THEN {} ELSE g[par[h]])
    <3>1. CASE h = m
      <4>1. par[m] # 0 => g[par[m]] = f[par[m]]
        BY <2>2, <2>3
      <4> QED BY <3>1, <4>1
    <3>2. CASE h # m
      <4>1. h \in 1 .. m - 1
        BY <3>2
      <4>2. g[h] = f[h] /\ (par[h] # 0 => g[par[h]] = f[par[h]])
        BY <2>3, <2>4, <4>1
      <4>3. f[h] = {h} \cup (IF par[h] = 0 THEN {} ELSE f[par[h]])
        BY <2>1, <4>1
      <4> HIDE DEF g
      <4> QED BY <4>2, <4>3
    <3> QED BY <3>1, <3>2
  <2>7. Line(m, g)
    BY <2>5, <2>6
  <2>8. m \in 0 .. MaxTxns
    OBVIOUS
  <2> HIDE DEF Line, g
  <2> QED BY <2>7, <2>8
<1>3. \A m \in 1 .. MaxTxns + 1 : m - 1 \in S
  <2> DEFINE T == {m \in 1 .. MaxTxns + 1 : m - 1 \in S}
  <2> HIDE DEF S
  <2>1. ASSUME NEW n \in 1 .. MaxTxns + 1, \A m \in 1 .. n - 1 : m \in T PROVE n \in T
    <3>1. CASE n = 1
      BY <1>1, <3>1
    <3>2. CASE n # 1
      <4>1. n - 1 \in 1 .. MaxTxns /\ n - 1 \in 1 .. n - 1
        BY <1>0, <3>2
      <4>2. (n - 1) - 1 \in S
        BY <2>1, <4>1
      <4> QED BY <1>2, <4>1, <4>2
    <3> QED BY <3>1, <3>2
  <2>2. MaxTxns + 1 \in Nat
    BY <1>0
  <2>3. \A n \in 1 .. MaxTxns + 1 : n \in T
    <3> HIDE DEF T
    <3> QED BY <2>1, <2>2, UpTo
  <2> QED BY <2>3
<1>4. MaxTxns \in S
  <2>1. MaxTxns + 1 \in 1 .. MaxTxns + 1 /\ (MaxTxns + 1) - 1 = MaxTxns
    BY <1>0
  <2> HIDE DEF S
  <2> QED BY <1>3, <2>1
<1>5. PICK f : Line(MaxTxns, f)
  BY <1>4
<1> QED BY <1>5 DEF IsLine

\* So Lineage is one, in every state in which the parents form a tree.
LEMMA LineChosen ==
    ASSUME NEW t, IsTree([h \in Txns |-> t[h].parent]),
           NEW L, L = CHOOSE f : f = [h \in Txns |->
                        {h} \cup (IF t[h].parent = NoTxn THEN {} ELSE f[t[h].parent])]
    PROVE  IsLine(L, [h \in Txns |-> t[h].parent])
<1> DEFINE par == [h \in Txns |-> t[h].parent]
           Body(f) == [h \in Txns |->
                         {h} \cup (IF t[h].parent = NoTxn THEN {} ELSE f[t[h].parent])]
<1>1. PICK f : IsLine(f, par)
  BY LineExists
<1>2. f = Body(f)
  <2>1. f = [h \in Txns |-> f[h]]
    BY <1>1 DEF IsLine
  <2>2. \A h \in Txns : f[h] = {h} \cup (IF t[h].parent = NoTxn THEN {} ELSE f[t[h].parent])
    BY <1>1 DEF IsLine
  <2> QED BY <2>1, <2>2
<1>3. L = Body(L)
  BY <1>2
<1>4. DOMAIN L = Txns /\ L = [h \in Txns |-> L[h]]
  BY <1>3
<1>5. \A h \in Txns : L[h] = {h} \cup (IF par[h] = NoTxn THEN {} ELSE L[par[h]])
  BY <1>3
<1>6. \A h \in 1 .. MaxTxns : L[h] \subseteq Txns
  <2> DEFINE S == {h \in Txns : L[h] \subseteq Txns}
  <2>1. ASSUME NEW n \in 1 .. MaxTxns, \A m \in 1 .. n - 1 : m \in S PROVE n \in S
    <3>1. n \in Txns /\ par[n] \in 0 .. MaxTxns /\ par[n] < n
      BY DEF Txns, IsTree
    <3>2. par[n] # NoTxn => par[n] \in S
      BY <2>1, <3>1, TxnAssumption DEF NoTxn
    <3> HIDE DEF par
    <3> QED BY <1>5, <3>1, <3>2
  <2> HIDE DEF S
  <2>2. \A n \in 1 .. MaxTxns : n \in S
    BY <2>1, UpTo, TxnAssumption
  <2> QED BY <2>2 DEF S
<1> QED BY <1>4, <1>5, <1>6 DEF IsLine, Txns

\* What follows of a transaction and its ancestors: all but the oldest of them
\* have a parent among them, which is the parent of one of the others.
LEMMA LineFacts ==
    ASSUME NEW par, IsTree(par), NEW L, IsLine(L, par)
    PROVE  \A h \in Txns :
             /\ h \in L[h]
             /\ \A a \in L[h] : a \in Txns /\ a <= h
             /\ \A a \in L[h] : L[a] \subseteq L[h]
             /\ \A a \in L[h] \ {h} : a # NoTxn /\ \E k \in L[h] : par[k] = a
             /\ \A a \in L[h] : par[a] # NoTxn => par[a] \in L[h]
             /\ \E a \in L[h] : par[a] = NoTxn
             /\ \A a, b \in L[h] : par[a] = NoTxn /\ par[b] = NoTxn => a = b
             /\ \A a, b \in L[h] : a \in L[b] \/ b \in L[a]
<1> USE DEF NoTxn
<1>1. MaxTxns \in Nat
  BY TxnAssumption
<1> DEFINE Fact(h) ==
             /\ h \in L[h]
             /\ \A a \in L[h] : a \in Txns /\ a <= h
             /\ \A a \in L[h] : L[a] \subseteq L[h]
             /\ \A a \in L[h] \ {h} : a # 0 /\ \E k \in L[h] : par[k] = a
             /\ \A a \in L[h] : par[a] # 0 => par[a] \in L[h]
             /\ \E a \in L[h] : par[a] = 0
             /\ \A a, b \in L[h] : par[a] = 0 /\ par[b] = 0 => a = b
             /\ \A a, b \in L[h] : a \in L[b] \/ b \in L[a]
           S == {h \in Txns : Fact(h)}
<1>2. ASSUME NEW h \in 1 .. MaxTxns, \A m \in 1 .. h - 1 : m \in S PROVE h \in S
  <2>1. h \in Txns /\ par[h] \in 0 .. MaxTxns /\ par[h] < h
    BY DEF Txns, IsTree
  <2>2. L[h] = {h} \cup (IF par[h] = 0 THEN {} ELSE L[par[h]])
    BY <2>1 DEF IsLine
  <2>3. CASE par[h] = 0
    BY <2>1, <2>2, <2>3 DEF Txns
  <2>4. CASE par[h] # 0
    <3>1. par[h] \in 1 .. h - 1 /\ par[h] \in Txns
      BY <1>1, <2>1, <2>4 DEF Txns
    <3>2. Fact(par[h])
      BY <1>2, <3>1
    <3> DEFINE q == par[h]
    <3>3. L[h] = {h} \cup L[q] /\ h \notin L[q] /\ q \in L[q]
      <4>1. \A a \in L[q] : a \in Nat /\ a <= q
        BY <3>2, <1>1 DEF Txns
      <4> QED BY <1>1, <2>2, <2>4, <3>1, <3>2, <4>1
    <3> HIDE DEF q
    <3>4. Fact(q) /\ q < h /\ q \in Nat /\ q # 0 /\ par[h] = q /\ h \in Nat
      BY <3>1, <3>2, <1>1 DEF q
    <3>5. h \in L[h] /\ \A a \in L[h] : a \in Txns /\ a <= h
      BY <2>1, <3>3, <3>4, <1>1 DEF Txns
    <3>6. \A a \in L[h] : L[a] \subseteq L[h]
      BY <3>3, <3>4
    <3>7. \A a \in L[h] \ {h} : a # 0 /\ \E k \in L[h] : par[k] = a
      BY <3>3, <3>4
    <3>8. \A a \in L[h] : par[a] # 0 => par[a] \in L[h]
      BY <3>3, <3>4
    <3>9. \E a \in L[h] : par[a] = 0
      BY <3>3, <3>4
    <3>10. \A a, b \in L[h] : par[a] = 0 /\ par[b] = 0 => a = b
      BY <3>3, <3>4
    <3>11. \A a, b \in L[h] : a \in L[b] \/ b \in L[a]
      BY <3>3, <3>4
    <3> QED BY <2>1, <3>5, <3>6, <3>7, <3>8, <3>9, <3>10, <3>11
  <2> QED BY <2>3, <2>4
<1>3. \A h \in 1 .. MaxTxns : h \in S
  <2> HIDE DEF S
  <2> QED BY <1>1, <1>2, UpTo
<1> QED BY <1>3 DEF Txns

\* A transaction that has no children gets another parent, or no parent: the
\* others keep their ancestors.
LEMMA LineChange ==
    ASSUME NEW par, IsTree(par), NEW L, IsLine(L, par),
           NEW qar, IsTree(qar), NEW K, IsLine(K, qar),
           NEW c \in Txns,
           \A h \in Txns : par[h] # c /\ (h # c => qar[h] = par[h])
    PROVE  \A h \in Txns \ {c} : K[h] = L[h] /\ c \notin L[h]
<1> USE DEF NoTxn
<1>1. MaxTxns \in Nat
  BY TxnAssumption
<1> DEFINE S == {h \in Txns : h # c => K[h] = L[h] /\ c \notin L[h]}
<1>2. ASSUME NEW h \in 1 .. MaxTxns, \A m \in 1 .. h - 1 : m \in S PROVE h \in S
  <2>1. h \in Txns /\ par[h] \in 0 .. MaxTxns /\ par[h] < h /\ par[h] # c
    BY DEF Txns, IsTree
  <2>2. L[h] = {h} \cup (IF par[h] = 0 THEN {} ELSE L[par[h]])
    BY <2>1 DEF IsLine
  <2>3. h # c => K[h] = {h} \cup (IF par[h] = 0 THEN {} ELSE K[par[h]])
    BY <2>1 DEF IsLine
  <2>4. par[h] # 0 => par[h] \in S
    BY <1>1, <1>2, <2>1
  <2> QED BY <2>1, <2>2, <2>3, <2>4
<1>3. \A h \in 1 .. MaxTxns : h \in S
  <2> HIDE DEF S
  <2> QED BY <1>1, <1>2, UpTo
<1> QED BY <1>3 DEF Txns

\* With the same parents they have the same ancestors.
LEMMA LineSame ==
    ASSUME NEW par, IsTree(par), NEW L, IsLine(L, par), NEW K, IsLine(K, par)
    PROVE  K = L
<1> USE DEF NoTxn
<1>1. MaxTxns \in Nat
  BY TxnAssumption
<1> DEFINE S == {h \in Txns : K[h] = L[h]}
<1>2. ASSUME NEW h \in 1 .. MaxTxns, \A m \in 1 .. h - 1 : m \in S PROVE h \in S
  <2>1. h \in Txns /\ par[h] \in 0 .. MaxTxns /\ par[h] < h
    BY DEF Txns, IsTree
  <2>2. /\ L[h] = {h} \cup (IF par[h] = 0 THEN {} ELSE L[par[h]])
        /\ K[h] = {h} \cup (IF par[h] = 0 THEN {} ELSE K[par[h]])
    BY <2>1 DEF IsLine
  <2>3. par[h] # 0 => par[h] \in S
    BY <1>1, <1>2, <2>1
  <2> QED BY <2>1, <2>2, <2>3
<1>3. \A h \in 1 .. MaxTxns : h \in S
  <2> HIDE DEF S
  <2> QED BY <1>1, <1>2, UpTo
<1>4. \A h \in Txns : K[h] = L[h]
  BY <1>3 DEF Txns
<1>5. K \in [Txns -> SUBSET Txns] /\ L \in [Txns -> SUBSET Txns]
  BY DEF IsLine
<1> QED BY <1>4, <1>5

-----------------------------------------------------------------------------
(* A page and its writes.                                                  *)

Increasing(s) == \A i, j \in DOMAIN s : i < j => s[i] < s[j]

\* One more element.
LEMMA AppendToSet ==
    ASSUME NEW T, NEW s \in Seq(T), NEW x \in T
    PROVE  Append(s, x) \in Seq(T) /\ ToSet(Append(s, x)) = ToSet(s) \cup {x}
<1> DEFINE t == Append(s, x)
<1>1. t \in Seq(T) /\ Len(t) = Len(s) + 1 /\ DOMAIN t = 1 .. Len(t) /\ DOMAIN s = 1 .. Len(s)
  OBVIOUS
<1>2. (\A i \in 1 .. Len(s) : t[i] = s[i]) /\ t[Len(s) + 1] = x /\ Len(s) \in Nat
  OBVIOUS
<1> HIDE DEF t
<1>3. \A i \in 1 .. Len(t) : i \in 1 .. Len(s) \/ i = Len(s) + 1
  BY <1>1, <1>2
<1>4. ToSet(t) = ToSet(s) \cup {x}
  <2>1. ToSet(t) \subseteq ToSet(s) \cup {x}
    BY <1>1, <1>2, <1>3 DEF ToSet
  <2>2. ToSet(s) \subseteq ToSet(t)
    BY <1>1, <1>2 DEF ToSet
  <2>3. x \in ToSet(t)
    <3>1. Len(s) + 1 \in DOMAIN t
      BY <1>1, <1>2
    <3> QED BY <1>2, <3>1 DEF ToSet
  <2> QED BY <2>1, <2>2, <2>3
<1> QED BY <1>1, <1>4 DEF t

\* A greater number at its end.
LEMMA GrownIncreasing ==
    ASSUME NEW s \in Seq(Nat), Increasing(s), NEW x \in Nat, \A y \in ToSet(s) : y < x
    PROVE  /\ Append(s, x) \in Seq(Nat) /\ Increasing(Append(s, x))
           /\ ToSet(Append(s, x)) = ToSet(s) \cup {x}
<1> DEFINE t == Append(s, x)
<1>1. t \in Seq(Nat) /\ Len(t) = Len(s) + 1 /\ DOMAIN t = 1 .. Len(t) /\ DOMAIN s = 1 .. Len(s)
  OBVIOUS
<1>2. (\A i \in 1 .. Len(s) : t[i] = s[i]) /\ t[Len(s) + 1] = x
  OBVIOUS
<1>3. \A i \in 1 .. Len(s) : s[i] \in Nat /\ s[i] < x
  BY <1>1 DEF ToSet
<1> HIDE DEF t
<1>4. \A i \in 1 .. Len(t) : i \in 1 .. Len(s) \/ i = Len(s) + 1
  BY <1>1
<1>5. Increasing(t)
  <2> SUFFICES ASSUME NEW i \in 1 .. Len(t), NEW j \in 1 .. Len(t), i < j PROVE t[i] < t[j]
    BY <1>1 DEF Increasing
  <2>1. i \in 1 .. Len(s)
    BY <1>1
  <2> QED BY <1>1, <1>2, <1>3, <1>4, <2>1 DEF Increasing
<1>6. ToSet(t) = ToSet(s) \cup {x}
  <2>1. ToSet(t) \subseteq ToSet(s) \cup {x}
    BY <1>1, <1>2, <1>4 DEF ToSet
  <2>2. ToSet(s) \subseteq ToSet(t)
    BY <1>1, <1>2 DEF ToSet
  <2>3. x \in ToSet(t)
    <3>1. Len(s) + 1 \in DOMAIN t
      BY <1>1
    <3> QED BY <1>2, <3>1 DEF ToSet
  <2> QED BY <2>1, <2>2, <2>3
<1> QED BY <1>1, <1>5, <1>6 DEF t

\* The greatest is its last.
LEMMA FrontIncreasing ==
    ASSUME NEW s \in Seq(Nat), Increasing(s), NEW x \in ToSet(s), \A y \in ToSet(s) : y <= x
    PROVE  /\ Front(s) \in Seq(Nat) /\ Increasing(Front(s))
           /\ ToSet(Front(s)) = ToSet(s) \ {x}
<1> DEFINE t == Front(s)
<1>0. PICK n \in Nat : n = Len(s)
  OBVIOUS
<1>1. DOMAIN s = 1 .. n /\ n \in Nat /\ \A i \in 1 .. n : s[i] \in Nat
  BY <1>0
<1>2. PICK k \in 1 .. n : s[k] = x
  BY <1>1 DEF ToSet
<1>3. k = n
  <2> SUFFICES ASSUME k < n PROVE FALSE
    BY <1>1
  <2>1. n \in 1 .. n /\ k \in 1 .. n
    OBVIOUS
  <2>2. n \in DOMAIN s /\ k \in DOMAIN s
    BY <1>1, <2>1
  <2>3. s[k] < s[n] /\ s[n] \in ToSet(s)
    BY <2>2 DEF Increasing, ToSet
  <2> QED BY <1>1, <1>2, <2>1, <2>3
<1>4. t \in Seq(Nat) /\ DOMAIN t = 1 .. n - 1 /\ \A i \in 1 .. n - 1 : t[i] = s[i] /\ i \in 1 .. n
  BY <1>0, <1>1, <1>2 DEF Front
<1> HIDE DEF t
<1>5. Increasing(t)
  <2> SUFFICES ASSUME NEW i \in 1 .. n - 1, NEW j \in 1 .. n - 1, i < j PROVE t[i] < t[j]
    BY <1>4 DEF Increasing
  <2> QED BY <1>1, <1>4 DEF Increasing
<1>6. \A i \in 1 .. n - 1 : s[i] # x
  <2>1. \A i \in 1 .. n - 1 : i \in DOMAIN s /\ n \in DOMAIN s /\ i < n
    BY <1>1, <1>2
  <2>2. \A i \in 1 .. n - 1 : s[i] < s[n]
    BY <2>1 DEF Increasing
  <2> QED BY <1>1, <1>2, <1>3, <1>4, <2>2
<1>7. \A i \in 1 .. n : i = n \/ i \in 1 .. n - 1
  BY <1>1
<1>8. ToSet(t) = ToSet(s) \ {x}
  <2>1. ToSet(t) \subseteq ToSet(s) \ {x}
    BY <1>1, <1>4, <1>6 DEF ToSet
  <2>2. ToSet(s) \ {x} \subseteq ToSet(t)
    BY <1>1, <1>2, <1>3, <1>4, <1>7 DEF ToSet
  <2> QED BY <2>1, <2>2
<1> QED BY <1>4, <1>5, <1>8 DEF t

\* The page m has the items It of the writes C, which are there to stay, and
\* then those of the writes P, which may be undone one after the other: Pl
\* leads from each to the one before.
PageOK(It, Pl, P, C, m) ==
    /\ m \in [lsn : Nat, val : Seq(Nat)]
    /\ Increasing(m.val)
    /\ ToSet(m.val) = {It[n] : n \in P \cup C}
    /\ \A n \in P, k \in C : k < n
    /\ P # {} => m.lsn \in P
    /\ \A n \in P : n <= m.lsn
    /\ \A k, n \in P : k < n => Pl[n] \in P /\ k <= Pl[n] /\ Pl[n] < n

\* A new write n of the item i, after those of T.
Fits(T, It, Pl, P, C, m, n, i, Jt, Ql) ==
    /\ T \subseteq Nat /\ PageOK(It, Pl, P, C, m) /\ P \cup C \subseteq T
    /\ n \in Nat /\ i \in Nat /\ \A k \in T : k < n /\ It[k] < i
    /\ \A k \in T : Jt[k] = It[k] /\ Ql[k] = Pl[k]
    /\ Jt[n] = i /\ Ql[n] = m.lsn

\* A page stays so when a write takes the next number and is linked to the page.
LEMMA PagePut ==
    ASSUME NEW T, NEW It, NEW Pl, NEW P, NEW C, NEW m, NEW n, NEW i, NEW Jt, NEW Ql,
           Fits(T, It, Pl, P, C, m, n, i, Jt, Ql)
    PROVE  PageOK(Jt, Ql, P \cup {n}, C, [lsn |-> n, val |-> Append(m.val, i)])
<1>0. /\ T \subseteq Nat /\ PageOK(It, Pl, P, C, m) /\ P \cup C \subseteq T
      /\ n \in Nat /\ i \in Nat /\ \A k \in T : k < n /\ It[k] < i
      /\ \A k \in T : Jt[k] = It[k] /\ Ql[k] = Pl[k]
      /\ Jt[n] = i /\ Ql[n] = m.lsn
  BY DEF Fits
<1> USE <1>0
<1> DEFINE v == m.val
           w == Append(v, i)
<1>1. v \in Seq(Nat) /\ Increasing(v) /\ ToSet(v) = {It[k] : k \in P \cup C} /\ m.lsn \in Nat
  BY DEF PageOK
<1>2. \A y \in ToSet(v) : y < i
  BY <1>1
<1>3. w \in Seq(Nat) /\ Increasing(w) /\ ToSet(w) = ToSet(v) \cup {i}
  <2> HIDE DEF v
  <2> QED BY <1>1, <1>2, GrownIncreasing
<1> HIDE DEF w, v
<1>4. {Jt[k] : k \in (P \cup {n}) \cup C} = {It[k] : k \in P \cup C} \cup {i}
  OBVIOUS
<1>5. \A k \in P \cup {n}, j \in C : j < k
  BY DEF PageOK
<1>6. \A k \in P \cup {n} : k <= n
  <2>1. \A k \in P : k \in Nat /\ k < n
    OBVIOUS
  <2>2. \A k \in P : k <= n
    BY <2>1
  <2>3. n <= n
    OBVIOUS
  <2> QED BY <2>2, <2>3
<1>7. ASSUME NEW k \in P \cup {n}, NEW j \in P \cup {n}, k < j
      PROVE  Ql[j] \in P \cup {n} /\ k <= Ql[j] /\ Ql[j] < j
  <2>0. \A x \in P : x \in Nat /\ x < n
    OBVIOUS
  <2>1. CASE j \in P
    <3>1. k \in P
      <4> SUFFICES k # n
        OBVIOUS
      <4> QED BY <1>7, <2>0, <2>1
    <3> QED BY <1>7, <2>0, <2>1, <3>1 DEF PageOK
  <2>2. CASE j = n
    <3>1. k \in P
      BY <1>7, <2>2
    <3>2. m.lsn \in P /\ k <= m.lsn
      BY <3>1 DEF PageOK
    <3> QED BY <2>0, <2>2, <3>2
  <2> QED BY <2>1, <2>2
<1> DEFINE q == [lsn |-> n, val |-> w]
<1>8. q \in [lsn : Nat, val : Seq(Nat)] /\ q.lsn = n /\ q.val = w
  BY <1>3
<1>9. q = [lsn |-> n, val |-> Append(m.val, i)]
  BY DEF w, v
<1> HIDE DEF q
<1>10. PageOK(Jt, Ql, P \cup {n}, C, q)
  BY <1>1, <1>3, <1>4, <1>5, <1>6, <1>7, <1>8 DEF PageOK
<1> QED BY <1>9, <1>10

\* The last write that may be undone is.
LEMMA PageUndone ==
    ASSUME NEW T, T \subseteq Nat, NEW It, NEW Pl, NEW P, NEW C, NEW m,
           PageOK(It, Pl, P, C, m), P \cup C \subseteq T,
           \A k \in T : It[k] \in Nat /\ Pl[k] \in Nat,
           \A j, k \in T : j < k => It[j] < It[k],
           NEW n \in P, \A k \in P : k <= n
    PROVE  /\ m.lsn = n
           /\ PageOK(It, Pl, P \ {n}, C, [lsn |-> Pl[n], val |-> Front(m.val)])
<1> DEFINE v == m.val
           w == Front(v)
<1>1. v \in Seq(Nat) /\ Increasing(v) /\ ToSet(v) = {It[k] : k \in P \cup C} /\ m.lsn \in Nat
  BY DEF PageOK
<1>2. m.lsn = n
  <2>1. m.lsn \in P /\ n <= m.lsn
    BY DEF PageOK
  <2>2. \A k \in P : k \in Nat /\ k <= n
    OBVIOUS
  <2> QED BY <1>1, <2>1, <2>2
<1>3. \A k \in P \cup C : k \in Nat /\ (k < n \/ k = n)
  <2>1. \A k \in C : k < n
    BY DEF PageOK
  <2>2. \A k \in P \cup C : k \in Nat /\ n \in Nat
    OBVIOUS
  <2> QED BY <2>1, <2>2
<1>4. It[n] \in ToSet(v) /\ \A y \in ToSet(v) : y <= It[n]
  BY <1>1, <1>3
<1>5. w \in Seq(Nat) /\ Increasing(w) /\ ToSet(w) = ToSet(v) \ {It[n]}
  <2> HIDE DEF v
  <2> QED BY <1>1, <1>4, FrontIncreasing
<1> HIDE DEF w, v
<1>6. n \notin C
  BY DEF PageOK
<1>7. ToSet(w) = {It[k] : k \in (P \ {n}) \cup C}
  <2>1. \A k \in P \cup C : k # n => It[k] # It[n]
    <3>1. \A k \in P \cup C : k # n => It[k] < It[n]
      BY <1>3
    <3>2. \A k \in P \cup C : It[k] \in Nat
      OBVIOUS
    <3> QED BY <3>1, <3>2
  <2> QED BY <1>1, <1>5, <1>6, <2>1
<1>8. \A k \in P \ {n}, j \in C : j < k
  BY DEF PageOK
<1>9. P \ {n} # {} => Pl[n] \in P \ {n}
  <2> SUFFICES ASSUME NEW k \in P \ {n} PROVE Pl[n] \in P \ {n}
    OBVIOUS
  <2>1. k < n
    BY <1>3
  <2>2. Pl[n] \in P /\ Pl[n] < n
    BY <2>1 DEF PageOK
  <2>3. Pl[n] \in Nat /\ n \in Nat
    OBVIOUS
  <2> QED BY <2>2, <2>3
<1>10. \A k \in P \ {n} : k <= Pl[n]
  BY <1>3 DEF PageOK
<1>11. ASSUME NEW k \in P \ {n}, NEW j \in P \ {n}, k < j
       PROVE  Pl[j] \in P \ {n} /\ k <= Pl[j] /\ Pl[j] < j
  <2>1. Pl[j] \in P /\ k <= Pl[j] /\ Pl[j] < j
    BY <1>11 DEF PageOK
  <2>2. j < n /\ j \in Nat /\ Pl[j] \in Nat
    BY <1>3, <2>1
  <2>3. Pl[j] # n
    BY <2>1, <2>2
  <2> QED BY <2>1, <2>3
<1> DEFINE q == [lsn |-> Pl[n], val |-> w]
<1>12. q \in [lsn : Nat, val : Seq(Nat)] /\ q.lsn = Pl[n] /\ q.val = w
  BY <1>5
<1>13. q = [lsn |-> Pl[n], val |-> Front(m.val)]
  BY DEF w, v
<1> HIDE DEF q
<1>14. PageOK(It, Pl, P \ {n}, C, q)
  BY <1>5, <1>7, <1>8, <1>9, <1>10, <1>11, <1>12 DEF PageOK
<1> QED BY <1>2, <1>13, <1>14

\* All that could be undone is there to stay.
LEMMA PageKept ==
    ASSUME NEW It, NEW Pl, NEW P, NEW C, NEW m, PageOK(It, Pl, P, C, m)
    PROVE  PageOK(It, Pl, {}, C \cup P, m)
<1>1. {} \cup (C \cup P) = P \cup C
  OBVIOUS
<1> QED BY <1>1 DEF PageOK

\* A write of another page.
LEMMA PageSame ==
    ASSUME NEW T, NEW It, NEW Pl, NEW P, NEW C, NEW m,
           PageOK(It, Pl, P, C, m), P \cup C \subseteq T,
           NEW Jt, NEW Ql, \A k \in T : Jt[k] = It[k] /\ Ql[k] = Pl[k]
    PROVE  PageOK(Jt, Ql, P, C, m)
<1>1. {Jt[k] : k \in P \cup C} = {It[k] : k \in P \cup C}
  OBVIOUS
<1> QED BY <1>1 DEF PageOK

-----------------------------------------------------------------------------
(* The invariant.                                                          *)

Ends == {"prepare", "commit", "abort"}

Records ==
    [type : {"write"}, who : Txns, id : Int, prev : Nat,
     page : Pages, pagelsn : Nat, item : Nat]
    \cup [type : {"child"}, who : Txns, id : Int, prev : Nat,
          kid : Txns, child : Int, clsn : Nat]
    \cup [type : {"prepare"}, who : Txns, id : Int, prev : Nat,
          begin : Nat, locks : SUBSET Pages]
    \cup [type : {"commit", "abort"}, who : Txns, id : Int, prev : Nat]
    \cup [type : {"ckp"}, lsn : Nat]

\* Where an undo may come to: a record of a transaction, or the end of a chain.
Places == {ZeroLsn} \cup {i \in 1 .. Len(log) : log[i].type # "ckp"}

\* The writes, with their pages, their items and the LSNs they found there.
Writes == {n \in 1 .. Len(log) : log[n].type = "write"}
PageOf == [n \in Writes |-> log[n].page]
ItemOf == [n \in Writes |-> log[n].item]
PrevOf == [n \in Writes |-> log[n].pagelsn]
On(p) == {n \in Writes : PageOf[n] = p}

\* On each page, the writes A all come before the writes B.
Before(A, B) == \A a \in A, b \in B : PageOf[a] = PageOf[b] => a < b

\* R[i] are the writes that are undone from record i on.  Those of a child come
\* after those of its parent that are left for later.
Link(R, i) ==
    /\ \A n \in R[i] : n <= i
    /\ log[i].type # "ckp" => log[i].prev \in Places /\ log[i].prev < i
    /\ log[i].type = "write" => R[i] = {i} \cup R[log[i].prev]
    /\ log[i].type = "child" =>
         /\ log[i].clsn \in Places /\ log[i].clsn < i
         /\ R[i] = R[log[i].prev] \cup R[log[i].clsn]
         /\ Before(R[log[i].prev], R[log[i].clsn])
    /\ log[i].type \in Ends => R[i] = R[log[i].prev]

Chains(R) ==
    /\ R \in [0 .. Len(log) -> SUBSET Writes]
    /\ R[0] = {}
    /\ \A i \in 1 .. Len(log) : Link(R, i)

Basic ==
    /\ phase = "up" /\ ~failed /\ crashes = 0
    /\ log \in Seq(Records)
    /\ items \in Nat /\ lastId \in Int

Statuses == {"none", "running", "prepared", "committing", "aborting"}
Details ==
    [status : Statuses, id : Int, parent : 0 .. MaxTxns, begin : Nat, last : Nat,
     restored : BOOLEAN, voted : BOOLEAN, at : Nat, stack : Seq(Nat)]

Par == [h \in Txns |-> td[h].parent]

\* Who has active children only waits for them.
TreeOf(h) ==
    /\ td[h].status = "none" => td[h] = NoTd
    /\ td[h].status # "none" => h <= born
    /\ td[h].parent < h
    /\ td[h].parent # NoTxn => td[td[h].parent].status = "running"
    /\ td[h].begin <= Len(log)
    /\ td[h].last \in Places /\ td[h].at \in Places
    /\ \A i \in DOMAIN td[h].stack : td[h].stack[i] \in Places \ {ZeroLsn}
    /\ td[h].at = ZeroLsn => td[h].stack = <<>>
    /\ td[h].status # "aborting" => td[h].at = ZeroLsn

Tree ==
    /\ born \in 0 .. MaxTxns
    /\ td \in [Txns -> Details]
    /\ \A h \in Txns : TreeOf(h)

Outcomes ==
    /\ said.voted \subseteq 1 .. born
    /\ ToSet(said.order) \subseteq 1 .. born
    /\ \A h \in Txns :
         /\ td[h].status # "none" =>
              /\ h \in ToSet(said.order) <=> td[h].status = "committing"
              /\ td[h].voted <=> h \in said.voted
              /\ td[h].status = "running" => ~td[h].voted
         /\ td[h].status = "none" /\ h \in said.voted =>
              h \in ToSet(said.order) \cup said.aborted

\* The writes whose items the log says are a transaction's.
Own == [h \in Txns |-> {n \in Writes : ItemOf[n] \in ToSet(said.puts[h][PageOf[n]])}]

\* They are those that its abort would undo, and nobody else's.
Owners(R) ==
    /\ said \in [puts : [Txns -> [Pages -> Seq(Nat)]], voted : SUBSET Txns,
                 order : Seq(Txns), aborted : SUBSET Txns]
    /\ \A h \in Txns, p \in Pages : \A i \in ToSet(said.puts[h][p]) : i <= items
    /\ \A h \in Txns : h > born => said.puts[h] = Nothing
    /\ \A g, h \in Txns : g # h => Own[g] \cap Own[h] = {}
    /\ \A h \in Txns : td[h].status # "none" => R[td[h].last] = Own[h]
    /\ \A n \in Writes : ItemOf[n] <= items
    /\ \A m, n \in Writes : m < n => ItemOf[m] < ItemOf[n]

\* The oldest ancestor's begin_lsn is not after any write of its family.
Begun ==
    \A h \in Txns : td[h].status # "none" =>
        \A a \in Lineage[h] : td[a].parent = NoTxn =>
            \A n \in Own[h] : td[a].begin # ZeroLsn /\ td[a].begin <= n

\* Only relatives have locks on a page at once.
Locked ==
    /\ locks \in [Pages -> SUBSET Txns]
    /\ \A p \in Pages : \A h \in locks[p] :
         td[h].status # "none" /\ td[h].last # ZeroLsn
    /\ \A p \in Pages : \A g, h \in locks[p] : g \in Lineage[h] \/ h \in Lineage[g]
    /\ \A h \in Txns, p \in Pages :
         td[h].status # "none" /\ said.puts[h][p] # <<>> => h \in locks[p]

\* A parent writes before its children begin or after they end.
Ordered ==
    \A h \in Txns : td[h].status # "none" =>
        \A a \in Lineage[h] \ {h} : Before(Own[a], Own[h])

\* What an abort has still to undo: the chains from the places on its stack and
\* from where it is, the last of them first.
Trail(h) == Append(td[h].stack, td[h].at)
Covered(R, q) == UNION {R[q[i]] : i \in DOMAIN q}
InOrder(R, q) == \A i, j \in DOMAIN q : i < j => Before(R[q[i]], R[q[j]])

Undoing(R) ==
    \A h \in Txns : td[h].status = "aborting" =>
        InOrder(R, Trail(h)) /\ Covered(R, Trail(h)) \subseteq Own[h]

\* The writes that may still be undone, and those of committed transactions.
LeftOf(R, h) ==
    IF td[h].status = "aborting" THEN Covered(R, Trail(h))
    ELSE IF td[h].status \in {"running", "prepared"} THEN Own[h] ELSE {}
Pend(R) == UNION {LeftOf(R, h) : h \in Txns}
Com == UNION {Own[h] : h \in ToSet(said.order)}

Cached(R) ==
    /\ mem \in [Pages -> [lsn : Nat, val : Seq(Nat)]]
    /\ \A p \in Pages :
         PageOK(ItemOf, PrevOf, Pend(R) \cap On(p), Com \cap On(p), mem[p])

\* Nobody who is active has written before c; and of the writes before c, page
\* p has in the file those of committed transactions and no others.
Over(c) == \A h \in Txns : td[h].status # "none" => \A n \in Own[h] : n >= c
InFile(c, p) ==
    \A n \in On(p) : n < c => (ItemOf[n] \in ToSet(disk[p].val) <=> n \in Com)

Checkpointed ==
    /\ dirty \subseteq Pages
    /\ disk \in [Pages -> [lsn : Nat, val : Seq(Nat)]]
    /\ \A p \in Pages : p \notin dirty => disk[p] = mem[p]
    /\ ckp.step \in {"idle", "lsn", "sync"} /\ ckp.lsn \in Nat
    /\ ckp = [step |-> ckp.step, lsn |-> ckp.lsn, todo |-> ckp.todo, owed |-> ckp.owed]
    /\ FirstLsn(log) \in Nat /\ FirstLsn(log) <= NextLsn
    /\ Over(FirstLsn(log))
    /\ \A p \in Pages : InFile(FirstLsn(log), p)
    /\ ckp.step # "idle" => ckp.lsn <= Len(log)
    /\ ckp.step = "sync" =>
         Over(ckp.lsn) /\ \A p \in Pages \ ckp.todo : InFile(ckp.lsn, p)

IInv(R) ==
    /\ Basic /\ Chains(R) /\ Tree /\ Outcomes /\ Owners(R) /\ Begun /\ Locked
    /\ Ordered /\ Undoing(R) /\ Cached(R) /\ Checkpointed

\* Before the first crash.
Inv == crashes \in Nat /\ (crashes = 0 => \E R : IInv(R))

-----------------------------------------------------------------------------
(* Reading the invariant.                                                  *)

\* What a record has in it.
LEMMA RecordFields ==
    ASSUME NEW r \in Records
    PROVE  /\ r.type \in {"write", "child", "prepare", "commit", "abort", "ckp"}
           /\ r.type # "ckp" => r.prev \in Nat /\ r.who \in Txns
           /\ r.type = "write" => r.page \in Pages /\ r.pagelsn \in Nat /\ r.item \in Nat
           /\ r.type = "child" => r.kid \in Txns /\ r.clsn \in Nat
           /\ r.type = "ckp" => r.lsn \in Nat
BY DEF Records

\* The writes and what they have in them.
LEMMA WriteTypes ==
    ASSUME Basic
    PROVE  /\ Len(log) \in Nat
           /\ Writes \subseteq 1 .. Len(log)
           /\ \A i \in 1 .. Len(log) : log[i] \in Records
           /\ PageOf \in [Writes -> Pages] /\ ItemOf \in [Writes -> Nat]
           /\ PrevOf \in [Writes -> Nat]
<1>1. Len(log) \in Nat /\ \A i \in 1 .. Len(log) : log[i] \in Records
  BY DEF Basic
<1>2. \A n \in Writes : /\ n \in 1 .. Len(log) /\ log[n].page \in Pages
                        /\ log[n].item \in Nat /\ log[n].pagelsn \in Nat
  BY <1>1, RecordFields DEF Writes
<1> QED BY <1>1, <1>2 DEF Writes, PageOf, ItemOf, PrevOf

\* Lineage is what its name says.
LEMMA LineageIs ==
    ASSUME Tree
    PROVE  IsTree(Par) /\ IsLine(Lineage, Par)
<1>1. IsTree(Par)
  <2>1. \A h \in Txns : td[h].parent \in 0 .. MaxTxns /\ td[h].parent < h
    BY DEF Tree, TreeOf, Details
  <2> QED BY <2>1 DEF IsTree, Par
<1>2. IsLine(Lineage, [h \in Txns |-> td[h].parent])
  <2>1. IsTree([h \in Txns |-> td[h].parent])
    BY <1>1 DEF Par
  <2>2. Lineage = CHOOSE f : f = [h \in Txns |->
              {h} \cup (IF td[h].parent = NoTxn THEN {} ELSE f[td[h].parent])]
    BY DEF Lineage
  <2> QED BY <2>1, <2>2, LineChosen
<1> QED BY <1>1, <1>2 DEF Par

\* A transaction's family line: it ends at the one transaction without a parent.
LEMMA LineageFacts ==
    ASSUME Tree
    PROVE  \A h \in Txns :
             /\ h \in Lineage[h]
             /\ \A a \in Lineage[h] : a \in Txns /\ a <= h
             /\ \A a \in Lineage[h] : Lineage[a] \subseteq Lineage[h]
             /\ \A a \in Lineage[h] \ {h} : \E k \in Txns : td[k].parent = a /\ a # NoTxn
             /\ \A a \in Lineage[h] : td[a].parent # NoTxn => td[a].parent \in Lineage[h]
             /\ \E a \in Lineage[h] : td[a].parent = NoTxn
             /\ \A a, b \in Lineage[h] : td[a].parent = NoTxn /\ td[b].parent = NoTxn => a = b
             /\ \A a, b \in Lineage[h] : a \in Lineage[b] \/ b \in Lineage[a]
             /\ td[h].parent = NoTxn => Lineage[h] = {h}
             /\ td[h].parent # NoTxn => Lineage[h] = {h} \cup Lineage[td[h].parent]
             /\ Top(h) \in Lineage[h] /\ td[Top(h)].parent = NoTxn
<1>1. IsTree(Par) /\ IsLine(Lineage, Par)
  BY LineageIs
<1>2. \A h \in Txns :
             /\ h \in Lineage[h]
             /\ \A a \in Lineage[h] : a \in Txns /\ a <= h
             /\ \A a \in Lineage[h] : Lineage[a] \subseteq Lineage[h]
             /\ \A a \in Lineage[h] \ {h} : a # NoTxn /\ \E k \in Lineage[h] : Par[k] = a
             /\ \A a \in Lineage[h] : Par[a] # NoTxn => Par[a] \in Lineage[h]
             /\ \E a \in Lineage[h] : Par[a] = NoTxn
             /\ \A a, b \in Lineage[h] : Par[a] = NoTxn /\ Par[b] = NoTxn => a = b
             /\ \A a, b \in Lineage[h] : a \in Lineage[b] \/ b \in Lineage[a]
  BY <1>1, LineFacts
<1>3. \A h \in Txns : Par[h] = td[h].parent
  BY DEF Par
<1>4. \A h \in Txns : Lineage[h] =
        {h} \cup (IF td[h].parent = NoTxn THEN {} ELSE Lineage[td[h].parent])
  BY <1>1, <1>3 DEF IsLine
<1>5. \A h \in Txns : Top(h) \in Lineage[h] /\ td[Top(h)].parent = NoTxn
  BY <1>2, <1>3 DEF Top
<1> QED BY <1>2, <1>3, <1>4, <1>5

-----------------------------------------------------------------------------
(* The log with one more record.                                           *)

\* The LSN of the last checkpoint record.
LEMMA FirstLsnIs ==
    ASSUME NEW lg, NEW n \in Nat, n = Len(lg),
           NEW I, I = {i \in 1 .. n : lg[i].type = "ckp"}
    PROVE  FirstLsn(lg) = IF I = {} THEN 1 ELSE lg[Max(I)].lsn
<1>1. I # {} => Max(I) \in I
  BY MaxNat
<1>2. I # {} => Max(I) # 0
  BY <1>1
<1>3. SelectLastInSeq(lg, LAMBDA r : r.type = "ckp") = IF I # {} THEN Max(I) ELSE 0
  BY DEF SelectLastInSeq
<1> QED BY <1>2, <1>3 DEF FirstLsn

\* With one more record.
LEMMA AppendedFirst ==
    ASSUME NEW lg, NEW S, lg \in Seq(S), NEW r \in S
    PROVE  FirstLsn(Append(lg, r)) = IF r.type = "ckp" THEN r.lsn ELSE FirstLsn(lg)
<1> DEFINE lh == Append(lg, r)
           n == Len(lg)
           I == {i \in 1 .. n : lg[i].type = "ckp"}
           J == {i \in 1 .. n + 1 : lh[i].type = "ckp"}
<1>1. n \in Nat /\ n + 1 = Len(lh) /\ lh[n + 1] = r /\ \A i \in 1 .. n : lh[i] = lg[i]
  OBVIOUS
<1>2. \A i \in 1 .. n + 1 : i = n + 1 \/ i \in 1 .. n
  BY <1>1
<1>3. \A i \in 1 .. n : i \in 1 .. n + 1 /\ i # n + 1 /\ i <= n + 1
  BY <1>1
<1>3a. n + 1 \in 1 .. n + 1 /\ n + 1 \in Nat
  BY <1>1
<1> HIDE DEF lh, n
<1>4. FirstLsn(lg) = IF I = {} THEN 1 ELSE lg[Max(I)].lsn
  BY <1>1, FirstLsnIs DEF n
<1>5. FirstLsn(lh) = IF J = {} THEN 1 ELSE lh[Max(J)].lsn
  BY <1>1, <1>3a, FirstLsnIs
<1>6. CASE r.type = "ckp"
  <2>1. n + 1 \in J /\ J \subseteq Nat /\ \A j \in J : j <= n + 1
    BY <1>1, <1>2, <1>3, <1>3a, <1>6
  <2>2. Max(J) \in J /\ \A j \in J : j <= Max(J)
    <3> HIDE DEF J
    <3> QED BY <1>3a, <2>1, MaxNat
  <2>3. Max(J) = n + 1
    <3>1. n + 1 <= Max(J) /\ Max(J) <= n + 1 /\ Max(J) \in Nat
      BY <2>1, <2>2
    <3> HIDE DEF J
    <3> QED BY <1>3a, <3>1
  <2> QED BY <1>1, <1>5, <1>6, <2>1, <2>3 DEF lh
<1>7. CASE r.type # "ckp"
  <2>1. J = I
    BY <1>1, <1>2, <1>3, <1>7
  <2>2. I # {} => Max(I) \in I
    <3>1. I \subseteq Nat /\ \A i \in I : i <= n
      BY <1>1
    <3> HIDE DEF I
    <3> QED BY <1>1, <3>1, MaxNat
  <2>3. I # {} => lh[Max(I)] = lg[Max(I)]
    BY <1>1, <2>2
  <2> QED BY <1>4, <1>5, <1>7, <2>1, <2>3 DEF lh
<1> QED BY <1>6, <1>7

\* A log with one more record.
LEMMA AppendedLog ==
    ASSUME Basic, NEW r \in Records, log' = Append(log, r)
    PROVE  /\ log' \in Seq(Records) /\ Len(log') = NextLsn /\ NextLsn = Len(log) + 1
           /\ Len(log) \in Nat
           /\ \A i \in 1 .. Len(log) : log'[i] = log[i] /\ i \in 1 .. Len(log')
           /\ \A i \in 1 .. Len(log') : i = NextLsn \/ i \in 1 .. Len(log)
           /\ log'[NextLsn] = r /\ NextLsn \in 1 .. Len(log')
           /\ Places' = Places \cup (IF r.type = "ckp" THEN {} ELSE {NextLsn})
           /\ Writes' = Writes \cup (IF r.type = "write" THEN {NextLsn} ELSE {})
           /\ FirstLsn(log') = IF r.type = "ckp" THEN r.lsn ELSE FirstLsn(log)
<1>1. /\ log' \in Seq(Records) /\ Len(log') = NextLsn /\ NextLsn = Len(log) + 1
      /\ Len(log) \in Nat
      /\ \A i \in 1 .. Len(log) : log'[i] = log[i]
      /\ log'[NextLsn] = r
  BY DEF Basic, NextLsn
<1>2. /\ \A i \in 1 .. Len(log) : i \in 1 .. Len(log')
      /\ \A i \in 1 .. Len(log') : i = NextLsn \/ i \in 1 .. Len(log)
      /\ NextLsn \in 1 .. Len(log')
  BY <1>1
<1>3. Places' = Places \cup (IF r.type = "ckp" THEN {} ELSE {NextLsn})
  BY <1>1, <1>2 DEF Places
<1>4. Writes' = Writes \cup (IF r.type = "write" THEN {NextLsn} ELSE {})
  BY <1>1, <1>2 DEF Writes
<1>5. FirstLsn(log') = IF r.type = "ckp" THEN r.lsn ELSE FirstLsn(log)
  BY AppendedFirst DEF Basic
<1> QED BY <1>1, <1>2, <1>3, <1>4, <1>5

\* A record that is no write.
LEMMA AppendedOther ==
    ASSUME Basic, NEW r \in Records, log' = Append(log, r), r.type # "write"
    PROVE  /\ Writes' = Writes /\ PageOf' = PageOf /\ ItemOf' = ItemOf
           /\ PrevOf' = PrevOf /\ \A p : On(p)' = On(p)
           /\ \A A, B : Before(A, B)' = Before(A, B)
<1>1. Writes' = Writes
  BY AppendedLog
<1>2. \A n \in Writes : log'[n] = log[n]
  BY AppendedLog DEF Writes
<1>3. PageOf' = PageOf /\ ItemOf' = ItemOf /\ PrevOf' = PrevOf
  BY <1>1, <1>2 DEF PageOf, ItemOf, PrevOf
<1> QED BY <1>1, <1>3 DEF On, Before

\* A write.
LEMMA AppendedWrite ==
    ASSUME Basic, NEW r \in Records, log' = Append(log, r), r.type = "write"
    PROVE  /\ Writes' = Writes \cup {NextLsn} /\ NextLsn \notin Writes
           /\ \A n \in Writes : /\ n < NextLsn
                                /\ PageOf'[n] = PageOf[n]
                                /\ ItemOf'[n] = ItemOf[n]
                                /\ PrevOf'[n] = PrevOf[n]
           /\ PageOf'[NextLsn] = r.page
           /\ ItemOf'[NextLsn] = r.item
           /\ PrevOf'[NextLsn] = r.pagelsn
           /\ \A p : On(p)' = On(p) \cup (IF p = r.page THEN {NextLsn} ELSE {})
<1>1. Writes' = Writes \cup {NextLsn}
  BY AppendedLog
<1>2. /\ \A n \in Writes : log'[n] = log[n] /\ n \in 1 .. Len(log)
      /\ log'[NextLsn] = r
  BY AppendedLog DEF Writes
<1>3. \A n \in Writes : n < NextLsn
  BY <1>2, AppendedLog
<1>4. NextLsn \notin Writes
  <2> SUFFICES ASSUME NextLsn \in Writes PROVE FALSE
    OBVIOUS
  <2>1. NextLsn < NextLsn /\ NextLsn \in Nat
    BY <1>3, AppendedLog
  <2> QED BY <2>1
<1>5. \A n \in Writes : /\ PageOf'[n] = PageOf[n] /\ ItemOf'[n] = ItemOf[n]
                        /\ PrevOf'[n] = PrevOf[n]
  BY <1>1, <1>2 DEF PageOf, ItemOf, PrevOf
<1>6. /\ PageOf'[NextLsn] = r.page /\ ItemOf'[NextLsn] = r.item
      /\ PrevOf'[NextLsn] = r.pagelsn
  <2>1. NextLsn \in Writes'
    BY <1>1
  <2> QED BY <1>2, <2>1 DEF PageOf, ItemOf, PrevOf
<1>7. \A p : On(p)' = On(p) \cup (IF p = r.page THEN {NextLsn} ELSE {})
  BY <1>1, <1>5, <1>6 DEF On
<1> QED BY <1>1, <1>3, <1>4, <1>5, <1>6, <1>7

\* What is undone from the new record on.
Reached(R, r) ==
    IF r.type = "ckp" THEN {}
    ELSE IF r.type = "write" THEN {NextLsn} \cup R[r.prev]
    ELSE IF r.type = "child" THEN R[r.prev] \cup R[r.clsn]
    ELSE R[r.prev]

\* The chains of the longer log are those there were and the new record's.
LEMMA AppendedChains ==
    ASSUME Basic, NEW R, Chains(R), NEW r \in Records, log' = Append(log, r),
           r.type # "ckp" => r.prev \in Places,
           r.type = "child" => r.clsn \in Places /\ Before(R[r.prev], R[r.clsn])
    PROVE  \E S : /\ Chains(S)'
                  /\ \A l \in 0 .. Len(log) : S[l] = R[l]
                  /\ S[NextLsn] = Reached(R, r)
<1>0. PICK S : S = [l \in 0 .. Len(log) + 1 |->
                      IF l = NextLsn THEN Reached(R, r) ELSE R[l]]
  OBVIOUS
<1>1. /\ Len(log) \in Nat /\ NextLsn = Len(log) + 1 /\ Len(log') = NextLsn
      /\ \A i \in 1 .. Len(log) : log'[i] = log[i]
      /\ \A i \in 1 .. Len(log') : i = NextLsn \/ i \in 1 .. Len(log)
      /\ log'[NextLsn] = r
      /\ Places \subseteq Places' /\ Writes \subseteq Writes'
      /\ r.type = "write" => Writes' = Writes \cup {NextLsn}
  BY AppendedLog
<1>2. \A l \in Places : l \in 0 .. Len(log) /\ l < NextLsn
  BY <1>1 DEF Places, ZeroLsn
<1>3. \A l \in 0 .. Len(log) : R[l] \in SUBSET Writes /\ l # NextLsn /\ l \in 0 .. Len(log) + 1
  BY <1>1 DEF Chains
<1>4. \A l \in 0 .. Len(log) : S[l] = R[l]
  BY <1>0, <1>3
<1>5. S[NextLsn] = Reached(R, r)
  BY <1>0, <1>1
<1>6. Reached(R, r) \subseteq Writes' /\ \A n \in Reached(R, r) : n <= NextLsn
  <2>1. Writes \subseteq 1 .. Len(log)
    BY DEF Writes
  <2>2. \A n \in Writes : n <= NextLsn
    BY <1>1, <2>1
  <2>3. r.type # "ckp" => R[r.prev] \subseteq Writes
    BY <1>2, <1>3
  <2>4. r.type = "child" => R[r.clsn] \subseteq Writes
    BY <1>2, <1>3
  <2>5. NextLsn <= NextLsn
    BY <1>1
  <2> QED BY <1>1, <2>2, <2>3, <2>4, <2>5 DEF Reached
<1>7. DOMAIN S = 0 .. Len(log') /\ S \in [0 .. Len(log') -> SUBSET Writes']
  <2>1. \A l \in 0 .. Len(log) + 1 : l = NextLsn \/ l \in 0 .. Len(log)
    BY <1>1
  <2>2. \A l \in 0 .. Len(log) + 1 : S[l] \in SUBSET Writes'
    BY <1>1, <1>3, <1>4, <1>5, <1>6, <2>1
  <2> QED BY <1>0, <1>1, <2>2
<1>8. \A A, B : A \subseteq Writes /\ B \subseteq Writes /\ Before(A, B) => Before(A, B)'
  <2>1. \A n \in Writes : PageOf'[n] = PageOf[n]
    BY AppendedWrite, AppendedOther
  <2> QED BY <2>1 DEF Before
<1>9. ASSUME NEW i \in 1 .. Len(log) PROVE Link(S, i)'
  <2>1. Link(R, i) /\ i \in 0 .. Len(log) /\ log'[i] = log[i] /\ S[i] = R[i]
    BY <1>1, <1>4 DEF Chains
  <2>2. log[i].type # "ckp" => /\ log[i].prev \in Places' /\ S[log[i].prev] = R[log[i].prev]
                               /\ R[log[i].prev] \subseteq Writes
    BY <1>1, <1>2, <1>3, <1>4, <2>1 DEF Link
  <2>3. log[i].type = "child" => /\ log[i].clsn \in Places' /\ S[log[i].clsn] = R[log[i].clsn]
                                 /\ R[log[i].clsn] \subseteq Writes
    BY <1>1, <1>2, <1>3, <1>4, <2>1 DEF Link
  <2>4. log[i].type = "child" => Before(S[log[i].prev], S[log[i].clsn])'
    <3>1. log[i].type = "child" => Before(R[log[i].prev], R[log[i].clsn])'
      BY <1>8, <2>1, <2>2, <2>3 DEF Link
    <3> QED BY <2>2, <2>3, <3>1
  <2> QED BY <2>1, <2>2, <2>3, <2>4 DEF Link, Ends
<1>10. ASSUME NEW n, n = NextLsn PROVE Link(S, n)'
  <2>1. r.type # "ckp" => r.prev \in Places' /\ r.prev < n /\ S[r.prev] = R[r.prev]
    BY <1>1, <1>2, <1>4, <1>10
  <2>2. r.type = "child" => /\ r.clsn \in Places' /\ r.clsn < n /\ S[r.clsn] = R[r.clsn]
                            /\ Before(R[r.prev], R[r.clsn])'
    BY <1>1, <1>2, <1>3, <1>4, <1>8, <1>10
  <2>3. r.type = "child" => Before(S[r.prev], S[r.clsn])'
    BY <2>1, <2>2
  <2>4. log'[n] = r /\ S[n] = Reached(R, r) /\ \A k \in S[n] : k <= n
    BY <1>1, <1>5, <1>6, <1>10
  <2>5. Reached(R, r) = IF r.type = "ckp" THEN {}
            ELSE IF r.type = "write" THEN {n} \cup R[r.prev]
            ELSE IF r.type = "child" THEN R[r.prev] \cup R[r.clsn]
            ELSE R[r.prev]
    BY <1>10 DEF Reached
  <2> QED BY <2>1, <2>2, <2>3, <2>4, <2>5 DEF Link, Ends
<1>11. Chains(S)'
  <2>1. S[0] = {}
    BY <1>1, <1>4 DEF Chains
  <2>2. \A i \in 1 .. Len(log') : Link(S, i)'
    BY <1>1, <1>9, <1>10
  <2> QED BY <1>7, <2>1, <2>2 DEF Chains
<1> QED BY <1>4, <1>5, <1>11

-----------------------------------------------------------------------------
(* Families and locks.                                                     *)

\* After a step too.
LEMMA LineageNext == Tree' => IsTree(Par)' /\ IsLine(Lineage, Par)'
<1>1. Tree => IsTree(Par) /\ IsLine(Lineage, Par)
  BY LineageIs
<1> QED BY <1>1, PTL

\* If nobody changes parents nobody's line changes.
LEMMA LineageKept ==
    ASSUME Tree, Tree', \A g \in Txns : td'[g].parent = td[g].parent
    PROVE  Lineage' = Lineage
<1>1. Par' = Par
  BY DEF Par
<1>2. IsTree(Par) /\ IsLine(Lineage, Par) /\ IsLine(Lineage', Par)
  BY <1>1, LineageIs, LineageNext
<1> QED BY <1>2, LineSame

\* If one without children does the lines of the others are what they were.
LEMMA LineageOthers ==
    ASSUME Tree, Tree', NEW h \in Txns, \A g \in Txns : td[g].parent # h,
           \A g \in Txns \ {h} : td'[g].parent = td[g].parent
    PROVE  \A g \in Txns \ {h} : Lineage'[g] = Lineage[g] /\ h \notin Lineage[g]
<1>1. /\ IsTree(Par) /\ IsLine(Lineage, Par)
      /\ IsTree(Par') /\ IsLine(Lineage', Par')
  BY LineageIs, LineageNext
<1>2. \A g \in Txns : Par[g] # h /\ (g # h => Par'[g] = Par[g])
  BY DEF Par
<1> QED BY <1>1, <1>2, LineChange

\* What the details of a transaction say.
LEMMA DetailFacts ==
    ASSUME Tree, NEW g \in Txns
    PROVE  /\ td[g] \in Details /\ td[g].begin \in Nat /\ td[g].begin <= Len(log)
           /\ td[g].parent \in 0 .. MaxTxns /\ td[g].parent < g
           /\ td[g].parent # NoTxn =>
                td[g].parent \in Txns /\ td[td[g].parent].status = "running"
           /\ td[g].status = "none" => td[g] = NoTd
           /\ td[g].status # "none" => g <= born
           /\ td[g].status # "aborting" => td[g].at = ZeroLsn /\ td[g].stack = <<>>
<1>1. td[g] \in Details /\ TreeOf(g)
  BY DEF Tree
<1> QED BY <1>1, TxnAssumption DEF Details, TreeOf, Txns, NoTxn

\* Who is not running, or has no active children, is nobody's parent.
LEMMA Childless ==
    ASSUME Tree, NEW h \in Txns, td[h].status # "running" \/ Kids(h) = {}
    PROVE  \A g \in Txns : td[g].parent # h /\ (g # h => h \notin Lineage[g])
<1>1. h # NoTxn
  BY TxnAssumption DEF Txns, NoTxn
<1>2. ASSUME NEW g \in Txns, td[g].parent = h PROVE FALSE
  <2>1. TreeOf(g)
    BY DEF Tree
  <2>2. td[h].status = "running" /\ td[g].status # "none"
    BY <1>1, <1>2, <2>1 DEF TreeOf, NoTd
  <2>3. g \in Kids(h)
    BY <1>2, <2>2 DEF Kids, Active
  <2> QED BY <2>2, <2>3
<1> QED BY <1>2, LineageFacts

\* The ancestors of an active transaction are active.
LEMMA TopActive ==
    ASSUME Tree, NEW h \in Txns, td[h].status # "none"
    PROVE  /\ \A a \in Lineage[h] : a \in Txns /\ td[a].status # "none"
           /\ Top(h) \in Txns /\ td[Top(h)].status # "none"
<1>1. ASSUME NEW a \in Lineage[h] PROVE a \in Txns /\ td[a].status # "none"
  <2>1. CASE a = h
    BY <2>1
  <2>2. CASE a # h
    <3>1. PICK k \in Txns : td[k].parent = a /\ a # NoTxn
      BY <2>2, LineageFacts
    <3>2. a \in Txns /\ TreeOf(k)
      BY LineageFacts DEF Tree
    <3> QED BY <3>1, <3>2 DEF TreeOf
  <2> QED BY <2>1, <2>2
<1> QED BY <1>1, LineageFacts

\* Who has written a page has a lock on it.
LEMMA WriterLocks ==
    ASSUME Basic, Locked, NEW h \in Txns, td[h].status # "none", NEW n \in Own[h]
    PROVE  n \in Writes /\ PageOf[n] \in Pages /\ h \in locks[PageOf[n]]
<1>1. n \in Writes /\ ItemOf[n] \in ToSet(said.puts[h][PageOf[n]])
  BY DEF Own
<1>2. PageOf[n] \in Pages
  BY <1>1, WriteTypes
<1>3. said.puts[h][PageOf[n]] # <<>>
  BY <1>1 DEF ToSet
<1> QED BY <1>1, <1>2, <1>3 DEF Locked

\* Only an ancestor has written a page that one without children has written,
\* and before it.
LEMMA Holder ==
    ASSUME Basic, Tree, Locked, Ordered,
           NEW h \in Txns, td[h].status # "none", \A k \in Txns : td[k].parent # h,
           NEW g \in Txns \ {h}, td[g].status # "none",
           NEW n \in Own[h], NEW m \in Own[g], PageOf[m] = PageOf[n]
    PROVE  g \in Lineage[h] /\ m < n
<1>1. h \in locks[PageOf[n]] /\ g \in locks[PageOf[n]] /\ PageOf[n] \in Pages
  BY WriterLocks
<1>2. h \notin Lineage[g]
  BY LineageFacts
<1>3. g \in Lineage[h]
  BY <1>1, <1>2 DEF Locked
<1>4. Before(Own[g], Own[h])
  BY <1>3 DEF Ordered
<1> QED BY <1>3, <1>4 DEF Before

\* What is left to undo is the transaction's own.
LEMMA LeftInside ==
    ASSUME NEW R, Undoing(R), Tree, NEW h \in Txns
    PROVE  /\ LeftOf(R, h) \subseteq Own[h]
           /\ Own[h] \subseteq Writes
           /\ td[h].status \in {"none", "committing"} => LeftOf(R, h) = {}
           /\ td[h].status \in {"running", "prepared"} => LeftOf(R, h) = Own[h]
BY DEF LeftOf, Undoing, Own

\* The places of a trail.
LEMMA TrailPlaces ==
    ASSUME Basic, Tree, NEW h \in Txns
    PROVE  /\ Trail(h) \in Seq(Nat)
           /\ DOMAIN Trail(h) = 1 .. Len(td[h].stack) + 1
           /\ \A i \in DOMAIN Trail(h) : Trail(h)[i] \in Places /\ Trail(h)[i] \in 0 .. Len(log)
<1>1. TreeOf(h) /\ td[h].stack \in Seq(Nat) /\ td[h].at \in Nat
  BY DEF Tree, Details
<1>2. /\ Trail(h) \in Seq(Nat) /\ DOMAIN Trail(h) = 1 .. Len(td[h].stack) + 1
      /\ \A i \in DOMAIN Trail(h) : i \in DOMAIN td[h].stack \/ Trail(h)[i] = td[h].at
      /\ \A i \in DOMAIN td[h].stack : Trail(h)[i] = td[h].stack[i]
  BY <1>1 DEF Trail
<1>3. \A i \in DOMAIN Trail(h) : Trail(h)[i] \in Places
  BY <1>1, <1>2 DEF TreeOf
<1>4. \A x \in Places : x \in 0 .. Len(log)
  BY WriteTypes DEF Places, ZeroLsn
<1> QED BY <1>2, <1>3, <1>4

-----------------------------------------------------------------------------
(* What a step leaves as it was.                                           *)

\* The same log.
LEMMA SameLog ==
    ASSUME log' = log
    PROVE  /\ Writes' = Writes /\ PageOf' = PageOf /\ ItemOf' = ItemOf
           /\ PrevOf' = PrevOf /\ \A p : On(p)' = On(p)
           /\ \A A, B : Before(A, B)' = Before(A, B)
           /\ Places' = Places /\ NextLsn' = NextLsn /\ Len(log') = Len(log)
           /\ FirstLsn(log') = FirstLsn(log)
           /\ \A R : Chains(R)' = Chains(R)
<1>1. Writes' = Writes /\ Places' = Places /\ NextLsn' = NextLsn
  BY DEF Writes, Places, NextLsn
<1>2. PageOf' = PageOf /\ ItemOf' = ItemOf /\ PrevOf' = PrevOf
  BY <1>1 DEF PageOf, ItemOf, PrevOf
<1>3. /\ \A p : On(p)' = On(p)
      /\ \A A, B : Before(A, B)' = Before(A, B)
  BY <1>1, <1>2 DEF On, Before
<1>4. \A R, i : Link(R, i)' = Link(R, i)
  BY <1>1, <1>3 DEF Link
<1>5. \A R : Chains(R)' = Chains(R)
  BY <1>1, <1>4 DEF Chains
<1> QED BY <1>1, <1>2, <1>3, <1>5

\* A log that has at most a record more, which is no write, and transactions
\* that have put the same items: S has the chains of the log.
Longer(R, S) ==
    /\ Chains(S)'
    /\ \A l \in 0 .. Len(log) : S[l] = R[l]
    /\ Len(log) \in Nat /\ Len(log') \in Nat /\ Len(log) <= Len(log')
    /\ Places \subseteq Places'
    /\ Writes' = Writes /\ PageOf' = PageOf /\ ItemOf' = ItemOf /\ PrevOf' = PrevOf
    /\ \A p : On(p)' = On(p)
    /\ \A A, B : Before(A, B)' = Before(A, B)

\* No record, ...
LEMMA NotLonger ==
    ASSUME Basic, NEW R, Chains(R), log' = log
    PROVE  Longer(R, R)
<1>1. Len(log) \in Nat /\ Len(log') = Len(log) /\ Chains(R)'
  BY SameLog, WriteTypes
<1> QED BY <1>1, SameLog DEF Longer

\* ... or one.
LEMMA OneLonger ==
    ASSUME Basic, NEW R, Chains(R), NEW r \in Records, log' = Append(log, r),
           r.type # "write",
           r.type # "ckp" => r.prev \in Places,
           r.type = "child" => r.clsn \in Places /\ Before(R[r.prev], R[r.clsn])
    PROVE  \E S : Longer(R, S) /\ S[NextLsn] = Reached(R, r)
<1>1. PICK S : /\ Chains(S)'
               /\ \A l \in 0 .. Len(log) : S[l] = R[l]
               /\ S[NextLsn] = Reached(R, r)
  BY AppendedChains
<1>2. Len(log) \in Nat /\ Len(log') = Len(log) + 1 /\ Places \subseteq Places'
  BY AppendedLog
<1>3. Longer(R, S)
  <2>1. Len(log') \in Nat /\ Len(log) <= Len(log')
    BY <1>2
  <2> QED BY <1>1, <1>2, <2>1, AppendedOther DEF Longer
<1> QED BY <1>1, <1>3

\* The same items of each transaction.
LEMMA SameOwn ==
    ASSUME NEW R, NEW S, Longer(R, S), said'.puts = said.puts
    PROVE  Own' = Own
BY DEF Longer, Own

\* Along the places there were.
LEMMA SameCovered ==
    ASSUME Basic, Tree, NEW R, NEW S, \A l \in 0 .. Len(log) : S[l] = R[l],
           NEW g \in Txns
    PROVE  /\ \A i \in DOMAIN Trail(g) : S[Trail(g)[i]] = R[Trail(g)[i]]
           /\ Covered(S, Trail(g)) = Covered(R, Trail(g))
<1>1. \A i \in DOMAIN Trail(g) : S[Trail(g)[i]] = R[Trail(g)[i]]
  BY TrailPlaces
<1> QED BY <1>1 DEF Covered

\* LeftOf of one with the details d and the writes own.
LeftIn(R, d, own) ==
    IF d.status = "aborting" THEN Covered(R, Append(d.stack, d.at))
    ELSE IF d.status \in {"running", "prepared"} THEN own ELSE {}

\* Who does nothing has the same left to undo.
LEMMA SameLeft ==
    ASSUME Basic, Tree, NEW R, NEW S, \A l \in 0 .. Len(log) : S[l] = R[l],
           NEW g \in Txns, NEW d, d.status = td[g].status,
           d.at = td[g].at, d.stack = td[g].stack
    PROVE  LeftIn(S, d, Own[g]) = LeftOf(R, g)
<1>1. Covered(S, Trail(g)) = Covered(R, Trail(g))
  BY SameCovered
<1> QED BY <1>1 DEF LeftOf, LeftIn, Trail

\* And may undo it in the same order.
LEMMA SameTrail ==
    ASSUME Basic, Tree, NEW R, NEW S, Longer(R, S), Undoing(R),
           NEW g \in Txns, td'[g].status = td[g].status,
           td'[g].at = td[g].at, td'[g].stack = td[g].stack, Own'[g] = Own[g],
           td'[g].status = "aborting"
    PROVE  InOrder(S, Trail(g))' /\ (Covered(S, Trail(g)) \subseteq Own[g])'
<1>1. /\ Trail(g)' = Trail(g)
      /\ Covered(S, Trail(g)) = Covered(R, Trail(g))
      /\ \A i \in DOMAIN Trail(g) : S[Trail(g)[i]] = R[Trail(g)[i]]
  <2>1. \A l \in 0 .. Len(log) : S[l] = R[l]
    BY DEF Longer
  <2>2. Trail(g)' = Trail(g)
    BY DEF Trail
  <2>3. Covered(S, Trail(g)) = Covered(R, Trail(g))
    BY <2>1, SameCovered
  <2>4. \A i \in DOMAIN Trail(g) : S[Trail(g)[i]] = R[Trail(g)[i]]
    BY <2>1, SameCovered
  <2> QED BY <2>2, <2>3, <2>4
<1>2. InOrder(R, Trail(g)) /\ Covered(R, Trail(g)) \subseteq Own[g]
  BY DEF Undoing
<1>3. InOrder(S, Trail(g))
  BY <1>1, <1>2 DEF InOrder
<1>4. InOrder(S, Trail(g))'
  BY <1>1, <1>3 DEF InOrder, Longer
<1> QED BY <1>1, <1>2, <1>4 DEF Covered

\* The details after one more record of h.
LEMMA LoggedFields ==
    ASSUME Basic, Tree, NEW h \in Txns, td[h].status # "none"
    PROVE  /\ Logged(h) \in [Txns -> Details]
           /\ \A g \in Txns :
                /\ Logged(h)[g].status = td[g].status /\ Logged(h)[g].id = td[g].id
                /\ Logged(h)[g].parent = td[g].parent /\ Logged(h)[g].at = td[g].at
                /\ Logged(h)[g].voted = td[g].voted /\ Logged(h)[g].stack = td[g].stack
                /\ Logged(h)[g].last = IF g = h THEN NextLsn ELSE td[g].last
                /\ Logged(h)[g].begin = IF g = Top(h) /\ td[g].begin = ZeroLsn
                                        THEN NextLsn ELSE td[g].begin
                /\ td[g].status = "none" => Logged(h)[g] = td[g]
<1>1. Top(h) \in Txns /\ td[Top(h)].status # "none"
  BY TopActive
<1>2. td \in [Txns -> Details] /\ NextLsn \in Nat
  BY WriteTypes DEF Tree, NextLsn
<1> DEFINE t == Top(h)
           n == NextLsn
<1>3. Logged(h) = [[td EXCEPT ![h].last = n] EXCEPT ![t].begin = IF @ = ZeroLsn THEN n ELSE @]
  BY DEF Logged
<1>4. t \in Txns /\ td[t].status # "none" /\ n \in Nat
  BY <1>1, <1>2
<1> HIDE DEF t, n
<1> DEFINE d == [td EXCEPT ![h].last = n]
<1>5. \A g \in Txns : d[g] = IF g = h THEN [td[g] EXCEPT !.last = n] ELSE td[g]
  BY <1>2
<1>6. d \in [Txns -> Details] /\ \A g \in Txns : d[g].begin = td[g].begin
  <2>1. \A g \in Txns : td[g] \in Details
    BY <1>2
  <2>2. \A g \in Txns : [td[g] EXCEPT !.last = n] \in Details
    BY <1>4, <2>1 DEF Details
  <2>3. DOMAIN d = Txns
    BY <1>2
  <2>4. \A g \in Txns : d[g] \in Details
    BY <1>5, <2>1, <2>2
  <2>5. \A g \in Txns : [td[g] EXCEPT !.last = n].begin = td[g].begin
    BY <2>1 DEF Details
  <2>6. d = [g \in Txns |-> d[g]]
    BY <1>2
  <2> HIDE DEF d
  <2> QED BY <1>5, <2>4, <2>5, <2>6
<1>7. Logged(h) = [d EXCEPT ![t].begin = IF @ = ZeroLsn THEN n ELSE @]
  BY <1>3
<1> DEFINE b == IF d[t].begin = ZeroLsn THEN n ELSE d[t].begin
<1>8. b \in Nat /\ b = IF td[t].begin = ZeroLsn THEN n ELSE td[t].begin
  <2>1. td[t].begin \in Nat
    BY <1>2, <1>4 DEF Details
  <2> QED BY <1>4, <1>6, <2>1
<1> HIDE DEF d
<1>9. Logged(h) = [d EXCEPT ![t] = [d[t] EXCEPT !.begin = b]]
  BY <1>7
<1>10. \A g \in Txns : Logged(h)[g] = IF g = t THEN [d[g] EXCEPT !.begin = b] ELSE d[g]
  BY <1>4, <1>6, <1>9
<1> HIDE DEF b
<1>11. Logged(h) \in [Txns -> Details]
  <2>1. [d[t] EXCEPT !.begin = b] \in Details
    BY <1>4, <1>6, <1>8 DEF Details
  <2> QED BY <1>6, <1>9, <2>1
<1>12. ASSUME NEW g \in Txns
       PROVE  /\ Logged(h)[g].status = td[g].status /\ Logged(h)[g].id = td[g].id
              /\ Logged(h)[g].parent = td[g].parent /\ Logged(h)[g].at = td[g].at
              /\ Logged(h)[g].voted = td[g].voted /\ Logged(h)[g].stack = td[g].stack
              /\ Logged(h)[g].last = IF g = h THEN n ELSE td[g].last
              /\ Logged(h)[g].begin = IF g = t /\ td[g].begin = ZeroLsn
                                      THEN n ELSE td[g].begin
              /\ td[g].status = "none" => Logged(h)[g] = td[g]
  <2>1. td[g] \in Details /\ d[g] \in Details
    BY <1>2, <1>6
  <2>2. d[g] = IF g = h THEN [td[g] EXCEPT !.last = n] ELSE td[g]
    BY <1>5
  <2>3. Logged(h)[g] = IF g = t THEN [d[g] EXCEPT !.begin = b] ELSE d[g]
    BY <1>10
  <2>4. /\ d[g].status = td[g].status /\ d[g].id = td[g].id
        /\ d[g].parent = td[g].parent /\ d[g].at = td[g].at
        /\ d[g].voted = td[g].voted /\ d[g].stack = td[g].stack
        /\ d[g].last = (IF g = h THEN n ELSE td[g].last)
        /\ d[g].begin = td[g].begin
    BY <2>1, <2>2 DEF Details
  <2>5. /\ Logged(h)[g].status = d[g].status /\ Logged(h)[g].id = d[g].id
        /\ Logged(h)[g].parent = d[g].parent /\ Logged(h)[g].at = d[g].at
        /\ Logged(h)[g].voted = d[g].voted /\ Logged(h)[g].stack = d[g].stack
        /\ Logged(h)[g].last = d[g].last
        /\ Logged(h)[g].begin = IF g = t THEN b ELSE d[g].begin
    BY <2>1, <2>3 DEF Details
  <2>6. td[g].status = "none" => Logged(h)[g] = td[g]
    BY <1>4, <2>2, <2>3
  <2> QED BY <1>8, <2>4, <2>5, <2>6
<1> QED BY <1>11, <1>12 DEF t, n

-----------------------------------------------------------------------------
(* Pages and checkpoints that a step leaves alone.                         *)

\* The same writes are pending and committed.
LEMMA CachedKept ==
    ASSUME NEW R, NEW S, Longer(R, S), Cached(R),
           Pend(S)' = Pend(R), Com' = Com, mem' = mem
    PROVE  Cached(S)'
<1>1. ItemOf' = ItemOf /\ PrevOf' = PrevOf /\ \A p : On(p)' = On(p)
  BY DEF Longer
<1>2. ASSUME NEW p \in Pages
      PROVE  PageOK(ItemOf, PrevOf, Pend(S) \cap On(p), Com \cap On(p), mem[p])'
  BY <1>1 DEF Cached
<1>3. (mem \in [Pages -> [lsn : Nat, val : Seq(Nat)]])'
  BY DEF Cached
<1> QED BY <1>2, <1>3 DEF Cached

\* Whoever is active afterwards has what active ones had; what commits was
\* theirs too, so it is not behind the LSN of a checkpoint.
LEMMA CheckpointKept ==
    ASSUME Basic, Checkpointed, NEW R, NEW S, Longer(R, S),
           FirstLsn(log') = FirstLsn(log),
           dirty' \subseteq Pages, \A p \in Pages : p \notin dirty' => disk[p] = mem'[p],
           disk' = disk, NEW x, ckp' = [ckp EXCEPT !.owed = x],
           \A g \in Txns : td'[g].status # "none" => \A n \in Own'[g] :
               \E k \in Txns : td[k].status # "none" /\ n \in Own[k],
           \A n \in Writes : (n \in Com' <=> n \in Com)
               \/ \E k \in Txns : td[k].status # "none" /\ n \in Own[k]
    PROVE  Checkpointed'
<1> DEFINE f == FirstLsn(log)
           c == ckp.lsn
<1>1. f \in Nat /\ c \in Nat /\ f <= NextLsn
  BY DEF Checkpointed
<1>2. /\ Len(log) \in Nat /\ Len(log') \in Nat /\ Len(log) <= Len(log')
      /\ ItemOf' = ItemOf /\ \A p : On(p)' = On(p)
  BY DEF Longer
<1>3. ASSUME NEW m \in Nat, Over(m) PROVE Over(m)'
  BY <1>3 DEF Over
<1>4. ASSUME NEW m \in Nat, Over(m), NEW p \in Pages, InFile(m, p) PROVE InFile(m, p)'
  <2> SUFFICES ASSUME NEW n \in On(p), n < m
               PROVE  ItemOf[n] \in ToSet(disk[p].val) <=> n \in Com'
    BY <1>2 DEF InFile
  <2>1. n \in Writes /\ n \in Nat
    BY WriteTypes DEF On
  <2>2. ~ \E k \in Txns : td[k].status # "none" /\ n \in Own[k]
    BY <1>4, <2>1 DEF Over
  <2>3. ItemOf[n] \in ToSet(disk[p].val) <=> n \in Com
    BY <1>4 DEF InFile
  <2> QED BY <2>1, <2>2, <2>3
<1>5. /\ ckp'.step = ckp.step /\ ckp'.lsn = c /\ ckp'.todo = ckp.todo
      /\ ckp' = [step |-> ckp'.step, lsn |-> ckp'.lsn, todo |-> ckp'.todo, owed |-> ckp'.owed]
  BY DEF Checkpointed
<1>6. Over(f) /\ \A p \in Pages : InFile(f, p)
  BY DEF Checkpointed
<1>7. Over(f)' /\ \A p \in Pages : InFile(f, p)'
  <2>1. PICK m : m = f
    OBVIOUS
  <2>2. Over(m)' /\ \A p \in Pages : InFile(m, p)'
    BY <1>1, <1>3, <1>4, <1>6, <2>1
  <2>3. FirstLsn(log') = m
    BY <2>1
  <2> HIDE DEF f
  <2> QED BY <2>2, <2>3 DEF f, Over, InFile
<1>8. ckp.step = "sync" =>
        Over(c)' /\ \A p \in Pages \ ckp.todo : InFile(c, p)'
  <2> SUFFICES ASSUME ckp.step = "sync"
               PROVE  Over(c)' /\ \A p \in Pages \ ckp.todo : InFile(c, p)'
    OBVIOUS
  <2>1. Over(c) /\ \A p \in Pages \ ckp.todo : InFile(c, p)
    BY DEF Checkpointed
  <2>2. PICK m : m = c
    OBVIOUS
  <2>3. Over(m)' /\ \A p \in Pages \ ckp.todo : InFile(m, p)'
    BY <1>1, <1>3, <1>4, <2>1, <2>2
  <2>4. ckp'.lsn = m
    BY <1>5, <2>2
  <2> HIDE DEF c
  <2> QED BY <2>3, <2>4 DEF c, Over, InFile
<1>9. FirstLsn(log') \in Nat /\ FirstLsn(log') <= NextLsn'
  BY <1>1, <1>2 DEF NextLsn
<1>10. ckp.step # "idle" => ckp'.lsn <= Len(log')
  BY <1>1, <1>2, <1>5 DEF Checkpointed
<1>11. /\ ckp.step \in {"idle", "lsn", "sync"} /\ disk' \in [Pages -> [lsn : Nat, val : Seq(Nat)]]
       /\ \A p \in Pages : p \notin dirty' => disk'[p] = mem'[p]
  BY DEF Checkpointed
<1> HIDE DEF f, c
<1>12. ckp'.step = "sync" => Over(ckp.lsn)' /\ \A p \in Pages \ ckp'.todo : InFile(ckp.lsn, p)'
  BY <1>5, <1>8 DEF c
<1>13. Over(FirstLsn(log))' /\ \A p \in Pages : InFile(FirstLsn(log), p)'
  BY <1>7 DEF f
<1>14. ckp'.lsn \in Nat /\ ckp'.step \in {"idle", "lsn", "sync"}
       /\ (ckp'.step # "idle" => ckp'.lsn <= Len(log'))
  BY <1>1, <1>5, <1>10, <1>11 DEF c
<1> QED BY <1>5, <1>9, <1>11, <1>12, <1>13, <1>14 DEF Checkpointed

-----------------------------------------------------------------------------
(* Transactions that end.                                                  *)

\* One who has no children and nothing left to undo may leave the list.
LEMMA Leaving ==
    ASSUME NEW R, IInv(R), NEW S, Longer(R, S),
           NEW h \in Txns, td[h].status # "none", \A g \in Txns : td[g].parent # h,
           LeftOf(R, h) = {}, td' = [td EXCEPT ![h] = NoTd],
           Basic', FirstLsn(log') = FirstLsn(log), items' = items, born' = born,
           said' \in [puts : [Txns -> [Pages -> Seq(Nat)]], voted : SUBSET Txns,
                      order : Seq(Txns), aborted : SUBSET Txns],
           said'.puts = said.puts, said'.order = said.order, said'.voted = said.voted,
           said.aborted \subseteq said'.aborted,
           h \in said.voted => h \in ToSet(said.order) \cup said'.aborted,
           locks' = [p \in Pages |-> locks[p] \ {h}],
           mem' = mem, disk' = disk, dirty' = dirty, NEW x, ckp' = [ckp EXCEPT !.owed = x]
    PROVE  IInv(S)'
<1>1. /\ Basic /\ Chains(R) /\ Tree /\ Outcomes /\ Owners(R) /\ Begun /\ Locked
      /\ Ordered /\ Undoing(R) /\ Cached(R) /\ Checkpointed
  BY DEF IInv
<1>2. td \in [Txns -> Details] /\ \A g \in Txns : TreeOf(g)
  BY <1>1 DEF Tree
<1>3. /\ td'[h] = NoTd /\ \A g \in Txns \ {h} : td'[g] = td[g]
      /\ NoTd.status = "none" /\ NoTd.parent = NoTxn
  BY <1>2 DEF NoTd
<1>4. /\ \A l \in 0 .. Len(log) : S[l] = R[l]
      /\ Len(log) \in Nat /\ Len(log') \in Nat /\ Len(log) <= Len(log')
      /\ Places \subseteq Places' /\ Writes' = Writes /\ PageOf' = PageOf /\ ItemOf' = ItemOf
      /\ \A A, B : Before(A, B)' = Before(A, B)
  BY DEF Longer
<1>5. Own' = Own
  BY SameOwn
<1>6. \A g \in Txns : td[g].last \in 0 .. Len(log)
  <2>1. \A y \in Places : y \in 0 .. Len(log)
    BY <1>1, WriteTypes DEF Places, ZeroLsn
  <2> QED BY <1>2, <2>1 DEF TreeOf
<1>7. Tree'
  <2>1. NoTd \in Details
    BY TxnAssumption DEF NoTd, Details, Statuses, NoTxn, ZeroLsn
  <2>2. td' \in [Txns -> Details] /\ (born \in 0 .. MaxTxns)'
    BY <1>1, <1>2, <2>1 DEF Tree
  <2>3. ASSUME NEW g \in Txns \ {h} PROVE TreeOf(g)'
    <3>1. td'[g] = td[g] /\ TreeOf(g) /\ td[g].parent # h /\ td[g] \in Details
      BY <1>2, <1>3
    <3>2. td[g].parent # NoTxn => td'[td[g].parent] = td[td[g].parent]
      <4>1. td[g].parent \in 0 .. MaxTxns
        BY <3>1 DEF Details
      <4>2. td[g].parent # NoTxn => td[g].parent \in Txns
        BY <4>1, TxnAssumption DEF Txns, NoTxn
      <4> QED BY <1>3, <3>1, <4>2
    <3>3. td[g].begin \in Nat /\ (td[g].begin <= Len(log) => td[g].begin <= Len(log'))
      BY <1>4, <3>1 DEF Details
    <3> QED BY <1>4, <3>1, <3>2, <3>3 DEF TreeOf
  <2>4. TreeOf(h)'
    <3>1. ZeroLsn \in Places'
      BY DEF Places
    <3> QED BY <1>3, <1>4, <3>1, TxnAssumption DEF TreeOf, NoTd, ZeroLsn, NoTxn, Txns
  <2> QED BY <2>2, <2>3, <2>4 DEF Tree
<1>8. \A g \in Txns \ {h} : Lineage'[g] = Lineage[g] /\ h \notin Lineage[g]
  BY <1>1, <1>3, <1>7, LineageOthers
<1>8a. \A g \in Txns \ {h} : \A a \in Lineage[g] : a \in Txns \ {h}
  BY <1>1, <1>8, LineageFacts
<1>9. Outcomes'
  <2>1. /\ (said.voted \subseteq 1 .. born)' /\ (ToSet(said.order) \subseteq 1 .. born)'
        /\ ToSet(said'.order) = ToSet(said.order)
    BY <1>1 DEF Outcomes
  <2> QED BY <1>1, <1>3, <2>1 DEF Outcomes
<1>10. Owners(S)'
  BY <1>1, <1>3, <1>4, <1>5, <1>6 DEF Owners
<1>11. Begun'
  <2> SUFFICES ASSUME NEW g \in Txns, td'[g].status # "none",
                      NEW a \in Lineage'[g], td'[a].parent = NoTxn, NEW n \in Own'[g]
               PROVE  td'[a].begin # ZeroLsn /\ td'[a].begin <= n
    BY DEF Begun
  <2>1. g # h /\ Lineage'[g] = Lineage[g]
    BY <1>3, <1>8
  <2>2. a \in Txns \ {h} /\ a \in Lineage[g]
    BY <1>8a, <2>1
  <2>3. td'[a] = td[a] /\ td'[g] = td[g] /\ n \in Own[g]
    BY <1>3, <1>5, <2>1, <2>2
  <2> QED BY <1>1, <2>1, <2>2, <2>3 DEF Begun
<1>12. Locked'
  <2>1. \A p \in Pages : locks'[p] = locks[p] \ {h}
    OBVIOUS
  <2>2. \A p \in Pages : locks[p] \subseteq Txns
    BY <1>1 DEF Locked
  <2>3. locks' \in [Pages -> SUBSET Txns]
    BY <2>2
  <2>4. \A p \in Pages : \A g \in locks'[p] : td'[g].status # "none" /\ td'[g].last # ZeroLsn
    BY <1>1, <1>3, <2>1, <2>2 DEF Locked
  <2>5. \A p \in Pages : \A g, k \in locks'[p] : g \in Lineage'[k] \/ k \in Lineage'[g]
    BY <1>1, <1>8, <2>1, <2>2 DEF Locked
  <2>6. \A g \in Txns, p \in Pages :
          td'[g].status # "none" /\ said'.puts[g][p] # <<>> => g \in locks'[p]
    BY <1>1, <1>3, <2>1 DEF Locked
  <2> QED BY <2>3, <2>4, <2>5, <2>6 DEF Locked
<1>13. Ordered'
  <2>1. \A g \in Txns : td'[g].status # "none" =>
          \A a \in Lineage'[g] \ {g} : Before(Own[a], Own[g])
    BY <1>1, <1>3, <1>8 DEF Ordered
  <2> QED BY <1>4, <1>5, <2>1 DEF Ordered, Before
<1>14. Undoing(S)'
  <2>1. ASSUME NEW g \in Txns, td'[g].status = "aborting"
        PROVE  InOrder(S, Trail(g))' /\ (Covered(S, Trail(g)) \subseteq Own[g])'
    <3>1. td'[g] = td[g]
      BY <1>3, <2>1
    <3> QED BY <1>1, <1>5, <2>1, <3>1, SameTrail
  <2> QED BY <2>1 DEF Undoing
<1>15. Pend(S)' = Pend(R)
  <2>1. ASSUME NEW g \in Txns PROVE LeftOf(S, g)' = LeftOf(R, g)
    <3>1. CASE g = h
      <4>1. LeftOf(S, g)' = {}
        BY <1>3, <3>1 DEF LeftOf
      <4> QED BY <3>1, <4>1
    <3>2. CASE g # h
      <4>1. td'[g] = td[g]
        BY <1>3, <3>2
      <4>2. LeftIn(S, td[g], Own[g]) = LeftOf(R, g)
        BY <1>1, <1>4, SameLeft
      <4> QED BY <1>5, <4>1, <4>2 DEF LeftOf, LeftIn, Trail
    <3> QED BY <3>1, <3>2
  <2> QED BY <2>1 DEF Pend
<1>16. Com' = Com
  BY <1>5 DEF Com
<1>17. Cached(S)'
  BY <1>1, <1>15, <1>16, CachedKept
<1>18. Checkpointed'
  <2>1. \A g \in Txns : td'[g].status # "none" => \A n \in Own'[g] :
               \E k \in Txns : td[k].status # "none" /\ n \in Own[k]
    BY <1>3, <1>5
  <2>2. dirty' \subseteq Pages /\ \A p \in Pages : p \notin dirty' => disk[p] = mem'[p]
    BY <1>1 DEF Checkpointed
  <2> QED BY <1>1, <1>16, <2>1, <2>2, CheckpointKept
<1>19. Chains(S)'
  BY DEF Longer
<1> QED BY <1>7, <1>9, <1>10, <1>11, <1>12, <1>13, <1>14, <1>17, <1>18, <1>19 DEF IInv

\* Taking one off the locks of a page where it has none.
LEMMA NoLocks ==
    ASSUME Locked, NEW h \in Txns, td[h].last = ZeroLsn
    PROVE  locks = [p \in Pages |-> locks[p] \ {h}]
<1>1. locks \in [Pages -> SUBSET Txns] /\ \A p \in Pages : h \notin locks[p]
  BY DEF Locked
<1>2. \A p \in Pages : locks[p] \ {h} = locks[p]
  BY <1>1
<1> QED BY <1>1, <1>2

\* The checkpoint in progress with its own field.
LEMMA SameCkp ==
    ASSUME Checkpointed
    PROVE  ckp = [ckp EXCEPT !.owed = ckp.owed]
BY DEF Checkpointed

\* The last record of a transaction is one of its chain.
LEMMA LastPlace ==
    ASSUME Basic, Tree, NEW h \in Txns
    PROVE  /\ td[h].last \in Places /\ td[h].last \in 0 .. Len(log)
           /\ td[h].at \in Places /\ td[h].at \in 0 .. Len(log)
           /\ td[h] \in Details /\ TreeOf(h)
<1>1. td[h] \in Details /\ TreeOf(h)
  BY DEF Tree
<1>2. \A y \in Places : y \in 0 .. Len(log)
  BY WriteTypes DEF Places, ZeroLsn
<1> QED BY <1>1, <1>2 DEF TreeOf

\* A commit that was put returns.
LEMMA CommitEndOK ==
    ASSUME NEW R, IInv(R), NEW h \in Txns, CommitEnd(h)
    PROVE  \E S : IInv(S)'
<1>1. Basic /\ Chains(R) /\ Tree /\ Outcomes /\ Owners(R) /\ Undoing(R)
  BY DEF IInv
<1>2. td[h].status = "committing" /\ h \in ToSet(said.order)
  BY <1>1 DEF CommitEnd, Outcomes
<1>3. log' = log /\ said' = said /\ Longer(R, R)
  BY <1>1, NotLonger DEF CommitEnd
<1>4. FirstLsn(log') = FirstLsn(log)
  BY <1>3
<1>5. Basic'
  BY <1>1 DEF CommitEnd, Basic, boundVars, idVars
<1>6. \A g \in Txns : td[g].parent # h
  BY <1>1, <1>2, Childless
<1>7. LeftOf(R, h) = {}
  BY <1>2 DEF LeftOf
<1>8. /\ td' = [td EXCEPT ![h] = NoTd] /\ items' = items /\ born' = born
      /\ mem' = mem /\ disk' = disk /\ dirty' = dirty
      /\ locks' = [p \in Pages |-> locks[p] \ {h}]
      /\ \E x : ckp' = [ckp EXCEPT !.owed = x]
  BY DEF CommitEnd, End, cacheVars, boundVars, idVars
<1>9. said' \in [puts : [Txns -> [Pages -> Seq(Nat)]], voted : SUBSET Txns,
                 order : Seq(Txns), aborted : SUBSET Txns]
  BY <1>1, <1>3 DEF Owners
<1>10. PICK x : ckp' = [ckp EXCEPT !.owed = x]
  BY <1>8
<1>11. IInv(R)'
  BY <1>2, <1>3, <1>4, <1>5, <1>6, <1>7, <1>8, <1>9, <1>10, Leaving
<1> QED BY <1>11

\* A transaction without a record ends.
LEMMA EndUnloggedOK ==
    ASSUME NEW R, IInv(R), NEW h \in Txns, EndUnlogged(h)
    PROVE  \E S : IInv(S)'
<1>1. /\ Basic /\ Chains(R) /\ Tree /\ Outcomes /\ Owners(R) /\ Undoing(R) /\ Locked
      /\ Checkpointed
  BY DEF IInv
<1>2. td[h].status = "running" /\ td[h].last = ZeroLsn /\ h \notin said.voted
  BY <1>1 DEF EndUnlogged, Outcomes
<1>3. log' = log /\ said' = said /\ Longer(R, R)
  BY <1>1, NotLonger DEF EndUnlogged, logVars
<1>4. FirstLsn(log') = FirstLsn(log)
  BY <1>3
<1>5. Basic'
  BY <1>1 DEF EndUnlogged, Basic, boundVars, idVars, logVars
<1>6. \A g \in Txns : td[g].parent # h
  BY <1>1, Childless DEF EndUnlogged
<1>7. LeftOf(R, h) = {}
  <2>1. R[0] = {} /\ R[td[h].last] = Own[h]
    BY <1>1, <1>2 DEF Chains, Owners
  <2> QED BY <1>2, <2>1 DEF LeftOf, ZeroLsn
<1>8. /\ td' = [td EXCEPT ![h] = NoTd] /\ items' = items /\ born' = born
      /\ mem' = mem /\ disk' = disk /\ dirty' = dirty
      /\ locks' = [p \in Pages |-> locks[p] \ {h}]
      /\ ckp' = [ckp EXCEPT !.owed = ckp.owed]
  <2>1. locks' = locks /\ ckp' = ckp
    BY DEF EndUnlogged
  <2> QED BY <1>1, <1>2, <2>1, NoLocks, SameCkp DEF EndUnlogged, cacheVars, boundVars, idVars
<1>9. said' \in [puts : [Txns -> [Pages -> Seq(Nat)]], voted : SUBSET Txns,
                 order : Seq(Txns), aborted : SUBSET Txns]
  BY <1>1, <1>3 DEF Owners
<1>10. PICK x : ckp' = [ckp EXCEPT !.owed = x]
  BY <1>8
<1>11. IInv(R)'
  BY <1>2, <1>3, <1>4, <1>5, <1>6, <1>7, <1>8, <1>9, <1>10, Leaving
<1> QED BY <1>11

\* A commit or abort record.
LEMMA EndRecord ==
    ASSUME Basic, Tree, NEW h \in Txns, NEW t \in {"commit", "abort"}
    PROVE  /\ EndRec(t, h) \in Records
           /\ EndRec(t, h).type = t /\ EndRec(t, h).who = h
           /\ EndRec(t, h).prev = td[h].last /\ td[h].last \in Places
<1>1. td[h] \in Details /\ td[h].last \in Places
  BY LastPlace
<1>2. td[h].id \in Int /\ td[h].last \in Nat
  BY <1>1 DEF Details
<1> QED BY <1>1, <1>2 DEF EndRec, Records

\* An abort ends, with a record if the transaction had voted.
LEMMA AbortEndOK ==
    ASSUME NEW R, IInv(R), NEW h \in Txns, AbortEnd(h)
    PROVE  \E S : IInv(S)'
<1>1. /\ Basic /\ Chains(R) /\ Tree /\ Outcomes /\ Owners(R) /\ Undoing(R) /\ Locked
      /\ Checkpointed
  BY DEF IInv
<1>2. td[h].status = "aborting" /\ td[h].at = ZeroLsn /\ td[h].stack = <<>>
      /\ (td[h].voted <=> h \in said.voted)
  <2>1. TreeOf(h)
    BY <1>1 DEF Tree
  <2> QED BY <1>1, <2>1 DEF AbortEnd, Outcomes, TreeOf
<1>3. \A g \in Txns : td[g].parent # h
  BY <1>1, <1>2, Childless
<1>4. LeftOf(R, h) = {}
  <2>1. Trail(h) = <<0>>
    BY <1>2 DEF Trail, ZeroLsn
  <2>2. \A i \in DOMAIN Trail(h) : Trail(h)[i] = 0
    BY <2>1
  <2>3. Covered(R, Trail(h)) = {}
    BY <1>1, <2>2 DEF Covered, Chains
  <2> QED BY <1>2, <2>3 DEF LeftOf
<1>5. /\ td' = [td EXCEPT ![h] = NoTd] /\ items' = items /\ born' = born
      /\ mem' = mem /\ disk' = disk /\ dirty' = dirty
      /\ locks' = [p \in Pages |-> locks[p] \ {h}]
      /\ \E x : ckp' = [ckp EXCEPT !.owed = x]
      /\ phase' = phase /\ failed' = failed /\ crashes' = crashes /\ lastId' = lastId
  BY DEF AbortEnd, End, cacheVars, boundVars, idVars
<1>6. PICK x : ckp' = [ckp EXCEPT !.owed = x]
  BY <1>5
<1>7. said \in [puts : [Txns -> [Pages -> Seq(Nat)]], voted : SUBSET Txns,
                order : Seq(Txns), aborted : SUBSET Txns]
  BY <1>1 DEF Owners
<1>8. CASE ~td[h].voted
  <2>1. log' = log /\ said' = said /\ Longer(R, R) /\ h \notin said.voted
    BY <1>1, <1>2, <1>8, NotLonger DEF AbortEnd, logVars
  <2>2. FirstLsn(log') = FirstLsn(log)
    BY <2>1
  <2>3. Basic'
    BY <1>1, <1>5, <2>1 DEF Basic
  <2>4. IInv(R)'
    BY <1>2, <1>3, <1>4, <1>5, <1>6, <1>7, <2>1, <2>2, <2>3, Leaving
  <2> QED BY <2>4
<1>9. CASE td[h].voted
  <2> DEFINE r == EndRec("abort", h)
  <2>1. log' = Append(log, r) /\ said' = Told(said, r)
    BY <1>9 DEF AbortEnd, PutLog
  <2>2. r \in Records /\ r.type = "abort" /\ r.who = h /\ r.prev \in Places
    BY <1>1, EndRecord
  <2> HIDE DEF r
  <2>3. PICK S : Longer(R, S)
    BY <1>1, <2>1, <2>2, OneLonger
  <2>4. FirstLsn(log') = FirstLsn(log) /\ log' \in Seq(Records)
    BY <1>1, <2>1, <2>2, AppendedLog
  <2>5. said' = [said EXCEPT !.aborted = @ \cup {h}]
    BY <2>1, <2>2 DEF Told
  <2>6. /\ said' \in [puts : [Txns -> [Pages -> Seq(Nat)]], voted : SUBSET Txns,
                      order : Seq(Txns), aborted : SUBSET Txns]
        /\ said'.puts = said.puts /\ said'.order = said.order /\ said'.voted = said.voted
        /\ said'.aborted = said.aborted \cup {h}
    BY <1>7, <2>5
  <2>7. Basic'
    BY <1>1, <1>5, <2>4 DEF Basic
  <2>8. IInv(S)'
    BY <1>2, <1>3, <1>4, <1>5, <1>6, <2>3, <2>4, <2>6, <2>7, Leaving
  <2> QED BY <2>8
<1> QED BY <1>8, <1>9

-----------------------------------------------------------------------------
(* Transactions that stay on the list.                                     *)

Detailed == td \in [Txns -> Details]

\* One gets to another status, and logs one record or none.
Moves(S, h) ==
    /\ td[h].status # "none" /\ td'[h].status # "none"
    /\ td'[h].last \in Places' /\ td'[h].last # ZeroLsn /\ S[td'[h].last] = Own[h]
    /\ td'[h].at \in Places' /\ td'[h].stack = <<>>
    /\ td'[h].status # "aborting" => td'[h].at = ZeroLsn
    /\ \A g \in Txns \ {h} : /\ td'[g].status = td[g].status /\ td'[g].last = td[g].last
                             /\ td'[g].at = td[g].at /\ td'[g].stack = td[g].stack
                             /\ td[g].status = "none" => td'[g] = td[g]
    /\ \A g \in Txns : td'[g].parent = td[g].parent
    /\ \A g \in Txns : td'[g].begin # td[g].begin =>
                         td[g].begin = ZeroLsn /\ td'[g].begin <= Len(log')
    /\ said'.puts = said.puts
    /\ said' \in [puts : [Txns -> [Pages -> Seq(Nat)]], voted : SUBSET Txns,
                  order : Seq(Txns), aborted : SUBSET Txns]
    /\ \A n \in Writes : n \in Com' <=> n \in Com \/ (n \in Own[h] /\ h \in ToSet(said'.order))

Kept ==
    /\ FirstLsn(log') = FirstLsn(log) /\ items' = items /\ born' = born
    /\ locks' = locks /\ mem' = mem /\ disk' = disk /\ dirty' = dirty /\ ckp' = ckp

\* If it has no children the rest of the invariant is kept.
LEMMA Staying ==
    ASSUME NEW R, IInv(R), NEW S, Longer(R, S), NEW h \in Txns,
           \A g \in Txns : td[g].parent # h, Detailed', Moves(S, h), Kept
    PROVE  /\ Tree' /\ Owners(S)' /\ Begun' /\ Locked' /\ Ordered' /\ Checkpointed'
           /\ \A g \in Txns \ {h} :
                /\ LeftOf(S, g)' = LeftOf(R, g)
                /\ td'[g].status = "aborting" =>
                     InOrder(S, Trail(g))' /\ (Covered(S, Trail(g)) \subseteq Own[g])'
           /\ Own' = Own
<1>1. /\ Basic /\ Chains(R) /\ Tree /\ Outcomes /\ Owners(R) /\ Begun /\ Locked
      /\ Ordered /\ Undoing(R) /\ Cached(R) /\ Checkpointed
  BY DEF IInv
<1>2. td \in [Txns -> Details] /\ \A g \in Txns : TreeOf(g)
  BY <1>1 DEF Tree
<1>4. /\ \A l \in 0 .. Len(log) : S[l] = R[l]
      /\ Len(log) \in Nat /\ Len(log') \in Nat /\ Len(log) <= Len(log')
      /\ Places \subseteq Places' /\ Writes' = Writes /\ PageOf' = PageOf /\ ItemOf' = ItemOf
      /\ \A A, B : Before(A, B)' = Before(A, B)
  BY DEF Longer
<1>a. /\ td[h].status # "none" /\ td'[h].status # "none"
      /\ td'[h].last \in Places' /\ td'[h].last # ZeroLsn /\ S[td'[h].last] = Own[h]
      /\ td'[h].at \in Places' /\ td'[h].stack = <<>>
      /\ td'[h].status # "aborting" => td'[h].at = ZeroLsn
  BY DEF Moves
<1>b. ASSUME NEW g \in Txns, g # h
      PROVE  /\ td'[g].status = td[g].status /\ td'[g].last = td[g].last
             /\ td'[g].at = td[g].at /\ td'[g].stack = td[g].stack
             /\ td[g].status = "none" => td'[g] = td[g]
  BY <1>b DEF Moves
<1>c. \A g \in Txns : /\ td'[g].parent = td[g].parent
                      /\ td'[g].begin # td[g].begin =>
                         td[g].begin = ZeroLsn /\ td'[g].begin <= Len(log')
  BY DEF Moves
<1>d. /\ said'.puts = said.puts /\ items' = items /\ born' = born
      /\ said' \in [puts : [Txns -> [Pages -> Seq(Nat)]], voted : SUBSET Txns,
                    order : Seq(Txns), aborted : SUBSET Txns]
  BY DEF Moves, Kept
<1>5. Own' = Own
  BY <1>d, SameOwn
<1>6. \A g \in Txns : td[g].last \in 0 .. Len(log)
  BY <1>1, LastPlace
<1>7. Tree'
  <2>2. td' \in [Txns -> Details] /\ (born \in 0 .. MaxTxns)'
    BY <1>1, <1>d DEF Tree, Detailed
  <2>3. ASSUME NEW g \in Txns PROVE /\ td'[g].parent < g /\ td'[g].begin <= Len(log')
                                    /\ td'[g].parent # NoTxn =>
                                         td'[td'[g].parent].status = "running"
    <3>1. /\ td[g].parent < g /\ td[g].begin \in Nat /\ td[g].begin <= Len(log)
          /\ td[g].parent # NoTxn =>
               td[g].parent \in Txns /\ td[td[g].parent].status = "running"
      BY <1>1, DetailFacts
    <3>2. td[g].parent # NoTxn => td'[td[g].parent].status = td[td[g].parent].status
      BY <1>b, <3>1
    <3>3. td[g].begin <= Len(log')
      BY <1>4, <3>1
    <3> QED BY <1>c, <3>1, <3>2, <3>3
  <2>4. ASSUME NEW g \in Txns \ {h} PROVE TreeOf(g)'
    <3>1. TreeOf(g)
      BY <1>2
    <3>2. NoTd.status = "none" /\ born' = born
      BY <1>d DEF NoTd
    <3>3. /\ td'[g].status = td[g].status /\ td'[g].last = td[g].last
          /\ td'[g].at = td[g].at /\ td'[g].stack = td[g].stack
          /\ td[g].status = "none" => td'[g] = td[g]
      BY <1>b
    <3> QED BY <1>4, <2>3, <3>1, <3>2, <3>3 DEF TreeOf
  <2>5. TreeOf(h)'
    <3>1. h <= born
      BY <1>1, <1>a, DetailFacts
    <3> QED BY <1>a, <1>d, <2>3, <3>1 DEF TreeOf
  <2> QED BY <2>2, <2>4, <2>5 DEF Tree
<1>8. Lineage' = Lineage
  BY <1>1, <1>7, <1>c, LineageKept
<1>9. \A g \in Txns : td'[g].status # "none" => td[g].status # "none"
  BY <1>a, <1>b
<1>10. Owners(S)'
  <2>1. ASSUME NEW g \in Txns, td'[g].status # "none" PROVE S[td'[g].last] = Own[g]
    <3>1. CASE g = h
      BY <1>a, <3>1
    <3>2. CASE g # h
      <4>1. td'[g].last = td[g].last /\ td[g].status # "none"
        BY <1>9, <1>b, <2>1, <3>2
      <4>2. R[td[g].last] = Own[g]
        BY <1>1, <4>1 DEF Owners
      <4> QED BY <1>4, <1>6, <4>1, <4>2
    <3> QED BY <3>1, <3>2
  <2> QED BY <1>1, <1>4, <1>5, <1>d, <2>1 DEF Owners
<1>11. Begun'
  <2> SUFFICES ASSUME NEW g \in Txns, td'[g].status # "none",
                      NEW a \in Lineage'[g], td'[a].parent = NoTxn, NEW n \in Own'[g]
               PROVE  td'[a].begin # ZeroLsn /\ td'[a].begin <= n
    BY DEF Begun
  <2>1. a \in Lineage[g] /\ a \in Txns /\ n \in Own[g] /\ td[g].status # "none"
    BY <1>1, <1>5, <1>8, <1>9, LineageFacts
  <2>2. td[a].begin # ZeroLsn /\ td[a].begin <= n
    <3>1. td[a].parent = NoTxn
      BY <1>c, <2>1
    <3> QED BY <1>1, <2>1, <3>1 DEF Begun
  <2>3. td'[a].begin = td[a].begin
    BY <1>c, <2>1, <2>2
  <2> QED BY <2>2, <2>3
<1>12. Locked'
  <2>1. \A p \in Pages : \A g \in locks[p] : td'[g].status # "none" /\ td'[g].last # ZeroLsn
    BY <1>1, <1>a, <1>b DEF Locked
  <2>2. locks' = locks
    BY DEF Kept
  <2> QED BY <1>1, <1>8, <1>9, <1>d, <2>1, <2>2 DEF Locked
<1>13. Ordered'
  <2>1. \A g \in Txns : td'[g].status # "none" =>
          \A a \in Lineage'[g] \ {g} : Before(Own[a], Own[g])
    BY <1>1, <1>8, <1>9 DEF Ordered
  <2> QED BY <1>4, <1>5, <2>1 DEF Ordered, Before
<1>14. ASSUME NEW g \in Txns \ {h}
       PROVE  /\ LeftOf(S, g)' = LeftOf(R, g)
              /\ td'[g].status = "aborting" =>
                   InOrder(S, Trail(g))' /\ (Covered(S, Trail(g)) \subseteq Own[g])'
  <2>1. /\ td'[g].status = td[g].status /\ td'[g].at = td[g].at
        /\ td'[g].stack = td[g].stack /\ Own'[g] = Own[g]
    BY <1>5, <1>b
  <2>2. LeftOf(S, g)' = LeftOf(R, g)
    <3>1. Basic /\ Tree /\ \A l \in 0 .. Len(log) : S[l] = R[l]
      BY <1>1, <1>4
    <3>2. PICK d : d = td'[g]
      OBVIOUS
    <3>3. d.status = td[g].status /\ d.at = td[g].at /\ d.stack = td[g].stack
      BY <2>1, <3>2
    <3>4. LeftIn(S, d, Own[g]) = LeftOf(R, g)
      BY <3>1, <3>3, SameLeft
    <3> QED BY <2>1, <3>2, <3>4 DEF LeftOf, LeftIn, Trail
  <2>3. ASSUME td'[g].status = "aborting"
        PROVE  InOrder(S, Trail(g))' /\ (Covered(S, Trail(g)) \subseteq Own[g])'
    BY <1>1, <2>1, <2>3, SameTrail
  <2> QED BY <2>2, <2>3
<1>18. Checkpointed'
  <2>1. \A g \in Txns : td'[g].status # "none" => \A n \in Own'[g] :
               \E k \in Txns : td[k].status # "none" /\ n \in Own[k]
    BY <1>5, <1>9
  <2>2. dirty' \subseteq Pages /\ \A p \in Pages : p \notin dirty' => disk[p] = mem'[p]
    BY <1>1 DEF Checkpointed, Kept
  <2>3. ckp' = [ckp EXCEPT !.owed = ckp.owed]
    BY <1>1, SameCkp DEF Kept
  <2>4. \A n \in Writes : (n \in Com' <=> n \in Com)
               \/ \E k \in Txns : td[k].status # "none" /\ n \in Own[k]
    BY <1>a DEF Moves
  <2>5. disk' = disk /\ FirstLsn(log') = FirstLsn(log)
    BY DEF Kept
  <2> QED BY <1>1, <2>1, <2>2, <2>3, <2>4, <2>5, CheckpointKept
<1> QED BY <1>5, <1>7, <1>10, <1>11, <1>12, <1>13, <1>14, <1>18

\* It is at its last record, and the stack is empty.
LEMMA StartDetails ==
    ASSUME NEW d \in Details, NEW e,
           e = [d EXCEPT !.status = "aborting", !.at = d.last, !.stack = <<>>]
    PROVE  /\ e \in Details /\ e.status = "aborting" /\ e.at = d.last /\ e.stack = <<>>
           /\ e.parent = d.parent /\ e.begin = d.begin /\ e.last = d.last
           /\ e.voted = d.voted
<1> DEFINE x == d.last
<1>1. <<>> \in Seq(Nat) /\ x \in Nat /\ "aborting" \in Statuses
  BY DEF Details, Statuses
<1>2. d = [status |-> d.status, id |-> d.id, parent |-> d.parent, begin |-> d.begin,
           last |-> d.last, restored |-> d.restored, voted |-> d.voted, at |-> d.at,
           stack |-> d.stack]
  BY DEF Details
<1> HIDE DEF x
<1>3. e = [status |-> "aborting", id |-> d.id, parent |-> d.parent, begin |-> d.begin,
           last |-> d.last, restored |-> d.restored, voted |-> d.voted, at |-> x,
           stack |-> <<>>]
  BY <1>2 DEF x
<1>4. e \in Details
  BY <1>1, <1>3 DEF Details
<1> QED BY <1>3, <1>4 DEF x

\* An abort starts.
LEMMA AbortStartOK ==
    ASSUME NEW R, IInv(R), NEW h \in Txns, AbortStart(h)
    PROVE  \E S : IInv(S)'
<1>1. /\ Basic /\ Chains(R) /\ Tree /\ Outcomes /\ Owners(R) /\ Undoing(R) /\ Cached(R)
  BY DEF IInv
<1>2. log' = log /\ said' = said /\ Longer(R, R) /\ UNCHANGED logVars
  BY <1>1, NotLonger DEF AbortStart, logVars
<1>3. td[h].status \in {"running", "prepared"} /\ td[h].last # ZeroLsn
  BY DEF AbortStart
<1>4. \A g \in Txns : td[g].parent # h
  BY <1>1, Childless DEF AbortStart
<1>5. /\ td[h].last \in Places /\ td[h].last \in 0 .. Len(log)
      /\ td[h] \in Details /\ td \in [Txns -> Details]
  BY <1>1, LastPlace DEF Tree
<1> DEFINE e == [td[h] EXCEPT !.status = "aborting", !.at = td[h].last, !.stack = <<>>]
<1>6. /\ e \in Details /\ e.status = "aborting" /\ e.at = td[h].last /\ e.stack = <<>>
      /\ e.parent = td[h].parent /\ e.begin = td[h].begin /\ e.last = td[h].last
      /\ e.voted = td[h].voted
  BY <1>5, StartDetails
<1>7. td' = [td EXCEPT ![h] = e]
  BY DEF AbortStart
<1> HIDE DEF e
<1>8. /\ Detailed' /\ td'[h] = e
      /\ \A g \in Txns \ {h} : td'[g] = td[g]
  BY <1>5, <1>6, <1>7 DEF Detailed
<1>9. /\ mem' = mem /\ disk' = disk /\ dirty' = dirty /\ ckp' = ckp /\ locks' = locks
      /\ items' = items /\ born' = born /\ lastId' = lastId
      /\ phase' = phase /\ failed' = failed /\ crashes' = crashes
  BY DEF AbortStart, cacheVars, idVars, boundVars
<1>10. R[td[h].last] = Own[h] /\ Own[h] \subseteq Writes
  BY <1>1, <1>3 DEF Owners, Own
<1>11. FirstLsn(log') = FirstLsn(log) /\ Places' = Places
  BY <1>2, SameLog
<1>12. said' \in [puts : [Txns -> [Pages -> Seq(Nat)]], voted : SUBSET Txns,
                 order : Seq(Txns), aborted : SUBSET Txns]
  BY <1>1, <1>2 DEF Owners
<1>13. h \notin ToSet(said.order)
  BY <1>1, <1>3 DEF Outcomes
<1>14. Own' = Own /\ Com' = Com
  <2>1. Own' = Own
    BY <1>2, SameOwn
  <2> QED BY <1>2, <2>1 DEF Com
<1>15. /\ Tree' /\ Owners(R)' /\ Begun' /\ Locked' /\ Ordered' /\ Checkpointed'
       /\ \A g \in Txns \ {h} :
                /\ LeftOf(R, g)' = LeftOf(R, g)
                /\ td'[g].status = "aborting" =>
                     InOrder(R, Trail(g))' /\ (Covered(R, Trail(g)) \subseteq Own[g])'
  <2>1. \A n \in Writes : n \in Com' <=> n \in Com \/ (n \in Own[h] /\ h \in ToSet(said'.order))
    BY <1>2, <1>13, <1>14
  <2>2. td[h].status # "none" /\ td'[h].status # "none"
    BY <1>3, <1>6, <1>8
  <2>3. \A g \in Txns : td'[g].parent = td[g].parent /\ td'[g].begin = td[g].begin
    BY <1>6, <1>8
  <2>4. /\ td'[h].last \in Places' /\ td'[h].last # ZeroLsn /\ R[td'[h].last] = Own[h]
        /\ td'[h].at \in Places' /\ td'[h].stack = <<>> /\ td'[h].status = "aborting"
    BY <1>3, <1>5, <1>6, <1>8, <1>10, <1>11
  <2>5. said'.puts = said.puts
    BY <1>2
  <2>6. Moves(R, h)
    <3>1. \A g \in Txns \ {h} : /\ td'[g].status = td[g].status /\ td'[g].last = td[g].last
                                /\ td'[g].at = td[g].at /\ td'[g].stack = td[g].stack
                                /\ td[g].status = "none" => td'[g] = td[g]
      BY <1>8
    <3>2. \A g \in Txns : td'[g].parent = td[g].parent
      BY <2>3
    <3>3. \A g \in Txns : td'[g].begin # td[g].begin =>
                         td[g].begin = ZeroLsn /\ td'[g].begin <= Len(log')
      BY <2>3
    <3> HIDE <2>3
    <3> QED BY <1>12, <2>1, <2>2, <2>4, <2>5, <3>1, <3>2, <3>3 DEF Moves
  <2>7. Kept
    BY <1>9, <1>11 DEF Kept
  <2> QED BY <1>2, <1>4, <1>8, <2>6, <2>7, Staying
<1>16. Trail(h)' = <<td[h].last>>
  <2>1. td'[h].stack = <<>> /\ td'[h].at = td[h].last
    BY <1>6, <1>8
  <2>2. \A y : Append(<<>>, y) = <<y>>
    OBVIOUS
  <2> QED BY <2>1, <2>2 DEF Trail
<1>17. Covered(R, <<td[h].last>>) = Own[h] /\ InOrder(R, <<td[h].last>>)'
  <2>1. \A i \in DOMAIN <<td[h].last>> : i = 1 /\ <<td[h].last>>[i] = td[h].last
    OBVIOUS
  <2>2. 1 \in DOMAIN <<td[h].last>>
    OBVIOUS
  <2>3. PICK q : q = <<td[h].last>>
    OBVIOUS
  <2>4. Covered(R, q) = Own[h]
    BY <1>10, <2>1, <2>2, <2>3 DEF Covered
  <2>5. \A i, j \in DOMAIN q : ~(i < j)
    BY <2>1, <2>3
  <2>6. InOrder(R, q)'
    BY <2>5 DEF InOrder
  <2> QED BY <2>3, <2>4, <2>6 DEF InOrder
<1>18. Undoing(R)'
  <2>1. (InOrder(R, Trail(h)) /\ Covered(R, Trail(h)) \subseteq Own[h])'
    <3>1. (Covered(R, Trail(h)) \subseteq Own[h])'
      BY <1>14, <1>16, <1>17 DEF Covered
    <3>2. InOrder(R, Trail(h))'
      BY <1>16, <1>17 DEF InOrder
    <3> QED BY <3>1, <3>2
  <2> QED BY <1>15, <2>1 DEF Undoing
<1>19. LeftOf(R, h)' = LeftOf(R, h)
  <2>1. LeftOf(R, h) = Own[h]
    BY <1>3 DEF LeftOf
  <2>2. LeftOf(R, h)' = Own[h]
    BY <1>6, <1>8, <1>16, <1>17 DEF LeftOf, Covered
  <2> QED BY <2>1, <2>2
<1>20. Pend(R)' = Pend(R)
  <2>1. \A g \in Txns : LeftOf(R, g)' = LeftOf(R, g)
    BY <1>15, <1>19
  <2> QED BY <2>1 DEF Pend
<1>21. Cached(R)'
  BY <1>1, <1>2, <1>9, <1>14, <1>20, CachedKept
<1>22. Outcomes'
  <2>1. \A g \in Txns : td'[g].voted = td[g].voted
    BY <1>6, <1>8
  <2>2. \A g \in Txns : (td'[g].status = "none" <=> td[g].status = "none")
            /\ (td'[g].status = "committing" <=> td[g].status = "committing")
            /\ (td'[g].status = "running" => td[g].status = "running")
    BY <1>3, <1>6, <1>8
  <2> QED BY <1>1, <1>2, <1>9, <2>1, <2>2 DEF Outcomes
<1>23. Basic'
  BY <1>1, <1>2, <1>9 DEF Basic
<1>24. Chains(R)'
  BY <1>2 DEF Longer
<1> QED BY <1>15, <1>18, <1>21, <1>22, <1>23, <1>24 DEF IInv

\* One with a record of its own: its details e are those after the record
\* but for the status and the vote.
Records1(h, e) ==
    /\ e \in Details /\ e.status \in {"prepared", "committing"}
    /\ e.last = NextLsn /\ e.parent = td[h].parent /\ e.begin = Logged(h)[h].begin
    /\ e.at = td[h].at /\ e.stack = td[h].stack

\* Logging such a record keeps the log and the details what they are, and extends
\* what is undone by what the transaction owns.
LEMMA Recorded ==
    ASSUME Basic, Tree, NEW R, Owners(R), Chains(R), NEW h \in Txns,
           td[h].status \in {"running", "prepared"},
           NEW r \in Records, log' = Append(log, r), r.type \in Ends, r.prev = td[h].last,
           NEW e, Records1(h, e), td' = [Logged(h) EXCEPT ![h] = e]
    PROVE  /\ \E S : Longer(R, S) /\ S[NextLsn] = Own[h]
           /\ Detailed' /\ td'[h] = e
           /\ NextLsn \in Places' /\ NextLsn # ZeroLsn /\ Len(log') = NextLsn
           /\ FirstLsn(log') = FirstLsn(log) /\ log' \in Seq(Records)
           /\ e.at = ZeroLsn /\ e.stack = <<>>
           /\ \A g \in Txns : td'[g].begin # td[g].begin =>
                                td[g].begin = ZeroLsn /\ td'[g].begin <= Len(log')
           /\ \A g \in Txns \ {h} :
                /\ td'[g].status = td[g].status /\ td'[g].last = td[g].last
                /\ td'[g].at = td[g].at /\ td'[g].stack = td[g].stack
                /\ td'[g].parent = td[g].parent /\ td'[g].voted = td[g].voted
                /\ td[g].status = "none" => td'[g] = td[g]
<1>1. r.type # "write" /\ r.type # "ckp" /\ r.type # "child" /\ r.prev \in Places
  <2>1. td[h].last \in Places
    BY LastPlace
  <2> QED BY <2>1 DEF Ends
<1>2. PICK S : Longer(R, S) /\ S[NextLsn] = Reached(R, r)
  BY <1>1, OneLonger
<1>3. S[NextLsn] = Own[h]
  <2>1. R[td[h].last] = Own[h]
    BY DEF Owners
  <2> QED BY <1>1, <1>2, <2>1 DEF Reached
<1>4. /\ NextLsn \in Places' /\ Len(log') = NextLsn /\ NextLsn = Len(log) + 1
      /\ Len(log) \in Nat
      /\ FirstLsn(log') = FirstLsn(log) /\ log' \in Seq(Records)
  BY <1>1, AppendedLog
<1>5. NextLsn # ZeroLsn /\ NextLsn <= Len(log')
  BY <1>4 DEF ZeroLsn
<1>6. Logged(h) \in [Txns -> Details] /\ td[h].status # "none"
  BY LoggedFields
<1>7. /\ td' \in [Txns -> Details] /\ td'[h] = e
      /\ \A g \in Txns \ {h} : td'[g] = Logged(h)[g]
  BY <1>6 DEF Records1
<1>8. Detailed'
  BY <1>7 DEF Detailed
<1>9. e.at = ZeroLsn /\ e.stack = <<>>
  <2>1. td[h].at = ZeroLsn /\ td[h].stack = <<>>
    BY DetailFacts
  <2> QED BY <2>1 DEF Records1
<1>10. ASSUME NEW g \in Txns
       PROVE  td'[g].begin # td[g].begin =>
                td[g].begin = ZeroLsn /\ td'[g].begin <= Len(log')
  <2>1. td'[g].begin = Logged(h)[g].begin
    BY <1>7 DEF Records1
  <2>2. Logged(h)[g].begin = IF g = Top(h) /\ td[g].begin = ZeroLsn
                             THEN NextLsn ELSE td[g].begin
    BY <1>6, LoggedFields
  <2> QED BY <1>5, <2>1, <2>2
<1>11. ASSUME NEW g \in Txns, g # h
       PROVE  /\ td'[g].status = td[g].status /\ td'[g].last = td[g].last
              /\ td'[g].at = td[g].at /\ td'[g].stack = td[g].stack
              /\ td'[g].parent = td[g].parent /\ td'[g].voted = td[g].voted
              /\ td[g].status = "none" => td'[g] = td[g]
  <2>1. td'[g] = Logged(h)[g]
    BY <1>7, <1>11
  <2>2. /\ Logged(h)[g].status = td[g].status /\ Logged(h)[g].last = td[g].last
        /\ Logged(h)[g].at = td[g].at /\ Logged(h)[g].stack = td[g].stack
        /\ Logged(h)[g].parent = td[g].parent /\ Logged(h)[g].voted = td[g].voted
        /\ td[g].status = "none" => Logged(h)[g] = td[g]
    BY <1>6, <1>11, LoggedFields
  <2> QED BY <2>1, <2>2
<1> QED BY <1>2, <1>3, <1>4, <1>5, <1>7, <1>8, <1>9, <1>10, <1>11

\* The details of one that commits, or that is prepared.
LEMMA RecordedDetails ==
    ASSUME Basic, Tree, NEW h \in Txns, td[h].status # "none"
    PROVE  /\ LET e == [Logged(h)[h] EXCEPT !.status = "committing"]
              IN  Records1(h, e) /\ e.status = "committing" /\ e.voted = td[h].voted
           /\ LET e == [Logged(h)[h] EXCEPT !.status = "prepared", !.voted = TRUE]
              IN  Records1(h, e) /\ e.status = "prepared" /\ e.voted = TRUE
<1>1. PICK d : d = Logged(h)[h]
  OBVIOUS
<1>2. /\ d \in Details /\ d.last = NextLsn /\ d.parent = td[h].parent
      /\ d.begin = Logged(h)[h].begin /\ d.at = td[h].at /\ d.stack = td[h].stack
      /\ d.voted = td[h].voted
  BY <1>1, LoggedFields
<1>3. d = [status |-> d.status, id |-> d.id, parent |-> d.parent, begin |-> d.begin,
           last |-> d.last, restored |-> d.restored, voted |-> d.voted, at |-> d.at,
           stack |-> d.stack]
  BY <1>2 DEF Details
<1>4. PICK e : e = [d EXCEPT !.status = "committing"]
  OBVIOUS
<1>5. PICK f : f = [d EXCEPT !.status = "prepared", !.voted = TRUE]
  OBVIOUS
<1>6. e = [status |-> "committing", id |-> d.id, parent |-> d.parent, begin |-> d.begin,
           last |-> d.last, restored |-> d.restored, voted |-> d.voted, at |-> d.at,
           stack |-> d.stack]
  BY <1>3, <1>4
<1>7. f = [status |-> "prepared", id |-> d.id, parent |-> d.parent, begin |-> d.begin,
           last |-> d.last, restored |-> d.restored, voted |-> TRUE, at |-> d.at,
           stack |-> d.stack]
  BY <1>3, <1>5
<1>8. e \in Details /\ f \in Details
  BY <1>2, <1>6, <1>7 DEF Details, Statuses
<1>9. Records1(h, e) /\ e.status = "committing" /\ e.voted = td[h].voted
  BY <1>2, <1>6, <1>8 DEF Records1
<1>10. Records1(h, f) /\ f.status = "prepared" /\ f.voted = TRUE
  BY <1>2, <1>7, <1>8 DEF Records1
<1> QED BY <1>1, <1>4, <1>5, <1>9, <1>10

\* It puts the record r.
Putting(h, r, e) ==
    /\ td[h].status \in {"running", "prepared"} /\ \A g \in Txns : td[g].parent # h
    /\ r \in Records /\ log' = Append(log, r) /\ r.type \in Ends /\ r.prev = td[h].last
    /\ Records1(h, e) /\ td' = [Logged(h) EXCEPT ![h] = e]
    /\ items' = items /\ born' = born /\ locks' = locks
    /\ mem' = mem /\ disk' = disk /\ dirty' = dirty /\ ckp' = ckp
    /\ said' \in [puts : [Txns -> [Pages -> Seq(Nat)]], voted : SUBSET Txns,
                  order : Seq(Txns), aborted : SUBSET Txns]
    /\ said'.puts = said.puts
    /\ \/ ToSet(said'.order) = ToSet(said.order)
       \/ ToSet(said'.order) = ToSet(said.order) \cup {h}

\* What such a record leaves to be shown.
LEMMA RecordPut ==
    ASSUME NEW R, IInv(R), NEW h \in Txns, NEW r, NEW e, Putting(h, r, e)
    PROVE  \E S :
             /\ Longer(R, S) /\ Chains(S)' /\ log' \in Seq(Records)
             /\ Tree' /\ Owners(S)' /\ Begun' /\ Locked' /\ Ordered' /\ Checkpointed'
             /\ Undoing(S)' /\ Own' = Own /\ td'[h] = e
             /\ \A g \in Txns \ {h} :
                  /\ LeftOf(S, g)' = LeftOf(R, g)
                  /\ td'[g].status = td[g].status /\ td'[g].voted = td[g].voted
<1>1. Basic /\ Chains(R) /\ Tree /\ Outcomes /\ Owners(R)
  BY DEF IInv
<1>2. /\ \E S : Longer(R, S) /\ S[NextLsn] = Own[h]
      /\ Detailed' /\ td'[h] = e
      /\ NextLsn \in Places' /\ NextLsn # ZeroLsn /\ Len(log') = NextLsn
      /\ FirstLsn(log') = FirstLsn(log) /\ log' \in Seq(Records)
      /\ e.at = ZeroLsn /\ e.stack = <<>>
      /\ \A g \in Txns : td'[g].begin # td[g].begin =>
                           td[g].begin = ZeroLsn /\ td'[g].begin <= Len(log')
      /\ \A g \in Txns \ {h} :
           /\ td'[g].status = td[g].status /\ td'[g].last = td[g].last
           /\ td'[g].at = td[g].at /\ td'[g].stack = td[g].stack
           /\ td'[g].parent = td[g].parent /\ td'[g].voted = td[g].voted
           /\ td[g].status = "none" => td'[g] = td[g]
  BY <1>1, Recorded DEF Putting
<1>3. PICK S : Longer(R, S) /\ S[NextLsn] = Own[h]
  BY <1>2
<1>4. Own' = Own
  BY <1>3, SameOwn DEF Putting
<1>5. e.status \in {"prepared", "committing"} /\ e.last = NextLsn /\ e.parent = td[h].parent
  BY DEF Records1, Putting
<1>6. h \notin ToSet(said.order)
  BY <1>1 DEF Outcomes, Putting
<1>7. \A n \in Writes : n \in Com' <=> n \in Com \/ (n \in Own[h] /\ h \in ToSet(said'.order))
  <2>1. Com' = UNION {Own[k] : k \in ToSet(said'.order)}
    BY <1>4 DEF Com
  <2>2. Com = UNION {Own[k] : k \in ToSet(said.order)}
    BY DEF Com
  <2> QED BY <1>6, <2>1, <2>2 DEF Putting
<1>8. Moves(S, h)
  <2>1. /\ td[h].status # "none" /\ td'[h].status # "none"
        /\ td'[h].last \in Places' /\ td'[h].last # ZeroLsn /\ S[td'[h].last] = Own[h]
        /\ td'[h].stack = <<>> /\ td'[h].at = ZeroLsn
    BY <1>2, <1>3, <1>5 DEF Putting
  <2>2. td'[h].at \in Places'
    BY <2>1 DEF Places
  <2>3. \A g \in Txns : td'[g].parent = td[g].parent
    BY <1>2, <1>5
  <2> QED BY <1>2, <1>7, <2>1, <2>2, <2>3 DEF Moves, Putting
<1>9. Kept
  BY <1>2 DEF Kept, Putting
<1>10. /\ Tree' /\ Owners(S)' /\ Begun' /\ Locked' /\ Ordered' /\ Checkpointed'
       /\ \A g \in Txns \ {h} :
            /\ LeftOf(S, g)' = LeftOf(R, g)
            /\ td'[g].status = "aborting" =>
                 InOrder(S, Trail(g))' /\ (Covered(S, Trail(g)) \subseteq Own[g])'
  BY <1>2, <1>3, <1>8, <1>9, Staying DEF Putting
<1>11. Undoing(S)'
  <2>1. td'[h].status # "aborting"
    BY <1>2, <1>5
  <2> QED BY <1>10, <2>1 DEF Undoing
<1>12. Chains(S)'
  BY <1>3 DEF Longer
<1> QED BY <1>2, <1>3, <1>4, <1>10, <1>11, <1>12

\* A transaction is prepared.
LEMMA PrepareOK ==
    ASSUME NEW R, IInv(R), NEW h \in Txns, Prepare(h)
    PROVE  \E S : IInv(S)'
<1>1. Basic /\ Chains(R) /\ Tree /\ Outcomes /\ Owners(R) /\ Cached(R) /\ Locked
  BY DEF IInv
<1>2. /\ td[h].status = "running" /\ Kids(h) = {}
      /\ log' = Append(log, PrepareRec(h)) /\ said' = Told(said, PrepareRec(h))
      /\ mem' = mem /\ disk' = disk /\ dirty' = dirty /\ ckp' = ckp /\ locks' = locks
      /\ items' = items /\ born' = born /\ lastId' = lastId
      /\ phase' = phase /\ failed' = failed /\ crashes' = crashes
  BY DEF Prepare, PutLog, cacheVars, idVars, boundVars
<1>3. \A g \in Txns : td[g].parent # h
  BY <1>1, <1>2, Childless
<1>4. /\ PrepareRec(h) \in Records /\ PrepareRec(h).type = "prepare"
      /\ PrepareRec(h).who = h /\ PrepareRec(h).prev = td[h].last
  <2>1. td[h].id \in Int /\ td[h].last \in Nat /\ td[h].begin \in Nat
    BY <1>1 DEF Tree, Details
  <2> QED BY <2>1 DEF PrepareRec, Records
<1>5. PICK e : e = [Logged(h)[h] EXCEPT !.status = "prepared", !.voted = TRUE]
  OBVIOUS
<1>6. Records1(h, e) /\ e.status = "prepared" /\ e.voted = TRUE
  BY <1>1, <1>2, <1>5, RecordedDetails
<1>7. td' = [Logged(h) EXCEPT ![h] = e]
  BY <1>5 DEF Prepare
<1>8. /\ said'.puts = said.puts /\ said'.order = said.order /\ said'.aborted = said.aborted
      /\ said'.voted = said.voted \cup {h}
      /\ said' \in [puts : [Txns -> [Pages -> Seq(Nat)]], voted : SUBSET Txns,
                    order : Seq(Txns), aborted : SUBSET Txns]
  <2>1. said' = [said EXCEPT !.voted = @ \cup {h}]
    BY <1>2, <1>4 DEF Told
  <2> QED BY <1>1, <2>1 DEF Owners
<1>9. PICK S :
        /\ Longer(R, S) /\ Chains(S)' /\ log' \in Seq(Records)
        /\ Tree' /\ Owners(S)' /\ Begun' /\ Locked' /\ Ordered' /\ Checkpointed'
        /\ Undoing(S)' /\ Own' = Own /\ td'[h] = e
        /\ \A g \in Txns \ {h} :
             /\ LeftOf(S, g)' = LeftOf(R, g)
             /\ td'[g].status = td[g].status /\ td'[g].voted = td[g].voted
  <2>1. PICK r : r = PrepareRec(h)
    OBVIOUS
  <2>2. r \in Records /\ log' = Append(log, r) /\ r.type \in Ends /\ r.prev = td[h].last
    BY <1>2, <1>4, <2>1 DEF Ends
  <2>3. ToSet(said'.order) = ToSet(said.order) /\ td[h].status \in {"running", "prepared"}
    BY <1>2, <1>8
  <2>4. Putting(h, r, e)
    BY <1>2, <1>3, <1>6, <1>7, <1>8, <2>2, <2>3 DEF Putting
  <2> QED BY <2>4, RecordPut
<1>10. LeftOf(S, h)' = LeftOf(R, h)
  BY <1>2, <1>6, <1>9 DEF LeftOf
<1>11. Pend(S)' = Pend(R)
  <2>1. \A g \in Txns : LeftOf(S, g)' = LeftOf(R, g)
    BY <1>9, <1>10
  <2> QED BY <2>1 DEF Pend
<1>12. Com' = Com
  BY <1>8, <1>9 DEF Com
<1>13. Cached(S)'
  BY <1>1, <1>2, <1>9, <1>11, <1>12, CachedKept
<1>14. Outcomes'
  <2>1. h \in 1 .. born /\ h \notin ToSet(said.order)
    <3>1. h <= born /\ h \in Nat /\ 1 <= h
      BY <1>1, <1>2, DetailFacts DEF Txns
    <3>2. h \notin ToSet(said.order)
      BY <1>1, <1>2 DEF Outcomes
    <3> QED BY <1>1, <3>1, <3>2 DEF Tree
  <2>2. said'.voted \subseteq 1 .. born /\ ToSet(said'.order) \subseteq 1 .. born
    BY <1>1, <1>8, <2>1 DEF Outcomes
  <2>3. ASSUME NEW g \in Txns
        PROVE /\ td'[g].status # "none" =>
                   /\ g \in ToSet(said'.order) <=> td'[g].status = "committing"
                   /\ td'[g].voted <=> g \in said'.voted
                   /\ td'[g].status = "running" => ~td'[g].voted
              /\ td'[g].status = "none" /\ g \in said'.voted =>
                   g \in ToSet(said'.order) \cup said'.aborted
    <3>1. CASE g = h
      BY <1>6, <1>8, <1>9, <2>1, <3>1
    <3>2. CASE g # h
      <4>1. /\ td'[g].status = td[g].status /\ td'[g].voted = td[g].voted
            /\ g \in said'.voted <=> g \in said.voted
        BY <1>8, <1>9, <3>2
      <4> QED BY <1>1, <1>8, <4>1 DEF Outcomes
    <3> QED BY <3>1, <3>2
  <2> QED BY <1>2, <2>2, <2>3 DEF Outcomes
<1>15. Basic'
  BY <1>1, <1>2, <1>9 DEF Basic
<1> QED BY <1>9, <1>13, <1>14, <1>15 DEF IInv

\* A commit record.
LEMMA CommitPutOK ==
    ASSUME NEW R, IInv(R), NEW h \in Txns, CommitPut(h)
    PROVE  \E S : IInv(S)'
<1>1. /\ Basic /\ Chains(R) /\ Tree /\ Outcomes /\ Owners(R) /\ Cached(R) /\ Locked
      /\ Ordered /\ Undoing(R)
  BY DEF IInv
<1>2. /\ td[h].status \in {"running", "prepared"} /\ Kids(h) = {} /\ td[h].parent = NoTxn
      /\ log' = Append(log, EndRec("commit", h)) /\ said' = Told(said, EndRec("commit", h))
      /\ mem' = mem /\ disk' = disk /\ dirty' = dirty /\ ckp' = ckp /\ locks' = locks
      /\ items' = items /\ born' = born /\ lastId' = lastId
      /\ phase' = phase /\ failed' = failed /\ crashes' = crashes
  BY DEF CommitPut, PutLog, cacheVars, idVars, boundVars
<1>3. \A g \in Txns : td[g].parent # h
  BY <1>1, <1>2, Childless
<1>4. /\ EndRec("commit", h) \in Records /\ EndRec("commit", h).type = "commit"
      /\ EndRec("commit", h).who = h /\ EndRec("commit", h).prev = td[h].last
  BY <1>1, EndRecord
<1>5. PICK e : e = [Logged(h)[h] EXCEPT !.status = "committing"]
  OBVIOUS
<1>6. Records1(h, e) /\ e.status = "committing" /\ e.voted = td[h].voted
  BY <1>1, <1>2, <1>5, RecordedDetails
<1>7. td' = [Logged(h) EXCEPT ![h] = e]
  BY <1>5 DEF CommitPut
<1>8. /\ said'.puts = said.puts /\ said'.order = Append(said.order, h)
      /\ said'.aborted = said.aborted /\ said'.voted = said.voted
      /\ said' \in [puts : [Txns -> [Pages -> Seq(Nat)]], voted : SUBSET Txns,
                    order : Seq(Txns), aborted : SUBSET Txns]
      /\ ToSet(said'.order) = ToSet(said.order) \cup {h}
  <2>1. said' = [said EXCEPT !.order = Append(@, h)]
    BY <1>2, <1>4 DEF Told
  <2>2. said.order \in Seq(Txns)
    BY <1>1 DEF Owners
  <2>3. Append(said.order, h) \in Seq(Txns)
    BY <2>2
  <2>4. ToSet(Append(said.order, h)) = ToSet(said.order) \cup {h}
    BY <2>2, AppendToSet
  <2> QED BY <1>1, <2>1, <2>3, <2>4 DEF Owners
<1>9. PICK S :
        /\ Longer(R, S) /\ Chains(S)' /\ log' \in Seq(Records)
        /\ Tree' /\ Owners(S)' /\ Begun' /\ Locked' /\ Ordered' /\ Checkpointed'
        /\ Undoing(S)' /\ Own' = Own /\ td'[h] = e
        /\ \A g \in Txns \ {h} :
             /\ LeftOf(S, g)' = LeftOf(R, g)
             /\ td'[g].status = td[g].status /\ td'[g].voted = td[g].voted
  <2>1. PICK r : r = EndRec("commit", h)
    OBVIOUS
  <2>2. r \in Records /\ log' = Append(log, r) /\ r.type \in Ends /\ r.prev = td[h].last
    BY <1>2, <1>4, <2>1 DEF Ends
  <2>3. Putting(h, r, e)
    BY <1>2, <1>3, <1>6, <1>7, <1>8, <2>2 DEF Putting
  <2> QED BY <2>3, RecordPut
<1>10. LeftOf(S, h)' = {} /\ LeftOf(R, h) = Own[h]
  BY <1>2, <1>6, <1>9 DEF LeftOf
<1>11. Com' = Com \cup Own[h]
  <2>1. Com' = UNION {Own[k] : k \in ToSet(said'.order)}
    BY <1>9 DEF Com
  <2> QED BY <1>8, <2>1 DEF Com
<1> DEFINE Rest0 == UNION {LeftOf(R, g) : g \in Txns \ {h}}
<1>12. Pend(S)' = Rest0 /\ Pend(R) = Rest0 \cup Own[h]
  <2>1. Pend(S)' = Rest0
    <3> DEFINE V == {LeftOf(R, g) : g \in Txns \ {h}}
    <3>1. {LeftOf(S, g)' : g \in Txns} = V \cup {{}}
      BY <1>9, <1>10
    <3>2. UNION (V \cup {{}}) = UNION V
      OBVIOUS
    <3> QED BY <3>1, <3>2 DEF Pend
  <2>2. Pend(R) = Rest0 \cup Own[h]
    <3> DEFINE V == {LeftOf(R, g) : g \in Txns \ {h}}
    <3>1. {LeftOf(R, g) : g \in Txns} = V \cup {Own[h]}
      BY <1>10
    <3>2. UNION (V \cup {Own[h]}) = (UNION V) \cup Own[h]
      OBVIOUS
    <3> QED BY <3>1, <3>2 DEF Pend
  <2> QED BY <2>1, <2>2
<1>13. ASSUME NEW n \in Own[h], NEW m \in Rest0, PageOf[m] = PageOf[n] PROVE FALSE
  <2>1. PICK g \in Txns \ {h} : m \in LeftOf(R, g)
    OBVIOUS
  <2>2. td[g].status # "none" /\ m \in Own[g]
    BY <1>1, <2>1, LeftInside
  <2>3. g \in Lineage[h]
    BY <1>1, <1>2, <1>3, <1>13, <2>2, Holder
  <2> QED BY <1>1, <1>2, <2>1, <2>3, LineageFacts
<1>14. Cached(S)'
  <2>1. ASSUME NEW p \in Pages
        PROVE  PageOK(ItemOf, PrevOf, Rest0 \cap On(p), (Com \cup Own[h]) \cap On(p), mem[p])
    <3> DEFINE P == Pend(R) \cap On(p)
               C == Com \cap On(p)
    <3>1. PageOK(ItemOf, PrevOf, P, C, mem[p])
      BY <1>1 DEF Cached
    <3>2. CASE Own[h] \cap On(p) = {}
      <4>1. P = Rest0 \cap On(p) /\ C = (Com \cup Own[h]) \cap On(p)
        BY <1>12, <3>2
      <4> QED BY <3>1, <4>1
    <3>3. CASE Own[h] \cap On(p) # {}
      <4>1. Rest0 \cap On(p) = {}
        BY <1>13, <3>3 DEF On
      <4>2. (Com \cup Own[h]) \cap On(p) = C \cup P
        BY <1>12, <4>1
      <4> HIDE DEF P, C, Rest0
      <4> QED BY <3>1, <4>1, <4>2, PageKept
    <3> QED BY <3>2, <3>3
  <2>2. ItemOf' = ItemOf /\ PrevOf' = PrevOf /\ \A p : On(p)' = On(p)
    BY <1>9 DEF Longer
  <2>3. mem' \in [Pages -> [lsn : Nat, val : Seq(Nat)]]
    BY <1>1, <1>2 DEF Cached
  <2>4. PICK Q : Q = Rest0
    OBVIOUS
  <2> HIDE DEF Rest0
  <2>5. ASSUME NEW p \in Pages
        PROVE  PageOK(ItemOf, PrevOf, Pend(S) \cap On(p), Com \cap On(p), mem[p])'
    <3>1. PageOK(ItemOf, PrevOf, Q \cap On(p), (Com \cup Own[h]) \cap On(p), mem[p])
      BY <2>1, <2>4
    <3> QED BY <1>2, <1>11, <1>12, <2>2, <2>4, <3>1
  <2> QED BY <2>3, <2>5 DEF Cached
<1>15. Outcomes'
  <2>1. h \in 1 .. born
    <3>1. h <= born /\ h \in Nat /\ 1 <= h
      BY <1>1, <1>2, DetailFacts DEF Txns
    <3> QED BY <1>1, <3>1 DEF Tree
  <2>2. said'.voted \subseteq 1 .. born /\ ToSet(said'.order) \subseteq 1 .. born
    BY <1>1, <1>8, <2>1 DEF Outcomes
  <2>3. ASSUME NEW g \in Txns
        PROVE /\ td'[g].status # "none" =>
                   /\ g \in ToSet(said'.order) <=> td'[g].status = "committing"
                   /\ td'[g].voted <=> g \in said'.voted
                   /\ td'[g].status = "running" => ~td'[g].voted
              /\ td'[g].status = "none" /\ g \in said'.voted =>
                   g \in ToSet(said'.order) \cup said'.aborted
    <3>1. CASE g = h
      <4>1. td[h].voted <=> h \in said.voted
        BY <1>1, <1>2 DEF Outcomes
      <4> QED BY <1>6, <1>8, <1>9, <3>1, <4>1
    <3>2. CASE g # h
      <4>1. /\ td'[g].status = td[g].status /\ td'[g].voted = td[g].voted
            /\ g \in ToSet(said'.order) <=> g \in ToSet(said.order)
        BY <1>8, <1>9, <3>2
      <4> QED BY <1>1, <1>8, <4>1 DEF Outcomes
    <3> QED BY <3>1, <3>2
  <2> QED BY <1>2, <2>2, <2>3 DEF Outcomes
<1>16. Basic'
  BY <1>1, <1>2, <1>9 DEF Basic
<1> QED BY <1>9, <1>14, <1>15, <1>16 DEF IInv

-----------------------------------------------------------------------------
(* A transaction begins.                                                   *)

\* One that has not begun is nobody's relative and has written nothing.
LEMMA Unborn ==
    ASSUME NEW R, IInv(R), NEW h \in Txns, h > born
    PROVE  /\ td[h] = NoTd /\ td[h].status = "none" /\ Own[h] = {}
           /\ \A g \in Txns : td[g].parent # h
           /\ h \notin said.voted /\ h \notin ToSet(said.order)
           /\ \A p \in Pages : h \notin locks[p] /\ said.puts[h][p] = <<>>
<1>1. Basic /\ Tree /\ Outcomes /\ Owners(R) /\ Locked
  BY DEF IInv
<1>2. h \in Nat /\ born \in Nat
  BY <1>1, TxnAssumption DEF Txns, Tree
<1>3. td[h].status = "none" /\ td[h] = NoTd
  <2>1. TreeOf(h)
    BY <1>1 DEF Tree
  <2> QED BY <1>2, <2>1 DEF TreeOf
<1>4. said.puts[h] = Nothing
  BY <1>1 DEF Owners
<1>5. \A p \in Pages : said.puts[h][p] = <<>>
  BY <1>4 DEF Nothing
<1>6. Own[h] = {}
  <2>1. \A n \in Writes : ToSet(said.puts[h][PageOf[n]]) = {}
    <3>1. \A n \in Writes : PageOf[n] \in Pages
      BY <1>1, WriteTypes
    <3>2. ToSet(<<>>) = {}
      BY DEF ToSet
    <3> QED BY <1>5, <3>1, <3>2
  <2> QED BY <2>1 DEF Own
<1>7. \A g \in Txns : td[g].parent # h
  BY <1>1, <1>3, Childless
<1>8. h \notin said.voted /\ h \notin ToSet(said.order)
  <2>1. h \notin 1 .. born
    BY <1>2
  <2> QED BY <1>1, <2>1 DEF Outcomes
<1>9. \A p \in Pages : h \notin locks[p]
  BY <1>1, <1>3 DEF Locked
<1> QED BY <1>3, <1>5, <1>6, <1>7, <1>8, <1>9

\* Its details.
BeginDetails(e, parent) ==
    /\ e \in Details /\ e.status = "running" /\ e.parent = parent /\ e.begin = ZeroLsn
    /\ e.last = ZeroLsn /\ ~e.voted /\ e.at = ZeroLsn /\ e.stack = <<>>

\* A transaction begins.
LEMMA BeginOK ==
    ASSUME NEW R, IInv(R), NEW h \in Txns, NEW parent \in Active \cup {NoTxn},
           Begin(h, parent)
    PROVE  \E S : IInv(S)'
<1>1. /\ Basic /\ Chains(R) /\ Tree /\ Outcomes /\ Owners(R) /\ Begun /\ Locked
      /\ Ordered /\ Undoing(R) /\ Cached(R) /\ Checkpointed
  BY DEF IInv
<1>2. /\ h = born + 1 /\ born' = h /\ lastId' \in Int
      /\ log' = log /\ said' = said /\ mem' = mem /\ disk' = disk /\ dirty' = dirty
      /\ locks' = locks /\ ckp' = ckp /\ items' = items
      /\ phase' = phase /\ failed' = failed /\ crashes' = crashes
      /\ parent # NoTxn => td[parent].status = "running"
  <2>1. MinId \in Int /\ lastId \in Int
    BY <1>1, TxnAssumption DEF Basic
  <2>2. lastId' \in Int
    BY <2>1 DEF Begin
  <2>3. parent # NoTxn => td[parent].status = "running"
    BY DEF Begin
  <2> QED BY <2>2, <2>3 DEF Begin, logVars, cacheVars, boundVars
<1>3. /\ born \in Nat /\ h > born /\ h \in Nat /\ h \in 1 .. MaxTxns
      /\ parent # NoTxn => parent \in Txns /\ parent < h /\ parent # h
  <2>1. born \in Nat /\ h > born /\ h \in Nat /\ h \in 1 .. MaxTxns
    BY <1>1, <1>2, TxnAssumption DEF Tree, Txns
  <2>2. ASSUME parent # NoTxn PROVE parent \in Txns /\ parent < h /\ parent # h
    <3>1. parent \in Txns /\ parent \in Nat /\ td[parent].status = "running"
      BY <1>2, <2>2, TxnAssumption DEF Active, Txns
    <3>2. parent <= born
      BY <1>1, <3>1, DetailFacts
    <3> QED BY <1>2, <2>1, <3>1, <3>2
  <2> QED BY <2>1, <2>2
<1>4. /\ td[h] = NoTd /\ td[h].status = "none" /\ Own[h] = {}
      /\ \A g \in Txns : td[g].parent # h
      /\ h \notin said.voted /\ h \notin ToSet(said.order)
      /\ \A p \in Pages : h \notin locks[p] /\ said.puts[h][p] = <<>>
  BY <1>3, Unborn
<1>5. PICK e : BeginDetails(e, parent) /\ td' = [td EXCEPT ![h] = e]
  <2>1. PICK id \in Int : td' = [td EXCEPT ![h] = [NoTd EXCEPT !.status = "running",
                                                   !.id = id, !.parent = parent]]
    BY <1>2 DEF Begin
  <2>2. PICK e : e = [NoTd EXCEPT !.status = "running", !.id = id, !.parent = parent]
    OBVIOUS
  <2>3. e = [status |-> "running", id |-> id, parent |-> parent, begin |-> ZeroLsn,
             last |-> ZeroLsn, restored |-> FALSE, voted |-> FALSE, at |-> ZeroLsn,
             stack |-> <<>>]
    BY <2>2 DEF NoTd
  <2>4. parent \in 0 .. MaxTxns
    BY <1>3, TxnAssumption DEF Txns, NoTxn
  <2>5. e \in Details
    BY <2>3, <2>4 DEF Details, Statuses, ZeroLsn
  <2> QED BY <2>1, <2>2, <2>3, <2>5 DEF BeginDetails
<1>6. /\ td \in [Txns -> Details] /\ td' \in [Txns -> Details] /\ td'[h] = e
      /\ \A g \in Txns \ {h} : td'[g] = td[g]
  BY <1>1, <1>5 DEF Tree, BeginDetails
<1>7. /\ e.status = "running" /\ e.parent = parent /\ e.begin = ZeroLsn
      /\ e.last = ZeroLsn /\ ~e.voted /\ e.at = ZeroLsn /\ e.stack = <<>>
  BY <1>5 DEF BeginDetails
<1>8. Longer(R, R) /\ FirstLsn(log') = FirstLsn(log) /\ Own' = Own /\ Com' = Com
  <2>1. Longer(R, R)
    BY <1>1, <1>2, NotLonger
  <2>2. Own' = Own
    BY <1>2, <2>1, SameOwn
  <2> QED BY <1>2, <2>1, <2>2 DEF Com
<1>9. Tree'
  <2>1. ASSUME NEW g \in Txns, g # h PROVE TreeOf(g)'
    <3>1. td'[g] = td[g] /\ TreeOf(g) /\ td[g].parent # h
      BY <1>1, <1>4, <1>6, <2>1 DEF Tree
    <3>2. td[g].parent # NoTxn => td[g].parent \in Txns
      BY <1>1, DetailFacts
    <3>3. td[g].parent # NoTxn => td'[td[g].parent] = td[td[g].parent]
      BY <1>6, <3>1, <3>2
    <3>4. td[g].status # "none" => g <= born'
      <4>1. g \in Nat
        BY DEF Txns
      <4> QED BY <1>2, <1>3, <3>1, <4>1 DEF TreeOf
    <3>5. Places' = Places /\ Len(log') = Len(log)
      BY <1>2, SameLog
    <3> QED BY <3>1, <3>3, <3>4, <3>5 DEF TreeOf
  <2>2. TreeOf(h)'
    <3>1. ZeroLsn \in Places' /\ ZeroLsn <= Len(log')
      BY <1>1, <1>2, WriteTypes DEF Places, ZeroLsn
    <3>2. parent # NoTxn => td'[parent].status = "running"
      BY <1>2, <1>3, <1>6
    <3>3. parent < h
      BY <1>3 DEF NoTxn
    <3>4. h <= born'
      BY <1>2, <1>3
    <3> QED BY <1>6, <1>7, <3>1, <3>2, <3>3, <3>4 DEF TreeOf
  <2>3. born' \in 0 .. MaxTxns
    BY <1>2, <1>3
  <2> QED BY <1>6, <2>1, <2>2, <2>3 DEF Tree
<1>10. \A g \in Txns \ {h} : Lineage'[g] = Lineage[g] /\ h \notin Lineage[g]
  <2>1. \A g \in Txns \ {h} : td'[g].parent = td[g].parent
    BY <1>6
  <2> QED BY <1>1, <1>4, <1>9, <2>1, LineageOthers
<1>11. Outcomes'
  <2>1. \A n \in 1 .. born : n \in 1 .. born'
    BY <1>2, <1>3
  <2>2. said'.voted \subseteq 1 .. born' /\ ToSet(said'.order) \subseteq 1 .. born'
    BY <1>1, <1>2, <2>1 DEF Outcomes
  <2>3. ASSUME NEW g \in Txns
        PROVE /\ td'[g].status # "none" =>
                   /\ g \in ToSet(said.order) <=> td'[g].status = "committing"
                   /\ td'[g].voted <=> g \in said.voted
                   /\ td'[g].status = "running" => ~td'[g].voted
              /\ td'[g].status = "none" /\ g \in said.voted =>
                   g \in ToSet(said.order) \cup said.aborted
    <3>1. CASE g = h
      BY <1>4, <1>6, <1>7, <3>1
    <3>2. CASE g # h
      <4>1. td'[g] = td[g]
        BY <1>6, <3>2
      <4> QED BY <1>1, <4>1 DEF Outcomes
    <3> QED BY <3>1, <3>2
  <2> QED BY <1>2, <2>2, <2>3 DEF Outcomes
<1>12. Owners(R)'
  <2>1. ASSUME NEW g \in Txns, td'[g].status # "none" PROVE R[td'[g].last] = Own[g]
    <3>1. CASE g = h
      <4>1. R[0] = {}
        BY <1>1 DEF Chains
      <4> QED BY <1>4, <1>6, <1>7, <3>1, <4>1 DEF ZeroLsn
    <3>2. CASE g # h
      BY <1>1, <1>6, <2>1, <3>2 DEF Owners
    <3> QED BY <3>1, <3>2
  <2>2. \A g \in Txns : g > born' => g > born
    BY <1>2, <1>3 DEF Txns
  <2>3. Writes' = Writes /\ ItemOf' = ItemOf
    BY <1>2, SameLog
  <2> QED BY <1>1, <1>2, <1>8, <2>1, <2>2, <2>3 DEF Owners
<1>13. Begun'
  <2> SUFFICES ASSUME NEW g \in Txns, td'[g].status # "none",
                      NEW a \in Lineage'[g], td'[a].parent = NoTxn, NEW n \in Own'[g]
               PROVE  td'[a].begin # ZeroLsn /\ td'[a].begin <= n
    BY DEF Begun
  <2>1. g # h /\ n \in Own[g]
    BY <1>4, <1>8
  <2>2. a \in Lineage[g] /\ a # h
    BY <1>10, <2>1
  <2>3. a \in Txns
    BY <1>1, <2>2, LineageFacts
  <2>4. td'[a] = td[a] /\ td'[g] = td[g]
    BY <1>6, <2>1, <2>2, <2>3
  <2> QED BY <1>1, <2>1, <2>2, <2>4 DEF Begun
<1>14. Locked'
  <2>1. \A p \in Pages : \A g \in locks[p] : g \in Txns \ {h}
    BY <1>1, <1>4 DEF Locked
  <2>2. \A p \in Pages : \A g \in locks[p] : td'[g].status # "none" /\ td'[g].last # ZeroLsn
    BY <1>1, <1>6, <2>1 DEF Locked
  <2>3. \A p \in Pages : \A g, k \in locks[p] : g \in Lineage'[k] \/ k \in Lineage'[g]
    BY <1>1, <1>10, <2>1 DEF Locked
  <2>4. \A g \in Txns, p \in Pages :
          td'[g].status # "none" /\ said.puts[g][p] # <<>> => g \in locks[p]
    BY <1>1, <1>4, <1>6 DEF Locked
  <2> QED BY <1>1, <1>2, <2>2, <2>3, <2>4 DEF Locked
<1>15. Ordered'
  <2>1. ASSUME NEW g \in Txns, td'[g].status # "none", NEW a \in Lineage'[g] \ {g}
        PROVE  Before(Own[a], Own[g])
    <3>1. CASE g = h
      BY <1>4, <3>1 DEF Before
    <3>2. CASE g # h
      BY <1>1, <1>6, <1>10, <2>1, <3>2 DEF Ordered
    <3> QED BY <3>1, <3>2
  <2>2. \A A, B : Before(A, B)' = Before(A, B)
    BY <1>2, SameLog
  <2> QED BY <1>8, <2>1, <2>2 DEF Ordered, Before
<1>16. Undoing(R)'
  <2>1. ASSUME NEW g \in Txns, td'[g].status = "aborting"
        PROVE  InOrder(R, Trail(g))' /\ (Covered(R, Trail(g)) \subseteq Own[g])'
    <3>1. g # h
      BY <1>6, <1>7, <2>1
    <3>2. td'[g] = td[g] /\ Own'[g] = Own[g]
      BY <1>6, <1>8, <3>1
    <3> QED BY <1>1, <1>8, <2>1, <3>2, SameTrail
  <2> QED BY <2>1 DEF Undoing
<1>17. Pend(R)' = Pend(R)
  <2>1. ASSUME NEW g \in Txns PROVE LeftOf(R, g)' = LeftOf(R, g)
    <3>1. CASE g = h
      BY <1>4, <1>6, <1>7, <1>8, <3>1 DEF LeftOf
    <3>2. CASE g # h
      <4>1. td'[g] = td[g]
        BY <1>6, <3>2
      <4> QED BY <1>8, <4>1 DEF LeftOf, Trail, Covered
    <3> QED BY <3>1, <3>2
  <2> QED BY <2>1 DEF Pend
<1>18. Cached(R)'
  BY <1>1, <1>2, <1>8, <1>17, CachedKept
<1>19. Checkpointed'
  <2>1. \A g \in Txns : td'[g].status # "none" => \A n \in Own'[g] :
               \E k \in Txns : td[k].status # "none" /\ n \in Own[k]
    BY <1>4, <1>6, <1>8
  <2>2. dirty' \subseteq Pages /\ \A p \in Pages : p \notin dirty' => disk[p] = mem'[p]
    BY <1>1, <1>2 DEF Checkpointed
  <2>3. ckp' = [ckp EXCEPT !.owed = ckp.owed]
    BY <1>1, <1>2, SameCkp
  <2> QED BY <1>1, <1>2, <1>8, <2>1, <2>2, <2>3, CheckpointKept
<1>20. Basic' /\ Chains(R)'
  BY <1>1, <1>2, <1>8 DEF Basic, Longer
<1> QED BY <1>9, <1>11, <1>12, <1>13, <1>14, <1>15, <1>16, <1>18, <1>19, <1>20 DEF IInv

-----------------------------------------------------------------------------
(* A write.                                                                *)

\* It is the last one of its transaction and of its page.
Writing(R, S, h, p) ==
    /\ td[h].status = "running" /\ \A g \in Txns : td[g].parent # h
    /\ locks[p] \subseteq Lineage[h]
    /\ Chains(S)' /\ S[NextLsn] = Own[h] \cup {NextLsn}
    /\ \A l \in 0 .. Len(log) : S[l] = R[l]
    /\ NextLsn \in Nat /\ NextLsn = Len(log) + 1 /\ Len(log') = NextLsn
    /\ log' \in Seq(Records) /\ FirstLsn(log') = FirstLsn(log)
    /\ Places' = Places \cup {NextLsn}
    /\ Writes' = Writes \cup {NextLsn} /\ NextLsn \notin Writes
    /\ \A n \in Writes : /\ n < NextLsn /\ PageOf'[n] = PageOf[n]
                         /\ ItemOf'[n] = ItemOf[n] /\ PrevOf'[n] = PrevOf[n]
    /\ PageOf'[NextLsn] = p /\ ItemOf'[NextLsn] = items + 1
    /\ PrevOf'[NextLsn] = mem[p].lsn
    /\ \A q : On(q)' = On(q) \cup (IF q = p THEN {NextLsn} ELSE {})
    /\ items' = items + 1 /\ born' = born
    /\ said' = [said EXCEPT !.puts[h][p] = Append(@, items + 1)]
    /\ td' = Logged(h)
    /\ mem' = [mem EXCEPT ![p] = [lsn |-> NextLsn, val |-> Append(@.val, items + 1)]]
    /\ dirty' = dirty \cup {p} /\ disk' = disk /\ ckp' = ckp
    /\ locks' = [locks EXCEPT ![p] = @ \cup {h}]

\* Write is such a step.
LEMMA WriteIs ==
    ASSUME NEW R, IInv(R), NEW h \in Txns, NEW p \in Pages, Write(h, p)
    PROVE  /\ \E S : Writing(R, S, h, p)
           /\ Basic'
<1>1. Basic /\ Chains(R) /\ Tree /\ Outcomes /\ Owners(R) /\ Cached(R)
  BY DEF IInv
<1> DEFINE r == WriteRec(h, p)
<1>2. /\ td[h].status = "running" /\ Kids(h) = {} /\ locks[p] \subseteq Lineage[h]
      /\ log' = Append(log, WriteRec(h, p)) /\ said' = Told(said, WriteRec(h, p))
      /\ td' = Logged(h)
      /\ mem' = [mem EXCEPT ![p] = [lsn |-> NextLsn, val |-> Append(@.val, items + 1)]]
      /\ dirty' = dirty \cup {p} /\ disk' = disk /\ ckp' = ckp
      /\ locks' = [locks EXCEPT ![p] = @ \cup {h}]
      /\ items' = items + 1 /\ born' = born /\ lastId' = lastId
      /\ phase' = phase /\ failed' = failed /\ crashes' = crashes
  BY DEF Write, PutLog, idVars
<1>3. /\ r \in Records /\ r.type = "write" /\ r.who = h /\ r.prev = td[h].last
      /\ r.page = p /\ r.pagelsn = mem[p].lsn /\ r.item = items + 1
  <2>1. td[h].id \in Int /\ td[h].last \in Nat
    BY <1>1 DEF Tree, Details
  <2>2. mem[p].lsn \in Nat /\ items + 1 \in Nat
    BY <1>1 DEF Cached, Basic
  <2>3. \A id \in Int, prev \in Nat, lsn \in Nat, item \in Nat :
           [type |-> "write", who |-> h, id |-> id, prev |-> prev,
            page |-> p, pagelsn |-> lsn, item |-> item] \in Records
    BY DEF Records
  <2>4. WriteRec(h, p) \in Records
    BY <2>1, <2>2, <2>3 DEF WriteRec
  <2> QED BY <2>4 DEF WriteRec
<1> HIDE DEF r
<1>4. log' = Append(log, r) /\ said' = Told(said, r)
  BY <1>2 DEF r
<1>5. td[h].last \in Places /\ R[td[h].last] = Own[h]
  BY <1>1, <1>2, LastPlace DEF Owners
<1>6. PICK S : /\ Chains(S)'
               /\ \A l \in 0 .. Len(log) : S[l] = R[l]
               /\ S[NextLsn] = Reached(R, r)
  <2>1. r.type # "ckp" => r.prev \in Places
    BY <1>3, <1>5
  <2>2. r.type = "child" => r.clsn \in Places /\ Before(R[r.prev], R[r.clsn])
    BY <1>3
  <2> QED BY <1>1, <1>3, <1>4, <2>1, <2>2, AppendedChains
<1>7. S[NextLsn] = Own[h] \cup {NextLsn}
  BY <1>3, <1>5, <1>6 DEF Reached
<1>8. /\ log' \in Seq(Records) /\ Len(log') = NextLsn /\ NextLsn = Len(log) + 1
      /\ Len(log) \in Nat /\ Places' = Places \cup {NextLsn}
      /\ FirstLsn(log') = FirstLsn(log)
  BY <1>1, <1>3, <1>4, AppendedLog
<1>9. /\ Writes' = Writes \cup {NextLsn} /\ NextLsn \notin Writes
      /\ \A n \in Writes : /\ n < NextLsn
                           /\ PageOf'[n] = PageOf[n]
                           /\ ItemOf'[n] = ItemOf[n]
                           /\ PrevOf'[n] = PrevOf[n]
      /\ PageOf'[NextLsn] = p
      /\ ItemOf'[NextLsn] = items + 1
      /\ PrevOf'[NextLsn] = mem[p].lsn
      /\ \A q : On(q)' = On(q) \cup (IF q = p THEN {NextLsn} ELSE {})
  BY <1>1, <1>3, <1>4, AppendedWrite
<1>10. said' = [said EXCEPT !.puts[h][p] = Append(@, items + 1)]
  BY <1>3, <1>4 DEF Told
<1>11. \A g \in Txns : td[g].parent # h
  BY <1>1, <1>2, Childless
<1>12. NextLsn \in Nat
  BY <1>8
<1>13. Writing(R, S, h, p)
  BY <1>2, <1>6, <1>7, <1>8, <1>9, <1>10, <1>11, <1>12 DEF Writing
<1>14. Basic'
  <2>1. items' \in Nat
    BY <1>1, <1>2 DEF Basic
  <2> QED BY <1>1, <1>2, <1>8, <2>1 DEF Basic
<1> QED BY <1>13, <1>14

\* What it has then.
WroteOwn(h, p) ==
    /\ Own'[h] = Own[h] \cup {NextLsn}
    /\ \A g \in Txns \ {h} : Own'[g] = Own[g]
    /\ \A g \in Txns : Own[g] \subseteq Writes
    /\ said' \in [puts : [Txns -> [Pages -> Seq(Nat)]], voted : SUBSET Txns,
                  order : Seq(Txns), aborted : SUBSET Txns]
    /\ said'.voted = said.voted /\ said'.order = said.order
    /\ said'.aborted = said.aborted
    /\ \A g \in Txns \ {h} : said'.puts[g] = said.puts[g]
    /\ \A q \in Pages \ {p} : said'.puts[h][q] = said.puts[h][q]
    /\ ToSet(said'.puts[h][p]) = ToSet(said.puts[h][p]) \cup {items + 1}

\* It is one of the writes of its transaction, and nobody else has another.
LEMMA WriteOwn ==
    ASSUME NEW R, IInv(R), NEW S, NEW h \in Txns, NEW p \in Pages, Writing(R, S, h, p)
    PROVE  WroteOwn(h, p)
<1>1. Basic /\ Owners(R)
  BY DEF IInv
<1>2. /\ said \in [puts : [Txns -> [Pages -> Seq(Nat)]], voted : SUBSET Txns,
                   order : Seq(Txns), aborted : SUBSET Txns]
      /\ items \in Nat
  BY <1>1 DEF Owners, Basic
<1> DEFINE s == said.puts[h][p]
           t == Append(s, items + 1)
<1>3. s \in Seq(Nat) /\ items + 1 \in Nat
  BY <1>2
<1>4. t \in Seq(Nat) /\ ToSet(t) = ToSet(s) \cup {items + 1}
  <2> HIDE DEF s
  <2> QED BY <1>3, AppendToSet
<1>5. said' = [said EXCEPT !.puts = [said.puts EXCEPT ![h] = [said.puts[h] EXCEPT ![p] = t]]]
  BY DEF Writing
<1> HIDE DEF s, t
<1>6. PICK f : f = [said.puts EXCEPT ![h] = [said.puts[h] EXCEPT ![p] = t]]
  OBVIOUS
<1>7. /\ f \in [Txns -> [Pages -> Seq(Nat)]] /\ \A g \in Txns \ {h} : f[g] = said.puts[g]
      /\ \A q \in Pages \ {p} : f[h][q] = said.puts[h][q]
      /\ f[h][p] = t
  <2>1. said.puts \in [Txns -> [Pages -> Seq(Nat)]]
    BY <1>2
  <2>2. PICK d : d = [said.puts[h] EXCEPT ![p] = t]
    OBVIOUS
  <2>3. /\ d \in [Pages -> Seq(Nat)] /\ d[p] = t
        /\ \A q \in Pages \ {p} : d[q] = said.puts[h][q]
    BY <1>4, <2>1, <2>2
  <2>4. f = [said.puts EXCEPT ![h] = d]
    BY <1>6, <2>2
  <2> QED BY <2>1, <2>3, <2>4
<1>8. /\ said' \in [puts : [Txns -> [Pages -> Seq(Nat)]], voted : SUBSET Txns,
                    order : Seq(Txns), aborted : SUBSET Txns]
      /\ said'.voted = said.voted /\ said'.order = said.order
      /\ said'.aborted = said.aborted /\ said'.puts = f
  <2>1. said' = [said EXCEPT !.puts = f]
    BY <1>5, <1>6
  <2> QED BY <1>2, <1>7, <2>1
<1>9. ToSet(said'.puts[h][p]) = ToSet(said.puts[h][p]) \cup {items + 1}
  BY <1>4, <1>7, <1>8 DEF s
<1>10. /\ Writes' = Writes \cup {NextLsn}
       /\ \A n \in Writes : PageOf'[n] = PageOf[n] /\ ItemOf'[n] = ItemOf[n]
       /\ PageOf'[NextLsn] = p /\ ItemOf'[NextLsn] = items + 1 /\ NextLsn \notin Writes
  BY DEF Writing
<1>11. /\ \A n \in Writes : ItemOf[n] # items + 1 /\ PageOf[n] \in Pages
       /\ \A g \in Txns : items + 1 \notin ToSet(said.puts[g][p])
  <2>1. \A n \in Writes : ItemOf[n] \in Nat /\ ItemOf[n] <= items /\ PageOf[n] \in Pages
    BY <1>1, WriteTypes DEF Owners
  <2>2. \A g \in Txns : \A i \in ToSet(said.puts[g][p]) : i <= items
    BY <1>1 DEF Owners
  <2>3. ~(items + 1 <= items)
    BY <1>2
  <2> QED BY <1>2, <2>1, <2>2, <2>3
<1>12. ASSUME NEW g \in Txns, NEW n \in Writes
       PROVE  ItemOf[n] \in ToSet(said'.puts[g][PageOf[n]])
                <=> ItemOf[n] \in ToSet(said.puts[g][PageOf[n]])
  <2>1. CASE g = h /\ PageOf[n] = p
    BY <1>9, <1>11, <2>1
  <2>2. CASE g # h
    BY <1>7, <1>8, <2>2
  <2>3. CASE PageOf[n] # p /\ g = h
    BY <1>7, <1>8, <1>11, <2>3
  <2> QED BY <2>1, <2>2, <2>3
<1>13. \A g \in Txns : items + 1 \in ToSet(said'.puts[g][p]) <=> g = h
  BY <1>7, <1>8, <1>9, <1>11
<1>14. \A g \in Txns : Own'[g] = {n \in Writes' : ItemOf'[n] \in ToSet(said'.puts[g][PageOf'[n]])}
  BY DEF Own
<1>15. \A g \in Txns : Own[g] = {n \in Writes : ItemOf[n] \in ToSet(said.puts[g][PageOf[n]])}
  BY DEF Own
<1>16. ASSUME NEW g \in Txns
       PROVE  Own'[g] = Own[g] \cup (IF g = h THEN {NextLsn} ELSE {})
  <2>1. \A n \in Writes : n \in Own'[g] <=> n \in Own[g]
    BY <1>10, <1>12, <1>14, <1>15
  <2>2. NextLsn \in Own'[g] <=> g = h
    BY <1>10, <1>13, <1>14
  <2>3. Own'[g] \subseteq Writes \cup {NextLsn} /\ Own[g] \subseteq Writes
    BY <1>10, <1>14, <1>15
  <2> QED BY <1>10, <2>1, <2>2, <2>3
<1>17. /\ Own'[h] = Own[h] \cup {NextLsn}
       /\ \A g \in Txns \ {h} : Own'[g] = Own[g]
       /\ \A g \in Txns : Own[g] \subseteq Writes
  BY <1>15, <1>16
<1>18. /\ \A g \in Txns \ {h} : said'.puts[g] = said.puts[g]
       /\ \A q \in Pages \ {p} : said'.puts[h][q] = said.puts[h][q]
  BY <1>7, <1>8
<1>19. /\ said'.voted = said.voted /\ said'.order = said.order
       /\ said'.aborted = said.aborted
  BY <1>8
<1>20. said' \in [puts : [Txns -> [Pages -> Seq(Nat)]], voted : SUBSET Txns,
                  order : Seq(Txns), aborted : SUBSET Txns]
  BY <1>8
<1> QED BY <1>9, <1>17, <1>18, <1>19, <1>20 DEF WroteOwn

\* Its transaction's details.
LEMMA WriteTree ==
    ASSUME NEW R, IInv(R), NEW S, NEW h \in Txns, NEW p \in Pages, Writing(R, S, h, p)
    PROVE  /\ Tree' /\ Lineage' = Lineage
           /\ \A g \in Txns :
                /\ td'[g].status = td[g].status /\ td'[g].at = td[g].at
                /\ td'[g].voted = td[g].voted /\ td'[g].stack = td[g].stack
                /\ td'[g].parent = td[g].parent
                /\ td'[g].last = IF g = h THEN NextLsn ELSE td[g].last
                /\ td'[g].begin = IF g = Top(h) /\ td[g].begin = ZeroLsn
                                  THEN NextLsn ELSE td[g].begin
<1>1. Basic /\ Tree
  BY DEF IInv
<1>2. /\ td[h].status = "running" /\ td' = Logged(h) /\ Places' = Places \cup {NextLsn}
      /\ born' = born /\ Len(log') = NextLsn /\ NextLsn = Len(log) + 1
  BY DEF Writing
<1>3. /\ td' \in [Txns -> Details]
      /\ \A g \in Txns :
           /\ td'[g].status = td[g].status
           /\ td'[g].parent = td[g].parent /\ td'[g].at = td[g].at
           /\ td'[g].voted = td[g].voted /\ td'[g].stack = td[g].stack
           /\ td'[g].last = IF g = h THEN NextLsn ELSE td[g].last
           /\ td'[g].begin = IF g = Top(h) /\ td[g].begin = ZeroLsn
                             THEN NextLsn ELSE td[g].begin
           /\ td[g].status = "none" => td'[g] = td[g]
  BY <1>1, <1>2, LoggedFields
<1>4. Len(log) \in Nat
  BY <1>1, WriteTypes
<1>5. ASSUME NEW g \in Txns PROVE TreeOf(g)'
  <2>1. /\ TreeOf(g) /\ td[g].begin \in Nat /\ td[g].begin <= Len(log)
        /\ td[g].parent # NoTxn =>
                td[g].parent \in Txns /\ td[td[g].parent].status = "running"
        /\ td[g].parent < g
    BY <1>1, DetailFacts DEF Tree
  <2>2. td'[g].begin <= Len(log')
    BY <1>2, <1>3, <1>4, <2>1
  <2>3. td'[g].parent # NoTxn => td'[td'[g].parent].status = "running"
    BY <1>3, <2>1
  <2>4. td'[g].last \in Places' /\ td'[g].at \in Places'
    BY <1>2, <1>3, <2>1 DEF TreeOf
  <2>5. td'[g].status = "none" => td'[g] = NoTd
    BY <1>3, <2>1 DEF TreeOf
  <2>6. /\ \A i \in DOMAIN td'[g].stack : td'[g].stack[i] \in Places' \ {ZeroLsn}
        /\ td'[g].at = ZeroLsn => td'[g].stack = <<>>
        /\ td'[g].status # "aborting" => td'[g].at = ZeroLsn
        /\ td'[g].status # "none" => g <= born'
    BY <1>2, <1>3, <2>1 DEF TreeOf
  <2>7. td'[g].parent < g
    BY <1>3, <2>1
  <2> QED BY <2>2, <2>3, <2>4, <2>5, <2>6, <2>7 DEF TreeOf
<1>6. Tree'
  BY <1>1, <1>2, <1>3, <1>5 DEF Tree
<1>7. Lineage' = Lineage
  BY <1>1, <1>3, <1>6, LineageKept
<1> QED BY <1>3, <1>6, <1>7

\* What is said of it.
LEMMA WriteOwners ==
    ASSUME NEW R, IInv(R), NEW S, NEW h \in Txns, NEW p \in Pages, Writing(R, S, h, p)
    PROVE  Owners(S)' /\ Outcomes'
<1>1. Basic /\ Tree /\ Outcomes /\ Owners(R)
  BY DEF IInv
<1>2c. WroteOwn(h, p)
  BY WriteOwn
<1>2. /\ Own'[h] = Own[h] \cup {NextLsn}
      /\ \A g \in Txns \ {h} : Own'[g] = Own[g]
      /\ \A g \in Txns : Own[g] \subseteq Writes
  BY <1>2c DEF WroteOwn
<1>2a. said' \in [puts : [Txns -> [Pages -> Seq(Nat)]], voted : SUBSET Txns,
                    order : Seq(Txns), aborted : SUBSET Txns]
  BY <1>2c DEF WroteOwn
<1>2b. /\ said'.voted = said.voted /\ said'.order = said.order
       /\ said'.aborted = said.aborted
       /\ \A g \in Txns \ {h} : said'.puts[g] = said.puts[g]
       /\ \A q \in Pages \ {p} : said'.puts[h][q] = said.puts[h][q]
       /\ ToSet(said'.puts[h][p]) = ToSet(said.puts[h][p]) \cup {items + 1}
  BY <1>2c DEF WroteOwn
<1>3. \A g \in Txns :
           /\ td'[g].status = td[g].status /\ td'[g].voted = td[g].voted
           /\ td'[g].last = IF g = h THEN NextLsn ELSE td[g].last
  BY WriteTree
<1>4. /\ td[h].status = "running" /\ items' = items + 1 /\ born' = born
      /\ Writes' = Writes \cup {NextLsn} /\ NextLsn \notin Writes
      /\ \A n \in Writes : n < NextLsn /\ ItemOf'[n] = ItemOf[n]
      /\ ItemOf'[NextLsn] = items + 1 /\ NextLsn \in Nat
      /\ S[NextLsn] = Own[h] \cup {NextLsn}
      /\ \A l \in 0 .. Len(log) : S[l] = R[l]
  BY DEF Writing
<1>5. items \in Nat /\ h <= born /\ h \in Nat /\ born \in Nat
  BY <1>1, <1>4, DetailFacts, TxnAssumption DEF Basic, Txns, Tree
<1>6. ASSUME NEW g \in Txns, NEW q \in Pages, NEW i \in ToSet(said'.puts[g][q])
      PROVE  i <= items'
  <2>1. i \in ToSet(said.puts[g][q]) \/ i = items + 1
    BY <1>2b
  <2>2. i \in ToSet(said.puts[g][q]) => i <= items /\ i \in Nat
    <3>1. said.puts[g][q] \in Seq(Nat)
      BY <1>1 DEF Owners
    <3>2. \A j \in ToSet(said.puts[g][q]) : j \in Nat
      BY <3>1 DEF ToSet
    <3> QED BY <1>1, <3>2 DEF Owners
  <2> QED BY <1>4, <1>5, <2>1, <2>2
<1>7. \A g \in Txns : g > born' => said'.puts[g] = Nothing
  <2>1. \A g \in Txns : g > born' => g # h
    BY <1>4, <1>5
  <2> QED BY <1>1, <1>2b, <1>4, <2>1 DEF Owners
<1>8. \A g, k \in Txns : g # k => Own'[g] \cap Own'[k] = {}
  <2>1. \A g, k \in Txns : g # k => Own[g] \cap Own[k] = {}
    BY <1>1 DEF Owners
  <2>2. \A g \in Txns : NextLsn \notin Own[g]
    BY <1>2, <1>4
  <2>3. \A g \in Txns : Own'[g] = Own[g] \cup (IF g = h THEN {NextLsn} ELSE {})
    BY <1>2
  <2> QED BY <2>1, <2>2, <2>3
<1>9. ASSUME NEW g \in Txns, td'[g].status # "none" PROVE S[td'[g].last] = Own'[g]
  <2>1. CASE g = h
    BY <1>2, <1>3, <1>4, <2>1
  <2>2. CASE g # h
    <3>1. td'[g].last = td[g].last /\ td[g].status # "none" /\ Own'[g] = Own[g]
      BY <1>2, <1>3, <1>9, <2>2
    <3>2. R[td[g].last] = Own[g] /\ td[g].last \in 0 .. Len(log)
      BY <1>1, <3>1, LastPlace DEF Owners
    <3> QED BY <1>4, <3>1, <3>2
  <2> QED BY <2>1, <2>2
<1>10. \A n \in Writes : n \in Nat /\ ItemOf[n] \in Nat /\ ItemOf[n] <= items
  <2>1. Writes \subseteq Nat
    BY <1>1, WriteTypes
  <2> QED BY <1>1, <2>1, WriteTypes DEF Owners
<1>11. \A n \in Writes' : ItemOf'[n] <= items'
  BY <1>4, <1>5, <1>10
<1>12. ASSUME NEW m \in Writes', NEW n \in Writes', m < n PROVE ItemOf'[m] < ItemOf'[n]
  <2>1. m \in Writes
    <3> SUFFICES ASSUME m = NextLsn PROVE FALSE
      BY <1>4
    <3> QED BY <1>4, <1>10, <1>12
  <2>2. CASE n \in Writes
    <3>1. ItemOf[m] < ItemOf[n]
      BY <1>1, <1>12, <2>1, <2>2 DEF Owners
    <3> QED BY <1>4, <2>1, <2>2, <3>1
  <2>3. CASE n = NextLsn
    BY <1>4, <1>5, <1>10, <2>1, <2>3
  <2> QED BY <1>4, <2>2, <2>3
<1>13. Owners(S)'
  BY <1>2, <1>2a, <1>6, <1>7, <1>8, <1>9, <1>11, <1>12 DEF Owners
<1>14. Outcomes'
  <2>1. /\ (said.voted \subseteq 1 .. born)' /\ (ToSet(said.order) \subseteq 1 .. born)'
        /\ ToSet(said'.order) = ToSet(said.order)
    BY <1>1, <1>2b, <1>4 DEF Outcomes
  <2> QED BY <1>1, <1>2b, <1>3, <2>1 DEF Outcomes
<1> QED BY <1>13, <1>14

\* Whose it is and who has a lock.
LEMMA WriteLocks ==
    ASSUME NEW R, IInv(R), NEW S, NEW h \in Txns, NEW p \in Pages, Writing(R, S, h, p)
    PROVE  Begun' /\ Locked' /\ Ordered'
<1>1. Basic /\ Tree /\ Owners(R) /\ Begun /\ Locked /\ Ordered
  BY DEF IInv
<1>2. WroteOwn(h, p)
  BY WriteOwn
<1>3. /\ Own'[h] = Own[h] \cup {NextLsn}
      /\ \A g \in Txns \ {h} : Own'[g] = Own[g]
      /\ \A g \in Txns : Own[g] \subseteq Writes
      /\ \A g \in Txns \ {h} : said'.puts[g] = said.puts[g]
      /\ \A q \in Pages \ {p} : said'.puts[h][q] = said.puts[h][q]
  BY <1>2 DEF WroteOwn
<1>4. Tree' /\ Lineage' = Lineage
  BY WriteTree
<1>5. \A g \in Txns :
           /\ td'[g].status = td[g].status /\ td'[g].parent = td[g].parent
           /\ td'[g].last = IF g = h THEN NextLsn ELSE td[g].last
           /\ td'[g].begin = IF g = Top(h) /\ td[g].begin = ZeroLsn
                             THEN NextLsn ELSE td[g].begin
  BY WriteTree
<1>6. /\ td[h].status = "running" /\ \A g \in Txns : td[g].parent # h
      /\ locks[p] \subseteq Lineage[h]
      /\ NextLsn \in Nat /\ NextLsn = Len(log) + 1
      /\ Writes' = Writes \cup {NextLsn} /\ NextLsn \notin Writes
      /\ \A n \in Writes : n < NextLsn /\ PageOf'[n] = PageOf[n]
      /\ locks' = [locks EXCEPT ![p] = @ \cup {h}]
  BY DEF Writing
<1>7. Len(log) \in Nat /\ NextLsn # ZeroLsn
  BY <1>1, <1>6, WriteTypes DEF ZeroLsn
<1>8. Begun'
  <2> SUFFICES ASSUME NEW g \in Txns, td'[g].status # "none",
                      NEW a \in Lineage'[g], td'[a].parent = NoTxn, NEW n \in Own'[g]
               PROVE  td'[a].begin # ZeroLsn /\ td'[a].begin <= n
    BY DEF Begun
  <2>1. td[g].status # "none" /\ a \in Lineage[g] /\ a \in Txns /\ td[a].parent = NoTxn
    BY <1>1, <1>4, <1>5, LineageFacts
  <2>2. CASE n \in Own[g]
    <3>1. td[a].begin # ZeroLsn /\ td[a].begin <= n
      BY <1>1, <2>1, <2>2 DEF Begun
    <3>2. td'[a].begin = td[a].begin
      BY <1>5, <2>1, <3>1
    <3> QED BY <3>1, <3>2
  <2>3. CASE n \notin Own[g]
    <3>1. g = h /\ n = NextLsn
      BY <1>3, <2>3
    <3>2. a = Top(h)
      BY <1>1, <2>1, <3>1, LineageFacts
    <3>3. td[a].begin \in Nat /\ td[a].begin <= Len(log)
      BY <1>1, <2>1, DetailFacts
    <3>4. CASE td[a].begin = ZeroLsn
      <4>1. td'[a].begin = NextLsn
        BY <1>5, <2>1, <3>2, <3>4
      <4> QED BY <1>6, <1>7, <3>1, <4>1
    <3>5. CASE td[a].begin # ZeroLsn
      <4>1. td'[a].begin = td[a].begin
        BY <1>5, <2>1, <3>5
      <4> QED BY <1>6, <1>7, <3>1, <3>3, <3>5, <4>1
    <3> QED BY <3>4, <3>5
  <2> QED BY <2>2, <2>3
<1>9. Locked'
  <2>1. /\ locks' \in [Pages -> SUBSET Txns] /\ locks'[p] = locks[p] \cup {h}
        /\ \A q \in Pages \ {p} : locks'[q] = locks[q]
        /\ \A q \in Pages : locks[q] \subseteq Txns
    BY <1>1, <1>6 DEF Locked
  <2>2. ASSUME NEW q \in Pages, NEW g \in locks'[q]
        PROVE  td'[g].status # "none" /\ td'[g].last # ZeroLsn
    <3>1. CASE g = h
      BY <1>5, <1>6, <1>7, <3>1
    <3>2. CASE g # h
      <4>1. g \in locks[q] /\ g \in Txns
        BY <2>1, <2>2, <3>2
      <4> QED BY <1>1, <1>5, <3>2, <4>1 DEF Locked
    <3> QED BY <3>1, <3>2
  <2>3. ASSUME NEW q \in Pages, NEW g \in locks'[q], NEW k \in locks'[q]
        PROVE  g \in Lineage[k] \/ k \in Lineage[g]
    <3>1. CASE g \in locks[q] /\ k \in locks[q]
      BY <1>1, <3>1 DEF Locked
    <3>2. CASE g \notin locks[q]
      <4>1. q = p /\ g = h
        BY <2>1, <2>3, <3>2
      <4>2. k \in locks[p] \/ k = h
        BY <2>1, <2>3, <4>1
      <4>3. h \in Lineage[h]
        BY <1>1, LineageFacts
      <4> QED BY <1>6, <4>1, <4>2, <4>3
    <3>3. CASE k \notin locks[q]
      <4>1. q = p /\ k = h
        BY <2>1, <2>3, <3>3
      <4>2. g \in locks[p] \/ g = h
        BY <2>1, <2>3, <4>1
      <4>3. h \in Lineage[h]
        BY <1>1, LineageFacts
      <4> QED BY <1>6, <4>1, <4>2, <4>3
    <3> QED BY <3>1, <3>2, <3>3
  <2>4. ASSUME NEW g \in Txns, NEW q \in Pages,
               td'[g].status # "none", said'.puts[g][q] # <<>>
        PROVE  g \in locks'[q]
    <3>1. CASE g = h /\ q = p
      BY <2>1, <3>1
    <3>2. CASE g # h \/ q # p
      <4>1. said.puts[g][q] # <<>> /\ td[g].status # "none"
        BY <1>3, <1>5, <2>4, <3>2
      <4> QED BY <1>1, <2>1, <4>1 DEF Locked
    <3> QED BY <3>1, <3>2
  <2> QED BY <1>4, <2>1, <2>2, <2>3, <2>4 DEF Locked
<1>10. Ordered'
  <2> SUFFICES ASSUME NEW g \in Txns, td'[g].status # "none",
                      NEW a \in Lineage'[g] \ {g}
               PROVE  (Before(Own[a], Own[g]))'
    BY DEF Ordered
  <2>1. a \in Lineage[g] \ {g} /\ a \in Txns /\ td[g].status # "none"
    BY <1>1, <1>4, <1>5, LineageFacts
  <2>2. a # h
    <3>1. h # NoTxn => \A k \in Txns \ {h} : h \notin Lineage[k]
      BY <1>1, <1>6, LineageFacts
    <3>2. h # NoTxn
      BY TxnAssumption DEF Txns, NoTxn
    <3> QED BY <2>1, <3>1, <3>2
  <2>3. Before(Own[a], Own[g])
    BY <1>1, <2>1 DEF Ordered
  <2>4. Own'[a] = Own[a] /\ Own[a] \subseteq Writes /\ Own[g] \subseteq Writes
    BY <1>3, <2>1, <2>2
  <2>5. Own'[g] \subseteq Own[g] \cup {NextLsn}
    BY <1>3
  <2> QED BY <1>6, <2>3, <2>4, <2>5 DEF Before
<1> QED BY <1>8, <1>9, <1>10

\* What may be undone, and the pages.
LEMMA WriteCached ==
    ASSUME NEW R, IInv(R), NEW S, NEW h \in Txns, NEW p \in Pages, Writing(R, S, h, p)
    PROVE  Undoing(S)' /\ Cached(S)' /\ Checkpointed'
<1>1. /\ Basic /\ Chains(R) /\ Tree /\ Outcomes /\ Owners(R) /\ Undoing(R) /\ Cached(R)
      /\ Checkpointed
  BY DEF IInv
<1>2. WroteOwn(h, p)
  BY WriteOwn
<1>3. /\ Own'[h] = Own[h] \cup {NextLsn}
      /\ \A g \in Txns \ {h} : Own'[g] = Own[g]
      /\ \A g \in Txns : Own[g] \subseteq Writes
      /\ said'.order = said.order
  BY <1>2 DEF WroteOwn
<1>4. \A g \in Txns :
           /\ td'[g].status = td[g].status /\ td'[g].at = td[g].at
           /\ td'[g].stack = td[g].stack
  BY WriteTree
<1>5. /\ td[h].status = "running" /\ NextLsn \in Nat /\ NextLsn = Len(log) + 1
      /\ Len(log') = NextLsn /\ FirstLsn(log') = FirstLsn(log)
      /\ Writes' = Writes \cup {NextLsn} /\ NextLsn \notin Writes
      /\ \A n \in Writes : /\ n < NextLsn /\ PageOf'[n] = PageOf[n]
                           /\ ItemOf'[n] = ItemOf[n] /\ PrevOf'[n] = PrevOf[n]
      /\ \A q : On(q)' = On(q) \cup (IF q = p THEN {NextLsn} ELSE {})
      /\ \A l \in 0 .. Len(log) : S[l] = R[l]
  BY DEF Writing
<1>5a. /\ ItemOf'[NextLsn] = items + 1 /\ PrevOf'[NextLsn] = mem[p].lsn
       /\ mem' = [mem EXCEPT ![p] = [lsn |-> NextLsn, val |-> Append(@.val, items + 1)]]
       /\ dirty' = dirty \cup {p} /\ disk' = disk /\ ckp' = ckp
  BY DEF Writing
<1>6. Undoing(S)'
  <2>1. ASSUME NEW g \in Txns, td'[g].status = "aborting"
        PROVE  InOrder(S, Trail(g))' /\ (Covered(S, Trail(g)) \subseteq Own[g])'
    <3>1. g # h /\ Trail(g)' = Trail(g) /\ td[g].status = "aborting"
      BY <1>4, <1>5, <2>1 DEF Trail
    <3>2. /\ Covered(S, Trail(g)) = Covered(R, Trail(g))
          /\ \A i \in DOMAIN Trail(g) : S[Trail(g)[i]] = R[Trail(g)[i]]
      BY <1>1, <1>5, SameCovered
    <3>3. InOrder(R, Trail(g)) /\ Covered(R, Trail(g)) \subseteq Own[g]
      BY <1>1, <3>1 DEF Undoing
    <3>4. \A i \in DOMAIN Trail(g) : R[Trail(g)[i]] \subseteq Writes
      BY <1>3, <3>3 DEF Covered
    <3>5. ASSUME NEW i \in DOMAIN Trail(g), NEW j \in DOMAIN Trail(g), i < j
          PROVE  Before(S[Trail(g)[i]], S[Trail(g)[j]])'
      <4>1. Before(R[Trail(g)[i]], R[Trail(g)[j]])
        BY <3>3, <3>5 DEF InOrder
      <4>2. R[Trail(g)[i]] \subseteq Writes /\ R[Trail(g)[j]] \subseteq Writes
        BY <3>4
      <4>3. Before(R[Trail(g)[i]], R[Trail(g)[j]])'
        <5>1. PICK A, B : A = R[Trail(g)[i]] /\ B = R[Trail(g)[j]]
          OBVIOUS
        <5>2. Before(A, B) /\ A \subseteq Writes /\ B \subseteq Writes
          BY <4>1, <4>2, <5>1
        <5>3. Before(A, B)'
          BY <1>5, <5>2 DEF Before
        <5> QED BY <3>1, <5>1, <5>3
      <4> QED BY <3>1, <3>2, <4>3
    <3>6. InOrder(S, Trail(g))'
      BY <3>1, <3>5 DEF InOrder
    <3>7. (Covered(S, Trail(g)) \subseteq Own[g])'
      BY <1>3, <3>1, <3>2, <3>3 DEF Covered
    <3> QED BY <3>6, <3>7
  <2> QED BY <2>1 DEF Undoing
<1>7. Pend(S)' = Pend(R) \cup {NextLsn}
  <2>1. ASSUME NEW g \in Txns
        PROVE  LeftOf(S, g)' = LeftOf(R, g) \cup (IF g = h THEN {NextLsn} ELSE {})
    <3>1. CASE g = h
      BY <1>3, <1>4, <1>5, <3>1 DEF LeftOf
    <3>2. CASE g # h
      <4>1. PICK d : d = td'[g]
        OBVIOUS
      <4>2. d.status = td[g].status /\ d.at = td[g].at /\ d.stack = td[g].stack
        BY <1>4, <4>1
      <4>3. LeftIn(S, d, Own[g]) = LeftOf(R, g)
        BY <1>1, <1>5, <4>2, SameLeft
      <4> QED BY <1>3, <3>2, <4>1, <4>3 DEF LeftOf, LeftIn, Trail
    <3> QED BY <3>1, <3>2
  <2> QED BY <2>1 DEF Pend
<1>8. Com' = Com /\ Com \subseteq Writes
  <2>1. h \notin ToSet(said.order)
    BY <1>1, <1>5 DEF Outcomes
  <2>2. ToSet(said.order) \subseteq Txns
    <3>1. said.order \in Seq(Txns)
      BY <1>1 DEF Owners
    <3> QED BY <3>1 DEF ToSet
  <2>3. \A g \in ToSet(said.order) : Own'[g] = Own[g] /\ Own[g] \subseteq Writes
    BY <1>3, <2>1, <2>2
  <2> QED BY <1>3, <2>3 DEF Com
<1>9. Pend(R) \subseteq Writes
  <2>1. \A g \in Txns : LeftOf(R, g) \subseteq Writes
    BY <1>1, LeftInside
  <2> QED BY <2>1 DEF Pend
<1>10. /\ \A q \in Pages \ {p} : mem'[q] = mem[q]
       /\ mem'[p] = [lsn |-> NextLsn, val |-> Append(mem[p].val, items + 1)]
       /\ \A q \in Pages : On(q) \subseteq Writes
  BY <1>1, <1>5a DEF Cached, On
<1>11. ASSUME NEW q \in Pages
       PROVE  PageOK(ItemOf, PrevOf, Pend(S) \cap On(q), Com \cap On(q), mem[q])'
  <2> DEFINE P == Pend(R) \cap On(q)
             C == Com \cap On(q)
  <2>1. PageOK(ItemOf, PrevOf, P, C, mem[q]) /\ P \cup C \subseteq Writes
    BY <1>1, <1>8, <1>9 DEF Cached
  <2>2. (Com \cap On(q))' = C
    BY <1>5, <1>8
  <2>3. CASE q = p
    <3>1. (Pend(S) \cap On(q))' = P \cup {NextLsn}
      BY <1>5, <1>7, <2>3, <1>9
    <3>2. Writes \subseteq Nat /\ items + 1 \in Nat
      BY <1>1, WriteTypes DEF Basic
    <3>3. \A k \in Writes : k < NextLsn /\ ItemOf[k] < items + 1
      <4>1. \A k \in Writes : ItemOf[k] \in Nat /\ ItemOf[k] <= items
        BY <1>1, WriteTypes DEF Owners
      <4>2. items \in Nat
        BY <1>1 DEF Basic
      <4> QED BY <1>5, <4>1, <4>2
    <3>4. \A k \in Writes : ItemOf'[k] = ItemOf[k] /\ PrevOf'[k] = PrevOf[k]
      BY <1>5
    <3>5. PrevOf'[NextLsn] = mem[q].lsn
      BY <1>5a, <2>3
    <3> HIDE DEF P, C
    <3>6. PageOK(ItemOf', PrevOf', P \cup {NextLsn}, C,
                 [lsn |-> NextLsn, val |-> Append(mem[q].val, items + 1)])
      <4>1. PICK J, Q, i, N, m : /\ J = ItemOf' /\ Q = PrevOf' /\ i = items + 1
                                 /\ N = NextLsn /\ m = mem[q]
        OBVIOUS
      <4>2. PageOK(ItemOf, PrevOf, P, C, m) /\ P \cup C \subseteq Writes
        BY <2>1, <4>1
      <4>3. /\ N \in Nat /\ i \in Nat /\ Writes \subseteq Nat
            /\ \A k \in Writes : k < N /\ ItemOf[k] < i
        BY <1>5, <3>2, <3>3, <4>1
      <4>4. /\ \A k \in Writes : J[k] = ItemOf[k] /\ Q[k] = PrevOf[k]
            /\ J[N] = i /\ Q[N] = m.lsn
        BY <1>5a, <3>4, <3>5, <4>1
      <4>5. Fits(Writes, ItemOf, PrevOf, P, C, m, N, i, J, Q)
        BY <4>2, <4>3, <4>4 DEF Fits
      <4>6. PageOK(J, Q, P \cup {N}, C, [lsn |-> N, val |-> Append(m.val, i)])
        BY <4>5, PagePut
      <4> QED BY <4>1, <4>6
    <3> QED BY <1>10, <2>2, <2>3, <3>1, <3>6
  <2>4. CASE q # p
    <3>1. (Pend(S) \cap On(q))' = P
      BY <1>5, <1>7, <1>10, <2>4
    <3>2. mem'[q] = mem[q]
      BY <1>10, <2>4
    <3>3. \A k \in Writes : ItemOf'[k] = ItemOf[k] /\ PrevOf'[k] = PrevOf[k]
      BY <1>5
    <3> HIDE DEF P, C
    <3>4. PageOK(ItemOf', PrevOf', P, C, mem[q])
      BY <2>1, <3>3, PageSame
    <3> QED BY <2>2, <3>1, <3>2, <3>4
  <2> QED BY <2>3, <2>4
<1>12. mem' \in [Pages -> [lsn : Nat, val : Seq(Nat)]]
  <2>1. mem \in [Pages -> [lsn : Nat, val : Seq(Nat)]] /\ items + 1 \in Nat
    BY <1>1 DEF Cached, Basic
  <2>2. Append(mem[p].val, items + 1) \in Seq(Nat)
    BY <2>1
  <2> QED BY <1>5, <1>5a, <2>1, <2>2
<1>13. Cached(S)'
  BY <1>11, <1>12 DEF Cached
<1>14. Checkpointed'
  <2>1. ASSUME NEW c \in Nat, c <= NextLsn, Over(c) PROVE Over(c)'
    <3>1. \A g \in Txns : \A n \in Own'[g] : n \in Own[g] \/ n = NextLsn
      BY <1>3
    <3> QED BY <1>4, <1>5, <2>1, <3>1 DEF Over
  <2>2. ASSUME NEW c \in Nat, c <= NextLsn, NEW q \in Pages, InFile(c, q)
        PROVE  InFile(c, q)'
    <3> SUFFICES ASSUME NEW n \in On(q)', n < c
                 PROVE  (ItemOf[n] \in ToSet(disk[q].val) <=> n \in Com)'
      BY DEF InFile
    <3>1. n # NextLsn
      BY <1>5, <2>2
    <3>2. n \in On(q) /\ n \in Writes
      BY <1>5, <1>10, <3>1
    <3>3. ItemOf'[n] = ItemOf[n]
      BY <1>5, <3>2
    <3> QED BY <1>5a, <1>8, <2>2, <3>2, <3>3 DEF InFile
  <2>3. PICK f \in Nat : f = FirstLsn(log) /\ f <= NextLsn
    BY <1>1 DEF Checkpointed
  <2>4. Over(f) /\ \A q \in Pages : InFile(f, q)
    BY <1>1, <2>3 DEF Checkpointed
  <2>5. Over(f)' /\ \A q \in Pages : InFile(f, q)'
    BY <2>1, <2>2, <2>3, <2>4
  <2>6. PICK c \in Nat : c = ckp.lsn
    BY <1>1 DEF Checkpointed
  <2>7. ckp.step # "idle" => c <= Len(log) /\ c <= NextLsn
    <3>1. Len(log) \in Nat
      BY <1>1, WriteTypes
    <3> QED BY <1>1, <1>5, <2>6, <3>1 DEF Checkpointed
  <2>8. ckp.step = "sync" => Over(c)' /\ \A q \in Pages \ ckp.todo : InFile(c, q)'
    <3>1. ckp.step = "sync" => Over(c) /\ \A q \in Pages \ ckp.todo : InFile(c, q)
      BY <1>1, <2>6 DEF Checkpointed
    <3> QED BY <2>1, <2>2, <2>7, <3>1
  <2>9. /\ dirty' \subseteq Pages
        /\ \A q \in Pages : q \notin dirty' => disk'[q] = mem'[q]
    BY <1>1, <1>5a, <1>10 DEF Checkpointed
  <2>10. FirstLsn(log') \in Nat /\ FirstLsn(log') <= NextLsn' /\ f = FirstLsn(log')
    <3>1. NextLsn' = NextLsn + 1
      BY <1>5 DEF NextLsn
    <3> QED BY <1>5, <2>3, <3>1
  <2>11. /\ ckp.step \in {"idle", "lsn", "sync"}
         /\ ckp = [step |-> ckp.step, lsn |-> ckp.lsn, todo |-> ckp.todo, owed |-> ckp.owed]
         /\ disk \in [Pages -> [lsn : Nat, val : Seq(Nat)]]
    BY <1>1 DEF Checkpointed
  <2>12. ckp.step # "idle" => c <= Len(log')
    <3>1. Len(log) \in Nat
      BY <1>1, WriteTypes
    <3> QED BY <1>5, <2>7, <3>1
  <2>13. Over(FirstLsn(log))' /\ \A q \in Pages : InFile(FirstLsn(log), q)'
    BY <2>5, <2>10 DEF Over, InFile
  <2>14. ckp'.step = "sync" => Over(ckp.lsn)' /\ \A q \in Pages \ ckp'.todo : InFile(ckp.lsn, q)'
    BY <1>5a, <2>6, <2>8 DEF Over, InFile
  <2>15. ckp'.lsn \in Nat /\ (ckp'.step # "idle" => ckp'.lsn <= Len(log'))
    BY <1>5a, <2>6, <2>12
  <2> QED BY <1>5a, <2>9, <2>10, <2>11, <2>13, <2>14, <2>15 DEF Checkpointed
<1> QED BY <1>6, <1>13, <1>14

\* A write.
LEMMA WriteOK ==
    ASSUME NEW R, IInv(R), NEW h \in Txns, NEW p \in Pages, Write(h, p)
    PROVE  \E S : IInv(S)'
<1>1. PICK S : Writing(R, S, h, p)
  BY WriteIs
<1>2. Basic'
  BY WriteIs
<1>3. Chains(S)'
  BY <1>1 DEF Writing
<1>4. Tree' /\ Owners(S)' /\ Outcomes'
  BY <1>1, WriteTree, WriteOwners
<1>5. Begun' /\ Locked' /\ Ordered'
  BY <1>1, WriteLocks
<1>6. Undoing(S)' /\ Cached(S)' /\ Checkpointed'
  BY <1>1, WriteCached
<1> QED BY <1>2, <1>3, <1>4, <1>5, <1>6 DEF IInv

-----------------------------------------------------------------------------
(* A child commits.                                                        *)

\* The items of both.
LEMMA JoinedToSet ==
    ASSUME NEW s \in Seq(Nat), NEW t \in Seq(Nat)
    PROVE  s \o t \in Seq(Nat) /\ ToSet(s \o t) = ToSet(s) \cup ToSet(t)
<1> DEFINE u == s \o t
<1>1. /\ u \in Seq(Nat) /\ Len(u) = Len(s) + Len(t) /\ Len(s) \in Nat /\ Len(t) \in Nat
      /\ DOMAIN u = 1 .. Len(u) /\ DOMAIN s = 1 .. Len(s) /\ DOMAIN t = 1 .. Len(t)
  OBVIOUS
<1>2. /\ \A i \in 1 .. Len(s) : u[i] = s[i]
      /\ \A i \in 1 .. Len(t) : u[Len(s) + i] = t[i]
  OBVIOUS
<1> HIDE DEF u
<1>3. \A i \in 1 .. Len(u) : i \in 1 .. Len(s)
                             \/ (i - Len(s) \in 1 .. Len(t) /\ i = Len(s) + (i - Len(s)))
  BY <1>1
<1>4. ToSet(u) \subseteq ToSet(s) \cup ToSet(t)
  <2>1. ASSUME NEW i \in 1 .. Len(u) PROVE u[i] \in ToSet(s) \cup ToSet(t)
    <3>1. CASE i \in 1 .. Len(s)
      <4>1. u[i] = s[i] /\ i \in DOMAIN s
        BY <1>1, <1>2, <3>1
      <4> QED BY <4>1 DEF ToSet
    <3>2. CASE i - Len(s) \in 1 .. Len(t) /\ i = Len(s) + (i - Len(s))
      <4>1. PICK j : j = i - Len(s)
        OBVIOUS
      <4>2. u[i] = t[j] /\ j \in DOMAIN t
        BY <1>1, <1>2, <3>2, <4>1
      <4> QED BY <4>2 DEF ToSet
    <3> QED BY <1>3, <3>1, <3>2
  <2> QED BY <1>1, <2>1 DEF ToSet
<1>5. ToSet(s) \subseteq ToSet(u)
  <2>1. \A i \in 1 .. Len(s) : i \in 1 .. Len(u)
    BY <1>1
  <2> QED BY <1>1, <1>2, <2>1 DEF ToSet
<1>6. ToSet(t) \subseteq ToSet(u)
  <2>1. \A i \in 1 .. Len(t) : Len(s) + i \in 1 .. Len(u)
    BY <1>1
  <2> QED BY <1>1, <1>2, <2>1 DEF ToSet
<1> QED BY <1>1, <1>4, <1>5, <1>6 DEF u

\* Its parent has its writes, and its locks, from then on.
Merging(R, S, h, q) ==
    /\ q = td[h].parent /\ q \in Txns /\ q # h /\ q # NoTxn /\ q < h
    /\ td[h].status = "running" /\ td[q].status = "running"
    /\ \A g \in Txns : td[g].parent # h
    /\ \A g \in Txns \ {h} : h \notin Lineage[g]
    /\ Lineage[h] = {h} \cup Lineage[q]
    /\ Longer(R, S) /\ S[NextLsn] = Own[q] \cup Own[h]
    /\ NextLsn \in Nat /\ NextLsn = Len(log) + 1 /\ Len(log') = NextLsn
    /\ log' \in Seq(Records) /\ FirstLsn(log') = FirstLsn(log)
    /\ Places' = Places \cup {NextLsn}
    /\ said' = [said EXCEPT !.puts[h] = Nothing,
                            !.puts[q] = [p \in Pages |-> @[p] \o said.puts[h][p]]]
    /\ td' = [Logged(q) EXCEPT ![h] = NoTd]
    /\ locks' = Inherited(h, q)
    /\ items' = items /\ born' = born
    /\ mem' = mem /\ disk' = disk /\ dirty' = dirty /\ ckp' = ckp

\* ChildCommit is such a step.
LEMMA ChildCommitIs ==
    ASSUME NEW R, IInv(R), NEW h \in Txns, ChildCommit(h)
    PROVE  /\ \E S : Merging(R, S, h, td[h].parent)
           /\ Basic'
<1>1. Basic /\ Chains(R) /\ Tree /\ Outcomes /\ Owners(R) /\ Ordered
  BY DEF IInv
<1>2. PICK q : q = td[h].parent
  OBVIOUS
<1>3. /\ td[h].status = "running" /\ Kids(h) = {} /\ q # NoTxn
      /\ log' = Append(log, ChildRec(h)) /\ said' = Told(said, ChildRec(h))
      /\ td' = [Logged(q) EXCEPT ![h] = NoTd]
      /\ locks' = Inherited(h, q)
      /\ mem' = mem /\ disk' = disk /\ dirty' = dirty /\ ckp' = ckp
      /\ items' = items /\ born' = born /\ lastId' = lastId
      /\ phase' = phase /\ failed' = failed /\ crashes' = crashes
  BY <1>2 DEF ChildCommit, PutLog, idVars, boundVars, cacheVars
<1>4. q \in Txns /\ q < h /\ td[q].status = "running" /\ q # h
  <2>1. q \in Txns /\ q < h /\ td[q].status = "running"
    BY <1>1, <1>2, <1>3, DetailFacts
  <2> QED BY <2>1 DEF Txns
<1>5. PICK r : r = ChildRec(h)
  OBVIOUS
<1>6. /\ r \in Records /\ r.type = "child" /\ r.who = q /\ r.prev = td[q].last
      /\ r.kid = h /\ r.clsn = td[h].last
  <2>1. td[h].id \in Int /\ td[h].last \in Nat /\ td[q].id \in Int /\ td[q].last \in Nat
    BY <1>1, <1>4 DEF Tree, Details
  <2>2. \A id \in Int, prev \in Nat, child \in Int, clsn \in Nat :
           [type |-> "child", who |-> q, id |-> id, prev |-> prev,
            kid |-> h, child |-> child, clsn |-> clsn] \in Records
    BY <1>4 DEF Records
  <2>3. r = [type |-> "child", who |-> q, id |-> td[q].id, prev |-> td[q].last,
             kid |-> h, child |-> td[h].id, clsn |-> td[h].last]
    BY <1>2, <1>5 DEF ChildRec
  <2> QED BY <2>1, <2>2, <2>3
<1>7. /\ td[h].last \in Places /\ R[td[h].last] = Own[h]
      /\ td[q].last \in Places /\ R[td[q].last] = Own[q]
  BY <1>1, <1>3, <1>4, LastPlace DEF Owners
<1>8. /\ \A g \in Txns : td[g].parent # h
      /\ \A g \in Txns \ {h} : h \notin Lineage[g]
  BY <1>1, <1>3, Childless
<1>9. Lineage[h] = {h} \cup Lineage[q] /\ q \in Lineage[h]
  BY <1>1, <1>2, <1>3, <1>4, LineageFacts
<1>10. Before(Own[q], Own[h])
  BY <1>1, <1>3, <1>4, <1>9 DEF Ordered
<1>11. log' = Append(log, r) /\ said' = Told(said, r)
  BY <1>3, <1>5
<1>12. PICK S : Longer(R, S) /\ S[NextLsn] = Reached(R, r)
  <2>1. r.type # "write" /\ (r.type # "ckp" => r.prev \in Places)
        /\ (r.type = "child" => r.clsn \in Places /\ Before(R[r.prev], R[r.clsn]))
    BY <1>6, <1>7, <1>10
  <2> QED BY <1>1, <1>6, <1>11, <2>1, OneLonger
<1>13. S[NextLsn] = Own[q] \cup Own[h]
  BY <1>6, <1>7, <1>12 DEF Reached
<1>14. /\ log' \in Seq(Records) /\ Len(log') = NextLsn /\ NextLsn = Len(log) + 1
       /\ Len(log) \in Nat /\ Places' = Places \cup {NextLsn}
       /\ FirstLsn(log') = FirstLsn(log)
  BY <1>1, <1>6, <1>11, AppendedLog
<1>15. NextLsn \in Nat
  BY <1>14
<1>16. said' = [said EXCEPT !.puts[h] = Nothing,
                            !.puts[q] = [p \in Pages |-> @[p] \o said.puts[h][p]]]
  BY <1>6, <1>11 DEF Told
<1>17. Merging(R, S, h, q)
  BY <1>2, <1>3, <1>4, <1>8, <1>9, <1>12, <1>13, <1>14, <1>15, <1>16 DEF Merging
<1>18. Basic'
  BY <1>1, <1>3, <1>14 DEF Basic
<1> QED BY <1>2, <1>17, <1>18

\* What they have then.
MergedOwn(h, q) ==
    /\ Own'[q] = Own[q] \cup Own[h] /\ Own'[h] = {}
    /\ \A g \in Txns \ {h, q} : Own'[g] = Own[g]
    /\ said' \in [puts : [Txns -> [Pages -> Seq(Nat)]], voted : SUBSET Txns,
                  order : Seq(Txns), aborted : SUBSET Txns]
    /\ said'.voted = said.voted /\ said'.order = said.order
    /\ said'.aborted = said.aborted
    /\ said'.puts[h] = Nothing
    /\ \A g \in Txns \ {h, q} : said'.puts[g] = said.puts[g]
    /\ \A p \in Pages : /\ said'.puts[q][p] = said.puts[q][p] \o said.puts[h][p]
                        /\ ToSet(said'.puts[q][p]) =
                             ToSet(said.puts[q][p]) \cup ToSet(said.puts[h][p])

\* After it what the parent owns is what both owned, and nobody else's changes.
LEMMA MergeOwn ==
    ASSUME NEW R, IInv(R), NEW S, NEW h \in Txns, NEW q, Merging(R, S, h, q)
    PROVE  MergedOwn(h, q)
<1>1. Basic /\ Owners(R)
  BY DEF IInv
<1>2. said \in [puts : [Txns -> [Pages -> Seq(Nat)]], voted : SUBSET Txns,
                order : Seq(Txns), aborted : SUBSET Txns]
  BY <1>1 DEF Owners
<1>3. /\ q \in Txns /\ q # h
      /\ said' = [said EXCEPT !.puts[h] = Nothing,
                              !.puts[q] = [p \in Pages |-> @[p] \o said.puts[h][p]]]
      /\ Writes' = Writes /\ PageOf' = PageOf /\ ItemOf' = ItemOf
  BY DEF Merging, Longer
<1>4. PICK d : d = [p \in Pages |-> said.puts[q][p] \o said.puts[h][p]]
  OBVIOUS
<1>5. /\ d \in [Pages -> Seq(Nat)]
      /\ \A p \in Pages : /\ d[p] = said.puts[q][p] \o said.puts[h][p]
                          /\ ToSet(d[p]) = ToSet(said.puts[q][p]) \cup ToSet(said.puts[h][p])
  <2>1. \A p \in Pages : said.puts[q][p] \in Seq(Nat) /\ said.puts[h][p] \in Seq(Nat)
    BY <1>2, <1>3
  <2>2. \A p \in Pages : d[p] = said.puts[q][p] \o said.puts[h][p]
    BY <1>4
  <2>3. \A p \in Pages : d[p] \in Seq(Nat)
                /\ ToSet(d[p]) = ToSet(said.puts[q][p]) \cup ToSet(said.puts[h][p])
    BY <2>1, <2>2, JoinedToSet
  <2> QED BY <1>4, <2>2, <2>3
<1>6. PICK f : f = [[said.puts EXCEPT ![h] = Nothing] EXCEPT ![q] = d]
  OBVIOUS
<1>7. said' = [said EXCEPT !.puts = f]
  <2>1. PICK e : e = [said.puts EXCEPT ![h] = Nothing]
    OBVIOUS
  <2>2. e[q] = said.puts[q]
    BY <1>2, <1>3, <2>1
  <2>3. said' = [[said EXCEPT !.puts = e]
                    EXCEPT !.puts[q] = [p \in Pages |-> @[p] \o said.puts[h][p]]]
    BY <1>3, <2>1
  <2>4. PICK s : s = [said EXCEPT !.puts = e]
    OBVIOUS
  <2>5. s.puts = e /\ s = [puts |-> e, voted |-> said.voted, order |-> said.order,
                           aborted |-> said.aborted]
    BY <1>2, <2>4
  <2>6. said' = [s EXCEPT !.puts = [s.puts EXCEPT ![q] =
                                      [p \in Pages |-> s.puts[q][p] \o said.puts[h][p]]]]
    BY <2>3, <2>4
  <2>7. said' = [s EXCEPT !.puts = f]
    BY <1>4, <1>6, <2>1, <2>2, <2>5, <2>6
  <2>8. said' = [puts |-> f, voted |-> said.voted, order |-> said.order,
                 aborted |-> said.aborted]
    BY <2>5, <2>7
  <2>9. said = [puts |-> said.puts, voted |-> said.voted, order |-> said.order,
                aborted |-> said.aborted]
    BY <1>2
  <2>10. [said EXCEPT !.puts = f] = [puts |-> f, voted |-> said.voted,
                                     order |-> said.order, aborted |-> said.aborted]
    BY <2>9
  <2> QED BY <2>8, <2>10
<1>8. /\ f \in [Txns -> [Pages -> Seq(Nat)]] /\ f[h] = Nothing /\ f[q] = d
      /\ \A g \in Txns \ {h, q} : f[g] = said.puts[g]
  <2>1. Nothing \in [Pages -> Seq(Nat)]
    BY DEF Nothing
  <2>2. said.puts \in [Txns -> [Pages -> Seq(Nat)]]
    BY <1>2
  <2> QED BY <1>3, <1>5, <1>6, <2>1, <2>2
<1>9. /\ said' \in [puts : [Txns -> [Pages -> Seq(Nat)]], voted : SUBSET Txns,
                    order : Seq(Txns), aborted : SUBSET Txns]
      /\ said'.voted = said.voted /\ said'.order = said.order
      /\ said'.aborted = said.aborted /\ said'.puts = f
  BY <1>2, <1>7, <1>8
<1>10. \A n \in Writes : PageOf[n] \in Pages
  BY <1>1, WriteTypes
<1>11. \A g \in Txns : Own[g] = {n \in Writes : ItemOf[n] \in ToSet(said.puts[g][PageOf[n]])}
  BY DEF Own
<1>12. \A g \in Txns : Own'[g] = {n \in Writes : ItemOf[n] \in ToSet(f[g][PageOf[n]])}
  BY <1>3, <1>9 DEF Own
<1>13. Own'[q] = Own[q] \cup Own[h]
  <2>1. \A n \in Writes : ToSet(f[q][PageOf[n]]) =
            ToSet(said.puts[q][PageOf[n]]) \cup ToSet(said.puts[h][PageOf[n]])
    BY <1>5, <1>8, <1>10
  <2> QED BY <1>3, <1>11, <1>12, <2>1
<1>14. Own'[h] = {}
  <2>1. \A n \in Writes : ToSet(f[h][PageOf[n]]) = {}
    BY <1>8, <1>10 DEF Nothing, ToSet
  <2> QED BY <1>12, <2>1
<1>15. \A g \in Txns \ {h, q} : Own'[g] = Own[g]
  BY <1>8, <1>11, <1>12
<1>16. /\ said'.puts[h] = Nothing
       /\ \A g \in Txns \ {h, q} : said'.puts[g] = said.puts[g]
       /\ \A p \in Pages : /\ said'.puts[q][p] = said.puts[q][p] \o said.puts[h][p]
                           /\ ToSet(said'.puts[q][p]) =
                                ToSet(said.puts[q][p]) \cup ToSet(said.puts[h][p])
  BY <1>5, <1>8, <1>9
<1> QED BY <1>9, <1>13, <1>14, <1>15, <1>16 DEF MergedOwn

\* Their details.
MergedTree(h, q) ==
    /\ \A g \in Txns \ {h} : Lineage'[g] = Lineage[g]
    /\ td'[h] = NoTd /\ td'[h].status = "none"
    /\ \A g \in Txns \ {h} :
         /\ td'[g].status = td[g].status /\ td'[g].at = td[g].at
         /\ td'[g].voted = td[g].voted /\ td'[g].stack = td[g].stack
         /\ td'[g].parent = td[g].parent
         /\ td'[g].last = IF g = q THEN NextLsn ELSE td[g].last
         /\ td[g].begin # ZeroLsn => td'[g].begin = td[g].begin

\* After it the family is a tree without the child.
LEMMA MergeTree ==
    ASSUME NEW R, IInv(R), NEW S, NEW h \in Txns, NEW q, Merging(R, S, h, q)
    PROVE  Tree' /\ MergedTree(h, q)
<1>1. Basic /\ Tree
  BY DEF IInv
<1>2. /\ td[q].status = "running" /\ q \in Txns /\ q # h
      /\ td' = [Logged(q) EXCEPT ![h] = NoTd] /\ Places' = Places \cup {NextLsn}
      /\ born' = born /\ Len(log') = NextLsn /\ NextLsn = Len(log) + 1
      /\ \A g \in Txns : td[g].parent # h
  BY DEF Merging
<1>3. /\ Logged(q) \in [Txns -> Details]
      /\ \A g \in Txns :
           /\ Logged(q)[g].status = td[g].status
           /\ Logged(q)[g].parent = td[g].parent /\ Logged(q)[g].at = td[g].at
           /\ Logged(q)[g].voted = td[g].voted /\ Logged(q)[g].stack = td[g].stack
           /\ Logged(q)[g].last = IF g = q THEN NextLsn ELSE td[g].last
           /\ Logged(q)[g].begin = IF g = Top(q) /\ td[g].begin = ZeroLsn
                                   THEN NextLsn ELSE td[g].begin
           /\ td[g].status = "none" => Logged(q)[g] = td[g]
  BY <1>1, <1>2, LoggedFields
<1>4. Len(log) \in Nat
  BY <1>1, WriteTypes
<1>5. NoTd \in Details /\ NoTd.status = "none"
  BY TxnAssumption DEF NoTd, Details, Statuses, NoTxn, ZeroLsn
<1>6. /\ td' \in [Txns -> Details] /\ td'[h] = NoTd
      /\ \A g \in Txns \ {h} : td'[g] = Logged(q)[g]
  BY <1>2, <1>3, <1>5
<1>7. ASSUME NEW g \in Txns, g # h PROVE TreeOf(g)'
  <2>0. /\ td'[g].status = td[g].status
        /\ td'[g].parent = td[g].parent /\ td'[g].at = td[g].at
        /\ td'[g].stack = td[g].stack
        /\ td'[g].last = IF g = q THEN NextLsn ELSE td[g].last
        /\ td'[g].begin = IF g = Top(q) /\ td[g].begin = ZeroLsn
                          THEN NextLsn ELSE td[g].begin
        /\ td[g].status = "none" => td'[g] = td[g]
    BY <1>3, <1>6, <1>7
  <2>1. /\ TreeOf(g) /\ td[g].begin \in Nat /\ td[g].begin <= Len(log)
        /\ td[g].parent # NoTxn =>
                td[g].parent \in Txns /\ td[td[g].parent].status = "running"
        /\ td[g].parent < g
    BY <1>1, DetailFacts DEF Tree
  <2>2. td'[g].begin <= Len(log')
    BY <1>2, <1>4, <2>0, <2>1
  <2>3. td'[g].parent # NoTxn => td'[td'[g].parent].status = "running"
    <3> SUFFICES ASSUME td[g].parent # NoTxn PROVE td'[td[g].parent].status = "running"
      BY <2>0
    <3>1. td[g].parent \in Txns \ {h}
      BY <1>2, <2>1
    <3>2. td'[td[g].parent].status = td[td[g].parent].status
      BY <1>3, <1>6, <3>1
    <3> QED BY <2>1, <3>2
  <2>4. td'[g].last \in Places' /\ td'[g].at \in Places'
    BY <1>2, <2>0, <2>1 DEF TreeOf
  <2>5. td'[g].status = "none" => td'[g] = NoTd
    BY <2>0, <2>1 DEF TreeOf
  <2>6. /\ \A i \in DOMAIN td'[g].stack : td'[g].stack[i] \in Places' \ {ZeroLsn}
        /\ td'[g].at = ZeroLsn => td'[g].stack = <<>>
        /\ td'[g].status # "aborting" => td'[g].at = ZeroLsn
        /\ td'[g].status # "none" => g <= born'
    BY <1>2, <2>0, <2>1 DEF TreeOf
  <2>7. td'[g].parent < g
    BY <2>0, <2>1
  <2> QED BY <2>2, <2>3, <2>4, <2>5, <2>6, <2>7 DEF TreeOf
<1>8. TreeOf(h)'
  <2>1. ZeroLsn \in Places' /\ Len(log') \in Nat
    BY <1>2, <1>4 DEF Places
  <2> QED BY <1>6, <2>1, TxnAssumption DEF TreeOf, NoTd, ZeroLsn, NoTxn, Txns
<1>9. Tree'
  BY <1>1, <1>2, <1>6, <1>7, <1>8 DEF Tree
<1>10. \A g \in Txns \ {h} : Lineage'[g] = Lineage[g]
  <2>1. \A g \in Txns \ {h} : td'[g].parent = td[g].parent
    BY <1>3, <1>6
  <2> QED BY <1>1, <1>2, <1>9, <2>1, LineageOthers
<1>11. \A g \in Txns \ {h} :
         /\ td'[g].status = td[g].status /\ td'[g].at = td[g].at
         /\ td'[g].voted = td[g].voted /\ td'[g].stack = td[g].stack
         /\ td'[g].parent = td[g].parent
         /\ td'[g].last = IF g = q THEN NextLsn ELSE td[g].last
         /\ td[g].begin # ZeroLsn => td'[g].begin = td[g].begin
  BY <1>3, <1>6
<1> QED BY <1>5, <1>6, <1>9, <1>10, <1>11 DEF MergedTree

\* What is said of them, and who has a lock.
LEMMA MergeLocks ==
    ASSUME NEW R, IInv(R), NEW S, NEW h \in Txns, NEW q, Merging(R, S, h, q)
    PROVE  Outcomes' /\ Owners(S)' /\ Begun' /\ Locked' /\ Ordered'
<1>1. Basic /\ Tree /\ Outcomes /\ Owners(R) /\ Begun /\ Locked /\ Ordered
  BY DEF IInv
<1>2. Tree' /\ MergedTree(h, q) /\ MergedOwn(h, q)
  BY MergeTree, MergeOwn
<1>3. /\ q = td[h].parent /\ q \in Txns /\ q # h /\ q # NoTxn /\ q < h
      /\ td[h].status = "running" /\ td[q].status = "running"
      /\ \A g \in Txns : td[g].parent # h
      /\ \A g \in Txns \ {h} : h \notin Lineage[g]
      /\ Lineage[h] = {h} \cup Lineage[q]
  BY DEF Merging
<1>4. /\ S[NextLsn] = Own[q] \cup Own[h] /\ NextLsn \in Nat /\ NextLsn = Len(log) + 1
      /\ locks' = Inherited(h, q) /\ items' = items /\ born' = born
  BY DEF Merging
<1>5. /\ Writes' = Writes /\ PageOf' = PageOf /\ ItemOf' = ItemOf
      /\ \A l \in 0 .. Len(log) : S[l] = R[l]
      /\ \A A, B : Before(A, B)' = Before(A, B)
  BY DEF Merging, Longer
<1>6. /\ Own'[q] = Own[q] \cup Own[h] /\ Own'[h] = {}
      /\ \A g \in Txns \ {h, q} : Own'[g] = Own[g]
  BY <1>2 DEF MergedOwn
<1>7. /\ said'.puts[h] = Nothing
      /\ \A g \in Txns \ {h, q} : said'.puts[g] = said.puts[g]
      /\ \A p \in Pages : /\ said'.puts[q][p] = said.puts[q][p] \o said.puts[h][p]
                          /\ ToSet(said'.puts[q][p]) =
                               ToSet(said.puts[q][p]) \cup ToSet(said.puts[h][p])
  BY <1>2 DEF MergedOwn
<1>8. /\ \A g \in Txns \ {h} : Lineage'[g] = Lineage[g]
      /\ td'[h] = NoTd /\ td'[h].status = "none"
      /\ \A g \in Txns \ {h} :
           /\ td'[g].status = td[g].status /\ td'[g].voted = td[g].voted
           /\ td'[g].parent = td[g].parent
           /\ td'[g].last = IF g = q THEN NextLsn ELSE td[g].last
           /\ td[g].begin # ZeroLsn => td'[g].begin = td[g].begin
  BY <1>2 DEF MergedTree
<1>9. Outcomes'
  <2>1. said'.voted = said.voted /\ said'.order = said.order /\ said'.aborted = said.aborted
    BY <1>2 DEF MergedOwn
  <2>2. h \notin said.voted
    BY <1>1, <1>3 DEF Outcomes
  <2>3. /\ (said.voted \subseteq 1 .. born)' /\ (ToSet(said.order) \subseteq 1 .. born)'
        /\ ToSet(said'.order) = ToSet(said.order)
    BY <1>1, <1>4, <2>1 DEF Outcomes
  <2>4. ASSUME NEW g \in Txns
        PROVE /\ td'[g].status # "none" =>
                   /\ g \in ToSet(said.order) <=> td'[g].status = "committing"
                   /\ td'[g].voted <=> g \in said.voted
                   /\ td'[g].status = "running" => ~td'[g].voted
              /\ td'[g].status = "none" /\ g \in said.voted =>
                   g \in ToSet(said.order) \cup said.aborted
    <3>1. CASE g = h
      BY <1>8, <2>2, <3>1
    <3>2. CASE g # h
      <4>1. /\ td[g].status # "none" =>
                  /\ g \in ToSet(said.order) <=> td[g].status = "committing"
                  /\ td[g].voted <=> g \in said.voted
                  /\ td[g].status = "running" => ~td[g].voted
            /\ td[g].status = "none" /\ g \in said.voted =>
                  g \in ToSet(said.order) \cup said.aborted
        BY <1>1 DEF Outcomes
      <4>2. td'[g].status = td[g].status /\ td'[g].voted = td[g].voted
        BY <1>8, <3>2
      <4> QED BY <4>1, <4>2
    <3> QED BY <3>1, <3>2
  <2> QED BY <2>1, <2>3, <2>4 DEF Outcomes
<1>10. Owners(S)'
  <2>1. said' \in [puts : [Txns -> [Pages -> Seq(Nat)]], voted : SUBSET Txns,
                   order : Seq(Txns), aborted : SUBSET Txns]
    BY <1>2 DEF MergedOwn
  <2>2. ASSUME NEW g \in Txns, NEW p \in Pages, NEW i \in ToSet(said'.puts[g][p])
        PROVE  i <= items
    <3>1. g # h
      <4>1. g = h => said'.puts[g][p] = <<>>
        BY <1>7 DEF Nothing
      <4>2. ToSet(<<>>) = {}
        BY DEF ToSet
      <4> QED BY <2>2, <4>1, <4>2
    <3>2. \E k \in Txns : i \in ToSet(said.puts[k][p])
      BY <1>3, <1>7, <2>2, <3>1
    <3> QED BY <1>1, <3>2 DEF Owners
  <2>3. ASSUME NEW g \in Txns, g > born PROVE said'.puts[g] = Nothing
    <3>1. g # h /\ g # q
      <4>1. h <= born /\ q <= born /\ born \in Nat
        BY <1>1, <1>3, DetailFacts, TxnAssumption DEF Tree
      <4> QED BY <2>3, <4>1 DEF Txns
    <3> QED BY <1>1, <1>7, <2>3, <3>1 DEF Owners
  <2>4. \A g, k \in Txns : g # k => Own'[g] \cap Own'[k] = {}
    <3>1. \A g, k \in Txns : g # k => Own[g] \cap Own[k] = {}
      BY <1>1 DEF Owners
    <3>2. \A g \in Txns : Own'[g] = IF g = h THEN {}
                                    ELSE IF g = q THEN Own[q] \cup Own[h] ELSE Own[g]
      BY <1>3, <1>6
    <3>3. ASSUME NEW g \in Txns, NEW k \in Txns, g # k, NEW n \in Own'[g], n \in Own'[k]
          PROVE  FALSE
      <4>1. \E a \in Txns : n \in Own[a] /\ (a = g \/ (a = h /\ g = q)) /\ g # h
        BY <1>3, <3>2, <3>3
      <4>2. \E a \in Txns : n \in Own[a] /\ (a = k \/ (a = h /\ k = q)) /\ k # h
        BY <1>3, <3>2, <3>3
      <4> QED BY <3>1, <3>3, <4>1, <4>2
    <3> QED BY <3>3
  <2>5. ASSUME NEW g \in Txns, td'[g].status # "none" PROVE S[td'[g].last] = Own'[g]
    <3>1. g # h
      BY <1>8, <2>5
    <3>2. CASE g = q
      BY <1>4, <1>6, <1>8, <3>1, <3>2
    <3>3. CASE g # q
      <4>1. td'[g].last = td[g].last /\ td[g].status # "none" /\ Own'[g] = Own[g]
        BY <1>6, <1>8, <2>5, <3>1, <3>3
      <4>2. R[td[g].last] = Own[g] /\ td[g].last \in 0 .. Len(log)
        BY <1>1, <4>1, LastPlace DEF Owners
      <4> QED BY <1>5, <4>1, <4>2
    <3> QED BY <3>2, <3>3
  <2> QED BY <1>1, <1>4, <1>5, <2>1, <2>2, <2>3, <2>4, <2>5 DEF Owners
<1>11. Begun'
  <2> SUFFICES ASSUME NEW g \in Txns, td'[g].status # "none",
                      NEW a \in Lineage'[g], td'[a].parent = NoTxn, NEW n \in Own'[g]
               PROVE  td'[a].begin # ZeroLsn /\ td'[a].begin <= n
    BY DEF Begun
  <2>1. g # h /\ td[g].status # "none" /\ a \in Lineage[g] /\ a # h
    BY <1>3, <1>8
  <2>2. a \in Txns /\ td[a].parent = NoTxn
    BY <1>1, <1>8, <2>1, LineageFacts
  <2>3. td[a].begin # ZeroLsn /\ td[a].begin <= n
    <3>1. CASE n \in Own[g]
      BY <1>1, <2>1, <2>2, <3>1 DEF Begun
    <3>2. CASE n \notin Own[g]
      <4>1. g = q /\ n \in Own[h]
        BY <1>6, <2>1, <3>2
      <4>2. a \in Lineage[h]
        BY <1>3, <2>1, <4>1
      <4> QED BY <1>1, <1>3, <2>2, <4>1, <4>2 DEF Begun
    <3> QED BY <3>1, <3>2
  <2>4. td'[a].begin = td[a].begin
    BY <1>8, <2>1, <2>2, <2>3
  <2> QED BY <2>3, <2>4
<1>12. Locked'
  <2>1. \A p \in Pages : locks'[p] = IF h \in locks[p] THEN (locks[p] \ {h}) \cup {q}
                                     ELSE locks[p]
    BY <1>4 DEF Inherited
  <2>2. \A p \in Pages : locks[p] \subseteq Txns
    BY <1>1 DEF Locked
  <2>3. locks' \in [Pages -> SUBSET Txns]
    <3>1. locks' = [p \in Pages |-> locks'[p]]
      BY <1>4 DEF Inherited
    <3>2. \A p \in Pages : locks'[p] \in SUBSET Txns
      BY <1>3, <2>1, <2>2
    <3> QED BY <3>1, <3>2
  <2>4. ASSUME NEW p \in Pages, NEW g \in locks'[p]
        PROVE  /\ g \in Txns \ {h}
               /\ td'[g].status # "none" /\ td'[g].last # ZeroLsn
               /\ g \in locks[p] \/ (g = q /\ h \in locks[p])
    <3>1. g \in Txns \ {h} /\ (g \in locks[p] \/ (g = q /\ h \in locks[p]))
      <4>1. CASE h \in locks[p]
        <5>1. g \in (locks[p] \ {h}) \cup {q}
          BY <2>1, <2>4, <4>1
        <5> QED BY <1>3, <2>2, <4>1, <5>1
      <4>2. CASE h \notin locks[p]
        <5>1. g \in locks[p]
          BY <2>1, <2>4, <4>2
        <5> QED BY <2>2, <4>2, <5>1
      <4> QED BY <4>1, <4>2
    <3>2. CASE g = q
      <4>1. NextLsn # ZeroLsn
        <5>1. Len(log) \in Nat
          BY <1>1, WriteTypes
        <5> QED BY <1>4, <5>1 DEF ZeroLsn
      <4> QED BY <1>3, <1>8, <3>1, <3>2, <4>1
    <3>3. CASE g # q
      BY <1>1, <1>8, <3>1, <3>3 DEF Locked
    <3> QED BY <3>1, <3>2, <3>3
  <2>5. ASSUME NEW p \in Pages, NEW g \in locks'[p], NEW k \in locks'[p]
        PROVE  g \in Lineage[k] \/ k \in Lineage[g]
    <3>1. /\ g \in locks[p] \/ (g = q /\ h \in locks[p])
          /\ k \in locks[p] \/ (k = q /\ h \in locks[p])
          /\ g \in Txns \ {h} /\ k \in Txns \ {h}
      BY <2>4
    <3>2. ASSUME NEW x \in locks[p], x \in Txns \ {h}, h \in locks[p] PROVE x \in Lineage[q]
      <4>1. x \in Lineage[h] \/ h \in Lineage[x]
        BY <1>1, <3>2 DEF Locked
      <4> QED BY <1>3, <3>2, <4>1
    <3>3. q \in Lineage[q]
      BY <1>1, <1>3, LineageFacts
    <3>4. CASE g \in locks[p] /\ k \in locks[p]
      BY <1>1, <3>4 DEF Locked
    <3>5. CASE g = q /\ h \in locks[p]
      BY <3>1, <3>2, <3>3, <3>5
    <3>6. CASE k = q /\ h \in locks[p]
      BY <3>1, <3>2, <3>3, <3>6
    <3> QED BY <3>1, <3>4, <3>5, <3>6
  <2>6. ASSUME NEW g \in Txns, NEW p \in Pages,
               td'[g].status # "none", said'.puts[g][p] # <<>>
        PROVE  g \in locks'[p]
    <3>1. g # h /\ td[g].status # "none"
      BY <1>8, <2>6
    <3>2. CASE g # q
      <4>1. g \in locks[p]
        BY <1>1, <1>7, <2>6, <3>1, <3>2 DEF Locked
      <4> QED BY <2>1, <3>1, <4>1
    <3>3. CASE g = q
      <4>1. said.puts[q][p] # <<>> \/ said.puts[h][p] # <<>>
        <5>1. <<>> \o <<>> = <<>>
          OBVIOUS
        <5> QED BY <1>7, <2>6, <3>3, <5>1
      <4>2. q \in locks[p] \/ h \in locks[p]
        BY <1>1, <1>3, <4>1 DEF Locked
      <4> QED BY <1>3, <2>1, <3>3, <4>2
    <3> QED BY <3>2, <3>3
  <2>7. \A p \in Pages : \A g, k \in locks'[p] : g \in Lineage'[k] \/ k \in Lineage'[g]
    <3>1. \A p \in Pages : \A g \in locks'[p] : Lineage'[g] = Lineage[g]
      BY <1>8, <2>4
    <3> QED BY <2>5, <3>1
  <2> QED BY <2>3, <2>4, <2>6, <2>7 DEF Locked
<1>13. Ordered'
  <2> SUFFICES ASSUME NEW g \in Txns, td'[g].status # "none",
                      NEW a \in Lineage'[g] \ {g}
               PROVE  Before(Own'[a], Own'[g])
    BY <1>5 DEF Ordered
  <2>1. g # h /\ td[g].status # "none" /\ a \in Lineage[g] \ {g} /\ a # h
    BY <1>3, <1>8
  <2>2. a \in Txns /\ Before(Own[a], Own[g])
    BY <1>1, <2>1, LineageFacts DEF Ordered
  <2>3. CASE g = q
    <3>1. Before(Own[a], Own[h])
      BY <1>1, <1>3, <2>1, <2>3 DEF Ordered
    <3>2. Own'[a] = Own[a] /\ Own'[g] = Own[g] \cup Own[h]
      BY <1>6, <2>1, <2>2, <2>3
    <3> QED BY <2>2, <3>1, <3>2 DEF Before
  <2>4. CASE a = q
    <3>1. Before(Own[h], Own[g])
      <4> SUFFICES ASSUME NEW n \in Own[h], NEW m \in Own[g], PageOf[m] = PageOf[n]
                   PROVE  FALSE
        BY DEF Before
      <4>1. g \in Lineage[h]
        BY <1>1, <1>3, <2>1, Holder
      <4>2. g \in Lineage[q]
        BY <1>3, <2>1, <4>1
      <4>3. g <= q /\ q <= g
        BY <1>1, <1>3, <2>1, <2>4, <4>2, LineageFacts
      <4> QED BY <1>3, <2>1, <2>4, <4>3 DEF Txns
    <3>2. Own'[a] = Own[q] \cup Own[h] /\ Own'[g] = Own[g]
      BY <1>6, <2>1, <2>4
    <3> QED BY <2>2, <2>4, <3>1, <3>2 DEF Before
  <2>5. CASE a # q /\ g # q
    <3>1. Own'[a] = Own[a] /\ Own'[g] = Own[g]
      BY <1>6, <2>1, <2>2, <2>5
    <3> QED BY <2>2, <3>1
  <2> QED BY <2>3, <2>4, <2>5
<1> QED BY <1>9, <1>10, <1>11, <1>12, <1>13

\* A child commits.
LEMMA ChildCommitOK ==
    ASSUME NEW R, IInv(R), NEW h \in Txns, ChildCommit(h)
    PROVE  \E S : IInv(S)'
<1>1. PICK q : q = td[h].parent
  OBVIOUS
<1>2. PICK S : Merging(R, S, h, q)
  BY <1>1, ChildCommitIs
<1>3. Basic'
  BY ChildCommitIs
<1>4. Tree' /\ MergedTree(h, q) /\ MergedOwn(h, q)
  BY <1>2, MergeTree, MergeOwn
<1>5. Outcomes' /\ Owners(S)' /\ Begun' /\ Locked' /\ Ordered'
  BY <1>2, MergeLocks
<1>6. /\ Basic /\ Tree /\ Outcomes /\ Owners(R) /\ Undoing(R) /\ Cached(R) /\ Checkpointed
  BY DEF IInv
<1>7. /\ q \in Txns /\ q # h /\ td[h].status = "running" /\ td[q].status = "running"
      /\ Longer(R, S) /\ FirstLsn(log') = FirstLsn(log)
      /\ mem' = mem /\ disk' = disk /\ dirty' = dirty /\ ckp' = ckp
  BY <1>2 DEF Merging
<1>8. /\ Own'[q] = Own[q] \cup Own[h] /\ Own'[h] = {}
      /\ \A g \in Txns \ {h, q} : Own'[g] = Own[g]
      /\ said'.order = said.order
  BY <1>4 DEF MergedOwn
<1>9. /\ td'[h].status = "none"
      /\ \A g \in Txns \ {h} :
           /\ td'[g].status = td[g].status /\ td'[g].at = td[g].at
           /\ td'[g].stack = td[g].stack
  BY <1>4 DEF MergedTree
<1>10. Undoing(S)'
  <2>1. ASSUME NEW g \in Txns, td'[g].status = "aborting"
        PROVE  InOrder(S, Trail(g))' /\ (Covered(S, Trail(g)) \subseteq Own[g])'
    <3>1. g # h /\ g # q
      BY <1>7, <1>9, <2>1
    <3>2. /\ td'[g].status = td[g].status /\ td'[g].at = td[g].at
          /\ td'[g].stack = td[g].stack /\ Own'[g] = Own[g]
      BY <1>8, <1>9, <3>1
    <3> QED BY <1>6, <1>7, <2>1, <3>2, SameTrail
  <2> QED BY <2>1 DEF Undoing
<1>11. ASSUME NEW g \in Txns, g # h, g # q PROVE LeftOf(S, g)' = LeftOf(R, g)
  <2>1. /\ td'[g].status = td[g].status /\ td'[g].at = td[g].at
        /\ td'[g].stack = td[g].stack /\ Own'[g] = Own[g]
    BY <1>8, <1>9, <1>11
  <2>2. PICK d : d = td'[g]
    OBVIOUS
  <2>3. d.status = td[g].status /\ d.at = td[g].at /\ d.stack = td[g].stack
    BY <2>1, <2>2
  <2>4. \A l \in 0 .. Len(log) : S[l] = R[l]
    BY <1>7 DEF Longer
  <2>5. LeftIn(S, d, Own[g]) = LeftOf(R, g)
    BY <1>6, <2>3, <2>4, SameLeft
  <2> QED BY <2>1, <2>2, <2>5 DEF LeftOf, LeftIn, Trail
<1>12. /\ LeftOf(S, h)' = {} /\ LeftOf(S, q)' = Own[q] \cup Own[h]
       /\ LeftOf(R, h) = Own[h] /\ LeftOf(R, q) = Own[q]
  BY <1>7, <1>8, <1>9 DEF LeftOf
<1>13. Pend(S)' = Pend(R)
  <2>1. Pend(S)' = UNION {LeftOf(S, g)' : g \in Txns}
    BY DEF Pend
  <2>2. Pend(R) = UNION {LeftOf(R, g) : g \in Txns}
    BY DEF Pend
  <2>3. ASSUME NEW n PROVE n \in Pend(S)' <=> n \in Pend(R)
    <3>1. ASSUME n \in Pend(S)' PROVE n \in Pend(R)
      <4>1. PICK g \in Txns : n \in LeftOf(S, g)'
        BY <2>1, <3>1
      <4>2. CASE g = h
        BY <1>12, <4>1, <4>2
      <4>3. CASE g = q
        <5>1. n \in LeftOf(R, q) \/ n \in LeftOf(R, h)
          BY <1>12, <4>1, <4>3
        <5> QED BY <1>7, <2>2, <5>1
      <4>4. CASE g # h /\ g # q
        BY <1>11, <2>2, <4>1, <4>4
      <4> QED BY <4>2, <4>3, <4>4
    <3>2. ASSUME n \in Pend(R) PROVE n \in Pend(S)'
      <4>1. PICK g \in Txns : n \in LeftOf(R, g)
        BY <2>2, <3>2
      <4>2. CASE g = h \/ g = q
        <5>1. n \in LeftOf(S, q)'
          BY <1>12, <4>1, <4>2
        <5> QED BY <1>7, <2>1, <5>1
      <4>4. CASE g # h /\ g # q
        BY <1>11, <2>1, <4>1, <4>4
      <4> QED BY <4>2, <4>4
    <3> QED BY <3>1, <3>2
  <2> QED BY <2>3
<1>14. Com' = Com
  <2>1. h \notin ToSet(said.order) /\ q \notin ToSet(said.order)
    BY <1>6, <1>7 DEF Outcomes
  <2>2. ToSet(said.order) \subseteq Txns
    <3>1. said.order \in Seq(Txns)
      BY <1>6 DEF Owners
    <3> QED BY <3>1 DEF ToSet
  <2>3. \A g \in ToSet(said.order) : Own'[g] = Own[g]
    BY <1>8, <2>1, <2>2
  <2> QED BY <1>8, <2>3 DEF Com
<1>15. Cached(S)'
  BY <1>6, <1>7, <1>13, <1>14, CachedKept
<1>16. Checkpointed'
  <2>1. ASSUME NEW g \in Txns, td'[g].status # "none", NEW n \in Own'[g]
        PROVE  \E k \in Txns : td[k].status # "none" /\ n \in Own[k]
    <3>1. g # h /\ td[g].status # "none"
      BY <1>9, <2>1
    <3>2. n \in Own[g] \/ n \in Own[h]
      BY <1>8, <2>1, <3>1
    <3> QED BY <1>7, <3>1, <3>2
  <2>2. dirty' \subseteq Pages /\ \A p \in Pages : p \notin dirty' => disk[p] = mem'[p]
    BY <1>6, <1>7 DEF Checkpointed
  <2>3. ckp' = [ckp EXCEPT !.owed = ckp.owed]
    BY <1>6, <1>7, SameCkp
  <2> QED BY <1>6, <1>7, <1>14, <2>1, <2>2, <2>3, CheckpointKept
<1>17. Chains(S)'
  BY <1>7 DEF Longer
<1> QED BY <1>3, <1>4, <1>5, <1>10, <1>15, <1>16, <1>17 DEF IInv

-----------------------------------------------------------------------------
(* A record is undone.                                                     *)

\* One more place on a trail.
LEMMA TrailGrows ==
    ASSUME NEW R, NEW s \in Seq(Nat), NEW x \in Nat
    PROVE  /\ InOrder(R, Append(s, x)) <=>
                InOrder(R, s) /\ \A i \in DOMAIN s : Before(R[s[i]], R[x])
           /\ Covered(R, Append(s, x)) = Covered(R, s) \cup R[x]
<1> DEFINE t == Append(s, x)
           n == Len(s) + 1
<1>1. /\ DOMAIN t = 1 .. n /\ DOMAIN s = 1 .. Len(s) /\ Len(s) \in Nat
      /\ t[n] = x /\ \A i \in DOMAIN s : t[i] = s[i]
  OBVIOUS
<1>2. /\ n \in DOMAIN t /\ \A i \in DOMAIN s : i \in DOMAIN t /\ i < n
      /\ \A i \in DOMAIN t : i = n \/ i \in DOMAIN s
      /\ \A i \in DOMAIN t : i <= n /\ i \in Nat
  BY <1>1
<1> HIDE DEF t, n
<1>3. Covered(R, t) = Covered(R, s) \cup R[x]
  <2>1. \A i \in DOMAIN t : R[t[i]] = R[x] \/ \E j \in DOMAIN s : R[t[i]] = R[s[j]]
    BY <1>1, <1>2
  <2>2. \A j \in DOMAIN s : j \in DOMAIN t /\ R[t[j]] = R[s[j]]
    BY <1>1, <1>2
  <2>3. n \in DOMAIN t /\ R[t[n]] = R[x]
    BY <1>1, <1>2
  <2> QED BY <2>1, <2>2, <2>3 DEF Covered
<1>4. ASSUME InOrder(R, t)
      PROVE  InOrder(R, s) /\ \A i \in DOMAIN s : Before(R[s[i]], R[x])
  BY <1>1, <1>2, <1>4 DEF InOrder
<1>5. ASSUME InOrder(R, s), \A i \in DOMAIN s : Before(R[s[i]], R[x])
      PROVE  InOrder(R, t)
  <2> SUFFICES ASSUME NEW i \in DOMAIN t, NEW j \in DOMAIN t, i < j
               PROVE  Before(R[t[i]], R[t[j]])
    BY DEF InOrder
  <2>1. i \in DOMAIN s
    <3> SUFFICES ASSUME i = n PROVE FALSE
      BY <1>2
    <3>1. j <= n /\ j \in Nat /\ n \in Nat
      BY <1>2
    <3> QED BY <3>1
  <2>2. CASE j \in DOMAIN s
    BY <1>1, <1>5, <2>1, <2>2 DEF InOrder
  <2>3. CASE j = n
    BY <1>1, <1>5, <2>1, <2>3
  <2> QED BY <1>2, <2>2, <2>3
<1> QED BY <1>3, <1>4, <1>5 DEF t

\* Taking the last one off.
LEMMA Popped ==
    ASSUME NEW s \in Seq(Nat), s # <<>>
    PROVE  /\ Front(s) \in Seq(Nat) /\ Last(s) \in Nat /\ Append(Front(s), Last(s)) = s
           /\ \A i \in DOMAIN Front(s) : i \in DOMAIN s /\ Front(s)[i] = s[i]
           /\ Len(s) \in DOMAIN s /\ Last(s) = s[Len(s)]
<1>1. PICK n \in Nat : n = Len(s)
  OBVIOUS
<1>2. n # 0 /\ DOMAIN s = 1 .. n /\ n - 1 \in Nat /\ (n - 1) + 1 = n /\ n \in 1 .. n
  BY <1>1
<1>3. PICK f : f = Front(s)
  OBVIOUS
<1>4. PICK x \in Nat : x = s[n]
  BY <1>1, <1>2
<1>5. f = [i \in 1 .. n - 1 |-> s[i]] /\ Last(s) = x
  BY <1>1, <1>3, <1>4 DEF Front, Last
<1>6. \A i \in 1 .. n - 1 : i \in 1 .. n /\ s[i] \in Nat
  BY <1>1, <1>2
<1>7. f \in Seq(Nat) /\ DOMAIN f = 1 .. n - 1 /\ \A i \in 1 .. n - 1 : f[i] = s[i]
  BY <1>2, <1>5, <1>6
<1>8. Len(f) = n - 1
  BY <1>2, <1>7
<1>9. PICK t : t = Append(f, x)
  OBVIOUS
<1>10. /\ t \in Seq(Nat) /\ Len(t) = n /\ DOMAIN t = 1 .. n
       /\ \A i \in 1 .. n - 1 : t[i] = f[i]
       /\ t[n] = x
  <2>1. /\ t \in Seq(Nat) /\ Len(t) = Len(f) + 1 /\ DOMAIN t = 1 .. Len(t)
        /\ \A i \in 1 .. Len(f) : t[i] = f[i]
        /\ t[Len(f) + 1] = x
    BY <1>4, <1>7, <1>9
  <2> QED BY <1>2, <1>8, <2>1
<1>11. \A i \in 1 .. n : i = n \/ i \in 1 .. n - 1
  BY <1>2
<1>12. \A i \in 1 .. n : t[i] = s[i]
  BY <1>4, <1>7, <1>10, <1>11
<1>13. t = s
  BY <1>1, <1>10, <1>12
<1> QED BY <1>1, <1>2, <1>3, <1>4, <1>5, <1>6, <1>7, <1>9, <1>13

\* What an undo does to the details d of its transaction: a is the place it
\* comes to next, s the stack.
Undo1(d, e, s, a) ==
    IF a = ZeroLsn /\ s # <<>>
    THEN e = [d EXCEPT !.at = Last(s), !.stack = Front(s)]
    ELSE e = [d EXCEPT !.at = a, !.stack = s]

\* The details stay of their type, and the trail loses exactly the record done.
LEMMA UndoDetails ==
    ASSUME NEW d \in Details, NEW e, NEW s \in Seq(Nat), NEW a \in Nat, Undo1(d, e, s, a),
           NEW Q, a \in Q, \A i \in DOMAIN s : s[i] \in Q \ {ZeroLsn}
    PROVE  /\ e \in Details /\ e.status = d.status /\ e.parent = d.parent
           /\ e.begin = d.begin /\ e.last = d.last /\ e.voted = d.voted
           /\ e.at \in Q /\ \A i \in DOMAIN e.stack : e.stack[i] \in Q \ {ZeroLsn}
           /\ e.at = ZeroLsn => e.stack = <<>>
           /\ Append(e.stack, e.at) =
                IF a = ZeroLsn /\ s # <<>> THEN s ELSE Append(s, a)
<1>0. d = [status |-> d.status, id |-> d.id, parent |-> d.parent, begin |-> d.begin,
           last |-> d.last, restored |-> d.restored, voted |-> d.voted, at |-> d.at,
           stack |-> d.stack]
  BY DEF Details
<1>1. ASSUME NEW x \in Nat, NEW y \in Seq(Nat), e = [d EXCEPT !.at = x, !.stack = y]
      PROVE  /\ e \in Details /\ e.status = d.status /\ e.parent = d.parent
             /\ e.begin = d.begin /\ e.last = d.last /\ e.voted = d.voted
             /\ e.at = x /\ e.stack = y
  <2>1. e = [status |-> d.status, id |-> d.id, parent |-> d.parent, begin |-> d.begin,
             last |-> d.last, restored |-> d.restored, voted |-> d.voted, at |-> x,
             stack |-> y]
    BY <1>0, <1>1
  <2>2. e \in Details
    BY <2>1 DEF Details
  <2> QED BY <2>1, <2>2
<1>2. CASE a = ZeroLsn /\ s # <<>>
  <2>1. /\ Front(s) \in Seq(Nat) /\ Last(s) \in Nat /\ Append(Front(s), Last(s)) = s
        /\ \A i \in DOMAIN Front(s) : i \in DOMAIN s /\ Front(s)[i] = s[i]
        /\ Len(s) \in DOMAIN s /\ Last(s) = s[Len(s)]
    BY <1>2, Popped
  <2>2. PICK x, y : x = Last(s) /\ y = Front(s)
    OBVIOUS
  <2>3. e = [d EXCEPT !.at = x, !.stack = y]
    BY <1>2, <2>2 DEF Undo1
  <2>4. /\ e \in Details /\ e.status = d.status /\ e.parent = d.parent
        /\ e.begin = d.begin /\ e.last = d.last /\ e.voted = d.voted
        /\ e.at = x /\ e.stack = y
    BY <1>1, <2>1, <2>2, <2>3
  <2>5. x \in Q \ {ZeroLsn} /\ \A i \in DOMAIN y : y[i] \in Q \ {ZeroLsn}
    BY <2>1, <2>2
  <2> QED BY <1>2, <2>1, <2>2, <2>4, <2>5
<1>3. CASE ~(a = ZeroLsn /\ s # <<>>)
  <2>1. e = [d EXCEPT !.at = a, !.stack = s]
    BY <1>3 DEF Undo1
  <2>2. /\ e \in Details /\ e.status = d.status /\ e.parent = d.parent
        /\ e.begin = d.begin /\ e.last = d.last /\ e.voted = d.voted
        /\ e.at = a /\ e.stack = s
    BY <1>1, <2>1
  <2> QED BY <1>3, <2>2
<1> QED BY <1>2, <1>3

\* An undo of record l, with the stack st, comes to a with the stack s: its
\* trail is then t.
Unwinding(R, st, l, s, a, t) ==
    /\ st \in Seq(Nat) /\ l \in Places \ {ZeroLsn}
    /\ \A i \in DOMAIN st : st[i] \in Places
    /\ InOrder(R, Append(st, l))
    /\ s = IF log[l].type = "child" /\ log[l].prev # ZeroLsn
           THEN Append(st, log[l].prev) ELSE st
    /\ a = IF log[l].type = "child" THEN log[l].clsn ELSE log[l].prev
    /\ t = IF a = ZeroLsn /\ s # <<>> THEN s ELSE Append(s, a)

\* What is left to undo is what there was without the write, if it is a write,
\* and in order.
LEMMA UndoTrail ==
    ASSUME Basic, Tree, NEW R, Chains(R), NEW st, NEW l, NEW s, NEW a, NEW t,
           Unwinding(R, st, l, s, a, t)
    PROVE  /\ InOrder(R, t)
           /\ log[l].type = "write" =>
                /\ Covered(R, Append(st, l)) = Covered(R, t) \cup {l}
                /\ l \in Writes /\ l \notin Covered(R, t)
                /\ \A k \in Covered(R, Append(st, l)) : PageOf[k] = PageOf[l] => k <= l
           /\ log[l].type # "write" => Covered(R, t) = Covered(R, Append(st, l))
<1>0. /\ st \in Seq(Nat) /\ l \in Places \ {ZeroLsn}
      /\ \A i \in DOMAIN st : st[i] \in Places
      /\ InOrder(R, Append(st, l))
      /\ s = IF log[l].type = "child" /\ log[l].prev # ZeroLsn
             THEN Append(st, log[l].prev) ELSE st
      /\ a = IF log[l].type = "child" THEN log[l].clsn ELSE log[l].prev
      /\ t = IF a = ZeroLsn /\ s # <<>> THEN s ELSE Append(s, a)
  BY DEF Unwinding
<1>1. /\ l \in 1 .. Len(log) /\ log[l].type # "ckp" /\ log[l] \in Records
      /\ Len(log) \in Nat /\ l \in Nat /\ l # 0
  BY <1>0, WriteTypes DEF Places, ZeroLsn
<1>2. /\ Link(R, l) /\ R[0] = {} /\ R[l] \subseteq Writes
      /\ \A k \in Places : k \in 0 .. Len(log) /\ k \in Nat /\ R[k] \subseteq Writes
  <2>1. \A k \in Places : k \in 0 .. Len(log) /\ k \in Nat
    BY <1>1 DEF Places, ZeroLsn
  <2> QED BY <1>1, <2>1 DEF Chains
<1> DEFINE prev == log[l].prev
           clsn == log[l].clsn
<1>3. /\ prev \in Places /\ prev < l /\ \A n \in R[l] : n <= l
      /\ log[l].type = "write" => R[l] = {l} \cup R[prev]
      /\ log[l].type = "child" =>
           clsn \in Places /\ R[l] = R[prev] \cup R[clsn] /\ Before(R[prev], R[clsn])
      /\ log[l].type \notin {"write", "child"} => R[l] = R[prev]
  <2>1. log[l].type \in {"write", "child", "prepare", "commit", "abort"}
    BY <1>1, RecordFields
  <2> QED BY <1>1, <1>2, <2>1 DEF Link, Ends
<1>4. /\ InOrder(R, st) /\ \A i \in DOMAIN st : Before(R[st[i]], R[l])
      /\ Covered(R, Append(st, l)) = Covered(R, st) \cup R[l]
  BY <1>0, <1>1, TrailGrows
<1>5. a \in Places /\ a \in Nat /\ R[a] \subseteq R[l] /\ prev \in Nat /\ R[prev] \subseteq R[l]
  <2>1. a \in Places /\ R[a] \subseteq R[l] /\ R[prev] \subseteq R[l]
    BY <1>0, <1>3
  <2> QED BY <1>2, <1>3, <2>1
<1> HIDE DEF prev, clsn
<1>6. /\ s \in Seq(Nat) /\ InOrder(R, s) /\ \A i \in DOMAIN s : Before(R[s[i]], R[a])
      /\ Covered(R, s) = Covered(R, st) \cup (IF log[l].type = "child" THEN R[prev] ELSE {})
  <2>1. \A x, y, z : Before(x, y) /\ z \subseteq y => Before(x, z)
    BY DEF Before
  <2>2. \A i \in DOMAIN st : Before(R[st[i]], R[a]) /\ Before(R[st[i]], R[prev])
    BY <1>4, <1>5, <2>1
  <2>3. CASE log[l].type = "child" /\ prev # ZeroLsn
    <3>1. s = Append(st, prev)
      BY <1>0, <2>3 DEF prev
    <3>2. s \in Seq(Nat) /\ InOrder(R, s) /\ Covered(R, s) = Covered(R, st) \cup R[prev]
      <4>1. st \in Seq(Nat) /\ prev \in Nat
        BY <1>0, <1>4, <1>5
      <4>2. /\ InOrder(R, s) <=>
                 InOrder(R, st) /\ \A i \in DOMAIN st : Before(R[st[i]], R[prev])
            /\ Covered(R, s) = Covered(R, st) \cup R[prev]
        BY <3>1, <4>1, TrailGrows
      <4>3. s \in Seq(Nat)
        BY <3>1, <4>1
      <4> QED BY <1>4, <2>2, <4>2, <4>3
    <3>3. Before(R[prev], R[a])
      BY <1>0, <1>3, <2>3 DEF clsn
    <3>4. \A i \in DOMAIN s : Before(R[s[i]], R[a])
      <4>1. \A i \in DOMAIN s : s[i] = prev \/ (i \in DOMAIN st /\ s[i] = st[i])
        BY <1>5, <3>1
      <4> QED BY <2>2, <3>3, <4>1
    <3> QED BY <2>3, <3>2, <3>4
  <2>4. CASE ~(log[l].type = "child" /\ prev # ZeroLsn)
    <3>1. s = st
      BY <1>0, <2>4 DEF prev
    <3>2. log[l].type = "child" => R[prev] = {}
      BY <1>2, <2>4 DEF ZeroLsn
    <3> QED BY <1>0, <1>4, <2>2, <3>1, <3>2
  <2> QED BY <2>3, <2>4
<1>7. InOrder(R, t) /\ Covered(R, t) = Covered(R, s) \cup R[a]
  <2>1. CASE a = ZeroLsn /\ s # <<>>
    <3>1. t = s /\ R[a] = {}
      BY <1>0, <1>2, <2>1 DEF ZeroLsn
    <3> QED BY <1>6, <3>1
  <2>2. CASE ~(a = ZeroLsn /\ s # <<>>)
    <3>1. t = Append(s, a)
      BY <1>0, <2>2
    <3>2. s \in Seq(Nat) /\ a \in Nat
      BY <1>5, <1>6
    <3>3. InOrder(R, s) /\ \A i \in DOMAIN s : Before(R[s[i]], R[a])
      BY <1>6
    <3>4. Covered(R, Append(s, a)) = Covered(R, s) \cup R[a]
      BY <3>2, TrailGrows
    <3>5. InOrder(R, Append(s, a))
      BY <3>2, <3>3, TrailGrows
    <3> QED BY <3>1, <3>4, <3>5
  <2> QED BY <2>1, <2>2
<1>8. ASSUME log[l].type # "write" PROVE Covered(R, t) = Covered(R, Append(st, l))
  <2>1. CASE log[l].type = "child"
    <3>1. a = clsn
      BY <1>0, <2>1 DEF clsn
    <3> QED BY <1>3, <1>4, <1>6, <1>7, <2>1, <3>1
  <2>2. CASE log[l].type # "child"
    <3>1. a = prev
      BY <1>0, <2>2 DEF prev
    <3> QED BY <1>3, <1>4, <1>6, <1>7, <1>8, <2>2, <3>1
  <2> QED BY <2>1, <2>2
<1>9. ASSUME log[l].type = "write"
      PROVE  /\ Covered(R, Append(st, l)) = Covered(R, t) \cup {l}
             /\ l \in Writes /\ l \notin Covered(R, t)
             /\ \A k \in Covered(R, Append(st, l)) : PageOf[k] = PageOf[l] => k <= l
  <2>1. a = prev /\ R[l] = {l} \cup R[prev] /\ l \in Writes
    BY <1>0, <1>1, <1>3, <1>9 DEF prev, Writes
  <2>2. Covered(R, t) = Covered(R, st) \cup R[prev]
    BY <1>6, <1>7, <1>9, <2>1
  <2>3. Covered(R, Append(st, l)) = Covered(R, t) \cup {l}
    BY <1>4, <2>1, <2>2
  <2>4. \A k \in Covered(R, st) : PageOf[k] = PageOf[l] => k < l
    <3>1. l \in R[l]
      BY <2>1
    <3> QED BY <1>4, <3>1 DEF Covered, Before
  <2>5. l \notin Covered(R, st)
    BY <1>1, <2>4
  <2>6. l \notin R[prev]
    <3>1. \A n \in R[prev] : n <= prev
      <4>1. CASE prev = 0
        BY <1>2, <4>1
      <4>2. CASE prev # 0
        <5>1. prev \in 1 .. Len(log)
          BY <1>2, <1>3, <4>2
        <5> QED BY <5>1 DEF Chains, Link
      <4> QED BY <4>1, <4>2
    <3> QED BY <1>1, <1>3, <1>5, <3>1
  <2>7. \A k \in Covered(R, Append(st, l)) : PageOf[k] = PageOf[l] => k <= l
    <3>1. \A k \in Covered(R, st) : k \in Nat
      <4>1. \A i \in DOMAIN st : R[st[i]] \subseteq Writes
        BY <1>0, <1>2
      <4> QED BY <4>1, WriteTypes DEF Covered
    <3> QED BY <1>1, <1>3, <1>4, <2>4, <3>1
  <2> QED BY <2>1, <2>2, <2>3, <2>5, <2>6, <2>7
<1> QED BY <1>7, <1>8, <1>9

\* The transaction and its trail t after an undo.
Unwinds(R, h, t) ==
    /\ td[h].status = "aborting" /\ td[h].at \in Places \ {ZeroLsn}
    /\ td' \in [Txns -> Details]
    /\ \A g \in Txns \ {h} : td'[g] = td[g]
    /\ td'[h].status = td[h].status /\ td'[h].parent = td[h].parent
    /\ td'[h].begin = td[h].begin /\ td'[h].last = td[h].last
    /\ td'[h].voted = td[h].voted /\ td'[h].at \in Places
    /\ \A i \in DOMAIN td'[h].stack : td'[h].stack[i] \in Places \ {ZeroLsn}
    /\ td'[h].at = ZeroLsn => td'[h].stack = <<>>
    /\ Append(td'[h].stack, td'[h].at) = t
    /\ InOrder(R, t)
    /\ log[td[h].at].type = "write" =>
         /\ Covered(R, Trail(h)) = Covered(R, t) \cup {td[h].at}
         /\ td[h].at \in Writes /\ td[h].at \notin Covered(R, t)
         /\ \A k \in Covered(R, Trail(h)) : PageOf[k] = PageOf[td[h].at] => k <= td[h].at
    /\ log[td[h].at].type # "write" => Covered(R, t) = Covered(R, Trail(h))

\* What an undo leaves alone.
Unmoved ==
    /\ log' = log /\ said' = said /\ disk' = disk /\ locks' = locks /\ ckp' = ckp
    /\ born' = born /\ items' = items /\ phase' = phase /\ crashes' = crashes
    /\ lastId' = lastId

\* UndoStep is such a step.
LEMMA UndoIs ==
    ASSUME NEW R, IInv(R), NEW h \in Txns, UndoStep(h)
    PROVE  \E t : Unwinds(R, h, t)
<1>1. Basic /\ Chains(R) /\ Tree /\ Undoing(R)
  BY DEF IInv
<1>2. PICK l, st : l = td[h].at /\ st = td[h].stack
  OBVIOUS
<1>3. PICK s : s = IF log[l].type = "child" /\ log[l].prev # ZeroLsn
                   THEN Append(st, log[l].prev) ELSE st
  OBVIOUS
<1>4. PICK a : a = IF log[l].type = "child" THEN log[l].clsn ELSE log[l].prev
  OBVIOUS
<1>5. PICK t : t = IF a = ZeroLsn /\ s # <<>> THEN s ELSE Append(s, a)
  OBVIOUS
<1>6. PICK e : e = [td[h] EXCEPT !.at = IF a = ZeroLsn /\ s # <<>> THEN Last(s) ELSE a,
                                 !.stack = IF a = ZeroLsn /\ s # <<>> THEN Front(s) ELSE s]
  OBVIOUS
<1>7. /\ td[h].status = "aborting" /\ l # ZeroLsn
      /\ td \in [Txns -> Details] /\ TreeOf(h) /\ td[h] \in Details
  BY <1>1, <1>2 DEF UndoStep, Tree
<1>8. td' = [td EXCEPT ![h] = e]
  <2>1. td' = [td EXCEPT ![h].at = IF a = ZeroLsn /\ s # <<>> THEN Last(s) ELSE a,
                         ![h].stack = IF a = ZeroLsn /\ s # <<>> THEN Front(s) ELSE s]
    BY <1>2, <1>3, <1>4 DEF UndoStep
  <2>2. PICK x, y : /\ x = (IF a = ZeroLsn /\ s # <<>> THEN Last(s) ELSE a)
                    /\ y = (IF a = ZeroLsn /\ s # <<>> THEN Front(s) ELSE s)
    OBVIOUS
  <2>3. td' = [td EXCEPT ![h].at = x, ![h].stack = y] /\ e = [td[h] EXCEPT !.at = x, !.stack = y]
    BY <1>6, <2>1, <2>2
  <2> QED BY <1>7, <2>3
<1>9. Undo1(td[h], e, s, a)
  BY <1>6 DEF Undo1
<1>10. /\ l \in Places \ {ZeroLsn} /\ st \in Seq(Nat)
       /\ \A i \in DOMAIN st : st[i] \in Places \ {ZeroLsn}
  BY <1>2, <1>7 DEF TreeOf, Details
<1>11. Trail(h) = Append(st, l) /\ InOrder(R, Append(st, l))
  <2>1. Trail(h) = Append(st, l)
    BY <1>2 DEF Trail
  <2> QED BY <1>1, <1>7, <2>1 DEF Undoing
<1>12. /\ log[l].prev \in Places
       /\ log[l].type = "child" => log[l].clsn \in Places
       /\ \A k \in Places : k \in Nat
  <2>1. l \in 1 .. Len(log) /\ log[l].type # "ckp"
    BY <1>10 DEF Places
  <2>2. Link(R, l)
    BY <1>1, <2>1 DEF Chains
  <2>3. \A k \in Places : k \in Nat
    BY <1>1, WriteTypes DEF Places, ZeroLsn
  <2> QED BY <2>1, <2>2, <2>3 DEF Link
<1>13. a \in Places /\ a \in Nat
  BY <1>4, <1>12
<1>14. s \in Seq(Nat) /\ \A i \in DOMAIN s : s[i] \in Places \ {ZeroLsn}
  <2>1. CASE log[l].type = "child" /\ log[l].prev # ZeroLsn
    <3>1. PICK x : x = log[l].prev
      OBVIOUS
    <3>2. s = Append(st, x) /\ x \in Nat /\ x \in Places \ {ZeroLsn}
      BY <1>3, <1>12, <2>1, <3>1
    <3> QED BY <1>10, <3>2
  <2>2. CASE ~(log[l].type = "child" /\ log[l].prev # ZeroLsn)
    BY <1>3, <1>10, <2>2
  <2> QED BY <2>1, <2>2
<1>15. /\ e \in Details /\ e.status = td[h].status /\ e.parent = td[h].parent
       /\ e.begin = td[h].begin /\ e.last = td[h].last /\ e.voted = td[h].voted
       /\ e.at \in Places /\ \A i \in DOMAIN e.stack : e.stack[i] \in Places \ {ZeroLsn}
       /\ e.at = ZeroLsn => e.stack = <<>>
       /\ Append(e.stack, e.at) = t
  BY <1>5, <1>7, <1>9, <1>13, <1>14, UndoDetails
<1>16. /\ InOrder(R, t)
       /\ log[l].type = "write" =>
            /\ Covered(R, Append(st, l)) = Covered(R, t) \cup {l}
            /\ l \in Writes /\ l \notin Covered(R, t)
            /\ \A k \in Covered(R, Append(st, l)) : PageOf[k] = PageOf[l] => k <= l
       /\ log[l].type # "write" => Covered(R, t) = Covered(R, Append(st, l))
  <2>1. \A i \in DOMAIN st : st[i] \in Places
    BY <1>10
  <2>2. Unwinding(R, st, l, s, a, t)
    BY <1>3, <1>4, <1>5, <1>10, <1>11, <2>1 DEF Unwinding
  <2> QED BY <1>1, <2>2, UndoTrail
<1>17. td' \in [Txns -> Details] /\ td'[h] = e /\ \A g \in Txns \ {h} : td'[g] = td[g]
  BY <1>7, <1>8, <1>15
<1>18. Unwinds(R, h, t)
  BY <1>2, <1>7, <1>10, <1>11, <1>15, <1>16, <1>17 DEF Unwinds
<1> QED BY <1>18

\* The rest of the invariant.
LEMMA UndoKept ==
    ASSUME NEW R, IInv(R), NEW h \in Txns, NEW t, Unwinds(R, h, t), Unmoved
    PROVE  /\ Longer(R, R) /\ Chains(R)' /\ Own' = Own /\ Com' = Com
           /\ Tree' /\ Outcomes' /\ Owners(R)' /\ Begun' /\ Locked' /\ Ordered' /\ Undoing(R)'
           /\ \A g \in Txns : td'[g].status = td[g].status
           /\ LeftOf(R, h)' = Covered(R, t)
           /\ \A g \in Txns \ {h} : LeftOf(R, g)' = LeftOf(R, g)
<1>1. /\ Basic /\ Chains(R) /\ Tree /\ Outcomes /\ Owners(R) /\ Begun /\ Locked
      /\ Ordered /\ Undoing(R)
  BY DEF IInv
<1>2. log' = log /\ said' = said /\ locks' = locks /\ born' = born /\ items' = items
  BY DEF Unmoved
<1>3. Longer(R, R) /\ Chains(R)' /\ Own' = Own /\ Com' = Com
  <2>1. Longer(R, R)
    BY <1>1, <1>2, NotLonger
  <2>2. Own' = Own
    BY <1>2, <2>1, SameOwn
  <2> QED BY <1>2, <2>1, <2>2 DEF Longer, Com
<1>4. /\ \A g \in Txns : /\ td'[g].status = td[g].status /\ td'[g].parent = td[g].parent
                         /\ td'[g].begin = td[g].begin /\ td'[g].last = td[g].last
                         /\ td'[g].voted = td[g].voted
      /\ \A g \in Txns \ {h} : td'[g] = td[g]
      /\ td' \in [Txns -> Details]
      /\ td'[h].at \in Places /\ td[h].status = "aborting"
      /\ \A i \in DOMAIN td'[h].stack : td'[h].stack[i] \in Places \ {ZeroLsn}
      /\ td'[h].at = ZeroLsn => td'[h].stack = <<>>
      /\ Append(td'[h].stack, td'[h].at) = t
  BY DEF Unwinds
<1>5. /\ Writes' = Writes /\ PageOf' = PageOf /\ ItemOf' = ItemOf
      /\ Places' = Places /\ Len(log') = Len(log)
      /\ \A A, B : Before(A, B)' = Before(A, B)
  BY <1>2, SameLog
<1>6. Tree'
  <2>1. ASSUME NEW g \in Txns PROVE TreeOf(g)'
    <3>1. TreeOf(g)
      BY <1>1 DEF Tree
    <3>2. td'[g].parent # NoTxn => td'[td'[g].parent].status = "running"
      BY <1>1, <1>4, DetailFacts
    <3>3. CASE g = h
      BY <1>2, <1>4, <1>5, <3>1, <3>2, <3>3 DEF TreeOf
    <3>4. CASE g # h
      <4>1. td'[g] = td[g]
        BY <1>4, <3>4
      <4> QED BY <1>2, <1>5, <3>1, <3>2, <4>1 DEF TreeOf
    <3> QED BY <3>3, <3>4
  <2> QED BY <1>1, <1>2, <1>4, <2>1 DEF Tree
<1>7. Lineage' = Lineage
  BY <1>1, <1>4, <1>6, LineageKept
<1>8. Outcomes'
  BY <1>1, <1>2, <1>4 DEF Outcomes
<1>9. Owners(R)'
  BY <1>1, <1>2, <1>3, <1>4, <1>5 DEF Owners
<1>10. Begun'
  <2> SUFFICES ASSUME NEW g \in Txns, td'[g].status # "none",
                      NEW a \in Lineage'[g], td'[a].parent = NoTxn, NEW n \in Own'[g]
               PROVE  td'[a].begin # ZeroLsn /\ td'[a].begin <= n
    BY DEF Begun
  <2>1. a \in Lineage[g] /\ a \in Txns /\ n \in Own[g] /\ td[g].status # "none"
    BY <1>1, <1>3, <1>4, <1>7, LineageFacts
  <2>2. td[a].parent = NoTxn /\ td'[a].begin = td[a].begin
    BY <1>4, <2>1
  <2> QED BY <1>1, <2>1, <2>2 DEF Begun
<1>11. Locked'
  <2>1. \A p \in Pages : \A g \in locks[p] : td'[g].status # "none" /\ td'[g].last # ZeroLsn
    BY <1>1, <1>4 DEF Locked
  <2> QED BY <1>1, <1>2, <1>4, <1>7, <2>1 DEF Locked
<1>12. Ordered'
  <2>1. \A g \in Txns : td'[g].status # "none" =>
          \A a \in Lineage'[g] \ {g} : Before(Own[a], Own[g])
    BY <1>1, <1>4, <1>7 DEF Ordered
  <2> QED BY <1>3, <1>5, <2>1 DEF Ordered
<1>13. Covered(R, t) \subseteq Own[h] /\ InOrder(R, t)
  <2>1. Covered(R, Trail(h)) \subseteq Own[h]
    BY <1>1, <1>4 DEF Undoing
  <2>2. Covered(R, t) \subseteq Covered(R, Trail(h)) /\ InOrder(R, t)
    BY DEF Unwinds
  <2> QED BY <2>1, <2>2
<1>14. Trail(h)' = t
  BY <1>4 DEF Trail
<1>15. Undoing(R)'
  <2>1. ASSUME NEW g \in Txns, td'[g].status = "aborting"
        PROVE  InOrder(R, Trail(g))' /\ (Covered(R, Trail(g)) \subseteq Own[g])'
    <3>1. CASE g # h
      BY <1>1, <1>3, <1>4, <2>1, <3>1, SameTrail
    <3>2. CASE g = h
      <4>1. InOrder(R, Trail(h))'
        BY <1>5, <1>13, <1>14 DEF InOrder
      <4>2. (Covered(R, Trail(h)) \subseteq Own[h])'
        BY <1>3, <1>13, <1>14 DEF Covered
      <4> QED BY <3>2, <4>1, <4>2
    <3> QED BY <3>1, <3>2
  <2> QED BY <2>1 DEF Undoing
<1>16. LeftOf(R, h)' = Covered(R, t)
  BY <1>4, <1>14 DEF LeftOf, Covered
<1>17. ASSUME NEW g \in Txns \ {h} PROVE LeftOf(R, g)' = LeftOf(R, g)
  <2>1. PICK d : d = td'[g]
    OBVIOUS
  <2>2. d = td[g]
    BY <1>4, <2>1
  <2>3. LeftIn(R, d, Own[g]) = LeftOf(R, g)
    BY <1>1, <2>2, SameLeft
  <2> QED BY <1>3, <2>1, <2>3 DEF LeftOf, LeftIn, Trail
<1> QED BY <1>3, <1>4, <1>6, <1>8, <1>9, <1>10, <1>11, <1>12, <1>15, <1>16, <1>17

\* The last write of a page that may be undone.
LEMMA UndoLast ==
    ASSUME NEW R, IInv(R), NEW h \in Txns, NEW t, Unwinds(R, h, t),
           log[td[h].at].type = "write"
    PROVE  /\ td[h].at \in Writes /\ td[h].at \in LeftOf(R, h)
           /\ \A k \in Pend(R) \cap On(PageOf[td[h].at]) : k <= td[h].at
           /\ \A g \in Txns \ {h} : td[h].at \notin LeftOf(R, g)
<1>1. Basic /\ Tree /\ Owners(R) /\ Locked /\ Ordered /\ Undoing(R)
  BY DEF IInv
<1>2. PICK l : l = td[h].at
  OBVIOUS
<1>3. /\ td[h].status = "aborting" /\ l \in Writes /\ l \in Covered(R, Trail(h))
      /\ \A k \in Covered(R, Trail(h)) : PageOf[k] = PageOf[l] => k <= l
  BY <1>2 DEF Unwinds
<1>4. LeftOf(R, h) = Covered(R, Trail(h)) /\ LeftOf(R, h) \subseteq Own[h]
  BY <1>1, <1>3, LeftInside DEF LeftOf
<1>5. l \in Own[h] /\ \A k \in Txns : td[k].parent # h
  BY <1>1, <1>3, <1>4, Childless
<1>6. \A g \in Txns \ {h} : l \notin LeftOf(R, g)
  BY <1>1, <1>5, LeftInside DEF Owners
<1>7. ASSUME NEW k \in Pend(R) \cap On(PageOf[l]) PROVE k <= l
  <2>1. PICK g \in Txns : k \in LeftOf(R, g)
    BY DEF Pend
  <2>2. k \in Own[g] /\ PageOf[k] = PageOf[l] /\ td[g].status # "none"
    BY <1>1, <2>1, LeftInside DEF On
  <2>3. CASE g = h
    BY <1>3, <1>4, <2>1, <2>2, <2>3
  <2>4. CASE g # h
    <3>1. k < l
      BY <1>1, <1>3, <1>5, <2>2, <2>4, Holder
    <3>2. k \in Nat /\ l \in Nat
      <4>1. k \in Writes
        BY DEF On
      <4> QED BY <1>1, <1>3, <4>1, WriteTypes
    <3> QED BY <3>1, <3>2
  <2> QED BY <2>3, <2>4
<1> QED BY <1>2, <1>3, <1>4, <1>6, <1>7

\* Its page loses it.
LEMMA UndoWrite ==
    ASSUME NEW R, IInv(R), NEW h \in Txns, NEW t, Unwinds(R, h, t), Unmoved,
           log[td[h].at].type = "write", mem' = Undone(log[td[h].at], td[h].at)
    PROVE  Cached(R)' /\ mem[log[td[h].at].page].lsn = td[h].at
<1>1. Basic /\ Tree /\ Owners(R) /\ Outcomes /\ Undoing(R) /\ Cached(R)
  BY DEF IInv
<1>2. PICK l, p, r : l = td[h].at /\ r = log[l] /\ p = PageOf[l]
  OBVIOUS
<1>3. /\ l \in Writes /\ l \in LeftOf(R, h)
      /\ \A k \in Pend(R) \cap On(p) : k <= l
      /\ \A g \in Txns \ {h} : l \notin LeftOf(R, g)
  BY <1>2, UndoLast
<1>4. p = r.page /\ p \in Pages /\ PrevOf[l] = r.pagelsn /\ l \in On(p)
  BY <1>1, <1>2, <1>3, WriteTypes DEF PageOf, PrevOf, On
<1>5. Pend(R)' = Pend(R) \ {l}
  <2>1. \A g \in Txns \ {h} : LeftOf(R, g)' = LeftOf(R, g)
    BY UndoKept
  <2>2. LeftOf(R, h)' = LeftOf(R, h) \ {l}
    <3>1. LeftOf(R, h)' = Covered(R, t)
      BY UndoKept
    <3>2. Covered(R, Trail(h)) = Covered(R, t) \cup {l} /\ l \notin Covered(R, t)
      BY <1>2 DEF Unwinds
    <3>3. LeftOf(R, h) = Covered(R, Trail(h))
      BY DEF Unwinds, LeftOf
    <3> QED BY <3>1, <3>2, <3>3
  <2>3. \A g \in Txns : LeftOf(R, g)' = LeftOf(R, g) \ {l}
    BY <1>3, <2>1, <2>2
  <2> QED BY <2>3 DEF Pend
<1>6. Com' = Com
  BY UndoKept
<1>7. Pend(R) \subseteq Writes /\ Com \subseteq Writes
  <2>1. \A g \in Txns : LeftOf(R, g) \subseteq Writes
    BY <1>1, LeftInside
  <2>2. said.order \in Seq(Txns)
    BY <1>1 DEF Owners
  <2>3. \A g \in ToSet(said.order) : Own[g] \subseteq Writes
    BY <2>2 DEF ToSet, Own
  <2> QED BY <2>1, <2>3 DEF Pend, Com
<1>8. /\ mem[p].lsn = l
      /\ PageOK(ItemOf, PrevOf, (Pend(R) \cap On(p)) \ {l}, Com \cap On(p),
                [lsn |-> PrevOf[l], val |-> Front(mem[p].val)])
  <2>1. Writes \subseteq Nat /\ \A k \in Writes : ItemOf[k] \in Nat /\ PrevOf[k] \in Nat
    BY <1>1, WriteTypes
  <2>2. PageOK(ItemOf, PrevOf, Pend(R) \cap On(p), Com \cap On(p), mem[p])
    BY <1>1, <1>4 DEF Cached
  <2>3. \A j, k \in Writes : j < k => ItemOf[j] < ItemOf[k]
    BY <1>1 DEF Owners
  <2>4. PICK P, C, m : P = Pend(R) \cap On(p) /\ C = Com \cap On(p) /\ m = mem[p]
    OBVIOUS
  <2>5. l \in P /\ (\A k \in P : k <= l) /\ P \cup C \subseteq Writes
    BY <1>3, <1>4, <1>7, <2>4 DEF Pend
  <2>6. PageOK(ItemOf, PrevOf, P, C, m)
    BY <2>2, <2>4
  <2>7. m.lsn = l /\ PageOK(ItemOf, PrevOf, P \ {l}, C, [lsn |-> PrevOf[l], val |-> Front(m.val)])
    BY <2>1, <2>3, <2>5, <2>6, PageUndone
  <2> QED BY <2>4, <2>7
<1>9. mem' = [mem EXCEPT ![p] = [lsn |-> PrevOf[l], val |-> Front(mem[p].val)]]
  BY <1>2, <1>4, <1>8 DEF Undone
<1>10. /\ mem'[p] = [lsn |-> PrevOf[l], val |-> Front(mem[p].val)]
       /\ \A q \in Pages \ {p} : mem'[q] = mem[q]
       /\ mem' \in [Pages -> [lsn : Nat, val : Seq(Nat)]]
  <2>1. mem \in [Pages -> [lsn : Nat, val : Seq(Nat)]]
    BY <1>1 DEF Cached
  <2>2. [lsn |-> PrevOf[l], val |-> Front(mem[p].val)] \in [lsn : Nat, val : Seq(Nat)]
    BY <1>8 DEF PageOK
  <2> QED BY <1>4, <1>9, <2>1, <2>2
<1>11. ItemOf' = ItemOf /\ PrevOf' = PrevOf /\ \A q : On(q)' = On(q)
  <2>1. Longer(R, R)
    BY UndoKept
  <2> QED BY <2>1 DEF Longer
<1>12. ASSUME NEW q \in Pages
       PROVE  PageOK(ItemOf, PrevOf, Pend(R) \cap On(q), Com \cap On(q), mem[q])'
  <2>1. CASE q = p
    <3>1. (Pend(R) \cap On(q))' = (Pend(R) \cap On(p)) \ {l}
      BY <1>5, <1>11, <2>1
    <3> QED BY <1>6, <1>8, <1>10, <1>11, <2>1, <3>1
  <2>2. CASE q # p
    <3>1. l \notin On(q)
      BY <1>2, <2>2 DEF On
    <3>2. (Pend(R) \cap On(q))' = Pend(R) \cap On(q)
      BY <1>5, <1>11, <3>1
    <3>3. mem'[q] = mem[q]
      BY <1>10, <2>2
    <3>4. PageOK(ItemOf, PrevOf, Pend(R) \cap On(q), Com \cap On(q), mem[q])
      BY <1>1 DEF Cached
    <3> QED BY <1>6, <1>11, <3>2, <3>3, <3>4
  <2> QED BY <2>1, <2>2
<1>13. Cached(R)'
  BY <1>10, <1>12 DEF Cached
<1> QED BY <1>2, <1>4, <1>8, <1>13

\* An undo of one record.
LEMMA UndoStepOK ==
    ASSUME NEW R, IInv(R), NEW h \in Txns, UndoStep(h)
    PROVE  \E S : IInv(S)'
<1>1. /\ Basic /\ Chains(R) /\ Tree /\ Outcomes /\ Owners(R) /\ Cached(R) /\ Checkpointed
  BY DEF IInv
<1>2. PICK t : Unwinds(R, h, t)
  BY UndoIs
<1>3. Unmoved
  BY DEF UndoStep, Unmoved, logVars, idVars, boundVars
<1>4. /\ Longer(R, R) /\ Chains(R)' /\ Own' = Own /\ Com' = Com
      /\ Tree' /\ Outcomes' /\ Owners(R)' /\ Begun' /\ Locked' /\ Ordered' /\ Undoing(R)'
      /\ \A g \in Txns : td'[g].status = td[g].status
  BY <1>2, <1>3, UndoKept
<1>5. PICK r, l : l = td[h].at /\ r = log[l]
  OBVIOUS
<1>6. /\ Cached(R)' /\ ~failed' /\ dirty' \subseteq Pages
      /\ \A p \in Pages : p \notin dirty' => disk[p] = mem'[p]
  <2>1. dirty \subseteq Pages /\ \A p \in Pages : p \notin dirty => disk[p] = mem[p]
    BY <1>1 DEF Checkpointed
  <2>2. ~failed
    BY <1>1 DEF Basic
  <2>3. CASE r.type = "write"
    <3>1. /\ mem' = Undone(r, l)
          /\ dirty' = (IF mem' = mem THEN dirty ELSE dirty \cup {r.page})
          /\ failed' = (failed \/ (mem[r.page].lsn \notin {l, ZeroLsn}))
      BY <1>5, <2>3 DEF UndoStep
    <3>2. Cached(R)' /\ mem[r.page].lsn = l
      BY <1>2, <1>3, <1>5, <2>3, <3>1, UndoWrite
    <3>3. r.page \in Pages
      <4>1. l \in Writes
        BY <1>2, <1>5, <2>3, UndoLast
      <4> QED BY <1>1, <1>5, <4>1, WriteTypes DEF PageOf
    <3>4. dirty' \subseteq Pages
      BY <2>1, <3>1, <3>3
    <3>5. ASSUME NEW p \in Pages, p \notin dirty' PROVE disk[p] = mem'[p]
      <4>1. CASE mem' = mem
        BY <2>1, <3>1, <3>5, <4>1
      <4>2. CASE mem' # mem
        <5>1. p \notin dirty /\ p # r.page
          BY <3>1, <3>5, <4>2
        <5>2. mem \in [Pages -> [lsn : Nat, val : Seq(Nat)]]
          BY <1>1 DEF Cached
        <5>3. mem'[p] = mem[p]
          BY <3>1, <5>1, <5>2 DEF Undone
        <5> QED BY <2>1, <5>1, <5>3
      <4> QED BY <4>1, <4>2
    <3>6. ~failed'
      BY <2>2, <3>1, <3>2
    <3> QED BY <3>2, <3>4, <3>5, <3>6
  <2>4. CASE r.type # "write"
    <3>1. mem' = mem /\ dirty' = dirty /\ failed' = failed
      BY <1>5, <2>4 DEF UndoStep
    <3>2. \A g \in Txns : LeftOf(R, g)' = LeftOf(R, g)
      <4>1. LeftOf(R, h)' = Covered(R, t) /\ \A g \in Txns \ {h} : LeftOf(R, g)' = LeftOf(R, g)
        BY <1>2, <1>3, UndoKept
      <4>2. Covered(R, t) = LeftOf(R, h)
        BY <1>2, <1>5, <2>4 DEF Unwinds, LeftOf
      <4> QED BY <4>1, <4>2
    <3>3. Pend(R)' = Pend(R)
      BY <3>2 DEF Pend
    <3>4. Cached(R)'
      BY <1>1, <1>4, <3>1, <3>3, CachedKept
    <3> QED BY <2>1, <2>2, <3>1, <3>4
  <2> QED BY <2>3, <2>4
<1>7. Basic'
  BY <1>1, <1>3, <1>6 DEF Basic, Unmoved
<1>8. Checkpointed'
  <2>1. \A g \in Txns : td'[g].status # "none" => \A n \in Own'[g] :
               \E k \in Txns : td[k].status # "none" /\ n \in Own[k]
    BY <1>4
  <2>2. ckp' = [ckp EXCEPT !.owed = ckp.owed] /\ disk' = disk
    BY <1>1, <1>3, SameCkp DEF Unmoved
  <2>3. FirstLsn(log') = FirstLsn(log)
    BY <1>3 DEF Unmoved
  <2> QED BY <1>1, <1>4, <1>6, <2>1, <2>2, <2>3, CheckpointKept
<1> QED BY <1>4, <1>6, <1>7, <1>8 DEF IInv

-----------------------------------------------------------------------------
(* Pages that are written and checkpoints.                                 *)

\* The transactions and the cache are as they were.
Still ==
    /\ said' = said /\ td' = td /\ locks' = locks /\ born' = born /\ items' = items
    /\ mem' = mem /\ phase' = phase /\ failed' = failed /\ crashes' = crashes
    /\ lastId' = lastId

\* So is all of the invariant but the part about checkpoints.
LEMMA StillKept ==
    ASSUME NEW R, IInv(R), NEW S, Longer(R, S), log' \in Seq(Records), Still
    PROVE  /\ Basic' /\ Chains(S)' /\ Tree' /\ Outcomes' /\ Owners(S)' /\ Begun' /\ Locked'
           /\ Ordered' /\ Undoing(S)' /\ Cached(S)'
           /\ Own' = Own /\ Com' = Com
<1>1. /\ Basic /\ Chains(R) /\ Tree /\ Outcomes /\ Owners(R) /\ Begun /\ Locked
      /\ Ordered /\ Undoing(R) /\ Cached(R)
  BY DEF IInv
<1>2. /\ said' = said /\ td' = td /\ locks' = locks /\ born' = born /\ items' = items
      /\ mem' = mem
  BY DEF Still
<1>3. /\ \A l \in 0 .. Len(log) : S[l] = R[l]
      /\ Len(log) \in Nat /\ Len(log') \in Nat /\ Len(log) <= Len(log')
      /\ Places \subseteq Places' /\ Writes' = Writes /\ PageOf' = PageOf /\ ItemOf' = ItemOf
      /\ \A A, B : Before(A, B)' = Before(A, B)
  BY DEF Longer
<1>4. Own' = Own
  BY <1>2, SameOwn
<1>5. Com' = Com
  BY <1>2, <1>4 DEF Com
<1>6. Lineage' = Lineage
  BY <1>2 DEF Lineage
<1>7. Basic'
  BY <1>1 DEF Basic, Still
<1>8. Tree'
  <2>1. ASSUME NEW g \in Txns PROVE TreeOf(g)'
    <3>1. TreeOf(g) /\ td[g].begin \in Nat /\ td[g].begin <= Len(log)
      BY <1>1, DetailFacts DEF Tree
    <3>2. td[g].begin <= Len(log')
      BY <1>3, <3>1
    <3> QED BY <1>2, <1>3, <3>1, <3>2 DEF TreeOf
  <2> QED BY <1>1, <1>2, <2>1 DEF Tree
<1>9. Outcomes'
  BY <1>1, <1>2 DEF Outcomes
<1>10. Owners(S)'
  <2>1. ASSUME NEW g \in Txns, td[g].status # "none" PROVE S[td[g].last] = Own[g]
    <3>1. td[g].last \in 0 .. Len(log) /\ R[td[g].last] = Own[g]
      BY <1>1, <2>1, LastPlace DEF Owners
    <3> QED BY <1>3, <3>1
  <2> QED BY <1>1, <1>2, <1>3, <1>4, <2>1 DEF Owners
<1>11. Begun'
  BY <1>1, <1>2, <1>4, <1>6 DEF Begun
<1>12. Locked'
  BY <1>1, <1>2, <1>6 DEF Locked
<1>13. Ordered'
  BY <1>1, <1>2, <1>3, <1>4, <1>6 DEF Ordered
<1>14. Undoing(S)'
  <2>1. ASSUME NEW g \in Txns, td'[g].status = "aborting"
        PROVE  InOrder(S, Trail(g))' /\ (Covered(S, Trail(g)) \subseteq Own[g])'
    BY <1>1, <1>2, <1>4, <2>1, SameTrail
  <2> QED BY <2>1 DEF Undoing
<1>15. Pend(S)' = Pend(R)
  <2>1. ASSUME NEW g \in Txns PROVE LeftOf(S, g)' = LeftOf(R, g)
    <3>1. LeftIn(S, td[g], Own[g]) = LeftOf(R, g)
      BY <1>1, <1>3, SameLeft
    <3> QED BY <1>2, <1>4, <3>1 DEF LeftOf, LeftIn, Trail
  <2> QED BY <2>1 DEF Pend
<1>16. Cached(S)'
  BY <1>1, <1>2, <1>5, <1>15, CachedKept
<1>17. Chains(S)'
  BY DEF Longer
<1> QED BY <1>4, <1>5, <1>7, <1>8, <1>9, <1>10, <1>11, <1>12, <1>13, <1>14, <1>16, <1>17

\* Of the writes before c, a page in the cache has those of committed
\* transactions and no others, if no active transaction has written before c.
LEMMA InCache ==
    ASSUME NEW R, IInv(R), NEW c \in Nat, Over(c), NEW p \in Pages, NEW n \in On(p), n < c
    PROVE  ItemOf[n] \in ToSet(mem[p].val) <=> n \in Com
<1>1. Basic /\ Tree /\ Owners(R) /\ Undoing(R) /\ Cached(R)
  BY DEF IInv
<1>2. PICK P, C : P = Pend(R) \cap On(p) /\ C = Com \cap On(p)
  OBVIOUS
<1>3. ToSet(mem[p].val) = {ItemOf[k] : k \in P \cup C}
  BY <1>1, <1>2 DEF Cached, PageOK
<1>4. n \in Writes /\ \A k \in P \cup C : k \in Writes
  BY <1>2 DEF On
<1>5. n \notin P
  <2> SUFFICES ASSUME n \in P PROVE FALSE
    OBVIOUS
  <2>1. PICK h \in Txns : n \in LeftOf(R, h)
    BY <1>2 DEF Pend
  <2>2. n \in Own[h] /\ td[h].status # "none"
    BY <1>1, <2>1, LeftInside
  <2>3. n >= c /\ n \in Nat
    BY <1>1, <1>4, <2>2, WriteTypes DEF Over
  <2> QED BY <2>3
<1>6. \A k \in Writes : ItemOf[k] = ItemOf[n] => k = n
  <2>1. \A k, m \in Writes : k < m => ItemOf[k] < ItemOf[m]
    BY <1>1 DEF Owners
  <2>2. \A k \in Writes : k \in Nat /\ ItemOf[k] \in Nat
    BY <1>1, WriteTypes
  <2>3. ASSUME NEW k \in Writes, ItemOf[k] = ItemOf[n] PROVE k = n
    <3>1. ~(k < n) /\ ~(n < k)
      BY <1>4, <2>1, <2>2, <2>3
    <3>2. k \in Nat /\ n \in Nat
      BY <1>4, <2>2
    <3> QED BY <3>1, <3>2
  <2> QED BY <2>3
<1>7. n \in Com => n \in C
  BY <1>2
<1> QED BY <1>2, <1>3, <1>4, <1>5, <1>6, <1>7

\* So has one in the files that is not dirty.
LEMMA CleanInFile ==
    ASSUME NEW R, IInv(R), NEW c \in Nat, Over(c), NEW p \in Pages, disk[p] = mem[p]
    PROVE  InFile(c, p)
BY InCache DEF InFile

\* A page is written.
LEMMA WritePageOK ==
    ASSUME NEW R, IInv(R), NEW p \in Pages, WritePage(p)
    PROVE  \E S : IInv(S)'
<1>1. Basic /\ Chains(R) /\ Cached(R) /\ Checkpointed
  BY DEF IInv
<1>2. /\ log' = log /\ disk' = [disk EXCEPT ![p] = mem[p]] /\ dirty' = dirty \ {p}
      /\ ckp' = [ckp EXCEPT !.todo = @ \ {p}]
  BY DEF WritePage
<1>3. Still
  BY DEF WritePage, Still, idVars
<1>4. Longer(R, R) /\ log' \in Seq(Records)
  BY <1>1, <1>2, NotLonger DEF Basic
<1>5. /\ Basic' /\ Chains(R)' /\ Tree' /\ Outcomes' /\ Owners(R)' /\ Begun' /\ Locked'
      /\ Ordered' /\ Undoing(R)' /\ Cached(R)'
      /\ Own' = Own /\ Com' = Com
  BY <1>3, <1>4, StillKept
<1>6. /\ disk'[p] = mem[p] /\ \A q \in Pages \ {p} : disk'[q] = disk[q]
      /\ disk' \in [Pages -> [lsn : Nat, val : Seq(Nat)]]
  BY <1>1, <1>2 DEF Cached, Checkpointed
<1>7. /\ ckp'.step = ckp.step /\ ckp'.lsn = ckp.lsn /\ ckp'.todo = ckp.todo \ {p}
      /\ ckp' = [step |-> ckp'.step, lsn |-> ckp'.lsn, todo |-> ckp'.todo, owed |-> ckp'.owed]
  <2>1. ckp = [step |-> ckp.step, lsn |-> ckp.lsn, todo |-> ckp.todo, owed |-> ckp.owed]
    BY <1>1 DEF Checkpointed
  <2> QED BY <1>2, <2>1
<1>8. td' = td /\ mem' = mem
  BY <1>3 DEF Still
<1>9. /\ ItemOf' = ItemOf /\ NextLsn' = NextLsn /\ FirstLsn(log') = FirstLsn(log)
      /\ \A q : On(q)' = On(q)
  BY <1>2, SameLog
<1>10. ASSUME NEW c \in Nat, Over(c) PROVE Over(c)'
  BY <1>5, <1>8, <1>10 DEF Over
<1>11. ASSUME NEW c \in Nat, Over(c), NEW q \in Pages, q = p \/ InFile(c, q)
       PROVE  InFile(c, q)'
  <2> SUFFICES ASSUME NEW n \in On(q), n < c
               PROVE  ItemOf[n] \in ToSet(disk'[q].val) <=> n \in Com
    BY <1>5, <1>9 DEF InFile
  <2>1. CASE q = p
    BY <1>6, <1>11, <2>1, InCache
  <2>2. CASE q # p
    BY <1>6, <1>11, <2>2 DEF InFile
  <2> QED BY <2>1, <2>2
<1>12. PICK f \in Nat : f = FirstLsn(log) /\ f <= NextLsn
  BY <1>1 DEF Checkpointed
<1>13. Over(f)' /\ \A q \in Pages : InFile(f, q)'
  <2>1. Over(f) /\ \A q \in Pages : InFile(f, q)
    BY <1>1, <1>12 DEF Checkpointed
  <2> QED BY <1>10, <1>11, <2>1
<1>14. PICK c \in Nat : c = ckp.lsn
  BY <1>1 DEF Checkpointed
<1>15. ckp.step = "sync" => Over(c)' /\ \A q \in Pages \ (ckp.todo \ {p}) : InFile(c, q)'
  <2>1. ckp.step = "sync" => Over(c) /\ \A q \in Pages \ ckp.todo : InFile(c, q)
    BY <1>1, <1>14 DEF Checkpointed
  <2> QED BY <1>10, <1>11, <2>1
<1>16. dirty' \subseteq Pages /\ \A q \in Pages : q \notin dirty' => disk'[q] = mem'[q]
  BY <1>1, <1>2, <1>6, <1>8 DEF Checkpointed
<1>17. Over(FirstLsn(log))' /\ \A q \in Pages : InFile(FirstLsn(log), q)'
  BY <1>9, <1>12, <1>13 DEF Over, InFile
<1>18. ckp'.step = "sync" => Over(ckp.lsn)' /\ \A q \in Pages \ ckp'.todo : InFile(ckp.lsn, q)'
  BY <1>7, <1>14, <1>15 DEF Over, InFile
<1>19. /\ ckp'.step \in {"idle", "lsn", "sync"} /\ ckp'.lsn \in Nat
       /\ ckp'.step # "idle" => ckp'.lsn <= Len(log')
  BY <1>1, <1>2, <1>7 DEF Checkpointed
<1>20. Checkpointed'
  BY <1>6, <1>7, <1>9, <1>12, <1>16, <1>17, <1>18, <1>19 DEF Checkpointed
<1> QED BY <1>5, <1>20 DEF IInv

\* The LSN of the last checkpoint becomes f, and the checkpoint in progress is
\* at step k with the LSN c and the pages T to write.
CkpGoes(f, k, c, T, x) ==
    /\ disk' = disk /\ dirty' = dirty
    /\ f \in Nat /\ FirstLsn(log') = f /\ f <= NextLsn'
    /\ Over(f) /\ \A p \in Pages : InFile(f, p)
    /\ k \in {"idle", "lsn", "sync"} /\ c \in Nat
    /\ ckp' = [step |-> k, lsn |-> c, todo |-> T, owed |-> x]
    /\ k # "idle" => c <= Len(log')
    /\ k = "sync" => Over(c) /\ \A p \in Pages \ T : InFile(c, p)

\* Such a step of a checkpoint keeps the invariant.
LEMMA CkpGoesOK ==
    ASSUME NEW R, IInv(R), NEW S, Longer(R, S), log' \in Seq(Records), Still,
           NEW f, NEW k, NEW c, NEW T, NEW x, CkpGoes(f, k, c, T, x)
    PROVE  IInv(S)'
<1>1. Basic /\ Cached(R) /\ Checkpointed
  BY DEF IInv
<1>2. /\ Basic' /\ Chains(S)' /\ Tree' /\ Outcomes' /\ Owners(S)' /\ Begun' /\ Locked'
      /\ Ordered' /\ Undoing(S)' /\ Cached(S)'
      /\ Own' = Own /\ Com' = Com
  BY StillKept
<1>3. td' = td /\ mem' = mem
  BY DEF Still
<1>4. ItemOf' = ItemOf /\ \A p : On(p)' = On(p)
  BY DEF Longer
<1>5. /\ disk' = disk /\ dirty' = dirty /\ f \in Nat /\ FirstLsn(log') = f /\ f <= NextLsn'
      /\ k \in {"idle", "lsn", "sync"} /\ c \in Nat
      /\ ckp' = [step |-> k, lsn |-> c, todo |-> T, owed |-> x]
      /\ k # "idle" => c <= Len(log')
  BY DEF CkpGoes
<1>6. ASSUME NEW m, Over(m) PROVE Over(m)'
  BY <1>2, <1>3, <1>6 DEF Over
<1>7. ASSUME NEW m, NEW p \in Pages, InFile(m, p) PROVE InFile(m, p)'
  BY <1>2, <1>4, <1>5, <1>7 DEF InFile
<1>8. Over(f)' /\ \A p \in Pages : InFile(f, p)'
  BY <1>6, <1>7 DEF CkpGoes
<1>9. k = "sync" => Over(c)' /\ \A p \in Pages \ T : InFile(c, p)'
  BY <1>6, <1>7 DEF CkpGoes
<1>10. Over(FirstLsn(log))' /\ \A p \in Pages : InFile(FirstLsn(log), p)'
  BY <1>5, <1>8 DEF Over, InFile
<1>11. ckp'.step = k /\ ckp'.lsn = c /\ ckp'.todo = T /\ ckp'.owed = x
  BY <1>5
<1>12. ckp'.step = "sync" => Over(ckp.lsn)' /\ \A p \in Pages \ ckp'.todo : InFile(ckp.lsn, p)'
  BY <1>9, <1>11 DEF Over, InFile
<1>13. /\ dirty' \subseteq Pages /\ disk' \in [Pages -> [lsn : Nat, val : Seq(Nat)]]
       /\ \A p \in Pages : p \notin dirty' => disk'[p] = mem'[p]
  BY <1>1, <1>3, <1>5 DEF Checkpointed
<1>14. ckp' = [step |-> ckp'.step, lsn |-> ckp'.lsn, todo |-> ckp'.todo, owed |-> ckp'.owed]
  BY <1>5, <1>11
<1>15. Checkpointed'
  BY <1>5, <1>10, <1>11, <1>12, <1>13, <1>14 DEF Checkpointed
<1> QED BY <1>2, <1>15 DEF IInv

\* A checkpoint begins.
LEMMA CkpStartOK ==
    ASSUME NEW R, IInv(R), CkpStart
    PROVE  \E S : IInv(S)'
<1>1. Basic /\ Chains(R) /\ Checkpointed
  BY DEF IInv
<1>2. /\ log' = log /\ disk' = disk /\ dirty' = dirty
      /\ ckp' = [ckp EXCEPT !.step = "lsn", !.lsn = Len(log), !.owed = FALSE]
  BY DEF CkpStart, logVars, cacheVars
<1>3. Still
  BY DEF CkpStart, Still, logVars, cacheVars, idVars
<1>4. Longer(R, R) /\ log' \in Seq(Records) /\ Len(log) \in Nat
  BY <1>1, <1>2, NotLonger, WriteTypes DEF Basic
<1>5. FirstLsn(log') = FirstLsn(log) /\ NextLsn' = NextLsn /\ Len(log') = Len(log)
  BY <1>2, SameLog
<1>6. ckp' = [step |-> "lsn", lsn |-> Len(log), todo |-> ckp.todo, owed |-> FALSE]
  <2>1. ckp = [step |-> ckp.step, lsn |-> ckp.lsn, todo |-> ckp.todo, owed |-> ckp.owed]
    BY <1>1 DEF Checkpointed
  <2> QED BY <1>2, <2>1
<1>7. CkpGoes(FirstLsn(log), "lsn", Len(log), ckp.todo, FALSE)
  <2>1. Len(log) <= Len(log')
    BY <1>4, <1>5
  <2> QED BY <1>1, <1>2, <1>4, <1>5, <1>6, <2>1 DEF CkpGoes, Checkpointed
<1>8. IInv(R)'
  BY <1>3, <1>4, <1>7, CkpGoesOK
<1> QED BY <1>8

\* The least begin_lsn is not after any write of an active transaction.
LEMMA OldestOver ==
    ASSUME NEW R, IInv(R), NEW lsn \in Nat
    PROVE  OldestActive(lsn) \in Nat /\ OldestActive(lsn) <= lsn /\ Over(OldestActive(lsn))
<1>1. Basic /\ Tree /\ Begun
  BY DEF IInv
<1>2. PICK T : T = {lsn} \cup {td[h].begin : h \in {a \in Active : td[a].begin # ZeroLsn}}
  OBVIOUS
<1>3. T \subseteq Nat /\ lsn \in T
  <2>1. \A h \in Active : td[h].begin \in Nat
    BY <1>1, DetailFacts DEF Active
  <2> QED BY <1>2, <2>1
<1>4. Min(T) \in T /\ \A y \in T : Min(T) <= y
  BY <1>3, MinNat
<1>5. PICK c : c = OldestActive(lsn)
  OBVIOUS
<1>6. c \in Nat /\ c <= lsn /\ \A y \in T : c <= y
  <2>1. c = Min(T)
    BY <1>2, <1>5 DEF OldestActive
  <2> QED BY <1>3, <1>4, <2>1
<1>7. ASSUME NEW h \in Txns, td[h].status # "none", NEW n \in Own[h] PROVE n >= c
  <2>1. PICK a : a = Top(h)
    OBVIOUS
  <2>2. a \in Lineage[h] /\ td[a].parent = NoTxn /\ a \in Txns /\ td[a].status # "none"
    BY <1>1, <1>7, <2>1, TopActive, LineageFacts
  <2>3. td[a].begin # ZeroLsn /\ td[a].begin <= n
    BY <1>1, <1>7, <2>2 DEF Begun
  <2>4. td[a].begin \in T
    BY <1>2, <2>2, <2>3 DEF Active
  <2>5. c <= td[a].begin /\ td[a].begin \in Nat
    BY <1>3, <1>6, <2>4
  <2>6. n \in Nat
    <3>1. n \in Writes
      BY DEF Own
    <3> QED BY <1>1, <3>1, WriteTypes
  <2> QED BY <1>6, <2>3, <2>5, <2>6
<1> QED BY <1>5, <1>6, <1>7 DEF Over

\* It takes that one, and the dirty pages.
LEMMA CkpActiveOK ==
    ASSUME NEW R, IInv(R), CkpActive
    PROVE  \E S : IInv(S)'
<1>1. Basic /\ Chains(R) /\ Checkpointed
  BY DEF IInv
<1>2. PICK c : c = OldestActive(ckp.lsn)
  OBVIOUS
<1>3. /\ log' = log /\ disk' = disk /\ dirty' = dirty /\ ckp.step = "lsn"
      /\ ckp' = [ckp EXCEPT !.step = "sync", !.lsn = c, !.todo = dirty]
  BY <1>2 DEF CkpActive, logVars, cacheVars
<1>4. Still
  BY DEF CkpActive, Still, logVars, cacheVars, idVars, boundVars
<1>5. Longer(R, R) /\ log' \in Seq(Records) /\ Len(log) \in Nat
  BY <1>1, <1>3, NotLonger, WriteTypes DEF Basic
<1>6. FirstLsn(log') = FirstLsn(log) /\ NextLsn' = NextLsn /\ Len(log') = Len(log)
  BY <1>3, SameLog
<1>7. ckp' = [step |-> "sync", lsn |-> c, todo |-> dirty, owed |-> ckp.owed]
  <2>1. ckp = [step |-> ckp.step, lsn |-> ckp.lsn, todo |-> ckp.todo, owed |-> ckp.owed]
    BY <1>1 DEF Checkpointed
  <2> QED BY <1>3, <2>1
<1>8. ckp.lsn \in Nat /\ ckp.lsn <= Len(log)
  BY <1>1, <1>3 DEF Checkpointed
<1>9. c \in Nat /\ c <= ckp.lsn /\ Over(c)
  BY <1>2, <1>8, OldestOver
<1>10. \A p \in Pages \ dirty : InFile(c, p)
  BY <1>1, <1>9, CleanInFile DEF Checkpointed
<1>11. CkpGoes(FirstLsn(log), "sync", c, dirty, ckp.owed)
  <2>1. c <= Len(log')
    BY <1>5, <1>6, <1>8, <1>9
  <2> QED BY <1>1, <1>3, <1>6, <1>7, <1>9, <1>10, <2>1 DEF CkpGoes, Checkpointed
<1>12. IInv(R)'
  BY <1>4, <1>5, <1>11, CkpGoesOK
<1> QED BY <1>12

\* It is logged when they are all written.
LEMMA CkpRecordOK ==
    ASSUME NEW R, IInv(R), CkpRecord
    PROVE  \E S : IInv(S)'
<1>1. Basic /\ Chains(R) /\ Checkpointed
  BY DEF IInv
<1>2. PICK c, r : c = ckp.lsn /\ r = CkpRec(c)
  OBVIOUS
<1>3. /\ log' = Append(log, r) /\ said' = Told(said, r) /\ disk' = disk /\ dirty' = dirty
      /\ ckp.step = "sync" /\ ckp.todo = {} /\ ckp' = [NoCkp EXCEPT !.owed = ckp.owed]
  BY <1>2 DEF CkpRecord, PutLog, cacheVars
<1>4. c \in Nat /\ c <= Len(log) /\ Over(c) /\ \A p \in Pages : InFile(c, p)
  BY <1>1, <1>2, <1>3 DEF Checkpointed
<1>5. r \in Records /\ r.type = "ckp" /\ r.lsn = c
  BY <1>2, <1>4 DEF CkpRec, Records
<1>6. Still
  <2>1. said' = said
    BY <1>3, <1>5 DEF Told
  <2> QED BY <2>1 DEF CkpRecord, Still, cacheVars, idVars, boundVars
<1>7. /\ log' \in Seq(Records) /\ Len(log') = Len(log) + 1 /\ Len(log) \in Nat
      /\ FirstLsn(log') = c
  BY <1>1, <1>3, <1>5, AppendedLog
<1>8. PICK S : Longer(R, S)
  BY <1>1, <1>3, <1>5, OneLonger
<1>9. ckp' = [step |-> "idle", lsn |-> ZeroLsn, todo |-> {}, owed |-> ckp.owed]
  BY <1>3 DEF NoCkp
<1>10. CkpGoes(c, "idle", ZeroLsn, {}, ckp.owed)
  <2>1. c <= NextLsn'
    BY <1>4, <1>7 DEF NextLsn
  <2> QED BY <1>3, <1>4, <1>7, <1>9, <2>1 DEF CkpGoes, ZeroLsn
<1>11. IInv(S)'
  BY <1>6, <1>7, <1>8, <1>10, CkpGoesOK
<1> QED BY <1>11

-----------------------------------------------------------------------------
(* All steps.                                                              *)

\* Nothing happens.
LEMMA NothingOK ==
    ASSUME NEW R, IInv(R), UNCHANGED vars
    PROVE  \E S : IInv(S)'
<1>1. Basic /\ Chains(R) /\ Checkpointed
  BY DEF IInv
<1>2. log' = log /\ disk' = disk /\ dirty' = dirty /\ ckp' = ckp
  BY DEF vars, logVars, cacheVars
<1>3. Still
  BY DEF vars, Still, logVars, cacheVars, idVars, boundVars
<1>4. Longer(R, R) /\ log' \in Seq(Records)
  BY <1>1, <1>2, NotLonger DEF Basic
<1>5. FirstLsn(log') = FirstLsn(log) /\ NextLsn' = NextLsn /\ Len(log') = Len(log)
  BY <1>2, SameLog
<1>6. CkpGoes(FirstLsn(log), ckp.step, ckp.lsn, ckp.todo, ckp.owed)
  BY <1>1, <1>2, <1>5 DEF CkpGoes, Checkpointed
<1>7. IInv(R)'
  BY <1>3, <1>4, <1>6, CkpGoesOK
<1> QED BY <1>7

\* Any step but a crash or one of recovery.
LEMMA TxnOK ==
    ASSUME NEW R, IInv(R), NEW h \in Txns, Txn(h)
    PROVE  \E S : IInv(S)'
<1>1. CASE \E parent \in Active \cup {NoTxn} : Begin(h, parent)
  BY <1>1, BeginOK
<1>2. CASE \E p \in Pages : Write(h, p)
  BY <1>2, WriteOK
<1>3. CASE Commit(h)
  BY <1>3, CommitEndOK, EndUnloggedOK, ChildCommitOK, CommitPutOK DEF Commit
<1>4. CASE Abort(h)
  BY <1>4, AbortStartOK, UndoStepOK, AbortEndOK DEF Abort
<1>5. CASE Prepare(h)
  BY <1>5, PrepareOK
<1> QED BY <1>1, <1>2, <1>3, <1>4, <1>5 DEF Txn

\* Only a crash counts as one.
LEMMA CrashesCounted ==
    ASSUME crashes \in Nat, [Next]_vars
    PROVE  crashes' = crashes \/ (crashes' = crashes + 1 /\ \E k : Crash(k))
<1>1. ASSUME NEW h \in Txns, Txn(h) PROVE crashes' = crashes
  <2>1. ASSUME NEW parent, Begin(h, parent) PROVE crashes' = crashes
    BY <2>1 DEF Begin, boundVars
  <2>2. ASSUME NEW p, Write(h, p) PROVE crashes' = crashes
    BY <2>2 DEF Write
  <2>3. CASE Commit(h)
    BY <2>3 DEF Commit, CommitEnd, EndUnlogged, ChildCommit, CommitPut, boundVars
  <2>4. CASE Abort(h)
    BY <2>4 DEF Abort, AbortStart, UndoStep, AbortEnd, boundVars
  <2>5. CASE Prepare(h)
    BY <2>5 DEF Prepare, boundVars
  <2> QED BY <1>1, <2>1, <2>2, <2>3, <2>4, <2>5 DEF Txn
<1>2. ASSUME Checkpoint PROVE crashes' = crashes
  BY <1>2 DEF Checkpoint, CkpStart, CkpActive, CkpRecord, boundVars
<1>3. ASSUME NEW p \in Pages, Sync(p) \/ Evict(p) PROVE crashes' = crashes
  BY <1>3 DEF Sync, Evict, WritePage
<1>4. ASSUME Recovery PROVE crashes' = crashes
  BY <1>4 DEF Recovery, Backward, Forward, Finish, boundVars
<1>5. ASSUME NEW k, Crash(k) PROVE crashes' = crashes + 1
  BY <1>5 DEF Crash
<1>6. CASE UNCHANGED vars
  BY <1>6 DEF vars, boundVars
<1> QED BY <1>1, <1>2, <1>3, <1>4, <1>5, <1>6 DEF Next, Step, Rest

\* Every step keeps the invariant, until the first crash and after it.
LEMMA NextInv == Inv /\ [Next]_vars => Inv'
<1> SUFFICES ASSUME Inv, [Next]_vars PROVE Inv'
  OBVIOUS
<1>1. crashes \in Nat
  BY DEF Inv
<1>2. crashes' \in Nat /\ (crashes' = 0 => crashes = 0 /\ ~ \E k : Crash(k))
  <2>1. crashes' = crashes \/ crashes' = crashes + 1
    BY <1>1, CrashesCounted
  <2>2. ASSUME crashes' = 0, NEW k, Crash(k) PROVE FALSE
    BY <1>1, <2>2 DEF Crash
  <2> QED BY <1>1, <2>1, <2>2
<1>3. ASSUME crashes' = 0 PROVE \E S : IInv(S)'
  <2>1. PICK R : IInv(R)
    BY <1>2, <1>3 DEF Inv
  <2>2. phase = "up"
    BY <2>1 DEF IInv, Basic
  <2>3. ~Recovery
    BY <2>2 DEF Recovery, Backward, Forward, Finish
  <2>4. ASSUME NEW h \in Txns, Txn(h) PROVE \E S : IInv(S)'
    BY <2>1, <2>4, TxnOK
  <2>5. ASSUME Checkpoint PROVE \E S : IInv(S)'
    BY <2>1, <2>5, CkpStartOK, CkpActiveOK, CkpRecordOK DEF Checkpoint
  <2>6. ASSUME NEW p \in Pages, Sync(p) \/ Evict(p) PROVE \E S : IInv(S)'
    <3>1. WritePage(p)
      BY <2>6 DEF Sync, Evict
    <3> QED BY <2>1, <3>1, WritePageOK
  <2>7. ASSUME UNCHANGED vars PROVE \E S : IInv(S)'
    BY <2>1, <2>7, NothingOK
  <2> QED BY <1>2, <1>3, <2>3, <2>4, <2>5, <2>6, <2>7 DEF Next, Step, Rest
<1> QED BY <1>2, <1>3 DEF Inv

\* The invariant holds in a fresh environment.
LEMMA InitInv == Init => Inv
<1> SUFFICES ASSUME Init PROVE IInv([i \in 0 .. 0 |-> {}])
  BY DEF Inv, Init
<1>1. PICK R : R = [i \in 0 .. 0 |-> {}]
  OBVIOUS
<1>2. Len(log) = 0 /\ log = <<>> /\ DOMAIN log = {} /\ 1 .. Len(log) = {}
  BY DEF Init
<1>3. Writes = {} /\ Places = {0} /\ NextLsn = 1 /\ \A p : On(p) = {}
  BY <1>2 DEF Writes, Places, NextLsn, ZeroLsn, On
<1>4. \A h \in Txns : td[h] = NoTd
  BY DEF Init
<1>5. Basic
  BY TxnAssumption DEF Init, Basic
<1>6. Chains(R)
  BY <1>1, <1>2 DEF Chains
<1>7. Tree
  <2>1. NoTd \in Details
    BY TxnAssumption DEF NoTd, Details, Statuses, NoTxn, ZeroLsn
  <2>2. td \in [Txns -> Details] /\ born = 0
    BY <2>1 DEF Init
  <2>3. \A h \in Txns : TreeOf(h)
    BY <1>2, <1>3, <1>4, TxnAssumption DEF TreeOf, NoTd, Txns, NoTxn, ZeroLsn
  <2> QED BY <2>2, <2>3, TxnAssumption DEF Tree
<1>8. said = Told0 /\ said.puts = [h \in Txns |-> Nothing] /\ said.voted = {}
      /\ said.order = <<>> /\ said.aborted = {} /\ ToSet(said.order) = {}
  BY DEF Init, Told0, ToSet
<1>9. Outcomes
  BY <1>4, <1>8 DEF Outcomes, NoTd
<1>10. \A h \in Txns : Own[h] = {}
  BY <1>3 DEF Own
<1>11. Owners(R)
  <2>1. Nothing \in [Pages -> Seq(Nat)] /\ \A p \in Pages : ToSet(Nothing[p]) = {}
    BY DEF Nothing, ToSet
  <2>2. said \in [puts : [Txns -> [Pages -> Seq(Nat)]], voted : SUBSET Txns,
                  order : Seq(Txns), aborted : SUBSET Txns]
    BY <1>8, <2>1 DEF Told0
  <2>3. \A h \in Txns : said.puts[h] = Nothing
    BY <1>8
  <2> QED BY <1>3, <1>4, <1>10, <2>1, <2>2, <2>3 DEF Owners, NoTd
<1>12. Begun /\ Ordered /\ Undoing(R)
  BY <1>4 DEF Begun, Ordered, Undoing, NoTd
<1>13. Locked
  BY <1>4 DEF Init, Locked, NoTd
<1>14. mem = [p \in Pages |-> [lsn |-> 0, val |-> <<>>]] /\ disk = mem /\ dirty = {}
  BY DEF Init, ZeroLsn
<1>15. Cached(R)
  <2>1. \A p \in Pages : mem[p] = [lsn |-> 0, val |-> <<>>]
    BY <1>14
  <2>2. mem \in [Pages -> [lsn : Nat, val : Seq(Nat)]]
    BY <1>14
  <2>3. ToSet(<<>>) = {} /\ Increasing(<<>>)
    BY DEF ToSet, Increasing
  <2>4. ASSUME NEW P, NEW C, P = {}, C = {}, NEW p \in Pages
        PROVE  PageOK(ItemOf, PrevOf, P, C, mem[p])
    BY <2>1, <2>2, <2>3, <2>4 DEF PageOK
  <2>5. \A p \in Pages : Pend(R) \cap On(p) = {} /\ Com \cap On(p) = {}
    BY <1>3
  <2> QED BY <2>2, <2>4, <2>5 DEF Cached
<1>16. Checkpointed
  <2>1. FirstLsn(log) = 1
    <3>1. PICK I : I = {i \in 1 .. 0 : log[i].type = "ckp"}
      OBVIOUS
    <3>2. I = {}
      BY <3>1
    <3>3. Len(log) = 0 /\ Len(log) \in Nat
      BY <1>2
    <3>4. I = {i \in 1 .. Len(log) : log[i].type = "ckp"}
      BY <3>1, <3>3
    <3>5. FirstLsn(log) = IF I = {} THEN 1 ELSE log[Max(I)].lsn
      BY <3>3, <3>4, FirstLsnIs
    <3> QED BY <3>2, <3>5
  <2>2. ckp = [step |-> "idle", lsn |-> 0, todo |-> {}, owed |-> FALSE]
    BY DEF Init, NoCkp, ZeroLsn
  <2>3. disk \in [Pages -> [lsn : Nat, val : Seq(Nat)]]
    BY <1>14
  <2>4. Over(1) /\ \A p \in Pages : InFile(1, p)
    BY <1>3, <1>10 DEF Over, InFile
  <2> QED BY <1>3, <1>14, <2>1, <2>2, <2>3, <2>4 DEF Checkpointed
<1> QED BY <1>1, <1>5, <1>6, <1>7, <1>9, <1>11, <1>12, <1>13, <1>15, <1>16 DEF IInv

-----------------------------------------------------------------------------
(* The theorems.                                                           *)

\* The invariant holds until the first crash.
THEOREM Invariant == Spec => []Inv
<1>1. Init => Inv
  BY InitInv
<1>2. Inv /\ [Next]_vars => Inv'
  BY NextInv
<1> QED BY <1>1, <1>2, PTL DEF Spec

\* No abort finds a page that somebody else changed (CHECK_ABORT in
\* __db_addrem_recover), whoever is nested in whom and whatever was evicted.
THEOREM AbortsCorrect == Spec => [](crashes = 0 => NoError)
<1>1. Inv => (crashes = 0 => NoError)
  BY DEF Inv, IInv, Basic, NoError
<1> QED BY <1>1, Invariant, PTL

\* Who is in progress is on the list of active transactions.
LEMMA ActiveProgress ==
    ASSUME Outcomes, NEW h \in InProgress
    PROVE  h \in Txns /\ td[h].status # "none"
BY DEF InProgress, OutcomeOf, Outcomes

\* A transaction that may still abort has a write lock on each page it changed.
THEOREM LocksKept == Spec => [](crashes = 0 => LocksCover)
<1>1. ASSUME NEW R, IInv(R) PROVE LocksCover
  <2>1. Outcomes /\ Locked
    BY <1>1 DEF IInv
  <2> SUFFICES ASSUME NEW h \in InProgress, NEW p \in Pages, Puts[h][p] # <<>>
               PROVE  h \in locks[p]
    BY DEF LocksCover
  <2>2. h \in Txns /\ td[h].status # "none"
    BY <2>1, ActiveProgress
  <2>3. said.puts[h][p] # <<>>
    BY <2>2 DEF Puts, Nothing
  <2> QED BY <2>1, <2>2, <2>3 DEF Locked
<1>2. Inv => (crashes = 0 => LocksCover)
  BY <1>1 DEF Inv
<1> QED BY <1>2, Invariant, PTL

\* Of the writes before the LSN of the last checkpoint, those of committed
\* transactions are in the files, and no others.
THEOREM CheckpointsCover == Spec => [](crashes = 0 => CkpCovers)
<1>1. ASSUME NEW R, IInv(R) PROVE CkpCovers
  <2>1. Basic /\ Outcomes /\ Checkpointed
    BY <1>1 DEF IInv
  <2>2. PICK f \in Nat : /\ f = FirstLsn(log) /\ f <= NextLsn /\ Over(f)
                         /\ \A p \in Pages : InFile(f, p)
    BY <2>1 DEF Checkpointed
  <2>3. Len(log) \in Nat /\ NextLsn = Len(log) + 1
    BY <2>1, WriteTypes DEF NextLsn
  <2>4. ASSUME NEW i \in 1 .. f - 1, log[i].type = "write"
        PROVE  /\ log[i].item \notin ItemsOf(InProgress, log[i].page)
               /\ (log[i].item \in ToSet(disk[log[i].page].val))
                      = (log[i].item \in ItemsOf(ToSet(said.order), log[i].page))
    <3>1. i \in Writes /\ i < f /\ i \in Nat
      BY <2>2, <2>3, <2>4 DEF Writes
    <3>2. PICK p : p = log[i].page
      OBVIOUS
    <3>3. ItemOf[i] = log[i].item /\ PageOf[i] = p /\ p \in Pages /\ i \in On(p)
      BY <2>1, <3>1, <3>2, WriteTypes DEF ItemOf, PageOf, On
    <3>4. \A h \in Txns : i \in Own[h] <=> log[i].item \in ToSet(said.puts[h][p])
      BY <3>1, <3>3 DEF Own
    <3>5. log[i].item \notin ItemsOf(InProgress, p)
      <4> SUFFICES ASSUME NEW h \in InProgress, log[i].item \in ToSet(said.puts[h][p])
                   PROVE  FALSE
        BY DEF ItemsOf
      <4>1. h \in Txns /\ td[h].status # "none"
        BY <2>1, ActiveProgress
      <4>2. i >= f
        BY <2>2, <3>4, <4>1 DEF Over
      <4> QED BY <3>1, <4>2
    <3>6. log[i].item \in ItemsOf(ToSet(said.order), p) <=> i \in Com
      <4>1. ToSet(said.order) \subseteq Txns
        <5>1. Owners(R)
          BY <1>1 DEF IInv
        <5>2. said.order \in Seq(Txns)
          BY <5>1 DEF Owners
        <5> QED BY <5>2 DEF ToSet
      <4> QED BY <3>4, <4>1 DEF ItemsOf, Com
    <3>7. log[i].item \in ToSet(disk[p].val) <=> i \in Com
      BY <2>2, <3>1, <3>3 DEF InFile
    <3> QED BY <3>2, <3>5, <3>6, <3>7
  <2> QED BY <2>2, <2>4 DEF CkpCovers
<1>2. Inv => (crashes = 0 => CkpCovers)
  BY <1>1 DEF Inv
<1> QED BY <1>2, Invariant, PTL

-----------------------------------------------------------------------------
(* The store: sequences of numbers that increase.                          *)

\* An increasing sequence begins like each other one with its members.
LEMMA SameBeginning ==
    ASSUME NEW s \in Seq(Nat), Increasing(s), NEW t \in Seq(Nat), Increasing(t),
           ToSet(s) = ToSet(t)
    PROVE  \A n \in 1 .. Len(s) : n <= Len(t) /\ s[n] = t[n]
<1>1. /\ Len(s) \in Nat /\ DOMAIN s = 1 .. Len(s) /\ \A i \in 1 .. Len(s) : s[i] \in Nat
      /\ Len(t) \in Nat /\ DOMAIN t = 1 .. Len(t) /\ \A i \in 1 .. Len(t) : t[i] \in Nat
  OBVIOUS
<1>2. /\ \A i \in 1 .. Len(s) : \E j \in 1 .. Len(t) : t[j] = s[i]
      /\ \A j \in 1 .. Len(t) : \E i \in 1 .. Len(s) : s[i] = t[j]
  BY <1>1 DEF ToSet
<1>3. /\ \A i, j \in 1 .. Len(s) : i < j => s[i] < s[j]
      /\ \A i, j \in 1 .. Len(t) : i < j => t[i] < t[j]
  BY <1>1 DEF Increasing
<1> DEFINE S == {n \in 1 .. Len(s) : n <= Len(t) /\ s[n] = t[n]}
<1>4. ASSUME NEW n \in 1 .. Len(s), \A m \in 1 .. n - 1 : m \in S
      PROVE  n \in S
  <2>1. PICK j \in 1 .. Len(t) : t[j] = s[n]
    BY <1>2
  <2>2. j >= n
    <3> SUFFICES ASSUME j < n PROVE FALSE
      BY <1>1
    <3>1. j \in S /\ j \in 1 .. Len(s)
      BY <1>4, <1>1
    <3>2. s[j] < s[n] /\ s[j] = t[j]
      BY <1>3, <3>1
    <3> QED BY <1>1, <2>1, <3>1, <3>2
  <2>3. n \in 1 .. Len(t) /\ t[n] <= s[n]
    <3>1. n \in 1 .. Len(t)
      BY <1>1, <2>2
    <3>2. n < j => t[n] < t[j]
      BY <1>3, <3>1
    <3> QED BY <1>1, <2>1, <2>2, <3>1, <3>2
  <2>4. PICK i \in 1 .. Len(s) : s[i] = t[n]
    BY <1>2, <2>3
  <2>5. i >= n
    <3> SUFFICES ASSUME i < n PROVE FALSE
      BY <1>1
    <3>1. i \in S /\ i \in 1 .. Len(t)
      BY <1>4, <1>1
    <3>2. t[i] < t[n] /\ s[i] = t[i]
      BY <1>3, <2>3, <3>1
    <3> QED BY <1>1, <2>3, <2>4, <3>1, <3>2
  <2>6. s[n] <= t[n]
    <3>1. n < i => s[n] < s[i]
      BY <1>3
    <3> QED BY <1>1, <2>4, <2>5, <3>1
  <2> QED BY <1>1, <2>3, <2>6
<1>5. \A n \in 1 .. Len(s) : n \in S
  <2> HIDE DEF S
  <2> QED BY <1>1, <1>4, UpTo
<1> QED BY <1>5

\* So there is one with those members.
LEMMA SameIncreasing ==
    ASSUME NEW s \in Seq(Nat), Increasing(s), NEW t \in Seq(Nat), Increasing(t),
           ToSet(s) = ToSet(t)
    PROVE  s = t
<1>1. \A n \in 1 .. Len(s) : n <= Len(t) /\ s[n] = t[n]
  BY SameBeginning
<1>2. \A n \in 1 .. Len(t) : n <= Len(s) /\ t[n] = s[n]
  BY SameBeginning
<1>3. Len(s) \in Nat /\ Len(t) \in Nat
  OBVIOUS
<1>4. Len(s) = Len(t)
  <2>1. Len(s) # 0 => Len(s) \in 1 .. Len(s)
    BY <1>3
  <2>2. Len(t) # 0 => Len(t) \in 1 .. Len(t)
    BY <1>3
  <2>3. Len(s) <= Len(t)
    BY <1>1, <1>3, <2>1
  <2>4. Len(t) <= Len(s)
    BY <1>2, <1>3, <2>2
  <2> QED BY <1>3, <2>3, <2>4
<1> QED BY <1>1, <1>4

\* Two of them, the second beginning where the first ends.
LEMMA JoinedIncreasing ==
    ASSUME NEW s \in Seq(Nat), Increasing(s), NEW t \in Seq(Nat), Increasing(t),
           \A x \in ToSet(s), y \in ToSet(t) : x < y
    PROVE  Increasing(s \o t)
<1> DEFINE u == s \o t
<1>1. PICK m \in Nat, n \in Nat : m = Len(s) /\ n = Len(t)
  OBVIOUS
<1>2. /\ DOMAIN u = 1 .. m + n /\ DOMAIN s = 1 .. m /\ DOMAIN t = 1 .. n
      /\ \A i \in 1 .. m : u[i] = s[i]
      /\ \A i \in m + 1 .. m + n : u[i] = t[i - m]
  BY <1>1
<1> HIDE DEF u
<1>3. SUFFICES ASSUME NEW i \in 1 .. m + n, NEW j \in 1 .. m + n, i < j PROVE u[i] < u[j]
  BY <1>2 DEF Increasing, u
<1>4. CASE j <= m
  <2>1. i \in 1 .. m /\ j \in 1 .. m
    BY <1>3, <1>4
  <2> QED BY <1>2, <1>3, <2>1 DEF Increasing
<1>5. CASE i <= m /\ j > m
  <2>1. i \in 1 .. m /\ j \in m + 1 .. m + n /\ j - m \in 1 .. n
    BY <1>5
  <2>2. s[i] \in ToSet(s) /\ t[j - m] \in ToSet(t)
    BY <1>2, <2>1 DEF ToSet
  <2> QED BY <1>2, <2>1, <2>2
<1>6. CASE i > m
  <2>1. i \in m + 1 .. m + n /\ j \in m + 1 .. m + n /\ i - m \in 1 .. n
        /\ j - m \in 1 .. n /\ i - m < j - m
    BY <1>3, <1>6
  <2>2. t[i - m] < t[j - m]
    BY <1>2, <2>1 DEF Increasing
  <2> QED BY <1>2, <2>1, <2>2
<1> QED BY <1>4, <1>5, <1>6

\* What Without has kept of a sequence after its first n members.
Keeps(f, s, T) ==
    [n \in 0 .. Len(s) |->
        IF n = 0 THEN <<>>
        ELSE IF s[n] \in T THEN f[n - 1] ELSE Append(f[n - 1], s[n])]

\* There is such a function.
LEMMA KeepsExists ==
    ASSUME NEW s \in Seq(Nat), NEW T
    PROVE  \E f : f = Keeps(f, s, T)
<1>1. PICK M \in Nat : M = Len(s)
  OBVIOUS
<1>2. \A n \in 1 .. M : s[n] \in Nat
  BY <1>1
<1> DEFINE Does(m, f) ==
             /\ f \in [0 .. m -> Seq(Nat)] /\ f[0] = <<>>
             /\ \A n \in 1 .. m :
                  f[n] = IF s[n] \in T THEN f[n - 1] ELSE Append(f[n - 1], s[n])
           S == {m \in 0 .. M : \E f : Does(m, f)}
<1>3. 0 \in S
  <2>1. Does(0, [n \in 0 .. 0 |-> <<>>])
    OBVIOUS
  <2> HIDE DEF Does
  <2> QED BY <2>1
<1>4. ASSUME NEW m \in 1 .. M, m - 1 \in S PROVE m \in S
  <2>1. PICK f : Does(m - 1, f)
    BY <1>4
  <2>2. /\ m - 1 \in 0 .. m - 1 /\ f[m - 1] \in Seq(Nat) /\ s[m] \in Nat
        /\ \A n \in 1 .. m : n = m \/ n \in 1 .. m - 1
        /\ \A n \in 0 .. m : n = m \/ n \in 0 .. m - 1
        /\ m \in 0 .. m /\ m # 0 /\ 0 \in 0 .. m
    BY <1>2, <2>1
  <2>3. PICK v \in Seq(Nat) : v = IF s[m] \in T THEN f[m - 1] ELSE Append(f[m - 1], s[m])
    <3>1. PICK w \in Seq(Nat) : w = f[m - 1]
      BY <2>2
    <3>2. Append(w, s[m]) \in Seq(Nat)
      BY <2>2
    <3> QED BY <3>1, <3>2
  <2> DEFINE g == [n \in 0 .. m |-> IF n = m THEN v ELSE f[n]]
  <2>4. g \in [0 .. m -> Seq(Nat)] /\ g[0] = <<>> /\ g[m] = v
    BY <2>1, <2>2, <2>3
  <2>5. \A n \in 0 .. m - 1 : g[n] = f[n]
    OBVIOUS
  <2>6. ASSUME NEW n \in 1 .. m
        PROVE  g[n] = IF s[n] \in T THEN g[n - 1] ELSE Append(g[n - 1], s[n])
    <3> HIDE DEF g
    <3>1. n - 1 \in 0 .. m - 1 /\ g[n - 1] = f[n - 1]
      BY <2>5
    <3>2. CASE n = m
      BY <2>3, <2>4, <3>1, <3>2
    <3>3. CASE n \in 1 .. m - 1
      <4>1. g[n] = f[n]
        BY <2>5, <3>3
      <4> QED BY <2>1, <3>1, <3>3, <4>1
    <3> QED BY <2>2, <3>2, <3>3
  <2>7. Does(m, g)
    <3> HIDE DEF g
    <3> QED BY <2>4, <2>6
  <2> HIDE DEF Does, g
  <2> QED BY <2>7
<1>5. M \in S
  <2> HIDE DEF S
  <2>1. \A n \in 0 .. M : n \in S
    BY <1>3, <1>4, Loop
  <2> QED BY <2>1
<1>6. PICK f : Does(M, f)
  BY <1>5
<1>7. \A n \in 0 .. M : n # 0 => n \in 1 .. M
  OBVIOUS
<1>8. f = Keeps(f, s, T)
  BY <1>1, <1>6, <1>7 DEF Keeps
<1> QED BY <1>8

\* What Without keeps increases, and has the members that are not to go.
LEMMA WithoutIs ==
    ASSUME NEW s \in Seq(Nat), Increasing(s), NEW T
    PROVE  /\ Without(s, T) \in Seq(Nat) /\ Increasing(Without(s, T))
           /\ ToSet(Without(s, T)) = ToSet(s) \ T
<1>1. PICK M \in Nat : M = Len(s)
  OBVIOUS
<1>2. DOMAIN s = 1 .. M /\ \A n \in 1 .. M : s[n] \in Nat
  BY <1>1
<1>3. PICK f : f = CHOOSE g : g = Keeps(g, s, T)
  OBVIOUS
<1>4. Without(s, T) = f[M]
  BY <1>1, <1>3 DEF Without, Keeps
<1>5. f = Keeps(f, s, T)
  BY <1>3, KeepsExists
<1>6. /\ f[0] = <<>>
      /\ \A n \in 1 .. M : f[n] = IF s[n] \in T THEN f[n - 1] ELSE Append(f[n - 1], s[n])
  <2>1. \A n \in 0 .. M : f[n] =
            IF n = 0 THEN <<>>
            ELSE IF s[n] \in T THEN f[n - 1] ELSE Append(f[n - 1], s[n])
    BY <1>1, <1>5 DEF Keeps
  <2> QED BY <1>1, <2>1
<1> DEFINE Upto(n) == {s[i] : i \in 1 .. n}
           Held(n) == /\ f[n] \in Seq(Nat) /\ Increasing(f[n])
                      /\ ToSet(f[n]) = Upto(n) \ T
           S == {n \in 0 .. M : Held(n)}
<1>7. 0 \in S
  <2>1. ToSet(<<>>) = {} /\ Increasing(<<>>) /\ <<>> \in Seq(Nat)
    BY DEF ToSet, Increasing
  <2>2. Upto(0) \ T = {}
    OBVIOUS
  <2>3. Held(0)
    <3> HIDE DEF Upto
    <3> QED BY <1>6, <2>1, <2>2
  <2> HIDE DEF Held
  <2> QED BY <2>3
<1>8. ASSUME NEW n \in 1 .. M, n - 1 \in S PROVE n \in S
  <2>1. Held(n - 1) /\ s[n] \in Nat
    BY <1>2, <1>8
  <2>2. \A i \in 1 .. n : i = n \/ i \in 1 .. n - 1
    OBVIOUS
  <2>3. Upto(n) = Upto(n - 1) \cup {s[n]}
    BY <2>2
  <2>4. CASE s[n] \in T
    <3>1. f[n] = f[n - 1] /\ Upto(n) \ T = Upto(n - 1) \ T
      BY <1>6, <2>3, <2>4
    <3>2. Held(n)
      <4> HIDE DEF Upto
      <4> QED BY <2>1, <3>1
    <3> HIDE DEF Held
    <3> QED BY <3>2
  <2>5. CASE s[n] \notin T
    <3>1. f[n] = Append(f[n - 1], s[n]) /\ Upto(n) \ T = (Upto(n - 1) \ T) \cup {s[n]}
      BY <1>6, <2>3, <2>5
    <3>2. \A y \in ToSet(f[n - 1]) : y < s[n]
      <4>1. \A i \in 1 .. n - 1 : i \in DOMAIN s /\ n \in DOMAIN s /\ i < n
        BY <1>2
      <4>2. \A y \in Upto(n - 1) : y < s[n]
        BY <4>1 DEF Increasing
      <4> QED BY <2>1, <4>2
    <3>3. /\ f[n] \in Seq(Nat) /\ Increasing(f[n])
          /\ ToSet(f[n]) = ToSet(f[n - 1]) \cup {s[n]}
      <4> HIDE DEF Upto
      <4> QED BY <2>1, <3>1, <3>2, GrownIncreasing
    <3>4. Held(n)
      <4> HIDE DEF Upto
      <4> QED BY <2>1, <3>1, <3>3
    <3> HIDE DEF Held
    <3> QED BY <3>4
  <2> QED BY <2>4, <2>5
<1>9. M \in S
  <2> HIDE DEF S
  <2>1. \A n \in 0 .. M : n \in S
    BY <1>7, <1>8, Loop
  <2> QED BY <2>1
<1>10. Upto(M) = ToSet(s)
  BY <1>2 DEF ToSet
<1> QED BY <1>4, <1>9, <1>10

-----------------------------------------------------------------------------
(* The store: what a state stands for.                                     *)

\* Who was aborted is gone; and what the log says a transaction put on a page
\* it has the records of, the oldest first.
Works ==
    /\ \A h \in said.aborted : h <= born /\ td[h].status = "none"
    /\ \A h \in Txns, p \in Pages :
         /\ Increasing(said.puts[h][p])
         /\ \A i \in ToSet(said.puts[h][p]) :
              \E n \in DOMAIN log :
                 log[n].type = "write" /\ log[n].page = p /\ log[n].item = i

\* What became of a transaction, by the log and the list of active ones.
Fate(h) ==
    IF h \in ToSet(said.order) THEN "committed"
    ELSE IF h \in Active THEN IF h \in said.voted THEN "prepared" ELSE "running"
    ELSE IF h > born THEN "unborn" ELSE "ended"

\* The pages of the store have the items of committed transactions, in the order
\* of the writes.
Stored ==
    /\ \A h \in Txns : OutcomeOf(h) = Fate(h)
    /\ \A p \in Pages :
         /\ StorePages[p] \in Seq(Nat) /\ Increasing(StorePages[p])
         /\ ToSet(StorePages[p]) = ItemsOf(ToSet(said.order), p)

\* A transaction's items are those of its writes.
LEMMA ItemsOwned ==
    ASSUME NEW R, IInv(R), Works, NEW h \in Txns, NEW p \in Pages
    PROVE  /\ \A n \in On(p) : n \in Own[h] <=> ItemOf[n] \in ToSet(said.puts[h][p])
           /\ \A i \in ToSet(said.puts[h][p]) :
                \E n \in Own[h] \cap On(p) : ItemOf[n] = i
<1>1. Basic
  BY DEF IInv
<1>2. \A n \in On(p) : n \in Own[h] <=> ItemOf[n] \in ToSet(said.puts[h][p])
  BY DEF On, Own
<1>3. ASSUME NEW i \in ToSet(said.puts[h][p])
      PROVE  \E n \in Own[h] \cap On(p) : ItemOf[n] = i
  <2>1. PICK n \in DOMAIN log :
               log[n].type = "write" /\ log[n].page = p /\ log[n].item = i
    BY <1>3 DEF Works
  <2>2. n \in 1 .. Len(log)
    BY <1>1 DEF Basic
  <2>3. n \in Writes /\ PageOf[n] = p /\ ItemOf[n] = i
    BY <2>1, <2>2 DEF Writes, PageOf, ItemOf
  <2> QED BY <1>2, <2>3 DEF On
<1> QED BY <1>2, <1>3

\* The mapping, of outcomes.
LEMMA OutcomeIs ==
    ASSUME NEW R, IInv(R), Works, NEW h \in Txns
    PROVE  /\ OutcomeOf(h) = Fate(h)
           /\ h \in InProgress <=> td[h].status \in {"running", "prepared", "aborting"}
<1>1. Basic /\ Tree /\ Outcomes /\ Owners(R)
  BY DEF IInv
<1>2. /\ td[h].status \in Statuses /\ (td[h].status # "none" => h <= born)
      /\ born \in Nat /\ h \in Nat
  BY <1>1, DetailFacts, TxnAssumption DEF Tree, Details, Txns
<1>3. h \in Active <=> td[h].status # "none"
  BY DEF Active
<1>4. h \in said.aborted => h <= born /\ td[h].status = "none"
  BY DEF Works
<1>5. /\ td[h].status # "none" =>
             (h \in ToSet(said.order) <=> td[h].status = "committing")
      /\ td[h].status = "none" /\ h \in said.voted =>
             h \in ToSet(said.order) \cup said.aborted
      /\ h \in said.voted => h <= born
  BY <1>1 DEF Outcomes
<1>6. OutcomeOf(h) = Fate(h)
  <2>1. CASE h \in ToSet(said.order)
    BY <2>1 DEF OutcomeOf, Fate
  <2>2. CASE h \notin ToSet(said.order) /\ td[h].status # "none"
    BY <1>2, <1>3, <1>4, <2>2 DEF OutcomeOf, Fate
  <2>3. CASE h \notin ToSet(said.order) /\ td[h].status = "none"
    BY <1>2, <1>3, <1>4, <1>5, <2>3 DEF OutcomeOf, Fate
  <2> QED BY <2>1, <2>2, <2>3
<1>7. h \in InProgress <=> Fate(h) \in {"running", "prepared"}
  BY <1>6 DEF InProgress
<1>8. Fate(h) \in {"running", "prepared"} <=> h \notin ToSet(said.order) /\ h \in Active
  BY DEF Fate
<1>9. td[h].status \in {"running", "prepared", "aborting"}
         <=> h \notin ToSet(said.order) /\ h \in Active
  BY <1>2, <1>3, <1>5 DEF Statuses
<1> QED BY <1>6, <1>7, <1>8, <1>9

\* The mapping, of pages: what is pending is taken out, and no more.
LEMMA PagesStored ==
    ASSUME NEW R, IInv(R), Works, NEW p \in Pages
    PROVE  /\ StorePages[p] \in Seq(Nat) /\ Increasing(StorePages[p])
           /\ ToSet(StorePages[p]) = ItemsOf(ToSet(said.order), p)
<1>1. Basic /\ Tree /\ Outcomes /\ Owners(R) /\ Undoing(R) /\ Cached(R)
  BY DEF IInv
<1> DEFINE P == Pend(R) \cap On(p)
           C == Com \cap On(p)
           U == ItemsOf(InProgress, p)
<1>2. /\ mem[p].val \in Seq(Nat) /\ Increasing(mem[p].val)
      /\ ToSet(mem[p].val) = {ItemOf[n] : n \in P \cup C}
  <2>1. PageOK(ItemOf, PrevOf, P, C, mem[p])
    BY <1>1 DEF Cached
  <2> HIDE DEF P, C
  <2> QED BY <2>1 DEF PageOK
<1>3. StorePages[p] = Without(mem[p].val, U)
  BY <1>1 DEF StorePages, Basic
<1>4. ToSet(said.order) \subseteq Txns
  <2>1. said.order \in Seq(Txns)
    BY <1>1 DEF Owners
  <2> QED BY <2>1 DEF ToSet
<1>5. \A h \in InProgress : h \in Txns /\ h \notin ToSet(said.order)
  BY DEF InProgress, OutcomeOf
<1>6. ASSUME NEW n \in P PROVE ItemOf[n] \in U
  <2>1. PICK h \in Txns : n \in LeftOf(R, h)
    BY DEF Pend
  <2>2. n \in Own[h] /\ td[h].status \in {"running", "prepared", "aborting"}
    <3>1. n \in Own[h]
      BY <1>1, <2>1, LeftInside
    <3>2. td[h].status \in {"running", "prepared", "aborting"}
      BY <2>1 DEF LeftOf
    <3> QED BY <3>1, <3>2
  <2>3. h \in InProgress
    BY <2>2, OutcomeIs
  <2>4. ItemOf[n] \in ToSet(said.puts[h][p])
    BY <2>2, ItemsOwned
  <2> QED BY <2>3, <2>4 DEF ItemsOf
<1>7. ASSUME NEW n \in C PROVE ItemOf[n] \notin U
  <2>1. PICK g \in ToSet(said.order) : n \in Own[g]
    BY DEF Com
  <2> SUFFICES ASSUME NEW h \in InProgress, ItemOf[n] \in ToSet(said.puts[h][p])
               PROVE  FALSE
    BY DEF ItemsOf
  <2>2. g \in Txns /\ h \in Txns /\ g # h
    BY <1>4, <1>5
  <2>3. n \in Own[h]
    BY <2>2, ItemsOwned
  <2> QED BY <1>1, <2>1, <2>2, <2>3 DEF Owners
<1>8. {ItemOf[n] : n \in C} = ItemsOf(ToSet(said.order), p)
  <2>1. ASSUME NEW n \in C PROVE ItemOf[n] \in ItemsOf(ToSet(said.order), p)
    <3>1. PICK g \in ToSet(said.order) : n \in Own[g]
      BY DEF Com
    <3>2. ItemOf[n] \in ToSet(said.puts[g][p])
      BY <1>4, <3>1, ItemsOwned
    <3> QED BY <3>2 DEF ItemsOf
  <2>2. ASSUME NEW g \in ToSet(said.order), NEW i \in ToSet(said.puts[g][p])
        PROVE  \E n \in C : ItemOf[n] = i
    <3>1. PICK n \in Own[g] \cap On(p) : ItemOf[n] = i
      BY <1>4, ItemsOwned
    <3> QED BY <3>1 DEF Com
  <2>3. ItemsOf(ToSet(said.order), p) \subseteq {ItemOf[n] : n \in C}
    <3> HIDE DEF C
    <3> QED BY <2>2 DEF ItemsOf
  <2> HIDE DEF C
  <2> QED BY <2>1, <2>3
<1>9. ToSet(mem[p].val) \ U = {ItemOf[n] : n \in C}
  <2> HIDE DEF P, C, U
  <2> QED BY <1>2, <1>6, <1>7
<1> HIDE DEF P, C, U
<1> QED BY <1>2, <1>3, <1>8, <1>9, WithoutIs

\* A committing transaction's items come after those that are committed.
LEMMA CommitsLast ==
    ASSUME NEW R, IInv(R), Works, NEW h \in Txns, NEW p \in Pages,
           td[h].status \in {"running", "prepared"},
           NEW x \in ItemsOf(ToSet(said.order), p), NEW y \in ToSet(said.puts[h][p])
    PROVE  x < y
<1>1. Basic /\ Tree /\ Owners(R) /\ Undoing(R) /\ Cached(R)
  BY DEF IInv
<1>2. PICK n \in Own[h] \cap On(p) : ItemOf[n] = y
  BY ItemsOwned
<1>3. PICK g \in ToSet(said.order) : x \in ToSet(said.puts[g][p])
  BY DEF ItemsOf
<1>4. g \in Txns
  <2>1. said.order \in Seq(Txns)
    BY <1>1 DEF Owners
  <2> QED BY <2>1 DEF ToSet
<1>5. PICK k \in Own[g] \cap On(p) : ItemOf[k] = x
  BY <1>3, <1>4, ItemsOwned
<1>6. n \in Pend(R) \cap On(p) /\ k \in Com \cap On(p)
  <2>1. n \in LeftOf(R, h)
    BY <1>2 DEF LeftOf
  <2> QED BY <1>2, <1>3, <1>5, <2>1 DEF Pend, Com
<1>7. k < n
  <2>1. PageOK(ItemOf, PrevOf, Pend(R) \cap On(p), Com \cap On(p), mem[p])
    BY <1>1 DEF Cached
  <2> QED BY <1>6, <2>1 DEF PageOK
<1>8. k \in Writes /\ n \in Writes
  BY <1>6 DEF On
<1> QED BY <1>1, <1>2, <1>5, <1>7, <1>8 DEF Owners

-----------------------------------------------------------------------------
(* The store: what the steps do to it.                                     *)

\* What the log says is pu, vo, od and ab, and who is active, was born and has
\* been promised is ac, bo and pr.
Becomes(pu, vo, od, ab, ac, bo, pr) ==
    /\ said'.puts = pu /\ said'.voted = vo /\ said'.order = od /\ said'.aborted = ab
    /\ Active' = ac /\ born' = bo /\ promised' = pr

\* The kinds of steps.
Nothings == Becomes(said.puts, said.voted, said.order, said.aborted, Active, born, promised)
Begins(h) ==
    /\ h = born + 1
    /\ Becomes(said.puts, said.voted, said.order, said.aborted,
               Active \cup {h}, h, promised)
PutsOn(h, p) ==
    /\ td[h].status = "running" /\ items + 1 \in 1 .. MaxWrites
    /\ Becomes([said.puts EXCEPT ![h] =
                   [said.puts[h] EXCEPT ![p] = Append(said.puts[h][p], items + 1)]],
               said.voted, said.order, said.aborted, Active, born, promised)
    /\ \E n \in DOMAIN log' :
         log'[n].type = "write" /\ log'[n].page = p /\ log'[n].item = items + 1
Merges(h, q) ==
    /\ q # h /\ td[h].status = "running" /\ td[q].status = "running"
    /\ q \in Lineage[h]
    /\ Becomes([[said.puts EXCEPT ![h] = Nothing]
                  EXCEPT ![q] = [p \in Pages |-> said.puts[q][p] \o said.puts[h][p]]],
               said.voted, said.order, said.aborted, Active \ {h}, born, promised)
Votes(h) ==
    /\ td[h].status = "running"
    /\ Becomes(said.puts, said.voted \cup {h}, said.order, said.aborted,
               Active, born, promised)
Commits(h) ==
    /\ td[h].status \in {"running", "prepared"}
    /\ Becomes(said.puts, said.voted, Append(said.order, h), said.aborted,
               Active, born, promised)
Returns(h, pr) ==
    /\ td[h].status = "committing" /\ pr \in {promised, promised \cup {h}}
    /\ Becomes(said.puts, said.voted, said.order, said.aborted, Active \ {h}, born, pr)
Fails(h, ab) ==
    /\ td[h].status \in {"running", "aborting"}
    /\ ab = IF h \in said.voted THEN said.aborted \cup {h} ELSE said.aborted
    /\ Becomes(said.puts, said.voted, said.order, ab, Active \ {h}, born, promised)

Tells ==
    \/ Nothings
    \/ \E h \in Txns :
         \/ Begins(h) \/ Votes(h) \/ Commits(h)
         \/ \E p \in Pages : PutsOn(h, p)
         \/ \E q \in Txns : Merges(h, q)
         \/ \E pr : Returns(h, pr)
         \/ \E ab : Fails(h, ab)

\* The log has what it had, and more.
Grows == \A n \in DOMAIN log : n \in DOMAIN log' /\ log'[n] = log[n]

\* Putting a record, and putting none, is that.
LEMMA LogGrows ==
    ASSUME Basic, log' = log \/ \E r : log' = Append(log, r)
    PROVE  Grows
<1>1. log \in Seq(Records)
  BY DEF Basic
<1>2. CASE log' = log
  BY <1>2 DEF Grows
<1>3. ASSUME NEW r, log' = Append(log, r) PROVE Grows
  <2>1. log \in Seq(Records \cup {r}) /\ r \in Records \cup {r}
    BY <1>1
  <2> QED BY <1>3, <2>1 DEF Grows
<1> QED BY <1>2, <1>3

\* Who is active after the details changed without a status.
LEMMA SameActive ==
    ASSUME \A g \in Txns : td'[g].status = "none" <=> td[g].status = "none"
    PROVE  Active' = Active
BY DEF Active

\* Begin, as such a step.
LEMMA BeginTells ==
    ASSUME NEW R, IInv(R), NEW h \in Txns, NEW parent, Begin(h, parent)
    PROVE  Begins(h) /\ Grows
<1>1. Basic /\ Tree
  BY DEF IInv
<1>2. h = born + 1 /\ born' = h /\ said' = said /\ log' = log /\ promised' = promised
  BY DEF Begin, logVars
<1>3. \E id : td' = [td EXCEPT ![h] = [NoTd EXCEPT !.status = "running", !.id = id,
                                                   !.parent = parent]]
  BY DEF Begin
<1>4. \A g \in Txns : td'[g].status = IF g = h THEN "running" ELSE td[g].status
  BY <1>1, <1>3 DEF Tree, NoTd
<1>5. Active' = Active \cup {h}
  BY <1>4 DEF Active
<1> QED BY <1>1, <1>2, <1>5, LogGrows DEF Begins, Becomes

\* Write.
LEMMA WriteTells ==
    ASSUME NEW R, IInv(R), NEW h \in Txns, NEW p \in Pages, Write(h, p)
    PROVE  PutsOn(h, p) /\ Grows
<1>1. Basic /\ Tree /\ Owners(R)
  BY DEF IInv
<1>2. /\ td[h].status = "running" /\ items < MaxWrites /\ td' = Logged(h) /\ born' = born
      /\ log' = Append(log, WriteRec(h, p)) /\ said' = Told(said, WriteRec(h, p))
      /\ promised' = promised
  BY DEF Write, PutLog, idVars
<1>3. items + 1 \in 1 .. MaxWrites
  BY <1>1, <1>2, TxnAssumption DEF Basic
<1>4. PICK r : r = WriteRec(h, p)
  OBVIOUS
<1>5. r.type = "write" /\ r.who = h /\ r.page = p /\ r.item = items + 1
  BY <1>4 DEF WriteRec
<1>6. said' = [said EXCEPT !.puts[h][p] = Append(@, items + 1)]
  BY <1>2, <1>4, <1>5 DEF Told
<1>7. said' = [said EXCEPT !.puts = [said.puts EXCEPT ![h] =
                          [said.puts[h] EXCEPT ![p] = Append(said.puts[h][p], items + 1)]]]
  BY <1>6
<1>8. /\ said'.puts = [said.puts EXCEPT ![h] =
                          [said.puts[h] EXCEPT ![p] = Append(said.puts[h][p], items + 1)]]
      /\ said'.voted = said.voted /\ said'.order = said.order
      /\ said'.aborted = said.aborted
  <2>1. PICK f : f = [said.puts EXCEPT ![h] =
                          [said.puts[h] EXCEPT ![p] = Append(said.puts[h][p], items + 1)]]
    OBVIOUS
  <2>2. said' = [said EXCEPT !.puts = f]
    BY <1>7, <2>1
  <2>3. said = [puts |-> said.puts, voted |-> said.voted, order |-> said.order,
                aborted |-> said.aborted]
    BY <1>1 DEF Owners
  <2>4. said'.puts = f /\ said'.voted = said.voted /\ said'.order = said.order
        /\ said'.aborted = said.aborted
    BY <2>2, <2>3
  <2> QED BY <2>1, <2>4
<1>9. Active' = Active
  <2>1. \A g \in Txns : td'[g].status = td[g].status
    BY <1>1, <1>2, LoggedFields
  <2> QED BY <2>1, SameActive
<1>10. \E n \in DOMAIN log' :
         log'[n].type = "write" /\ log'[n].page = p /\ log'[n].item = items + 1
  <2>1. log \in Seq(Records \cup {r}) /\ r \in Records \cup {r}
    BY <1>1 DEF Basic
  <2>2. Len(log) + 1 \in DOMAIN log' /\ log'[Len(log) + 1] = r
    BY <1>2, <1>4, <2>1
  <2> QED BY <1>5, <2>2
<1>11. Grows
  BY <1>1, <1>2, LogGrows
<1> QED BY <1>2, <1>3, <1>8, <1>9, <1>10, <1>11 DEF PutsOn, Becomes

\* The end of a commit.
LEMMA CommitEndTells ==
    ASSUME NEW R, IInv(R), NEW h \in Txns, CommitEnd(h)
    PROVE  (\E pr : Returns(h, pr)) /\ Grows
<1>1. Basic /\ Tree
  BY DEF IInv
<1>2. /\ td[h].status = "committing" /\ promised' \in {promised, promised \cup {h}}
      /\ td' = [td EXCEPT ![h] = NoTd] /\ log' = log /\ said' = said /\ born' = born
  BY DEF CommitEnd, idVars
<1>3. Active' = Active \ {h}
  <2>1. \A g \in Txns : td'[g].status = IF g = h THEN "none" ELSE td[g].status
    BY <1>1, <1>2 DEF Tree, NoTd
  <2> QED BY <2>1 DEF Active
<1>4. Returns(h, promised')
  BY <1>2, <1>3 DEF Returns, Becomes
<1> QED BY <1>1, <1>2, <1>4, LogGrows

\* The end of a transaction without a record.
LEMMA EndUnloggedTells ==
    ASSUME NEW R, IInv(R), NEW h \in Txns, EndUnlogged(h)
    PROVE  (\E ab : Fails(h, ab)) /\ Grows
<1>1. Basic /\ Tree /\ Outcomes
  BY DEF IInv
<1>2. /\ td[h].status = "running" /\ promised' = promised
      /\ td' = [td EXCEPT ![h] = NoTd] /\ log' = log /\ said' = said /\ born' = born
  BY DEF EndUnlogged, idVars, logVars
<1>3. Active' = Active \ {h}
  <2>1. \A g \in Txns : td'[g].status = IF g = h THEN "none" ELSE td[g].status
    BY <1>1, <1>2 DEF Tree, NoTd
  <2> QED BY <2>1 DEF Active
<1>4. h \notin said.voted
  BY <1>1, <1>2 DEF Outcomes
<1>5. Fails(h, said.aborted)
  BY <1>2, <1>3, <1>4 DEF Fails, Becomes
<1> QED BY <1>1, <1>2, <1>5, LogGrows

\* The end of an abort.
LEMMA AbortEndTells ==
    ASSUME NEW R, IInv(R), NEW h \in Txns, AbortEnd(h)
    PROVE  (\E ab : Fails(h, ab)) /\ Grows
<1>1. Basic /\ Tree /\ Outcomes /\ Owners(R)
  BY DEF IInv
<1>2. /\ td[h].status = "aborting" /\ promised' = promised
      /\ td' = [td EXCEPT ![h] = NoTd] /\ born' = born
      /\ IF td[h].voted THEN PutLog(EndRec("abort", h)) ELSE log' = log /\ said' = said
  BY DEF AbortEnd, idVars, logVars
<1>3. Active' = Active \ {h}
  <2>1. \A g \in Txns : td'[g].status = IF g = h THEN "none" ELSE td[g].status
    BY <1>1, <1>2 DEF Tree, NoTd
  <2> QED BY <2>1 DEF Active
<1>4. td[h].voted <=> h \in said.voted
  BY <1>1, <1>2 DEF Outcomes
<1>5. Grows
  BY <1>1, <1>2, LogGrows DEF PutLog
<1>6. CASE td[h].voted
  <2>1. said' = [said EXCEPT !.aborted = @ \cup {h}]
    BY <1>2, <1>6 DEF PutLog, EndRec, Told
  <2>2. said'.puts = said.puts /\ said'.voted = said.voted /\ said'.order = said.order
        /\ said'.aborted = said.aborted \cup {h}
    BY <1>1, <2>1 DEF Owners
  <2>3. Fails(h, said.aborted \cup {h})
    BY <1>2, <1>3, <1>4, <1>6, <2>2 DEF Fails, Becomes
  <2> QED BY <1>5, <2>3
<1>7. CASE ~td[h].voted
  <2>1. Fails(h, said.aborted)
    BY <1>2, <1>3, <1>4, <1>7 DEF Fails, Becomes
  <2> QED BY <1>5, <2>1
<1> QED BY <1>6, <1>7

\* The commit of a child.
LEMMA ChildCommitTells ==
    ASSUME NEW R, IInv(R), NEW h \in Txns, ChildCommit(h)
    PROVE  (\E q \in Txns : Merges(h, q)) /\ Grows
<1>1. Basic /\ Tree /\ Owners(R)
  BY DEF IInv
<1>2. PICK q : q = td[h].parent
  OBVIOUS
<1>3. PICK S : Merging(R, S, h, q)
  BY <1>2, ChildCommitIs
<1>4. /\ q \in Txns /\ q # h /\ td[h].status = "running" /\ td[q].status = "running"
      /\ Lineage[h] = {h} \cup Lineage[q]
      /\ said' = [said EXCEPT !.puts[h] = Nothing,
                              !.puts[q] = [p \in Pages |-> @[p] \o said.puts[h][p]]]
      /\ td' = [Logged(q) EXCEPT ![h] = NoTd] /\ born' = born
  BY <1>3 DEF Merging
<1>5. promised' = promised /\ log' = Append(log, ChildRec(h))
  BY DEF ChildCommit, PutLog
<1>6. q \in Lineage[h]
  BY <1>1, <1>4, LineageFacts
<1>7. /\ said'.puts = [[said.puts EXCEPT ![h] = Nothing]
                  EXCEPT ![q] = [p \in Pages |-> said.puts[q][p] \o said.puts[h][p]]]
      /\ said'.voted = said.voted /\ said'.order = said.order
      /\ said'.aborted = said.aborted
  <2>1. MergedOwn(h, q)
    BY <1>3, MergeOwn
  <2>2. /\ said'.voted = said.voted /\ said'.order = said.order
        /\ said'.aborted = said.aborted /\ said'.puts[h] = Nothing
        /\ said'.puts \in [Txns -> [Pages -> Seq(Nat)]]
        /\ \A g \in Txns \ {h, q} : said'.puts[g] = said.puts[g]
        /\ \A p \in Pages : said'.puts[q][p] = said.puts[q][p] \o said.puts[h][p]
    BY <2>1 DEF MergedOwn
  <2>3. said'.puts[q] = [p \in Pages |-> said.puts[q][p] \o said.puts[h][p]]
    BY <1>4, <2>2
  <2>4. PICK d : d = [p \in Pages |-> said.puts[q][p] \o said.puts[h][p]]
    OBVIOUS
  <2>5. PICK f : f = [[said.puts EXCEPT ![h] = Nothing] EXCEPT ![q] = d]
    OBVIOUS
  <2>6. said.puts \in [Txns -> [Pages -> Seq(Nat)]]
    BY <1>1 DEF Owners
  <2>7. DOMAIN f = Txns /\ f = [g \in Txns |-> f[g]] /\ f[h] = Nothing /\ f[q] = d
        /\ \A g \in Txns \ {h, q} : f[g] = said.puts[g]
    BY <1>4, <2>5, <2>6
  <2>8. \A g \in Txns : said'.puts[g] = f[g]
    BY <2>2, <2>3, <2>4, <2>7
  <2>9. said'.puts = [g \in Txns |-> said'.puts[g]]
    BY <2>2
  <2>10. said'.puts = f
    BY <2>7, <2>8, <2>9
  <2> QED BY <2>2, <2>4, <2>5, <2>10
<1>8. Active' = Active \ {h}
  <2>1. td[q].status # "none"
    BY <1>4
  <2>2. /\ Logged(q) \in [Txns -> Details]
        /\ \A g \in Txns : Logged(q)[g].status = td[g].status
    BY <1>1, <1>4, <2>1, LoggedFields
  <2>3. \A g \in Txns : td'[g].status = IF g = h THEN "none" ELSE td[g].status
    BY <1>4, <2>2 DEF NoTd
  <2> QED BY <2>3 DEF Active
<1>9. Merges(h, q)
  BY <1>4, <1>5, <1>6, <1>7, <1>8 DEF Merges, Becomes
<1> QED BY <1>1, <1>4, <1>5, <1>9, LogGrows

\* Prepare.
LEMMA PrepareTells ==
    ASSUME NEW R, IInv(R), NEW h \in Txns, Prepare(h)
    PROVE  Votes(h) /\ Grows
<1>1. Basic /\ Tree /\ Owners(R)
  BY DEF IInv
<1>2. /\ td[h].status = "running" /\ promised' = promised /\ born' = born
      /\ log' = Append(log, PrepareRec(h)) /\ said' = Told(said, PrepareRec(h))
      /\ td' = [Logged(h) EXCEPT ![h].status = "prepared", ![h].voted = TRUE]
  BY DEF Prepare, PutLog, idVars
<1>3. said' = [said EXCEPT !.voted = @ \cup {h}]
  BY <1>2 DEF PrepareRec, Told
<1>4. said'.puts = said.puts /\ said'.voted = said.voted \cup {h}
      /\ said'.order = said.order /\ said'.aborted = said.aborted
  BY <1>1, <1>3 DEF Owners
<1>5. Active' = Active
  <2>1. /\ Logged(h) \in [Txns -> Details]
        /\ \A g \in Txns : Logged(h)[g].status = td[g].status
    BY <1>1, <1>2, LoggedFields
  <2>2. PICK e : e = [Logged(h)[h] EXCEPT !.status = "prepared", !.voted = TRUE]
    OBVIOUS
  <2>3. td' = [Logged(h) EXCEPT ![h] = e]
    BY <1>2, <2>2
  <2>4. e.status = "prepared"
    BY <1>1, <1>2, <2>2, RecordedDetails
  <2>5. \A g \in Txns : td'[g].status = "none" <=> td[g].status = "none"
    BY <1>2, <2>1, <2>3, <2>4
  <2> QED BY <2>5, SameActive
<1> QED BY <1>1, <1>2, <1>4, <1>5, LogGrows DEF Votes, Becomes

\* The commit record.
LEMMA CommitPutTells ==
    ASSUME NEW R, IInv(R), NEW h \in Txns, CommitPut(h)
    PROVE  Commits(h) /\ Grows
<1>1. Basic /\ Tree /\ Owners(R)
  BY DEF IInv
<1>2. /\ td[h].status \in {"running", "prepared"} /\ promised' = promised /\ born' = born
      /\ log' = Append(log, EndRec("commit", h)) /\ said' = Told(said, EndRec("commit", h))
      /\ td' = [Logged(h) EXCEPT ![h].status = "committing"]
  BY DEF CommitPut, PutLog, idVars
<1>3. said' = [said EXCEPT !.order = Append(@, h)]
  BY <1>2 DEF EndRec, Told
<1>4. said'.puts = said.puts /\ said'.voted = said.voted
      /\ said'.order = Append(said.order, h) /\ said'.aborted = said.aborted
  BY <1>1, <1>3 DEF Owners
<1>5. Active' = Active
  <2>1. /\ Logged(h) \in [Txns -> Details]
        /\ \A g \in Txns : Logged(h)[g].status = td[g].status
    BY <1>1, <1>2, LoggedFields
  <2>2. PICK e : e = [Logged(h)[h] EXCEPT !.status = "committing"]
    OBVIOUS
  <2>3. td' = [Logged(h) EXCEPT ![h] = e]
    BY <1>2, <2>2
  <2>4. e.status = "committing"
    BY <1>1, <1>2, <2>2, RecordedDetails
  <2>5. \A g \in Txns : td'[g].status = "none" <=> td[g].status = "none"
    BY <1>2, <2>1, <2>3, <2>4
  <2> QED BY <2>5, SameActive
<1> QED BY <1>1, <1>2, <1>4, <1>5, LogGrows DEF Commits, Becomes

\* An abort begins or undoes a record; a page is written.
LEMMA QuietTells ==
    ASSUME NEW R, IInv(R),
           \/ \E h \in Txns : AbortStart(h) \/ UndoStep(h)
           \/ \E p \in Pages : WritePage(p)
           \/ CkpStart \/ CkpActive \/ CkpRecord \/ UNCHANGED vars
    PROVE  Nothings /\ Grows
<1>1. Basic /\ Tree /\ Owners(R)
  BY DEF IInv
<1>2. ASSUME NEW h \in Txns, AbortStart(h) PROVE Nothings /\ Grows
  <2>1. /\ log' = log /\ said' = said /\ born' = born /\ promised' = promised
        /\ td' = [td EXCEPT ![h].status = "aborting", ![h].at = td[h].last,
                            ![h].stack = <<>>]
        /\ td[h].status \in {"running", "prepared"}
    BY <1>2 DEF AbortStart, logVars, idVars
  <2>2. td \in [Txns -> Details]
    BY <1>1 DEF Tree
  <2>3. \A g \in Txns : td'[g].status = IF g = h THEN "aborting" ELSE td[g].status
    <3>1. td[h] \in Details
      BY <2>2
    <3>2. PICK e : e = [td[h] EXCEPT !.status = "aborting", !.at = td[h].last, !.stack = <<>>]
      OBVIOUS
    <3>3. td' = [td EXCEPT ![h] = e]
      BY <2>1, <3>2
    <3>4. e.status = "aborting"
      BY <3>1, <3>2 DEF Details
    <3> QED BY <2>2, <3>3, <3>4
  <2>4. \A g \in Txns : td'[g].status = "none" <=> td[g].status = "none"
    <3>1. td[h].status # "none"
      BY <2>1
    <3> QED BY <2>3, <3>1
  <2>5. Active' = Active
    BY <2>4, SameActive
  <2> QED BY <1>1, <2>1, <2>5, LogGrows DEF Nothings, Becomes
<1>3. ASSUME NEW h \in Txns, UndoStep(h) PROVE Nothings /\ Grows
  <2>1. /\ log' = log /\ said' = said /\ born' = born /\ promised' = promised
        /\ \E a, s : td' = [td EXCEPT ![h].at = a, ![h].stack = s]
    BY <1>3 DEF UndoStep, logVars, idVars
  <2>2. td \in [Txns -> Details]
    BY <1>1 DEF Tree
  <2>3. \A g \in Txns : td'[g].status = td[g].status
    <3>1. PICK a, s : td' = [td EXCEPT ![h].at = a, ![h].stack = s]
      BY <2>1
    <3>2. PICK e : e = [td[h] EXCEPT !.at = a, !.stack = s]
      OBVIOUS
    <3>3. td' = [td EXCEPT ![h] = e]
      BY <3>1, <3>2
    <3>4. e.status = td[h].status
      BY <2>2, <3>2 DEF Details
    <3> QED BY <2>2, <3>3, <3>4
  <2>4. Active' = Active
    BY <2>3, SameActive
  <2> QED BY <1>1, <2>1, <2>4, LogGrows DEF Nothings, Becomes
<1>4. ASSUME td' = td, said' = said, born' = born, promised' = promised,
             log' = log \/ \E r : log' = Append(log, r)
      PROVE  Nothings /\ Grows
  <2>1. Active' = Active
    BY <1>4, SameActive
  <2> QED BY <1>1, <1>4, <2>1, LogGrows DEF Nothings, Becomes
<1>5. ASSUME NEW p \in Pages, WritePage(p) PROVE Nothings /\ Grows
  BY <1>4, <1>5 DEF WritePage, idVars
<1>6. CASE CkpStart \/ CkpActive
  BY <1>4, <1>6 DEF CkpStart, CkpActive, logVars, idVars
<1>7. CASE CkpRecord
  <2>1. td' = td /\ born' = born /\ promised' = promised
        /\ log' = Append(log, CkpRec(ckp.lsn)) /\ said' = Told(said, CkpRec(ckp.lsn))
    BY <1>7 DEF CkpRecord, PutLog, idVars
  <2>2. said' = said
    BY <2>1 DEF CkpRec, Told
  <2> QED BY <1>4, <2>1, <2>2
<1>8. CASE UNCHANGED vars
  BY <1>4, <1>8 DEF vars, logVars, idVars
<1> QED BY <1>2, <1>3, <1>5, <1>6, <1>7, <1>8

\* Every step before the first crash is one of them.
LEMMA StepTells ==
    ASSUME NEW R, IInv(R), [Next]_vars, ~ \E k : Crash(k)
    PROVE  Tells /\ Grows
<1>1. ~Recovery
  <2>1. phase = "up"
    BY DEF IInv, Basic
  <2> QED BY <2>1 DEF Recovery, Backward, Forward, Finish
<1>2. ASSUME NEW h \in Txns, Txn(h) PROVE Tells /\ Grows
  <2>1. ASSUME NEW parent, Begin(h, parent) PROVE Tells /\ Grows
    BY <2>1, BeginTells DEF Tells
  <2>2. ASSUME NEW p \in Pages, Write(h, p) PROVE Tells /\ Grows
    BY <2>2, WriteTells DEF Tells
  <2>3. CASE Commit(h)
    BY <2>3, CommitEndTells, EndUnloggedTells, ChildCommitTells, CommitPutTells
       DEF Commit, Tells
  <2>4. CASE Abort(h)
    BY <2>4, QuietTells, AbortEndTells DEF Abort, Tells
  <2>5. CASE Prepare(h)
    BY <2>5, PrepareTells DEF Tells
  <2> QED BY <1>2, <2>1, <2>2, <2>3, <2>4, <2>5 DEF Txn
<1>3. CASE Checkpoint
  BY <1>3, QuietTells DEF Checkpoint, Tells
<1>4. ASSUME NEW p \in Pages, Sync(p) \/ Evict(p) PROVE Tells /\ Grows
  BY <1>4, QuietTells DEF Sync, Evict, Tells
<1>5. CASE UNCHANGED vars
  BY <1>5, QuietTells DEF Tells
<1> QED BY <1>1, <1>2, <1>3, <1>4, <1>5 DEF Next, Step, Rest

-----------------------------------------------------------------------------
(* The store: every step is one of its steps.                              *)

\* Nobody has work before the first transaction.
LEMMA InitWorks == Init => Works
<1> SUFFICES ASSUME Init PROVE Works
  OBVIOUS
<1>1. said = Told0
  BY DEF Init
<1>2. said.aborted = {} /\ \A h \in Txns, p \in Pages : said.puts[h][p] = <<>>
  BY <1>1 DEF Told0, Nothing
<1>3. ToSet(<<>>) = {} /\ Increasing(<<>>)
  BY DEF ToSet, Increasing
<1> QED BY <1>2, <1>3 DEF Works

\* What a parent takes over comes after its own.
LEMMA MergedWork ==
    ASSUME NEW R, IInv(R), Works, NEW h \in Txns, NEW q \in Txns, Merges(h, q),
           NEW p \in Pages
    PROVE  /\ Increasing(said.puts[q][p] \o said.puts[h][p])
           /\ ToSet(said.puts[q][p] \o said.puts[h][p])
                = ToSet(said.puts[q][p]) \cup ToSet(said.puts[h][p])
<1>1. Basic /\ Owners(R) /\ Ordered
  BY DEF IInv
<1>2. q # h /\ td[h].status = "running" /\ q \in Lineage[h]
  BY DEF Merges
<1>3. /\ said.puts[q][p] \in Seq(Nat) /\ Increasing(said.puts[q][p])
      /\ said.puts[h][p] \in Seq(Nat) /\ Increasing(said.puts[h][p])
  BY <1>1 DEF Owners, Works
<1>4. Before(Own[q], Own[h])
  BY <1>1, <1>2 DEF Ordered
<1>5. ASSUME NEW x \in ToSet(said.puts[q][p]), NEW y \in ToSet(said.puts[h][p])
      PROVE  x < y
  <2>1. PICK m \in Own[q] \cap On(p) : ItemOf[m] = x
    BY ItemsOwned
  <2>2. PICK n \in Own[h] \cap On(p) : ItemOf[n] = y
    BY ItemsOwned
  <2>3. m \in Writes /\ n \in Writes /\ PageOf[m] = p /\ PageOf[n] = p
    BY <2>1, <2>2 DEF On
  <2>4. m < n
    BY <1>4, <2>1, <2>2, <2>3 DEF Before
  <2> QED BY <1>1, <2>1, <2>2, <2>3, <2>4 DEF Owners
<1>6. \A x \in ToSet(said.puts[q][p]), y \in ToSet(said.puts[h][p]) : x < y
  BY <1>5
<1> QED BY <1>3, <1>6, JoinedIncreasing, JoinedToSet

\* The steps keep to it.
LEMMA WorksKept ==
    ASSUME NEW R, IInv(R), Works, Tells, Grows
    PROVE  Works'
<1>1. Basic /\ Tree /\ Owners(R)
  BY DEF IInv
<1>2. /\ born \in Nat /\ items \in Nat /\ said.aborted \subseteq Txns
      /\ said.puts \in [Txns -> [Pages -> Seq(Nat)]]
  BY <1>1, TxnAssumption DEF Basic, Tree, Owners
<1>3. \A g \in said.aborted : g \in Txns /\ g <= born /\ g \notin Active
  BY <1>2 DEF Works, Active
<1>4. \A g \in Active : g \in Txns /\ g <= born
  BY <1>1 DEF Tree, TreeOf, Active
<1> DEFINE Lasting == /\ said'.aborted = said.aborted
                      /\ \/ Active' \subseteq Active /\ born' = born
                         \/ born' = born + 1 /\ Active' = Active \cup {born + 1}
           Ended == \E h \in Active : /\ said'.aborted \subseteq said.aborted \cup {h}
                                      /\ Active' = Active \ {h} /\ born' = born
<1>5. Lasting \/ Ended
  <2>1. CASE Nothings
    BY <2>1 DEF Nothings, Becomes
  <2>2. ASSUME NEW h \in Txns, Begins(h) PROVE Lasting
    BY <2>2 DEF Begins, Becomes
  <2>3. ASSUME NEW h \in Txns, Votes(h) \/ Commits(h) PROVE Lasting
    BY <2>3 DEF Votes, Commits, Becomes
  <2>4. ASSUME NEW h \in Txns, NEW p \in Pages, PutsOn(h, p) PROVE Lasting
    BY <2>4 DEF PutsOn, Becomes
  <2>5. ASSUME NEW h \in Txns, NEW q \in Txns, Merges(h, q) PROVE Lasting
    BY <2>5 DEF Merges, Becomes
  <2>6. ASSUME NEW h \in Txns, NEW pr, Returns(h, pr) PROVE Lasting
    BY <2>6 DEF Returns, Becomes
  <2>7. ASSUME NEW h \in Txns, NEW ab, Fails(h, ab) PROVE Ended
    BY <2>7 DEF Fails, Becomes, Active
  <2> HIDE DEF Lasting, Ended
  <2> QED BY <2>1, <2>2, <2>3, <2>4, <2>5, <2>6, <2>7 DEF Tells
<1>6. ASSUME NEW g \in said'.aborted PROVE g <= born' /\ td'[g].status = "none"
  <2>1. g \in Txns /\ g <= born' /\ g \notin Active'
    <3>1. CASE Lasting
      BY <1>2, <1>3, <3>1 DEF Txns
    <3>2. CASE Ended
      BY <1>3, <1>4, <3>2
    <3> HIDE DEF Lasting, Ended
    <3> QED BY <1>5, <3>1, <3>2
  <2> QED BY <2>1 DEF Active
<1> DEFINE Has(p, i) == \E n \in DOMAIN log :
                          log[n].type = "write" /\ log[n].page = p /\ log[n].item = i
           HasNow(p, i) == \E n \in DOMAIN log' :
                          log'[n].type = "write" /\ log'[n].page = p /\ log'[n].item = i
<1>7. ASSUME NEW p, NEW i, Has(p, i) PROVE HasNow(p, i)
  BY <1>7 DEF Grows
<1>8. \A h \in Txns, p \in Pages :
        Increasing(said.puts[h][p]) /\ \A i \in ToSet(said.puts[h][p]) : Has(p, i)
  BY DEF Works
<1> HIDE DEF Has, HasNow
<1>9. ASSUME NEW g \in Txns, NEW r \in Pages
      PROVE  /\ Increasing(said'.puts[g][r])
             /\ \A i \in ToSet(said'.puts[g][r]) : HasNow(r, i)
  <2>1. CASE said'.puts = said.puts
    BY <1>7, <1>8, <2>1
  <2>2. ASSUME NEW h \in Txns, NEW p \in Pages, PutsOn(h, p)
        PROVE  /\ Increasing(said'.puts[g][r])
               /\ \A i \in ToSet(said'.puts[g][r]) : HasNow(r, i)
    <3>1. /\ said'.puts = [said.puts EXCEPT ![h] =
                             [said.puts[h] EXCEPT ![p] = Append(said.puts[h][p], items + 1)]]
          /\ HasNow(p, items + 1)
      BY <2>2 DEF PutsOn, Becomes, HasNow
    <3>2. CASE g = h /\ r = p
      <4>1. said'.puts[g][r] = Append(said.puts[h][p], items + 1)
        BY <1>2, <3>1, <3>2
      <4>2. \A y \in ToSet(said.puts[h][p]) : y <= items /\ y \in Nat
        BY <1>1, <1>2 DEF Owners, ToSet
      <4>3. \A y \in ToSet(said.puts[h][p]) : y < items + 1
        BY <1>2, <4>2
      <4>4. said.puts[h][p] \in Seq(Nat) /\ items + 1 \in Nat
        BY <1>2
      <4>5. /\ Increasing(said'.puts[g][r])
            /\ ToSet(said'.puts[g][r]) = ToSet(said.puts[h][p]) \cup {items + 1}
        BY <1>8, <4>1, <4>3, <4>4, GrownIncreasing
      <4> QED BY <1>7, <1>8, <3>1, <3>2, <4>5
    <3>3. CASE ~(g = h /\ r = p)
      <4>1. said'.puts[g][r] = said.puts[g][r]
        BY <1>2, <3>1, <3>3
      <4> QED BY <1>7, <1>8, <4>1
    <3> QED BY <3>2, <3>3
  <2>3. ASSUME NEW h \in Txns, NEW q \in Txns, Merges(h, q)
        PROVE  /\ Increasing(said'.puts[g][r])
               /\ \A i \in ToSet(said'.puts[g][r]) : HasNow(r, i)
    <3>1. /\ q # h
          /\ said'.puts = [[said.puts EXCEPT ![h] = Nothing]
               EXCEPT ![q] = [p \in Pages |-> said.puts[q][p] \o said.puts[h][p]]]
      BY <2>3 DEF Merges, Becomes
    <3>2. CASE g = q
      <4>1. said'.puts[g][r] = said.puts[q][r] \o said.puts[h][r]
        BY <1>2, <3>1, <3>2
      <4>2. /\ Increasing(said.puts[q][r] \o said.puts[h][r])
            /\ ToSet(said.puts[q][r] \o said.puts[h][r])
                 = ToSet(said.puts[q][r]) \cup ToSet(said.puts[h][r])
        BY <2>3, MergedWork
      <4> QED BY <1>7, <1>8, <4>1, <4>2
    <3>3. CASE g = h
      <4>1. said'.puts[g][r] = <<>>
        BY <1>2, <3>1, <3>3 DEF Nothing
      <4> QED BY <4>1 DEF ToSet, Increasing
    <3>4. CASE g # q /\ g # h
      <4>1. said'.puts[g][r] = said.puts[g][r]
        BY <1>2, <3>1, <3>4
      <4> QED BY <1>7, <1>8, <4>1
    <3> QED BY <3>2, <3>3, <3>4
  <2>4. \/ said'.puts = said.puts
        \/ \E h \in Txns, p \in Pages : PutsOn(h, p)
        \/ \E h \in Txns, q \in Txns : Merges(h, q)
    BY DEF Tells, Nothings, Begins, Votes, Commits, Returns, Fails, Becomes
  <2> QED BY <2>1, <2>2, <2>3, <2>4
<1> QED BY <1>6, <1>9 DEF Works, HasNow

\* The mapping, by the fates.
LEMMA Mapped ==
    ASSUME Stored
    PROVE  /\ Outcome = [g \in Txns |-> Fate(g)]
           /\ Puts = [g \in Txns |-> IF Fate(g) = "ended" /\ g \notin said.voted
                                     THEN Nothing ELSE said.puts[g]]
<1>1. \A g \in Txns : OutcomeOf(g) = Fate(g)
  BY DEF Stored
<1> QED BY <1>1 DEF Outcome, Puts

\* The same after a step.
LEMMA MappedNext ==
    ASSUME Stored'
    PROVE  /\ Outcome' = [g \in Txns |-> Fate(g)']
           /\ Puts' = [g \in Txns |-> IF Fate(g)' = "ended" /\ g \notin said'.voted
                                      THEN Nothing ELSE said'.puts[g]]
<1>1. \A g \in Txns : OutcomeOf(g)' = Fate(g)'
  BY DEF Stored
<1> QED BY <1>1 DEF Outcome, Puts

\* The fates of those who are in each state.
LEMMA Fates ==
    ASSUME NEW R, IInv(R), NEW h \in Txns
    PROVE  /\ td[h].status = "running" =>
                /\ h \in Active /\ h \notin ToSet(said.order) /\ h \notin said.voted
                /\ h <= born
           /\ td[h].status \in {"prepared", "aborting"} =>
                h \in Active /\ h \notin ToSet(said.order) /\ h <= born
           /\ td[h].status = "committing" => h \in ToSet(said.order)
           /\ h > born =>
                h \notin Active /\ h \notin ToSet(said.order) /\ h \notin said.voted
<1>1. Tree /\ Outcomes
  BY DEF IInv
<1>2. born \in Nat /\ h \in Nat
  BY <1>1, TxnAssumption DEF Tree, Txns
<1>3. td[h].status # "none" => h \in Active /\ h <= born
  BY <1>1 DEF Tree, TreeOf, Active
<1>4. h \in Active => td[h].status # "none"
  BY DEF Active
<1>5. h \in said.voted \/ h \in ToSet(said.order) => h <= born
  BY <1>1, <1>2 DEF Outcomes
<1>6. td[h].status # "none" =>
        /\ h \in ToSet(said.order) <=> td[h].status = "committing"
        /\ td[h].status = "running" => h \notin said.voted
  BY <1>1 DEF Outcomes
<1> QED BY <1>2, <1>3, <1>4, <1>5, <1>6

\* The pages of the store do not change unless a transaction commits.
LEMMA SamePages ==
    ASSUME Stored, Stored', said'.order = said.order,
           \A g \in ToSet(said.order) : said'.puts[g] = said.puts[g]
    PROVE  StorePages' = StorePages
<1>1. ASSUME NEW p \in Pages PROVE StorePages'[p] = StorePages[p]
  <2>1. ItemsOf(ToSet(said.order), p)' = ItemsOf(ToSet(said.order), p)
    <3>1. ToSet(said'.order) = ToSet(said.order)
      OBVIOUS
    <3> QED BY <3>1 DEF ItemsOf
  <2>2. /\ StorePages[p] \in Seq(Nat) /\ Increasing(StorePages[p])
        /\ ToSet(StorePages[p]) = ItemsOf(ToSet(said.order), p)
    BY DEF Stored
  <2>3. /\ StorePages'[p] \in Seq(Nat) /\ Increasing(StorePages'[p])
        /\ ToSet(StorePages'[p]) = ItemsOf(ToSet(said.order), p)'
    BY DEF Stored
  <2> QED BY <2>1, <2>2, <2>3, SameIncreasing
<1>2. StorePages = [p \in Pages |-> StorePages[p]]
  BY DEF StorePages
<1>3. StorePages' = [p \in Pages |-> StorePages'[p]]
  BY DEF StorePages
<1> QED BY <1>1, <1>2, <1>3

\* Nothing.
LEMMA NothingStutters ==
    ASSUME Stored, Stored', Nothings
    PROVE  UNCHANGED Store!vars
<1>1. /\ said'.puts = said.puts /\ said'.voted = said.voted /\ said'.order = said.order
      /\ Active' = Active /\ born' = born /\ promised' = promised
  BY DEF Nothings, Becomes
<1>2. \A g \in Txns : Fate(g)' = Fate(g)
  BY <1>1 DEF Fate
<1>3. Outcome' = Outcome /\ Puts' = Puts
  BY <1>1, <1>2, Mapped, MappedNext
<1>4. StorePages' = StorePages
  BY <1>1, SamePages
<1> QED BY <1>1, <1>3, <1>4 DEF Store!vars

\* A transaction begins.
LEMMA BeginStores ==
    ASSUME NEW R, IInv(R), Stored, Stored', NEW h \in Txns, Begins(h)
    PROVE  Store!Begin(h)
<1>1. /\ said'.puts = said.puts /\ said'.voted = said.voted /\ said'.order = said.order
      /\ Active' = Active \cup {h} /\ h = born + 1 /\ born' = h /\ promised' = promised
  BY DEF Begins, Becomes
<1>2. born \in Nat /\ \A g \in Txns : g \in Nat
  BY TxnAssumption DEF IInv, Tree, Txns
<1>3. Fate(h) = "unborn" /\ Fate(h)' = "running"
  BY <1>1, <1>2, Fates DEF Fate
<1>4. \A g \in Txns \ {h} : Fate(g)' = Fate(g)
  BY <1>1, <1>2 DEF Fate
<1>5. Outcome[h] = "unborn" /\ Outcome' = [Outcome EXCEPT ![h] = "running"]
  BY <1>3, <1>4, Mapped, MappedNext
<1>6. Puts' = Puts
  BY <1>1, <1>3, <1>4, Mapped, MappedNext
<1>7. StorePages' = StorePages
  BY <1>1, SamePages
<1> QED BY <1>1, <1>5, <1>6, <1>7 DEF Store!Begin

\* It puts an item on a page.
LEMMA PutStores ==
    ASSUME NEW R, IInv(R), Stored, Stored', NEW h \in Txns, NEW p \in Pages, PutsOn(h, p)
    PROVE  Store!Put(h, p, items + 1) /\ items + 1 \in 1 .. MaxWrites
<1>1. /\ said'.puts = [said.puts EXCEPT ![h] =
                         [said.puts[h] EXCEPT ![p] = Append(said.puts[h][p], items + 1)]]
      /\ said'.voted = said.voted /\ said'.order = said.order
      /\ Active' = Active /\ born' = born /\ promised' = promised
      /\ td[h].status = "running" /\ items + 1 \in 1 .. MaxWrites
  BY DEF PutsOn, Becomes
<1>2. said.puts \in [Txns -> [Pages -> Seq(Nat)]]
  BY DEF IInv, Owners
<1>3. \A g \in Txns : Fate(g)' = Fate(g)
  BY <1>1 DEF Fate
<1>4. Fate(h) = "running" /\ h \notin ToSet(said.order)
  BY <1>1, Fates DEF Fate
<1>5. Outcome[h] = "running" /\ Outcome' = Outcome
  BY <1>3, <1>4, Mapped, MappedNext
<1>6. Puts' = [Puts EXCEPT ![h] = [Puts[h] EXCEPT ![p] = Append(Puts[h][p], items + 1)]]
  <2>1. Puts[h] = said.puts[h]
    BY <1>4, Mapped
  <2>2. Puts'[h] = [said.puts[h] EXCEPT ![p] = Append(said.puts[h][p], items + 1)]
    BY <1>1, <1>2, <1>3, <1>4, MappedNext
  <2>3. \A g \in Txns \ {h} : Puts'[g] = Puts[g]
    BY <1>1, <1>2, <1>3, Mapped, MappedNext
  <2>4. Puts = [g \in Txns |-> Puts[g]] /\ Puts' = [g \in Txns |-> Puts'[g]]
    BY DEF Puts
  <2> HIDE DEF Puts
  <2> QED BY <2>1, <2>2, <2>3, <2>4
<1>7. Puts' = [Puts EXCEPT ![h][p] = Append(@, items + 1)]
  BY <1>6
<1>8. StorePages' = StorePages
  <2>1. \A g \in ToSet(said.order) : said'.puts[g] = said.puts[g]
    <3>1. ToSet(said.order) \subseteq Txns
      BY DEF IInv, Owners, ToSet
    <3> QED BY <1>1, <1>2, <1>4, <3>1
  <2> QED BY <1>1, <2>1, SamePages
<1> QED BY <1>1, <1>5, <1>7, <1>8 DEF Store!Put

\* A child's work becomes its parent's.
LEMMA MergeStores ==
    ASSUME NEW R, IInv(R), Stored, Stored', NEW h \in Txns, NEW q \in Txns, Merges(h, q)
    PROVE  Store!Merge(h, q)
<1>1. /\ said'.puts = [[said.puts EXCEPT ![h] = Nothing]
                EXCEPT ![q] = [p \in Pages |-> said.puts[q][p] \o said.puts[h][p]]]
      /\ said'.voted = said.voted /\ said'.order = said.order
      /\ Active' = Active \ {h} /\ born' = born /\ promised' = promised
      /\ q # h /\ td[h].status = "running" /\ td[q].status = "running"
  BY DEF Merges, Becomes
<1>2. said.puts \in [Txns -> [Pages -> Seq(Nat)]] /\ ToSet(said.order) \subseteq Txns
  BY DEF IInv, Owners, ToSet
<1>3. /\ Fate(h) = "running" /\ Fate(q) = "running" /\ Fate(h)' = "ended"
      /\ h \notin ToSet(said.order) /\ q \notin ToSet(said.order)
      /\ h \notin said.voted /\ q \notin said.voted
  <2>1. h \in Nat /\ born \in Nat
    BY TxnAssumption DEF IInv, Tree, Txns
  <2>2. h <= born /\ ~(h > born)
    BY <1>1, <2>1, Fates
  <2> QED BY <1>1, <2>2, Fates DEF Fate
<1>4. \A g \in Txns \ {h} : Fate(g)' = Fate(g)
  BY <1>1 DEF Fate
<1>5. /\ Outcome[h] = "running" /\ Outcome[q] = "running"
      /\ Outcome' = [Outcome EXCEPT ![h] = "ended"]
  BY <1>3, <1>4, Mapped, MappedNext
<1>6. Puts' = [Puts EXCEPT ![h] = Store!Nothing,
                           ![q] = [p \in Pages |-> Puts[q][p] \o Puts[h][p]]]
  <2>1. Puts[h] = said.puts[h] /\ Puts[q] = said.puts[q]
    BY <1>3, Mapped
  <2>2. Puts'[h] = Store!Nothing
    BY <1>1, <1>3, MappedNext DEF Nothing, Store!Nothing
  <2>3. Puts'[q] = [p \in Pages |-> said.puts[q][p] \o said.puts[h][p]]
    <3>1. Fate(q)' = "running"
      BY <1>1, <1>3, <1>4
    <3>2. Puts'[q] = said'.puts[q]
      BY <3>1, MappedNext
    <3> QED BY <1>1, <1>2, <3>2
  <2>4. \A g \in Txns \ {h, q} : Puts'[g] = Puts[g]
    <3>1. \A g \in Txns \ {h, q} : said'.puts[g] = said.puts[g]
      BY <1>1, <1>2
    <3>2. \A g \in Txns \ {h, q} : Fate(g)' = Fate(g)
      BY <1>4
    <3>3. said'.voted = said.voted
      BY <1>1
    <3> QED BY <3>1, <3>2, <3>3, Mapped, MappedNext
  <2>5. Puts = [g \in Txns |-> Puts[g]] /\ Puts' = [g \in Txns |-> Puts'[g]]
    BY DEF Puts
  <2> HIDE DEF Puts
  <2> QED BY <1>1, <2>1, <2>2, <2>3, <2>4, <2>5
<1>7. Puts' = [Puts EXCEPT ![h] = Store!Nothing,
                           ![q] = [p \in Pages |-> @[p] \o Puts[h][p]]]
  <2>1. Puts = [g \in Txns |-> Puts[g]]
    BY DEF Puts
  <2> HIDE DEF Puts
  <2> QED BY <1>1, <1>6, <2>1
<1>8. StorePages' = StorePages
  <2>1. \A g \in ToSet(said.order) : said'.puts[g] = said.puts[g]
    BY <1>1, <1>2, <1>3
  <2> QED BY <1>1, <2>1, SamePages
<1> QED BY <1>1, <1>5, <1>7, <1>8 DEF Store!Merge

\* It is prepared.
LEMMA PrepareStores ==
    ASSUME NEW R, IInv(R), Stored, Stored', NEW h \in Txns, Votes(h)
    PROVE  Store!Prepare(h)
<1>1. /\ said'.puts = said.puts /\ said'.voted = said.voted \cup {h}
      /\ said'.order = said.order
      /\ Active' = Active /\ born' = born /\ promised' = promised
      /\ td[h].status = "running"
  BY DEF Votes, Becomes
<1>2. Fate(h) = "running" /\ Fate(h)' = "prepared"
  BY <1>1, Fates DEF Fate
<1>3. \A g \in Txns \ {h} : Fate(g)' = Fate(g)
  BY <1>1 DEF Fate
<1>4. Outcome[h] = "running" /\ Outcome' = [Outcome EXCEPT ![h] = "prepared"]
  BY <1>2, <1>3, Mapped, MappedNext
<1>5. Puts' = Puts
  BY <1>1, <1>2, <1>3, Mapped, MappedNext
<1>6. StorePages' = StorePages
  BY <1>1, SamePages
<1> QED BY <1>1, <1>4, <1>5, <1>6 DEF Store!Prepare

\* It commits: its items come after those that were there.
LEMMA CommitStores ==
    ASSUME NEW R, IInv(R), Works, Stored, Stored', NEW h \in Txns, Commits(h)
    PROVE  Store!Commit(h)
<1>1. /\ said'.puts = said.puts /\ said'.voted = said.voted
      /\ said'.order = Append(said.order, h)
      /\ Active' = Active /\ born' = born /\ promised' = promised
      /\ td[h].status \in {"running", "prepared"}
  BY DEF Commits, Becomes
<1>2. said.puts \in [Txns -> [Pages -> Seq(Nat)]] /\ said.order \in Seq(Txns)
  BY DEF IInv, Owners
<1>3. ToSet(said'.order) = ToSet(said.order) \cup {h}
  BY <1>1, <1>2, AppendToSet
<1>4. Fate(h) \in {"running", "prepared"} /\ Fate(h)' = "committed"
  BY <1>1, <1>3, Fates DEF Fate
<1>5. \A g \in Txns \ {h} : Fate(g)' = Fate(g)
  BY <1>1, <1>3 DEF Fate
<1>6. /\ Outcome[h] \in {"running", "prepared"}
      /\ Outcome' = [Outcome EXCEPT ![h] = "committed"]
  BY <1>4, <1>5, Mapped, MappedNext
<1>7. Puts' = Puts /\ Puts[h] = said.puts[h]
  BY <1>1, <1>4, <1>5, Mapped, MappedNext
<1>8. ASSUME NEW p \in Pages PROVE StorePages'[p] = StorePages[p] \o Puts[h][p]
  <2>1. /\ StorePages[p] \in Seq(Nat) /\ Increasing(StorePages[p])
        /\ ToSet(StorePages[p]) = ItemsOf(ToSet(said.order), p)
    BY DEF Stored
  <2>2. /\ StorePages'[p] \in Seq(Nat) /\ Increasing(StorePages'[p])
        /\ ToSet(StorePages'[p]) = ItemsOf(ToSet(said.order), p)'
    BY DEF Stored
  <2>3. said.puts[h][p] \in Seq(Nat) /\ Increasing(said.puts[h][p])
    BY <1>2 DEF Works
  <2>4. \A x \in ToSet(StorePages[p]), y \in ToSet(said.puts[h][p]) : x < y
    BY <1>1, <2>1, CommitsLast
  <2>5. ItemsOf(ToSet(said.order), p)'
          = ItemsOf(ToSet(said.order), p) \cup ToSet(said.puts[h][p])
    BY <1>1, <1>3 DEF ItemsOf
  <2>6. /\ StorePages[p] \o said.puts[h][p] \in Seq(Nat)
        /\ ToSet(StorePages[p] \o said.puts[h][p]) = ToSet(StorePages'[p])
    BY <2>1, <2>2, <2>3, <2>5, JoinedToSet
  <2>7. Increasing(StorePages[p] \o said.puts[h][p])
    BY <2>1, <2>3, <2>4, JoinedIncreasing
  <2> QED BY <1>7, <2>2, <2>6, <2>7, SameIncreasing
<1>9. StorePages' = [p \in Pages |-> StorePages[p] \o Puts[h][p]]
  <2>1. StorePages' = [p \in Pages |-> StorePages'[p]]
    BY DEF StorePages
  <2> QED BY <1>8, <2>1
<1> QED BY <1>1, <1>6, <1>7, <1>9 DEF Store!Commit

\* The commit returns.
LEMMA ReturnStores ==
    ASSUME NEW R, IInv(R), Stored, Stored', NEW h \in Txns, NEW pr, Returns(h, pr)
    PROVE  Store!Promise(h) \/ UNCHANGED Store!vars
<1>1. /\ said'.puts = said.puts /\ said'.voted = said.voted /\ said'.order = said.order
      /\ Active' = Active \ {h} /\ born' = born /\ promised' = pr
      /\ td[h].status = "committing" /\ pr \in {promised, promised \cup {h}}
  BY DEF Returns, Becomes
<1>2. Fate(h) = "committed" /\ Fate(h)' = "committed"
  BY <1>1, Fates DEF Fate
<1>3. \A g \in Txns \ {h} : Fate(g)' = Fate(g)
  BY <1>1 DEF Fate
<1>4. Outcome[h] = "committed" /\ Outcome' = Outcome /\ Puts' = Puts
  BY <1>1, <1>2, <1>3, Mapped, MappedNext
<1>5. StorePages' = StorePages
  BY <1>1, SamePages
<1> QED BY <1>1, <1>4, <1>5 DEF Store!Promise, Store!vars

\* It ends without a commit.
LEMMA FailStores ==
    ASSUME NEW R, IInv(R), Stored, Stored', NEW h \in Txns, NEW ab, Fails(h, ab)
    PROVE  Store!Abort(h)
<1>1. /\ said'.puts = said.puts /\ said'.voted = said.voted /\ said'.order = said.order
      /\ Active' = Active \ {h} /\ born' = born /\ promised' = promised
      /\ td[h].status \in {"running", "aborting"}
  BY DEF Fails, Becomes
<1>2. Fate(h) \in {"running", "prepared"} /\ Fate(h)' = "ended"
  <2>1. h \in Nat /\ born \in Nat
    BY TxnAssumption DEF IInv, Tree, Txns
  <2>2. h \in Active /\ h \notin ToSet(said.order) /\ ~(h > born)
    BY <1>1, <2>1, Fates
  <2> QED BY <1>1, <2>2 DEF Fate
<1>3. \A g \in Txns \ {h} : Fate(g)' = Fate(g)
  BY <1>1 DEF Fate
<1>4. Outcome[h] \in {"running", "prepared"} /\ Outcome' = [Outcome EXCEPT ![h] = "ended"]
  BY <1>2, <1>3, Mapped, MappedNext
<1>5. Puts' = [Puts EXCEPT ![h] = IF h \in said.voted THEN @ ELSE Store!Nothing]
  <2>1. Puts[h] = said.puts[h]
    BY <1>2, Mapped
  <2>2. Puts'[h] = IF h \in said.voted THEN Puts[h] ELSE Store!Nothing
    BY <1>1, <1>2, <2>1, MappedNext DEF Nothing, Store!Nothing
  <2>3. \A g \in Txns \ {h} : Puts'[g] = Puts[g]
    BY <1>1, <1>3, Mapped, MappedNext
  <2>4. Puts = [g \in Txns |-> Puts[g]] /\ Puts' = [g \in Txns |-> Puts'[g]]
    BY DEF Puts
  <2> HIDE DEF Puts
  <2> QED BY <2>2, <2>3, <2>4
<1>6. StorePages' = StorePages
  BY <1>1, SamePages
<1> QED BY <1>1, <1>4, <1>5, <1>6 DEF Store!Abort

\* Every step before the first crash is a step of the store, or none.
LEMMA StepStores ==
    ASSUME NEW R, IInv(R), Works, Stored, Stored', Tells
    PROVE  [Store!Next]_(Store!vars)
<1>1. CASE Nothings
  BY <1>1, NothingStutters
<1>2. ASSUME NEW h \in Txns, Begins(h) PROVE Store!Next
  <2>1. Store!Begin(h)
    BY <1>2, BeginStores
  <2> QED BY <2>1 DEF Store!Next
<1>3. ASSUME NEW h \in Txns, Votes(h) PROVE Store!Next
  <2>1. Store!Prepare(h)
    BY <1>3, PrepareStores
  <2> QED BY <2>1 DEF Store!Next
<1>4. ASSUME NEW h \in Txns, Commits(h) PROVE Store!Next
  <2>1. Store!Commit(h)
    BY <1>4, CommitStores
  <2> QED BY <2>1 DEF Store!Next
<1>5. ASSUME NEW h \in Txns, NEW p \in Pages, PutsOn(h, p) PROVE Store!Next
  <2>1. items + 1 \in 1 .. MaxWrites /\ Store!Put(h, p, items + 1)
    BY <1>5, PutStores
  <2> QED BY <2>1 DEF Store!Next
<1>6. ASSUME NEW h \in Txns, NEW q \in Txns, Merges(h, q) PROVE Store!Next
  <2>1. Store!Merge(h, q)
    BY <1>6, MergeStores
  <2> QED BY <2>1 DEF Store!Next
<1>7. ASSUME NEW h \in Txns, NEW pr, Returns(h, pr)
      PROVE  Store!Next \/ UNCHANGED Store!vars
  <2>1. Store!Promise(h) \/ UNCHANGED Store!vars
    BY <1>7, ReturnStores
  <2> QED BY <2>1 DEF Store!Next
<1>8. ASSUME NEW h \in Txns, NEW ab, Fails(h, ab) PROVE Store!Next
  <2>1. Store!Abort(h)
    BY <1>8, FailStores
  <2> QED BY <2>1 DEF Store!Next
<1> QED BY <1>1, <1>2, <1>3, <1>4, <1>5, <1>6, <1>7, <1>8 DEF Tells

\* The store is empty at first.
LEMMA InitStores == Init => Store!Init
<1> SUFFICES ASSUME Init PROVE Store!Init
  OBVIOUS
<1>1. /\ said = Told0 /\ born = 0 /\ promised = {} /\ phase = "up"
      /\ mem = [p \in Pages |-> [lsn |-> ZeroLsn, val |-> <<>>]]
  BY DEF Init
<1>2. /\ said.puts = [h \in Txns |-> Nothing] /\ said.voted = {}
      /\ said.order = <<>> /\ said.aborted = {}
  BY <1>1 DEF Told0
<1>3. ToSet(<<>>) = {} /\ Increasing(<<>>) /\ <<>> \in Seq(Nat)
  BY DEF ToSet, Increasing
<1>4. \A h \in Txns : OutcomeOf(h) = "unborn"
  <2>1. \A h \in Txns : h > 0
    BY TxnAssumption DEF Txns
  <2> QED BY <1>1, <1>2, <1>3, <2>1 DEF OutcomeOf
<1>5. Outcome = [h \in Txns |-> "unborn"]
  BY <1>4 DEF Outcome
<1>6. Puts = [h \in Txns |-> Store!Nothing]
  BY <1>2, <1>4 DEF Puts, Nothing, Store!Nothing
<1>7. ASSUME NEW p \in Pages PROVE StorePages[p] = <<>>
  <2>1. PICK w : w = Without(<<>>, ItemsOf(InProgress, p))
    OBVIOUS
  <2>2. StorePages[p] = w
    BY <1>1, <2>1 DEF StorePages
  <2>3. w \in Seq(Nat) /\ Increasing(w) /\ ToSet(w) = {}
    BY <1>3, <2>1, WithoutIs
  <2> QED BY <1>3, <2>2, <2>3, SameIncreasing
<1>8. StorePages = Store!Nothing
  <2>1. StorePages = [p \in Pages |-> StorePages[p]]
    BY DEF StorePages
  <2> QED BY <1>7, <2>1 DEF Store!Nothing
<1> QED BY <1>1, <1>2, <1>5, <1>6, <1>8 DEF Store!Init

\* Before the first crash.
WorksFirst == crashes = 0 => Works
StoredFirst == crashes = 0 => Stored

\* A step after which there was no crash is none.
LEMMA NotCrashed ==
    ASSUME Inv, [Next]_vars, crashes' = 0
    PROVE  crashes = 0 /\ ~ \E k : Crash(k)
<1>1. crashes \in Nat
  BY DEF Inv
<1>2. crashes' = crashes \/ crashes' = crashes + 1
  BY <1>1, CrashesCounted
<1>3. ASSUME NEW k, Crash(k) PROVE FALSE
  BY <1>1, <1>3 DEF Crash
<1> QED BY <1>1, <1>2, <1>3

\* Works holds after each step, ...
LEMMA WorksNext == Inv /\ WorksFirst /\ [Next]_vars => WorksFirst'
<1> SUFFICES ASSUME Inv, WorksFirst, [Next]_vars, crashes' = 0 PROVE Works'
  BY DEF WorksFirst
<1>1. crashes = 0 /\ ~ \E k : Crash(k)
  BY NotCrashed
<1>2. PICK R : IInv(R)
  BY <1>1 DEF Inv
<1>3. Tells /\ Grows
  BY <1>1, <1>2, StepTells
<1> QED BY <1>1, <1>2, <1>3, WorksKept DEF WorksFirst

\* ... and so does what it says of the store, ...
LEMMA WorksStored == Inv /\ WorksFirst => StoredFirst
<1> SUFFICES ASSUME Inv, crashes = 0, Works PROVE Stored
  BY DEF WorksFirst, StoredFirst
<1>1. PICK R : IInv(R)
  BY DEF Inv
<1> QED BY <1>1, OutcomeIs, PagesStored DEF Stored

\* ... of which the step is one.
UntilCrash == crashes' = 0 => [Store!Next]_(Store!vars)
LEMMA NextStores ==
    Inv /\ WorksFirst /\ StoredFirst /\ StoredFirst' /\ [Next]_vars => UntilCrash
<1> SUFFICES ASSUME Inv, WorksFirst, StoredFirst, StoredFirst', [Next]_vars, crashes' = 0
             PROVE  [Store!Next]_(Store!vars)
  BY DEF UntilCrash
<1>1. crashes = 0 /\ ~ \E k : Crash(k)
  BY NotCrashed
<1>2. PICK R : IInv(R)
  BY <1>1 DEF Inv
<1>3. Tells
  BY <1>1, <1>2, StepTells
<1>4. Works /\ Stored /\ Stored'
  BY <1>1 DEF WorksFirst, StoredFirst
<1> QED BY <1>2, <1>3, <1>4, StepStores

\* Until the environment crashes, the log, the cache and the locks implement the
\* store of TxnStore: a commit makes all of a transaction's work visible at once,
\* at the end of the pages, and an abort, however it is interleaved, nothing.
THEOREM StoreUntilCrash ==
    Spec => Store!Init /\ [][crashes' = 0 => [Store!Next]_(Store!vars)]_vars
<1>1. Init => WorksFirst
  BY InitWorks DEF WorksFirst
<1>2. Spec => []WorksFirst
  BY <1>1, Invariant, WorksNext, PTL DEF Spec
<1>3. Spec => []StoredFirst
  BY <1>2, Invariant, WorksStored, PTL
<1>4. Spec => [][UntilCrash]_vars
  BY <1>2, <1>3, Invariant, NextStores, PTL DEF Spec
<1>5. Spec => [][crashes' = 0 => [Store!Next]_(Store!vars)]_vars
  BY <1>4 DEF UntilCrash
<1> QED BY <1>5, InitStores DEF Spec

\* There are no more crashes than the bound.
LEMMA CrashesBounded == Spec => [](crashes \in 0 .. MaxCrashes)
<1>1. Init => crashes \in 0 .. MaxCrashes
  BY TxnAssumption DEF Init
<1>2. crashes \in 0 .. MaxCrashes /\ [Next]_vars => (crashes \in 0 .. MaxCrashes)'
  <2> SUFFICES ASSUME crashes \in 0 .. MaxCrashes, [Next]_vars
               PROVE  crashes' \in 0 .. MaxCrashes
    OBVIOUS
  <2>1. crashes \in Nat
    OBVIOUS
  <2>2. CASE \E k : Crash(k)
    BY <2>2, TxnAssumption DEF Crash
  <2>3. CASE ~ \E k : Crash(k)
    BY <2>1, <2>3, CrashesCounted
  <2> QED BY <2>2, <2>3
<1> QED BY <1>1, <1>2, PTL DEF Spec

\* An environment that does not crash implements all of TxnStore.
THEOREM StoreWithoutCrash == MaxCrashes = 0 => (Spec => StoreSpec)
<1> SUFFICES ASSUME MaxCrashes = 0 PROVE Spec => StoreSpec
  OBVIOUS
<1>1. Spec => [](crashes = 0)
  <2>1. crashes \in 0 .. MaxCrashes => crashes = 0
    OBVIOUS
  <2> QED BY <2>1, CrashesBounded, PTL
<1>2. Init => WorksFirst
  BY InitWorks DEF WorksFirst
<1>3. Spec => []WorksFirst
  BY <1>2, Invariant, WorksNext, PTL DEF Spec
<1>4. Spec => []StoredFirst
  BY <1>3, Invariant, WorksStored, PTL
<1>5. UntilCrash /\ (crashes = 0)' => [Store!Next]_(Store!vars)
  BY DEF UntilCrash
<1>6. Spec => [][Store!Next]_(Store!vars)
  BY <1>1, <1>3, <1>4, <1>5, Invariant, NextStores, PTL DEF Spec
<1> QED BY <1>6, InitStores DEF Spec, StoreSpec, Store!Spec
=============================================================================
