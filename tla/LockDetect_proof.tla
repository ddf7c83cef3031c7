------------------------- MODULE LockDetect_proof -------------------------
(***************************************************************************)
(* The deadlock detector, for any transactions and any policy.             *)
(*                                                                         *)
(* The proof goes from the inside out: what a loop over the rows computes, *)
(* what the search makes of any matrix, what a matrix put together while   *)
(* others lock and unlock still says of them, and from these what the      *)
(* detector may be trusted with.                                           *)
(***************************************************************************)
EXTENDS LockDetect, OrderFacts

-----------------------------------------------------------------------------
(* Loops.                                                                  *)

\* What holds at the top and passes from a number to the one below.
LEMMA Downward ==
    ASSUME NEW M \in Nat, NEW S, \A n \in 1 .. M : n \in S => n - 1 \in S, M \in S
    PROVE  \A n \in 0 .. M : n \in S
<1> DEFINE R == {n \in 0 .. M : M - n \in S}
<1>1. 0 \in R
  OBVIOUS
<1>2. ASSUME NEW n \in 1 .. M, n - 1 \in R PROVE n \in R
  <2>1. M - (n - 1) \in 1 .. M /\ M - (n - 1) \in S /\ (M - (n - 1)) - 1 = M - n
    BY <1>2
  <2> QED BY <2>1
<1>3. \A n \in 0 .. M : n \in R
  <2> HIDE DEF R
  <2> QED BY <1>1, <1>2, Loop
<1>4. \A n \in 0 .. M : M - n \in 0 .. M /\ M - (M - n) = n
  OBVIOUS
<1> QED BY <1>3, <1>4

\* The values after the turns 1 to M of a loop that starts at x0 and of which
\* turn n takes x to G[n][x].
Runs(M, X, x0, G) ==
    {f \in [0 .. M -> X] : f[0] = x0 /\ \A n \in 1 .. M : f[n] = G[n][f[n - 1]]}

\* A loop whose turns G stay in X has values for all its turns.
LEMMA LoopExists ==
    ASSUME NEW M \in Nat, NEW X, NEW x0 \in X,
           NEW G \in [1 .. M -> [X -> X]]
    PROVE  Runs(M, X, x0, G) # {}
<1> DEFINE Does(m, f) == f[0] = x0 /\ \A n \in 1 .. m : f[n] = G[n][f[n - 1]]
           S == {m \in 0 .. M : \E f \in [0 .. m -> X] : Does(m, f)}
<1>1. 0 \in S
  <2> DEFINE f == [n \in 0 .. 0 |-> x0]
  <2>1. f \in [0 .. 0 -> X] /\ Does(0, f)
    OBVIOUS
  <2>2. 0 \in 0 .. M
    OBVIOUS
  <2> HIDE DEF f, Does
  <2> QED BY <2>1, <2>2
<1>2. ASSUME NEW m \in 1 .. M, m - 1 \in S PROVE m \in S
  <2>1. PICK f \in [0 .. m - 1 -> X] : Does(m - 1, f)
    BY <1>2
  <2>2. m \in 1 .. M /\ m # 0 /\ 0 \in 0 .. m /\ m - 1 \in 0 .. m - 1 /\ f[m - 1] \in X
    OBVIOUS
  <2>3. PICK v \in X : v = G[m][f[m - 1]]
    <3>1. G[m] \in [X -> X]
      OBVIOUS
    <3> QED BY <2>2, <3>1
  <2> DEFINE g == [n \in 0 .. m |-> IF n = m THEN v ELSE f[n]]
  <2>4. g \in [0 .. m -> X] /\ g[0] = x0
    <3>1. \A n \in 0 .. m : n # m => n \in 0 .. m - 1
      OBVIOUS
    <3>2. f[0] = x0
      BY <2>1
    <3> QED BY <2>2, <3>1, <3>2
  <2>6. ASSUME NEW n \in 1 .. m PROVE g[n] = G[n][g[n - 1]]
    <3>1. n - 1 \in 0 .. m /\ n - 1 # m /\ n \in 0 .. m
      OBVIOUS
    <3>2. g[n - 1] = f[n - 1]
      BY <3>1
    <3>3. CASE n = m
      <4>1. g[n] = v
        BY <3>1, <3>3
      <4> QED BY <2>3, <3>2, <3>3, <4>1
    <3>4. CASE n # m
      <4>1. n \in 1 .. m - 1 /\ g[n] = f[n]
        BY <3>4
      <4>2. f[n] = G[n][f[n - 1]]
        BY <2>1, <4>1
      <4> QED BY <3>2, <4>1, <4>2
    <3> QED BY <3>3, <3>4
  <2>7. Does(m, g)
    BY <2>4, <2>6
  <2> HIDE DEF g, Does
  <2>8. \E h \in [0 .. m -> X] : Does(m, h)
    BY <2>4, <2>7
  <2> QED BY <2>8
<1>3. M \in S
  <2>1. M \in 0 .. M
    OBVIOUS
  <2> HIDE DEF S
  <2> QED BY <1>1, <1>2, <2>1, Loop
<1> QED BY <1>3 DEF Runs

-----------------------------------------------------------------------------
(* The loops of __dd_find, turn by turn.                                   *)

RowTypes == [row : SUBSET Lockers, dead : BOOLEAN]

\* One turn of the inner loop keeps a row a row.
LEMMA OrRowType ==
    ASSUME NEW rows \in [Lockers -> SUBSET Lockers], NEW i \in Lockers,
           NEW r \in RowTypes, NEW j \in Lockers
    PROVE  OrRow(rows, i, r, j) \in RowTypes
BY DEF OrRow, RowTypes

\* Closure is the last of the rows that the inner loop goes through.
LEMMA ClosureLoop ==
    ASSUME NEW rows \in [Lockers -> SUBSET Lockers], NEW i \in Lockers
    PROVE  \E c \in [0 .. N -> RowTypes] :
             /\ c[0] = [row |-> rows[i], dead |-> FALSE]
             /\ \A n \in 1 .. N : c[n] = OrRow(rows, i, c[n - 1], n - 1)
             /\ Closure(rows, i) = c[N]
<1> DEFINE x0 == [row |-> rows[i], dead |-> FALSE]
           G == [n \in 1 .. N |-> [x \in RowTypes |-> OrRow(rows, i, x, n - 1)]]
           Body(c) == [n \in 0 .. N |-> IF n = 0 THEN x0
                                        ELSE OrRow(rows, i, c[n - 1], n - 1)]
           e == CHOOSE c : c = Body(c)
<1>1. N \in Nat /\ \A n \in 1 .. N : n - 1 \in Lockers
  BY RowAssumption DEF Lockers
<1>2. x0 \in RowTypes
  BY DEF RowTypes
<1>3. \A n \in 1 .. N, x \in RowTypes : G[n][x] = OrRow(rows, i, x, n - 1)
  OBVIOUS
<1>4. \A n \in 1 .. N, x \in RowTypes : OrRow(rows, i, x, n - 1) \in RowTypes
  BY <1>1, OrRowType
<1>5. G \in [1 .. N -> [RowTypes -> RowTypes]]
  BY <1>4
<1> HIDE DEF x0, G
<1>6. PICK c \in [0 .. N -> RowTypes] :
        c[0] = x0 /\ \A n \in 1 .. N : c[n] = G[n][c[n - 1]]
  <2>1. Runs(N, RowTypes, x0, G) # {}
    BY <1>1, <1>2, <1>5, LoopExists
  <2> QED BY <2>1 DEF Runs
<1>7. \A n \in 1 .. N : n - 1 \in 0 .. N /\ c[n - 1] \in RowTypes
  BY <1>1
<1>8. \A n \in 1 .. N : c[n] = OrRow(rows, i, c[n - 1], n - 1)
  BY <1>3, <1>6, <1>7
<1>9. \A n \in 0 .. N : c[n] = IF n = 0 THEN x0 ELSE OrRow(rows, i, c[n - 1], n - 1)
  <2>1. \A n \in 0 .. N : n # 0 => n \in 1 .. N
    OBVIOUS
  <2> QED BY <1>6, <1>8, <2>1
<1>10. c = Body(c)
  BY <1>9
<1>11. e = Body(e)
  <2> HIDE DEF Body
  <2> QED BY <1>10
<1>12. Closure(rows, i) = e[N]
  BY DEF Closure, x0
<1>13. \A n \in 0 .. N : e[n] = IF n = 0 THEN x0 ELSE OrRow(rows, i, e[n - 1], n - 1)
  BY <1>11
<1> HIDE DEF e, Body
<1>14. e = [n \in 0 .. N |-> e[n]]
  BY <1>11 DEF Body
<1>15. e[0] = x0 /\ \A n \in 1 .. N : e[n] = OrRow(rows, i, e[n - 1], n - 1)
  BY <1>1, <1>13
<1>16. \A n \in 0 .. N : e[n] \in RowTypes
  <2> DEFINE S == {n \in 0 .. N : e[n] \in RowTypes}
  <2>1. 0 \in S
    BY <1>1, <1>2, <1>15
  <2>2. \A n \in 1 .. N : n - 1 \in S => n \in S
    BY <1>4, <1>15
  <2>3. \A n \in 0 .. N : n \in S
    <3> HIDE DEF S
    <3> QED BY <1>1, <2>1, <2>2, Loop
  <2> QED BY <2>3
<1>17. e \in [0 .. N -> RowTypes]
  BY <1>14, <1>16
<1> QED BY <1>12, <1>15, <1>17 DEF x0

FindTypes == [rows : [Lockers -> SUBSET Lockers], invalid : SUBSET Lockers,
              found : SUBSET Lockers]

\* What Closure returns is a row and whether it has a deadlock.
LEMMA ClosureType ==
    ASSUME NEW rows \in [Lockers -> SUBSET Lockers], NEW i \in Lockers
    PROVE  Closure(rows, i) \in RowTypes
<1>1. N \in 0 .. N
  BY RowAssumption
<1>2. PICK c \in [0 .. N -> RowTypes] : Closure(rows, i) = c[N]
  BY ClosureLoop
<1> QED BY <1>1, <1>2

\* One turn of the outer loop keeps the types.
LEMMA FindRowType ==
    ASSUME NEW f \in FindTypes, NEW i \in Lockers
    PROVE  FindRow(f, i) \in FindTypes
<1>1. PICK c \in RowTypes : c = Closure(f.rows, i)
  BY ClosureType DEF FindTypes
<1>2. c.row \in SUBSET Lockers /\ c.dead \in BOOLEAN
  BY DEF RowTypes
<1>3. CASE i \in f.invalid
  BY <1>3 DEF FindRow
<1>4. CASE i \notin f.invalid
  <2> DEFINE r == [f.rows EXCEPT ![i] = c.row]
             v == IF c.dead THEN f.invalid \cup c.row ELSE f.invalid
             d == IF c.dead THEN f.found \cup {i} ELSE f.found
  <2>1. r \in [Lockers -> SUBSET Lockers] /\ v \in SUBSET Lockers /\ d \in SUBSET Lockers
    BY <1>2 DEF FindTypes
  <2>2. FindRow(f, i) = [rows |-> r, invalid |-> v, found |-> d]
    BY <1>1, <1>4 DEF FindRow
  <2> HIDE DEF r, v, d
  <2> QED BY <2>1, <2>2 DEF FindTypes
<1> QED BY <1>3, <1>4

\* Find is the last of what the outer loop goes through.
LEMMA FindLoop ==
    ASSUME matrix \in [Lockers -> SUBSET Lockers]
    PROVE  \E f \in [0 .. N -> FindTypes] :
             /\ f[0] = [rows |-> matrix, invalid |-> {}, found |-> {}]
             /\ \A n \in 1 .. N : f[n] = FindRow(f[n - 1], n - 1)
             /\ Find = f[N]
<1> DEFINE x0 == [rows |-> matrix, invalid |-> {}, found |-> {}]
           G == [n \in 1 .. N |-> [x \in FindTypes |-> FindRow(x, n - 1)]]
           Body(c) == [n \in 0 .. N |-> IF n = 0 THEN x0
                                        ELSE FindRow(c[n - 1], n - 1)]
           e == CHOOSE c : c = Body(c)
<1>1. N \in Nat /\ \A n \in 1 .. N : n - 1 \in Lockers
  BY RowAssumption DEF Lockers
<1>2. x0 \in FindTypes
  BY DEF FindTypes
<1>3. \A n \in 1 .. N, x \in FindTypes : G[n][x] = FindRow(x, n - 1)
  OBVIOUS
<1>4. \A n \in 1 .. N, x \in FindTypes : FindRow(x, n - 1) \in FindTypes
  BY <1>1, FindRowType
<1>5. G \in [1 .. N -> [FindTypes -> FindTypes]]
  BY <1>4
<1> HIDE DEF x0, G
<1>6. PICK c \in [0 .. N -> FindTypes] :
        c[0] = x0 /\ \A n \in 1 .. N : c[n] = G[n][c[n - 1]]
  <2>1. Runs(N, FindTypes, x0, G) # {}
    BY <1>1, <1>2, <1>5, LoopExists
  <2> QED BY <2>1 DEF Runs
<1>7. \A n \in 1 .. N : n - 1 \in 0 .. N /\ c[n - 1] \in FindTypes
  BY <1>1
<1>8. \A n \in 1 .. N : c[n] = FindRow(c[n - 1], n - 1)
  BY <1>3, <1>6, <1>7
<1>9. \A n \in 0 .. N : c[n] = IF n = 0 THEN x0 ELSE FindRow(c[n - 1], n - 1)
  <2>1. \A n \in 0 .. N : n # 0 => n \in 1 .. N
    OBVIOUS
  <2> QED BY <1>6, <1>8, <2>1
<1>10. c = Body(c)
  BY <1>9
<1>11. e = Body(e)
  <2> HIDE DEF Body
  <2> QED BY <1>10
<1>12. Find = e[N]
  BY DEF Find, x0
<1>13. \A n \in 0 .. N : e[n] = IF n = 0 THEN x0 ELSE FindRow(e[n - 1], n - 1)
  BY <1>11
<1> HIDE DEF e, Body
<1>14. e = [n \in 0 .. N |-> e[n]]
  BY <1>11 DEF Body
<1>15. e[0] = x0 /\ \A n \in 1 .. N : e[n] = FindRow(e[n - 1], n - 1)
  BY <1>1, <1>13
<1>16. \A n \in 0 .. N : e[n] \in FindTypes
  <2> DEFINE S == {n \in 0 .. N : e[n] \in FindTypes}
  <2>1. 0 \in S
    BY <1>1, <1>2, <1>15
  <2>2. \A n \in 1 .. N : n - 1 \in S => n \in S
    BY <1>4, <1>15
  <2>3. \A n \in 0 .. N : n \in S
    <3> HIDE DEF S
    <3> QED BY <1>1, <2>1, <2>2, Loop
  <2> QED BY <2>3
<1>17. e \in [0 .. N -> FindTypes]
  BY <1>14, <1>16
<1> QED BY <1>12, <1>15, <1>17 DEF x0

BestTypes(owner, dead) ==
    [keep : dead \cup {owner}, kill : dead \cup {owner, NoLocker}]

\* One turn of the choice keeps to the deadlock.
LEMMA BetterType ==
    ASSUME NEW owner \in Lockers, NEW dead \in SUBSET Lockers,
           NEW b \in BestTypes(owner, dead), NEW i
    PROVE  Better(dead, b, i) \in BestTypes(owner, dead)
<1>1. CASE i \in dead
  BY <1>1 DEF BestTypes, Better
<1>2. CASE i \notin dead
  BY <1>2 DEF BestTypes, Better
<1> QED BY <1>1, <1>2

\* Best is the last of what the choice goes through.
LEMMA BestLoop ==
    ASSUME NEW owner \in Lockers, NEW dead \in SUBSET Lockers
    PROVE  \E b \in [0 .. N - 1 -> BestTypes(owner, dead)] :
             /\ b[0] = [keep |-> owner,
                        kill |-> IF Verify(dead, owner) THEN owner ELSE NoLocker]
             /\ \A n \in 1 .. N - 1 : b[n] = Better(dead, b[n - 1], (owner + n) % N)
             /\ Best(owner, dead) = b[N - 1]
<1> DEFINE X == BestTypes(owner, dead)
           x0 == [keep |-> owner,
                  kill |-> IF Verify(dead, owner) THEN owner ELSE NoLocker]
           G == [n \in 1 .. N - 1 |-> [x \in X |-> Better(dead, x, (owner + n) % N)]]
           Body(c) == [n \in 0 .. N - 1 |->
                         IF n = 0 THEN x0
                         ELSE Better(dead, c[n - 1], (owner + n) % N)]
           e == CHOOSE c : c = Body(c)
<1>1. N \in Nat /\ N - 1 \in Nat
  BY RowAssumption
<1>2. x0 \in X
  BY DEF BestTypes
<1>3. \A n \in 1 .. N - 1, x \in X : G[n][x] = Better(dead, x, (owner + n) % N)
  OBVIOUS
<1>4. \A n \in 1 .. N - 1, x \in X : Better(dead, x, (owner + n) % N) \in X
  BY BetterType
<1>5. G \in [1 .. N - 1 -> [X -> X]]
  BY <1>4
<1> HIDE DEF X, x0, G
<1>6. PICK c \in [0 .. N - 1 -> X] :
        c[0] = x0 /\ \A n \in 1 .. N - 1 : c[n] = G[n][c[n - 1]]
  <2>1. Runs(N - 1, X, x0, G) # {}
    BY <1>1, <1>2, <1>5, LoopExists
  <2> QED BY <2>1 DEF Runs
<1>7. \A n \in 1 .. N - 1 : n - 1 \in 0 .. N - 1 /\ c[n - 1] \in X
  BY <1>1
<1>8. \A n \in 1 .. N - 1 : c[n] = Better(dead, c[n - 1], (owner + n) % N)
  BY <1>3, <1>6, <1>7
<1>9. \A n \in 0 .. N - 1 :
        c[n] = IF n = 0 THEN x0 ELSE Better(dead, c[n - 1], (owner + n) % N)
  <2>1. \A n \in 0 .. N - 1 : n # 0 => n \in 1 .. N - 1
    BY <1>1
  <2> QED BY <1>6, <1>8, <2>1
<1>10. c = Body(c)
  BY <1>9
<1>11. e = Body(e)
  <2> HIDE DEF Body
  <2> QED BY <1>10
<1>12. Best(owner, dead) = e[N - 1]
  BY DEF Best, x0
<1>13. \A n \in 0 .. N - 1 :
         e[n] = IF n = 0 THEN x0 ELSE Better(dead, e[n - 1], (owner + n) % N)
  BY <1>11
<1> HIDE DEF e, Body
<1>14. e = [n \in 0 .. N - 1 |-> e[n]]
  BY <1>11 DEF Body
<1>15. e[0] = x0 /\ \A n \in 1 .. N - 1 : e[n] = Better(dead, e[n - 1], (owner + n) % N)
  BY <1>1, <1>13
<1>16. \A n \in 0 .. N - 1 : e[n] \in X
  <2> DEFINE S == {n \in 0 .. N - 1 : e[n] \in X}
  <2>1. 0 \in S
    BY <1>1, <1>2, <1>15
  <2>2. \A n \in 1 .. N - 1 : n - 1 \in S => n \in S
    BY <1>4, <1>15
  <2>3. \A n \in 0 .. N - 1 : n \in S
    <3> HIDE DEF S
    <3> QED BY <1>1, <2>1, <2>2, Loop
  <2> QED BY <2>3
<1>17. e \in [0 .. N - 1 -> X]
  BY <1>14, <1>16
<1> QED BY <1>12, <1>15, <1>17 DEF x0, X

-----------------------------------------------------------------------------
(* What the search reports.                                                *)

\* What can be reached from k in the matrix, in one step or more: what lies in
\* every set that has the row of k and the rows of all its members.
Reach(k) ==
    {x \in Lockers : \A S \in SUBSET Lockers :
        matrix[k] \subseteq S /\ (\A y \in S : matrix[y] \subseteq S) => x \in S}

\* Every step leads to what can be reached.
LEMMA ReachStep ==
    ASSUME matrix \in [Lockers -> SUBSET Lockers], NEW k \in Lockers
    PROVE  /\ matrix[k] \subseteq Reach(k)
           /\ \A y \in Reach(k) : Reach(y) \subseteq Reach(k)
           /\ \A y \in Reach(k) : matrix[y] \subseteq Reach(k)
<1>1. matrix[k] \subseteq Reach(k)
  BY DEF Reach
<1>2. ASSUME NEW y \in Reach(k), NEW x \in Reach(y) PROVE x \in Reach(k)
  <2> SUFFICES ASSUME NEW S \in SUBSET Lockers, matrix[k] \subseteq S,
                      \A z \in S : matrix[z] \subseteq S
               PROVE  x \in S
    BY <1>2 DEF Reach
  <2>1. y \in S
    BY DEF Reach
  <2>2. matrix[y] \subseteq S
    BY <2>1
  <2> QED BY <2>2 DEF Reach
<1>3. ASSUME NEW y \in Reach(k), NEW x \in matrix[y] PROVE x \in Reach(k)
  <2>1. y \in Lockers
    BY DEF Reach
  <2>2. x \in Lockers
    BY <2>1
  <2> SUFFICES ASSUME NEW S \in SUBSET Lockers, matrix[k] \subseteq S,
                      \A z \in S : matrix[z] \subseteq S
               PROVE  x \in S
    BY <2>2 DEF Reach
  <2>3. y \in S
    BY DEF Reach
  <2> QED BY <2>3
<1> QED BY <1>1, <1>2, <1>3

\* Those that a locker on a cycle reaches and that reach it.
Knot(i) == {j \in Reach(i) : i \in Reach(j)}

\* On a cycle everybody waits for somebody on the cycle.
LEMMA KnotClosed ==
    ASSUME matrix \in [Lockers -> SUBSET Lockers], NEW i \in Lockers, i \in Reach(i)
    PROVE  /\ i \in Knot(i) /\ Knot(i) \subseteq Lockers
           /\ \A j \in Knot(i) : matrix[j] \cap Knot(i) # {}
<1>1. i \in Knot(i) /\ Knot(i) \subseteq Lockers
  BY DEF Knot, Reach
<1>2. ASSUME NEW j \in Knot(i), matrix[j] \cap Knot(i) = {} PROVE FALSE
  <2> DEFINE S == matrix[j] \cup UNION {Reach(y) : y \in matrix[j]}
  <2>1. j \in Lockers /\ j \in Reach(i) /\ i \in Reach(j)
    BY <1>1 DEF Knot
  <2>2. matrix[j] \subseteq Reach(i)
    BY <2>1, ReachStep
  <2>3. \A y \in matrix[j] : y \in Lockers /\ i \notin Reach(y)
    BY <1>2, <2>1, <2>2 DEF Knot
  <2>4. i \notin matrix[j]
    BY <1>1, <1>2
  <2>5. i \notin S
    BY <2>3, <2>4
  <2>6. S \in SUBSET Lockers
    BY <2>1, <2>3 DEF Reach
  <2>7. ASSUME NEW z \in S PROVE matrix[z] \subseteq S
    <3>1. CASE z \in matrix[j]
      <4>1. matrix[z] \subseteq Reach(z)
        BY <2>3, <3>1, ReachStep
      <4> QED BY <3>1, <4>1
    <3>2. CASE z \notin matrix[j]
      <4>1. PICK y \in matrix[j] : z \in Reach(y)
        BY <3>2
      <4>2. matrix[z] \subseteq Reach(y)
        BY <2>3, <4>1, ReachStep
      <4> QED BY <4>2
    <3> QED BY <3>1, <3>2
  <2>8. matrix[j] \subseteq S
    OBVIOUS
  <2> HIDE DEF S
  <2> QED BY <2>1, <2>5, <2>6, <2>7, <2>8 DEF Reach
<1> QED BY <1>1, <1>2

\* The inner loop adds what can be reached, and reports who reaches itself.
LEMMA ClosureSound ==
    ASSUME matrix \in [Lockers -> SUBSET Lockers],
           NEW rows \in [Lockers -> SUBSET Lockers], NEW i \in Lockers,
           \A k \in Lockers : rows[k] \subseteq Reach(k)
    PROVE  /\ Closure(rows, i).row \subseteq Reach(i)
           /\ rows[i] \subseteq Closure(rows, i).row
           /\ Closure(rows, i).dead => i \in Closure(rows, i).row
<1>1. PICK c \in [0 .. N -> RowTypes] :
        /\ c[0] = [row |-> rows[i], dead |-> FALSE]
        /\ \A n \in 1 .. N : c[n] = OrRow(rows, i, c[n - 1], n - 1)
        /\ Closure(rows, i) = c[N]
  BY ClosureLoop
<1> DEFINE Good(r) == r.row \subseteq Reach(i) /\ rows[i] \subseteq r.row /\ (r.dead => i \in r.row)
           S == {n \in 0 .. N : Good(c[n])}
<1>2. N \in Nat /\ N \in 0 .. N /\ 0 \in 0 .. N /\ \A n \in 1 .. N : n - 1 \in Lockers /\ n - 1 \in 0 .. N
  BY RowAssumption DEF Lockers
<1>3. 0 \in S
  BY <1>1, <1>2
<1>4. ASSUME NEW r \in RowTypes, NEW j \in Lockers, Good(r)
      PROVE  Good(OrRow(rows, i, r, j))
  <2>1. CASE r.dead \/ j \notin r.row
    BY <1>4, <2>1 DEF OrRow
  <2>2. CASE ~(r.dead \/ j \notin r.row)
    <3>1. rows[j] \subseteq Reach(i)
      BY <1>4, <2>2, ReachStep
    <3> QED BY <1>4, <2>2, <3>1 DEF OrRow
  <2> QED BY <2>1, <2>2
<1>5. ASSUME NEW n \in 1 .. N, n - 1 \in S PROVE n \in S
  <2>1. Good(OrRow(rows, i, c[n - 1], n - 1))
    BY <1>2, <1>4, <1>5
  <2> QED BY <1>1, <2>1
<1>6. N \in S
  <2> HIDE DEF S
  <2> QED BY <1>2, <1>3, <1>5, Loop
<1> QED BY <1>1, <1>6

\* Whatever is reported reaches itself, and its row has only what it reaches.
LEMMA FindSound ==
    ASSUME matrix \in [Lockers -> SUBSET Lockers]
    PROVE  /\ Find \in FindTypes
           /\ \A i \in Find.found : i \in Find.rows[i] /\ Find.rows[i] \subseteq Reach(i)
<1>1. PICK f \in [0 .. N -> FindTypes] :
        /\ f[0] = [rows |-> matrix, invalid |-> {}, found |-> {}]
        /\ \A n \in 1 .. N : f[n] = FindRow(f[n - 1], n - 1)
        /\ Find = f[N]
  BY FindLoop
<1> DEFINE Good(g) == /\ \A k \in Lockers : g.rows[k] \subseteq Reach(k)
                      /\ \A k \in g.found : k \in g.rows[k]
           S == {n \in 0 .. N : Good(f[n])}
<1>2. N \in Nat /\ N \in 0 .. N /\ 0 \in 0 .. N /\ \A n \in 1 .. N : n - 1 \in Lockers /\ n - 1 \in 0 .. N
  BY RowAssumption DEF Lockers
<1>3. 0 \in S
  BY <1>1, <1>2, ReachStep
<1>4. ASSUME NEW g \in FindTypes, NEW i \in Lockers, Good(g)
      PROVE  Good(FindRow(g, i))
  <2>1. CASE i \in g.invalid
    BY <1>4, <2>1 DEF FindRow
  <2>2. CASE i \notin g.invalid
    <3>1. PICK c \in RowTypes : c = Closure(g.rows, i)
      BY ClosureType DEF FindTypes
    <3>2. c.row \subseteq Reach(i) /\ g.rows[i] \subseteq c.row /\ (c.dead => i \in c.row)
      BY <1>4, <3>1, ClosureSound DEF FindTypes
    <3>3. /\ FindRow(g, i).rows = [g.rows EXCEPT ![i] = c.row]
          /\ FindRow(g, i).found = IF c.dead THEN g.found \cup {i} ELSE g.found
      BY <2>2, <3>1 DEF FindRow
    <3>4. g.rows \in [Lockers -> SUBSET Lockers] /\ g.found \subseteq Lockers
      BY DEF FindTypes
    <3>5. FindRow(g, i).rows[i] = c.row /\ \A k \in Lockers : k # i => FindRow(g, i).rows[k] = g.rows[k]
      BY <3>3, <3>4
    <3>6. \A k \in g.found : k \in FindRow(g, i).rows[k]
      <4> SUFFICES ASSUME NEW k \in g.found PROVE k \in FindRow(g, i).rows[k]
        OBVIOUS
      <4>1. CASE k # i
        BY <1>4, <3>4, <3>5, <4>1
      <4>2. CASE k = i
        <5>1. i \in g.rows[i]
          BY <1>4, <4>2
        <5> QED BY <3>2, <3>5, <4>2, <5>1
      <4> QED BY <4>1, <4>2
    <3> QED BY <1>4, <3>2, <3>3, <3>4, <3>5, <3>6
  <2> QED BY <2>1, <2>2
<1>5. ASSUME NEW n \in 1 .. N, n - 1 \in S PROVE n \in S
  <2>1. Good(FindRow(f[n - 1], n - 1))
    BY <1>2, <1>4, <1>5
  <2> QED BY <1>1, <2>1
<1>6. N \in S
  <2> HIDE DEF S
  <2> QED BY <1>2, <1>3, <1>5, Loop
<1>7. Find \in FindTypes /\ Good(Find)
  BY <1>1, <1>2, <1>6
<1>8. Find.found \subseteq Lockers
  BY <1>7 DEF FindTypes
<1> QED BY <1>7, <1>8

\* The turns of the inner loop only add to the row, and a deadlock stays one.
LEMMA ClosureTurns ==
    ASSUME NEW rows \in [Lockers -> SUBSET Lockers], NEW i \in Lockers,
           NEW c \in [0 .. N -> RowTypes],
           \A n \in 1 .. N : c[n] = OrRow(rows, i, c[n - 1], n - 1)
    PROVE  \A m, n \in 0 .. N : m <= n =>
             c[m].row \subseteq c[n].row /\ (c[m].dead => c[n].dead)
<1>1. N \in Nat
  BY RowAssumption
<1> SUFFICES ASSUME NEW m \in 0 .. N
             PROVE  \A n \in 0 .. N : m <= n =>
                      c[m].row \subseteq c[n].row /\ (c[m].dead => c[n].dead)
  OBVIOUS
<1> DEFINE Grew(n) == c[m].row \subseteq c[n].row /\ (c[m].dead => c[n].dead)
           S == {n \in 0 .. N : m <= n => Grew(n)}
<1>2. 0 \in S
  <2>1. 0 \in 0 .. N /\ (m <= 0 => m = 0)
    BY <1>1
  <2> QED BY <2>1
<1>3. ASSUME NEW n \in 1 .. N, n - 1 \in S PROVE n \in S
  <2>1. n \in 0 .. N /\ n - 1 \in 0 .. N /\ (m <= n => m = n \/ m <= n - 1)
    BY <1>1
  <2>2. c[n - 1].row \subseteq c[n].row /\ (c[n - 1].dead => c[n].dead)
    <3>1. c[n] = OrRow(rows, i, c[n - 1], n - 1)
      OBVIOUS
    <3>2. CASE c[n - 1].dead \/ n - 1 \notin c[n - 1].row
      BY <3>1, <3>2 DEF OrRow
    <3>3. CASE ~(c[n - 1].dead \/ n - 1 \notin c[n - 1].row)
      BY <3>1, <3>3 DEF OrRow
    <3> QED BY <3>2, <3>3
  <2>3. CASE m = n
    BY <2>1, <2>3
  <2>4. CASE m <= n - 1
    <3>1. Grew(n - 1)
      BY <1>3, <2>4
    <3> QED BY <2>1, <2>2, <3>1
  <2> QED BY <2>1, <2>3, <2>4
<1>4. \A n \in 0 .. N : n \in S
  <2> HIDE DEF S
  <2> QED BY <1>1, <1>2, <1>3, Loop
<1> QED BY <1>4

\* So the row that Closure returns has all that the row had.
LEMMA ClosureGrows ==
    ASSUME NEW rows \in [Lockers -> SUBSET Lockers], NEW i \in Lockers
    PROVE  rows[i] \subseteq Closure(rows, i).row
<1>1. PICK c \in [0 .. N -> RowTypes] :
        /\ c[0] = [row |-> rows[i], dead |-> FALSE]
        /\ \A n \in 1 .. N : c[n] = OrRow(rows, i, c[n - 1], n - 1)
        /\ Closure(rows, i) = c[N]
  BY ClosureLoop
<1>2. N \in Nat /\ N \in 0 .. N /\ 0 \in 0 .. N /\ 0 <= N
  BY RowAssumption
<1>3. c[0].row \subseteq c[N].row
  BY <1>1, <1>2, ClosureTurns
<1> QED BY <1>1, <1>3

\* If everybody of D before row i waits for a later one of D, and i for one of
\* D, then without a deadlock row i ends up with a later one, too.
LEMMA ClosureOnward ==
    ASSUME NEW rows \in [Lockers -> SUBSET Lockers], NEW i \in Lockers,
           NEW D \in SUBSET Lockers, rows[i] \cap D # {},
           \A d \in D : d < i => \E x \in rows[d] \cap D : x > d,
           ~Closure(rows, i).dead
    PROVE  \E x \in Closure(rows, i).row \cap D : x > i
<1>1. PICK c \in [0 .. N -> RowTypes] :
        /\ c[0] = [row |-> rows[i], dead |-> FALSE]
        /\ \A n \in 1 .. N : c[n] = OrRow(rows, i, c[n - 1], n - 1)
        /\ Closure(rows, i) = c[N]
  BY ClosureLoop
<1>2. /\ N \in Nat /\ N \in 0 .. N /\ 0 \in 0 .. N
      /\ \A l \in Lockers : l \in Nat /\ l + 1 \in 1 .. N /\ l \in 0 .. N
                            /\ l + 1 \in 0 .. N /\ (l + 1) - 1 = l /\ l <= N
      /\ \A n \in 0 .. N : n <= N
  BY RowAssumption DEF Lockers
<1>3. \A m, n \in 0 .. N : m <= n => c[m].row \subseteq c[n].row
  BY <1>1, ClosureTurns
<1>4. \A n \in 0 .. N : ~c[n].dead
  <2>1. \A n \in 0 .. N : c[n].dead => c[N].dead
    BY <1>1, <1>2, ClosureTurns
  <2> QED BY <1>1, <2>1
<1>5. ASSUME NEW l \in Lockers, l \in c[l].row
      PROVE  rows[l] \subseteq c[l + 1].row /\ i \notin c[l + 1].row
  <2>1. c[l + 1] = OrRow(rows, i, c[l], l)
    BY <1>1, <1>2
  <2>2. ~c[l].dead /\ ~c[l + 1].dead
    BY <1>2, <1>4
  <2>3. c[l + 1] = [row |-> c[l].row \cup rows[l], dead |-> i \in c[l].row \cup rows[l]]
    BY <1>5, <2>1, <2>2 DEF OrRow
  <2>4. c[l + 1].row = c[l].row \cup rows[l] /\ c[l + 1].dead = (i \in c[l].row \cup rows[l])
    BY <2>3
  <2> QED BY <2>2, <2>4
<1>6. i \notin c[N].row
  <2> SUFFICES ASSUME i \in c[N].row PROVE FALSE
    OBVIOUS
  <2> DEFINE S == {n \in 0 .. N : i \in c[n].row}
  <2>1. ASSUME NEW n \in 1 .. N, n \in S PROVE n - 1 \in S
    <3>1. n - 1 \in 0 .. N /\ c[n] = OrRow(rows, i, c[n - 1], n - 1) /\ ~c[n].dead
      BY <1>1, <1>2, <1>4
    <3>2. c[n] = c[n - 1] \/ i \notin c[n].row
      <4>1. CASE c[n - 1].dead \/ n - 1 \notin c[n - 1].row
        BY <3>1, <4>1 DEF OrRow
      <4>2. CASE ~(c[n - 1].dead \/ n - 1 \notin c[n - 1].row)
        <5>1. c[n] = [row |-> c[n - 1].row \cup rows[n - 1],
                      dead |-> i \in c[n - 1].row \cup rows[n - 1]]
          BY <3>1, <4>2 DEF OrRow
        <5>2. /\ c[n].row = c[n - 1].row \cup rows[n - 1]
              /\ c[n].dead = (i \in c[n - 1].row \cup rows[n - 1])
          BY <5>1
        <5> QED BY <3>1, <5>2
      <4> QED BY <4>1, <4>2
    <3> QED BY <2>1, <3>1, <3>2
  <2>2. \A n \in 0 .. N : n \in S
    <3>1. N \in S
      BY <1>2
    <3> HIDE DEF S
    <3> QED BY <1>2, <2>1, <3>1, Downward
  <2>3. i \in c[i].row /\ i \in c[i + 1].row
    BY <1>2, <2>2
  <2> QED BY <1>5, <2>3
<1>7. \A n \in 0 .. N : c[n].row \subseteq c[N].row /\ i \notin c[n].row
  BY <1>2, <1>3, <1>6
<1> DEFINE T == {d \in D : d < i /\ d \in c[d].row}
<1>8. ASSUME NEW x \in D, NEW n \in 0 .. N, x \in c[n].row, n <= x
      PROVE  x > i \/ x \in T
  <2>1. x \in Lockers /\ x \in Nat /\ i \in Nat /\ x # i
    BY <1>2, <1>7, <1>8
  <2>2. x \in c[x].row
    BY <1>2, <1>3, <1>8, <2>1
  <2> QED BY <2>1, <2>2
<1>9. CASE T = {}
  <2>1. PICK x \in D : x \in rows[i]
    OBVIOUS
  <2>2. x \in c[0].row /\ 0 <= x
    BY <1>1, <1>2, <2>1
  <2>3. x > i
    BY <1>2, <1>8, <1>9, <2>2
  <2> QED BY <1>1, <1>2, <1>7, <2>2, <2>3
<1>10. CASE T # {}
  <2>1. T \subseteq Nat /\ IsFiniteSet(T)
    <3>1. T \subseteq 0 .. N
      BY <1>2
    <3>2. IsFiniteSet(0 .. N)
      BY <1>2, FS_Interval
    <3> HIDE DEF T
    <3>3. IsFiniteSet(T)
      BY <3>1, <3>2, FS_Subset
    <3>4. 0 .. N \subseteq Nat
      BY <1>2
    <3> QED BY <3>1, <3>3, <3>4
  <2>2. PICK t \in T : \A y \in T : y <= t
    <3> HIDE DEF T
    <3> QED BY <1>10, <2>1, GreatestNat
  <2>3. t \in Lockers /\ t \in D /\ t < i /\ t \in c[t].row /\ t \in Nat
    BY <1>2, <2>2
  <2>4. PICK x \in D : x \in rows[t] /\ x > t
    BY <2>3
  <2>5. x \in c[t + 1].row /\ t + 1 \in 0 .. N /\ t + 1 <= x
    <3>1. x \in Nat
      BY <1>2
    <3> QED BY <1>2, <1>5, <2>3, <2>4, <3>1
  <2>6. x > i
    <3>1. x \notin T
      BY <1>2, <2>2, <2>3, <2>4
    <3> QED BY <1>8, <2>5, <3>1
  <2> QED BY <1>1, <1>7, <2>5, <2>6
<1> QED BY <1>9, <1>10

\* If everybody of D waits for somebody of D, a deadlock is reported that has
\* somebody of D in it.
LEMMA FindComplete ==
    ASSUME matrix \in [Lockers -> SUBSET Lockers],
           NEW D \in SUBSET Lockers, D # {},
           \A l \in D : matrix[l] \cap D # {}
    PROVE  \E i \in Find.found : i \in D \/ Find.rows[i] \cap D # {}
<1> SUFFICES ASSUME \A i \in Find.found : i \notin D /\ Find.rows[i] \cap D = {}
             PROVE  FALSE
  OBVIOUS
<1>1. PICK f \in [0 .. N -> FindTypes] :
        /\ f[0] = [rows |-> matrix, invalid |-> {}, found |-> {}]
        /\ \A n \in 1 .. N : f[n] = FindRow(f[n - 1], n - 1)
        /\ Find = f[N]
  BY FindLoop
<1>2. /\ N \in Nat /\ N \in 0 .. N /\ 0 \in 0 .. N
      /\ \A n \in 1 .. N : n - 1 \in Lockers /\ n - 1 \in 0 .. N /\ n \in 0 .. N
      /\ \A l \in Lockers : l \in Nat /\ l < N
  BY RowAssumption DEF Lockers
<1>3. \A n \in 0 .. N : /\ f[n].rows \in [Lockers -> SUBSET Lockers]
                        /\ f[n].invalid \in SUBSET Lockers
                        /\ f[n].found \in SUBSET Lockers
  <2>1. \A n \in 0 .. N : f[n] \in FindTypes
    OBVIOUS
  <2> QED BY <2>1 DEF FindTypes
\* One turn.
<1>4. ASSUME NEW n \in 1 .. N, NEW i, i = n - 1, i \notin f[i].invalid,
             NEW c \in RowTypes, c = Closure(f[i].rows, i)
      PROVE  /\ f[n].rows = [f[i].rows EXCEPT ![i] = c.row]
             /\ f[n].invalid = IF c.dead THEN f[i].invalid \cup c.row ELSE f[i].invalid
             /\ f[n].found = IF c.dead THEN f[i].found \cup {i} ELSE f[i].found
  <2>1. f[n] = FindRow(f[i], i)
    BY <1>1, <1>4
  <2> QED BY <1>4, <2>1 DEF FindRow
<1>5. ASSUME NEW n \in 1 .. N, NEW i, i = n - 1, i \in f[i].invalid
      PROVE  f[n] = f[i]
  BY <1>1, <1>5 DEF FindRow
<1>6. \A n \in 1 .. N : \E c \in RowTypes : c = Closure(f[n - 1].rows, n - 1)
  BY <1>2, <1>3, ClosureType
<1>7. ASSUME NEW n \in 1 .. N
      PROVE  /\ f[n - 1].found \subseteq f[n].found
             /\ \A k \in Lockers : f[n - 1].rows[k] \subseteq f[n].rows[k]
  <2> DEFINE i == n - 1
  <2>1. i \in Lockers /\ i \in 0 .. N
    BY <1>2
  <2>2. CASE i \in f[i].invalid
    BY <1>5, <2>2
  <2>3. CASE i \notin f[i].invalid
    <3>1. PICK c \in RowTypes : c = Closure(f[i].rows, i)
      BY <1>6
    <3>2. /\ f[n].rows = [f[i].rows EXCEPT ![i] = c.row]
          /\ f[n].found = IF c.dead THEN f[i].found \cup {i} ELSE f[i].found
      BY <1>4, <2>3, <3>1
    <3>3. f[i].rows[i] \subseteq c.row
      BY <1>3, <2>1, <3>1, ClosureGrows
    <3>4. f[i].rows \in [Lockers -> SUBSET Lockers]
      BY <1>3, <2>1
    <3> QED BY <2>1, <3>2, <3>3, <3>4
  <2> QED BY <2>2, <2>3
\* What is reported on the way is reported.
<1>8. \A n \in 0 .. N : f[n].found \subseteq f[N].found
                        /\ \A k \in Lockers : f[n].rows[k] \subseteq f[N].rows[k]
  <2> DEFINE S == {n \in 0 .. N : f[n].found \subseteq f[N].found
                        /\ \A k \in Lockers : f[n].rows[k] \subseteq f[N].rows[k]}
  <2>1. N \in S
    BY <1>2
  <2>2. ASSUME NEW n \in 1 .. N, n \in S PROVE n - 1 \in S
    <3>1. n - 1 \in 0 .. N
      BY <1>2
    <3>2. f[n - 1].found \subseteq f[N].found
      BY <1>7, <2>2
    <3>3. \A k \in Lockers : f[n - 1].rows[k] \subseteq f[N].rows[k]
      BY <1>7, <2>2
    <3> QED BY <3>1, <3>2, <3>3
  <2>3. \A n \in 0 .. N : n \in S
    <3> HIDE DEF S
    <3> QED BY <1>2, <2>1, <2>2, Downward
  <2> QED BY <2>3
<1> DEFINE Later(rows, l) == \E x \in rows[l] \cap D : x > l
           Good(n) == /\ f[n].invalid \cap D = {}
                      /\ \A l \in Lockers : l >= n => f[n].rows[l] = matrix[l]
                      /\ \A l \in D : l < n => Later(f[n].rows, l)
           S == {n \in 0 .. N : Good(n)}
<1>9. 0 \in S
  BY <1>1, <1>2
<1>10. ASSUME NEW n \in 1 .. N, n - 1 \in S PROVE n \in S
  <2> DEFINE i == n - 1
  <2>1. i \in Lockers /\ i \in 0 .. N /\ n \in 0 .. N /\ Good(i)
    BY <1>2, <1>10
  <2>2. \A l \in Lockers : (l >= n => l >= i /\ l # i) /\ (l < n => l < i \/ l = i)
    BY <1>2, <2>1
  <2>3. CASE i \in f[i].invalid
    <3>1. f[n] = f[i]
      BY <1>5, <2>3
    <3>2. i \notin D
      BY <2>1, <2>3
    <3>3. \A l \in D : l < n => l < i
      BY <2>2, <3>2
    <3>4. Good(n)
      BY <2>1, <2>2, <3>1, <3>3
    <3> QED BY <2>1, <3>4
  <2>4. CASE i \notin f[i].invalid
    <3>1. PICK c \in RowTypes : c = Closure(f[i].rows, i)
      BY <1>6
    <3>2. /\ f[n].rows = [f[i].rows EXCEPT ![i] = c.row]
          /\ f[n].invalid = IF c.dead THEN f[i].invalid \cup c.row ELSE f[i].invalid
          /\ f[n].found = IF c.dead THEN f[i].found \cup {i} ELSE f[i].found
      <4>1. f[n] = FindRow(f[i], i)
        BY <1>1
      <4> QED BY <2>4, <3>1, <4>1 DEF FindRow
    <3>3. f[i].rows \in [Lockers -> SUBSET Lockers]
      BY <1>3, <2>1
    <3>4. f[n].rows[i] = c.row /\ \A l \in Lockers : l # i => f[n].rows[l] = f[i].rows[l]
      BY <2>1, <3>2, <3>3
    <3>5. c.dead => i \notin D /\ c.row \cap D = {}
      <4>1. c.dead => i \in f[N].found
        BY <1>8, <2>1, <3>2
      <4>2. c.row \subseteq f[N].rows[i]
        BY <1>8, <2>1, <3>4
      <4> QED BY <1>1, <4>1, <4>2
    <3>6. f[n].invalid \cap D = {}
      BY <2>1, <3>2, <3>5
    <3>7. \A l \in Lockers : l >= n => f[n].rows[l] = matrix[l]
      BY <2>1, <2>2, <3>4
    <3>8. ASSUME NEW l \in D, l < n PROVE Later(f[n].rows, l)
      <4>1. CASE l # i
        <5>1. l \in Lockers /\ l < i /\ f[n].rows[l] = f[i].rows[l]
          BY <2>2, <3>4, <3>8, <4>1
        <5>2. Later(f[i].rows, l)
          BY <2>1, <5>1
        <5> QED BY <5>1, <5>2
      <4>2. CASE l = i
        <5>1. ~c.dead /\ f[i].rows[i] = matrix[i] /\ matrix[i] \cap D # {}
          <6>1. i >= i
            BY <1>2, <2>1
          <6> QED BY <2>1, <3>5, <4>2, <6>1
        <5>2. \A d \in D : d < i => \E x \in f[i].rows[d] \cap D : x > d
          BY <2>1
        <5>3. \E x \in c.row \cap D : x > i
          <6>1. PICK R \in [Lockers -> SUBSET Lockers] : R = f[i].rows
            BY <3>3
          <6>2. ~Closure(R, i).dead /\ R[i] \cap D # {}
            BY <3>1, <5>1, <6>1
          <6>3. \A d \in D : d < i => \E x \in R[d] \cap D : x > d
            BY <5>2, <6>1
          <6> HIDE DEF i
          <6>4. \E x \in Closure(R, i).row \cap D : x > i
            BY <2>1, <6>2, <6>3, ClosureOnward
          <6> QED BY <3>1, <6>1, <6>4
        <5> QED BY <3>4, <4>2, <5>3
      <4> QED BY <4>1, <4>2
    <3>9. Good(n)
      BY <3>6, <3>7, <3>8
    <3> QED BY <2>1, <3>9
  <2> QED BY <2>3, <2>4
<1>11. Good(N)
  <2>1. N \in S
    <3> HIDE DEF S
    <3> QED BY <1>2, <1>9, <1>10, Loop
  <2> QED BY <2>1
<1>12. D \subseteq Nat /\ IsFiniteSet(D)
  <2>1. D \subseteq 0 .. N
    BY <1>2
  <2>2. IsFiniteSet(0 .. N)
    BY <1>2, FS_Interval
  <2>3. IsFiniteSet(D)
    BY <2>1, <2>2, FS_Subset
  <2> QED BY <1>2, <2>3
<1>13. PICK t \in D : \A y \in D : y <= t
  BY <1>12, GreatestNat
<1>14. PICK x \in D : x > t
  BY <1>2, <1>11
<1> QED BY <1>12, <1>13, <1>14

\* Unless a priority was set, all are equal.
LEMMA EqualPriorities ==
    ASSUME setting \in Settings, ~PrioritySet
    PROVE  \A i, j \in Lockers : setting.priority[i] = setting.priority[j]
<1> DEFINE S == {n \in 0 .. N - 1 : setting.priority[n] = setting.priority[0]}
<1>1. N - 1 \in Nat /\ Lockers = 0 .. N - 1 /\ 0 \in S
  BY RowAssumption DEF Lockers
<1>2. ASSUME NEW n \in 1 .. N - 1, n - 1 \in S PROVE n \in S
  <2>1. n \in Lockers \ {0} /\ n \in 0 .. N - 1
    BY <1>1
  <2>2. setting.priority[n - 1] = setting.priority[n]
    BY <2>1 DEF PrioritySet
  <2> QED BY <1>2, <2>1, <2>2
<1>3. \A n \in 0 .. N - 1 : n \in S
  <2> HIDE DEF S
  <2> QED BY <1>1, <1>2, Loop
<1>4. \A n \in Lockers : setting.priority[n] = setting.priority[0]
  BY <1>1, <1>3
<1> QED BY <1>4

\* The victim is somebody of the deadlock; by default, its owner.
LEMMA VictimInside ==
    ASSUME setting \in Settings, last \in [Lockers -> Objs \cup {NoObj}],
           NEW owner \in Lockers, NEW dead \in SUBSET Lockers, owner \in dead
    PROVE  /\ Victim(owner, dead) \in [owner : Lockers, who : Lockers,
                                       last : Objs \cup {NoObj}, sure : BOOLEAN]
           /\ Victim(owner, dead).who \in dead
           /\ setting.kind = "default" /\ ~PrioritySet => Victim(owner, dead).who = owner
<1>1. PICK b \in [0 .. N - 1 -> BestTypes(owner, dead)] :
        /\ b[0] = [keep |-> owner,
                   kill |-> IF Verify(dead, owner) THEN owner ELSE NoLocker]
        /\ \A n \in 1 .. N - 1 : b[n] = Better(dead, b[n - 1], (owner + n) % N)
        /\ Best(owner, dead) = b[N - 1]
  BY BestLoop
<1>2. N - 1 \in Nat /\ N - 1 \in 0 .. N - 1 /\ 0 \in 0 .. N - 1 /\ NoLocker \notin Lockers
  BY RowAssumption DEF Lockers, NoLocker
<1>3. \A n \in 0 .. N - 1 : /\ b[n].keep \in dead
                            /\ b[n].kill \in dead \cup {NoLocker}
  BY DEF BestTypes
<1> DEFINE c == Best(owner, dead)
           w == IF c.kill # NoLocker THEN c.kill ELSE c.keep
<1>4. w \in dead
  BY <1>1, <1>2, <1>3
<1>5. ASSUME NEW who \in dead, NEW sure \in BOOLEAN
      PROVE  /\ VictimOf(owner, who, sure) \in [owner : Lockers, who : Lockers,
                                         last : Objs \cup {NoObj}, sure : BOOLEAN]
             /\ VictimOf(owner, who, sure).who = who
  BY DEF VictimOf
<1>6. \/ Victim(owner, dead) = VictimOf(owner, owner, TRUE)
      \/ Victim(owner, dead) = VictimOf(owner, w, c.kill # NoLocker)
  BY DEF Victim
<1>7. ASSUME setting.kind = "default", ~PrioritySet PROVE w = owner
  <2> DEFINE S == {n \in 0 .. N - 1 : b[n].keep = owner /\ b[n].kill \in {owner, NoLocker}}
  <2>1. 0 \in S
    BY <1>1, <1>2
  <2>2. ASSUME NEW n \in 1 .. N - 1, n - 1 \in S PROVE n \in S
    <3>1. n - 1 \in 0 .. N - 1 /\ n \in 0 .. N - 1
      BY <1>2
    <3>2. \A i \in Lockers, j \in Lockers : ~Preferred(i, j)
      <4>1. \A i, j \in Lockers : setting.priority[i] = setting.priority[j]
        BY <1>7, EqualPriorities
      <4>2. \A i \in Lockers : setting.priority[i] \in Nat
        BY SettingAssumption
      <4> QED BY <1>7, <4>1, <4>2 DEF Preferred
    <3>3. b[n] = b[n - 1]
      <4> DEFINE i == (owner + n) % N
                 k == IF b[n - 1].kill # NoLocker THEN b[n - 1].kill ELSE b[n - 1].keep
      <4>1. k \in Lockers
        BY <1>3, <3>1
      <4>2. i \in dead => ~Preferred(i, k)
        BY <3>2, <4>1
      <4>3. b[n] = Better(dead, b[n - 1], i)
        BY <1>1
      <4> QED BY <4>2, <4>3 DEF Better
    <3> QED BY <2>2, <3>1, <3>3
  <2>3. N - 1 \in S
    <3> HIDE DEF S
    <3> QED BY <1>2, <2>1, <2>2, Loop
  <2> QED BY <1>1, <2>3
<1> HIDE DEF w, c
<1>8. (c.kill # NoLocker) \in BOOLEAN
  OBVIOUS
<1>9. PICK who \in dead, sure \in BOOLEAN :
        /\ Victim(owner, dead) = VictimOf(owner, who, sure)
        /\ setting.kind = "default" /\ ~PrioritySet => who = owner
  <2>1. TRUE \in BOOLEAN
    OBVIOUS
  <2> QED BY <1>4, <1>6, <1>7, <1>8, <2>1
<1>10. /\ VictimOf(owner, who, sure) \in [owner : Lockers, who : Lockers,
                                         last : Objs \cup {NoObj}, sure : BOOLEAN]
       /\ VictimOf(owner, who, sure).who = who
  BY <1>5
<1> QED BY <1>9, <1>10

-----------------------------------------------------------------------------
(* The lock table.                                                         *)

\* The lockers are finitely many numbers.
LEMMA LockersFinite == IsFiniteSet(Lockers) /\ Lockers \subseteq Nat
<1>1. N - 1 \in Nat /\ Lockers = 0 .. N - 1
  BY RowAssumption DEF Lockers
<1>2. IsFiniteSet(0 .. N - 1)
  BY <1>1, FS_Interval
<1> QED BY <1>1, <1>2

\* Who is ahead of somebody ahead is ahead.
LEMMA AheadOrder ==
    ASSUME NEW q, IsList(q, Lockers), IsQueue(q), NEW l \in Members(q)
    PROVE  /\ AheadOf(q, l) \subseteq Members(q)
           /\ \A j \in AheadOf(q, l) : AheadOf(q, j) \subseteq AheadOf(q, l)
           /\ \A k \in Members(q) : k = l \/ k \in AheadOf(q, l) \/ l \in AheadOf(q, k)
           /\ l \notin AheadOf(q, l)
           /\ \A k \in AheadOf(q, l) : l \notin AheadOf(q, k)
<1>1. \A i \in Members(q) : q[i] \in Nat
  BY DEF IsList
<1>2. \A i, j \in Members(q) : q[i] = q[j] => i = j
  BY DEF IsQueue
<1>3. AheadOf(q, l) \subseteq Members(q)
  BY DEF AheadOf
<1>4. ASSUME NEW j \in AheadOf(q, l), NEW k \in AheadOf(q, j)
      PROVE  k \in AheadOf(q, l)
  BY <1>1 DEF AheadOf
<1>5. ASSUME NEW k \in Members(q)
      PROVE  k = l \/ k \in AheadOf(q, l) \/ l \in AheadOf(q, k)
  <2>1. q[k] = q[l] \/ q[k] < q[l] \/ q[l] < q[k]
    BY <1>1
  <2> QED BY <1>2, <2>1 DEF AheadOf
<1>6. l \notin AheadOf(q, l)
  BY <1>1 DEF AheadOf
<1>7. ASSUME NEW k \in AheadOf(q, l) PROVE l \notin AheadOf(q, k)
  BY <1>1 DEF AheadOf
<1> QED BY <1>3, <1>4, <1>5, <1>6, <1>7

\* Unless a queue is empty somebody is first on it, and first is who has
\* nobody ahead.
LEMMA FirstAhead ==
    ASSUME NEW q, IsList(q, Lockers)
    PROVE  /\ Members(q) # {} => \E f \in Members(q) : \A j \in Members(q) : q[f] <= q[j]
           /\ \A f \in Members(q) :
                (\A j \in Members(q) : q[f] <= q[j]) <=> AheadOf(q, f) = {}
<1>1. \A i \in Members(q) : q[i] \in Nat
  BY DEF IsList
<1>2. \A f, j \in Members(q) : q[f] <= q[j] <=> ~(q[j] < q[f])
  BY <1>1
<1>3. Members(q) # {} => \E f \in Members(q) : \A j \in Members(q) : q[f] <= q[j]
  BY FirstInMember
<1> QED BY <1>2, <1>3 DEF AheadOf

\* Who is ahead after a member was removed or added.
LEMMA RemoveAhead ==
    ASSUME NEW q, IsList(q, Lockers), IsQueue(q), NEW T
    PROVE  \A k \in Members(q) \ T : AheadOf(RemoveAll(q, T), k) = AheadOf(q, k) \ T
<1> DEFINE r == RemoveAll(q, T)
<1>1. /\ IsList(r, Lockers) /\ Members(r) = Members(q) \ T
      /\ \A i, j \in Members(q) \ T : r[i] <= r[j] <=> q[i] <= q[j]
  BY LockersFinite, RemoveAllType, RemoveAllQueue
<1>2. \A i \in Members(q) : q[i] \in Nat
  BY DEF IsList
<1>3. \A i \in Members(r) : r[i] \in Nat
  BY <1>1 DEF IsList
<1> HIDE DEF r
<1>4. \A i, j \in Members(q) \ T : r[i] < r[j] <=> q[i] < q[j]
  <2>1. \A i, j \in Members(q) \ T : r[j] <= r[i] <=> q[j] <= q[i]
    BY <1>1
  <2> QED BY <1>1, <1>2, <1>3, <2>1
<1>5. \A k \in Members(q) \ T : AheadOf(r, k) = AheadOf(q, k) \ T
  BY <1>1, <1>4 DEF AheadOf
<1> QED BY <1>5 DEF r

LEMMA InsertAhead ==
    ASSUME NEW q, IsList(q, Lockers), IsQueue(q), NEW i \in Lockers, i \notin Members(q)
    PROVE  /\ AheadOf(InsertHead(q, i), i) = {}
           /\ \A k \in Members(q) : AheadOf(InsertHead(q, i), k) = AheadOf(q, k) \cup {i}
           /\ AheadOf(InsertTail(q, i), i) = Members(q)
           /\ \A k \in Members(q) : AheadOf(InsertTail(q, i), k) = AheadOf(q, k)
<1> DEFINE n == Cardinality(Members(q))
<1>1. n \in Nat
  BY LockersFinite, PartsFinite
<1>2. \A j \in Members(q) : q[j] \in Nat /\ q[j] >= 1 /\ q[j] <= n
  BY DEF IsQueue, IsList
<1> HIDE DEF n
<1>3. /\ Members(InsertHead(q, i)) = Members(q) \cup {i} /\ InsertHead(q, i)[i] = 1
      /\ \A j \in Members(q) : InsertHead(q, i)[j] = q[j] + 1
  BY DEF InsertHead, Members
<1>4. /\ Members(InsertTail(q, i)) = Members(q) \cup {i} /\ InsertTail(q, i)[i] = n + 1
      /\ \A j \in Members(q) : InsertTail(q, i)[j] = q[j]
  BY DEF InsertTail, Members, n
<1>5. /\ AheadOf(InsertHead(q, i), i) = {}
      /\ \A k \in Members(q) : AheadOf(InsertHead(q, i), k) = AheadOf(q, k) \cup {i}
  BY <1>2, <1>3 DEF AheadOf
<1>6. /\ AheadOf(InsertTail(q, i), i) = Members(q)
      /\ \A k \in Members(q) : AheadOf(InsertTail(q, i), k) = AheadOf(q, k)
  BY <1>1, <1>2, <1>4 DEF AheadOf
<1> QED BY <1>5, <1>6

\* Those that are let in are the first few of the queue, each of them fits the
\* locks there are with those of the others, and the next one does not.
LEMMA PromotablePrefix ==
    ASSUME NEW q, IsList(q, Lockers), IsQueue(q), NEW hs
    PROVE  /\ Promotable(hs, q) \subseteq Members(q)
           /\ \A l \in Promotable(hs, q) :
                /\ AheadOf(q, l) \subseteq Promotable(hs, q)
                /\ ~KeptOut(LetIn(hs, AheadOf(q, l)), l, want[l])
           /\ \A k \in Members(q) \ Promotable(hs, q) :
                /\ Promotable(hs, q) \subseteq AheadOf(q, k)
                /\ AheadOf(q, k) \subseteq Promotable(hs, q) =>
                     KeptOut(LetIn(hs, Promotable(hs, q)), k, want[k])
<1> DEFINE P == Promotable(hs, q)
           Fits(j) == ~KeptOut(LetIn(hs, AheadOf(q, j)), j, want[j])
<1>1. P = {l \in Members(q) : \A j \in AheadOf(q, l) \cup {l} : Fits(j)}
  BY DEF Promotable
<1> HIDE DEF P, Fits
<1>2. P \subseteq Members(q)
  BY <1>1
<1>3. ASSUME NEW l \in P PROVE AheadOf(q, l) \subseteq P /\ Fits(l)
  <2>1. l \in Members(q) /\ \A j \in AheadOf(q, l) \cup {l} : Fits(j)
    BY <1>1
  <2>2. ASSUME NEW j \in AheadOf(q, l) PROVE j \in P
    <3>1. j \in Members(q) /\ AheadOf(q, j) \subseteq AheadOf(q, l)
      BY <2>1, AheadOrder
    <3> QED BY <1>1, <2>1, <3>1
  <2> QED BY <2>1, <2>2
<1>4. ASSUME NEW k \in Members(q) \ P
      PROVE  /\ P \subseteq AheadOf(q, k)
             /\ AheadOf(q, k) \subseteq P => P = AheadOf(q, k) /\ ~Fits(k)
  <2>1. ASSUME NEW p \in P PROVE p \in AheadOf(q, k)
    <3>1. k \notin AheadOf(q, p) /\ p # k /\ p \in Members(q)
      BY <1>2, <1>3
    <3> QED BY <3>1, AheadOrder
  <2>2. ASSUME AheadOf(q, k) \subseteq P PROVE ~Fits(k)
    <3>1. \A j \in AheadOf(q, k) : Fits(j)
      BY <1>3, <2>2
    <3> QED BY <1>1, <3>1
  <2> QED BY <2>1, <2>2
<1>5. ASSUME NEW k \in Members(q) \ P, AheadOf(q, k) \subseteq P
      PROVE  KeptOut(LetIn(hs, P), k, want[k])
  <2>1. P = AheadOf(q, k) /\ ~Fits(k)
    BY <1>4, <1>5
  <2> QED BY <2>1 DEF Fits
<1>6. \A l \in P : ~KeptOut(LetIn(hs, AheadOf(q, l)), l, want[l])
  BY <1>3 DEF Fits
<1> QED BY <1>2, <1>3, <1>4, <1>5, <1>6 DEF P

LockSets == [Lockers -> {"N", "R", "W"}]

\* One object, with locks hs, queue q and what the waiters want, w: different
\* lockers have compatible locks, and who waits and has a lock reads and wants
\* to write.
Granting(hs, q, w) ==
    /\ \A g, h \in Lockers : g # h => ~ModesConflict(hs[g], hs[h])
    /\ \A l \in Members(q) : hs[l] # "N" => hs[l] = "R" /\ w[l] = "W"

\* The first on the queue is kept out by somebody's lock.
HeadBlocked(hs, q, w) ==
    \A l \in Members(q) : AheadOf(q, l) = {} => KeptOut(hs, l, w[l])

\* Promotion leaves compatible locks, and a queue whose head is kept out.
LEMMA PromoteGranting ==
    ASSUME NEW q, IsList(q, Lockers), IsQueue(q), NEW hs \in LockSets,
           want \in LockSets, Granting(hs, q, want)
    PROVE  LET P == Promotable(hs, q) IN
           /\ LetIn(hs, P) \in LockSets
           /\ Granting(LetIn(hs, P), RemoveAll(q, P), want)
           /\ HeadBlocked(LetIn(hs, P), RemoveAll(q, P), want)
<1> DEFINE P == Promotable(hs, q)
           in == LetIn(hs, P)
           r == RemoveAll(q, P)
<1>1. /\ P \subseteq Members(q)
      /\ \A l \in P : /\ AheadOf(q, l) \subseteq P
                      /\ ~KeptOut(LetIn(hs, AheadOf(q, l)), l, want[l])
      /\ \A k \in Members(q) \ P :
           /\ P \subseteq AheadOf(q, k)
           /\ AheadOf(q, k) \subseteq P => KeptOut(in, k, want[k])
  BY PromotablePrefix
<1> HIDE DEF P
<1>2. in \in LockSets /\ \A l \in Lockers : in[l] = IF l \in P THEN And(hs[l], want[l]) ELSE hs[l]
  BY DEF LetIn, And, LockSets
<1>3. IsList(r, Lockers) /\ Members(r) = Members(q) \ P /\ IsQueue(r)
  BY LockersFinite, RemoveAllType, RemoveAllQueue
<1>4. \A k \in Members(r) : AheadOf(r, k) = AheadOf(q, k) \ P
  BY <1>3, RemoveAhead
<1>5. \A g, h \in Lockers : g # h => ~ModesConflict(hs[g], hs[h])
  BY DEF Granting
<1>6. ASSUME NEW g \in P, NEW h \in Lockers, g # h
      PROVE  /\ ~ModesConflict(hs[h], want[g])
             /\ h \in AheadOf(q, g) => ~ModesConflict(in[h], want[g])
  <2>1. ~KeptOut(LetIn(hs, AheadOf(q, g)), g, want[g])
    BY <1>1
  <2>2. ~ModesConflict(LetIn(hs, AheadOf(q, g))[h], want[g])
    BY <1>6, <2>1 DEF KeptOut
  <2>3. LetIn(hs, AheadOf(q, g))[h] = IF h \in AheadOf(q, g) THEN And(hs[h], want[h]) ELSE hs[h]
    BY DEF LetIn
  <2>4. h \in AheadOf(q, g) => h \in P
    BY <1>1
  <2>5. ModesConflict(hs[h], want[g]) => ModesConflict(And(hs[h], want[h]), want[g]) \/ want[h] = "N"
    BY DEF ModesConflict, And, LockSets
  <2>6. CASE h \in AheadOf(q, g)
    <3>1. ~ModesConflict(in[h], want[g])
      BY <1>2, <2>2, <2>3, <2>4, <2>6
    <3>2. ~ModesConflict(hs[h], want[g])
      <4>1. SUFFICES ASSUME ModesConflict(hs[h], want[g]), want[h] = "N" PROVE FALSE
        BY <2>2, <2>3, <2>5, <2>6
      <4>2. hs[h] # "N" /\ h \in Members(q)
        BY <1>1, <2>4, <2>6, <4>1 DEF ModesConflict
      <4> QED BY <4>1, <4>2 DEF Granting
    <3> QED BY <3>1, <3>2
  <2>7. CASE h \notin AheadOf(q, g)
    BY <2>2, <2>3, <2>7
  <2> QED BY <2>6, <2>7
<1>7. ASSUME NEW g \in Lockers, NEW h \in Lockers, g # h
      PROVE  ~ModesConflict(in[g], in[h])
  <2>1. ~ModesConflict(hs[g], hs[h]) /\ ~ModesConflict(hs[h], hs[g])
    BY <1>5, <1>7
  <2>2. \A a, b, m : ModesConflict(And(a, b), m) => ModesConflict(a, m) \/ ModesConflict(b, m)
    BY DEF ModesConflict, And
  <2>3. \A a, b : ModesConflict(a, b) => ModesConflict(b, a)
    BY DEF ModesConflict
  <2>4. ASSUME NEW i \in P, NEW j \in Lockers \ P PROVE ~ModesConflict(in[i], in[j])
    <3>1. i \in Lockers /\ i # j /\ in[i] = And(hs[i], want[i]) /\ in[j] = hs[j]
      BY <1>1, <1>2, <2>4 DEF IsList
    <3>2. ~ModesConflict(want[i], hs[j]) /\ ~ModesConflict(hs[i], hs[j])
      BY <1>5, <1>6, <2>3, <3>1
    <3> QED BY <2>2, <3>1, <3>2
  <2>5. ASSUME NEW i \in P, NEW j \in P, j \in AheadOf(q, i)
        PROVE  ~ModesConflict(in[i], in[j])
    <3>1. /\ i \in Lockers /\ j \in Lockers /\ i # j
          /\ in[i] = And(hs[i], want[i]) /\ in[j] = And(hs[j], want[j])
      <4>1. i \in Members(q) /\ i \notin AheadOf(q, i)
        BY <1>1, AheadOrder
      <4> QED BY <1>1, <1>2, <2>5, <4>1 DEF IsList
    <3>2. ~ModesConflict(in[j], want[i])
      BY <1>6, <2>5, <3>1
    <3>3. ~ModesConflict(hs[j], hs[i]) /\ ~ModesConflict(want[j], hs[i])
      BY <1>5, <1>6, <2>3, <3>1
    <3>4. ~ModesConflict(in[j], hs[i])
      BY <2>2, <3>1, <3>3
    <3> QED BY <2>2, <2>3, <3>1, <3>2, <3>4
  <2>6. CASE g \notin P /\ h \notin P
    BY <1>2, <2>1, <2>6
  <2>7. CASE g \in P /\ h \in P
    <3>1. h \in AheadOf(q, g) \/ g \in AheadOf(q, h)
      BY <1>1, <1>7, <2>7, AheadOrder
    <3> QED BY <2>3, <2>5, <2>7, <3>1
  <2> QED BY <2>3, <2>4, <2>6, <2>7
<1>8. \A l \in Members(r) : in[l] = hs[l]
  BY <1>2, <1>3 DEF IsList
<1>9. Granting(in, r, want)
  <2> HIDE DEF in, r
  <2> QED BY <1>3, <1>4, <1>7, <1>8 DEF Granting
<1>10. ASSUME NEW k \in Members(r), AheadOf(r, k) = {} PROVE KeptOut(in, k, want[k])
  <2>1. AheadOf(q, k) \subseteq P
    BY <1>4, <1>10
  <2> QED BY <1>1, <1>3, <2>1
<1> QED BY <1>2, <1>9, <1>10 DEF HeadBlocked, P

-----------------------------------------------------------------------------
(* Types.                                                                  *)

\* The lists are in order, dd_objs has the objects with waiters, and who waits
\* waits for some object.
QueuesOK ==
    /\ \A o \in Objs : IsQueue(queue[o])
    /\ IsQueue(ddObjs)
    /\ Members(ddObjs) = {o \in Objs : Members(queue[o]) # {}}
    /\ \A l \in Lockers : st[l] = "wait" => last[l] \in Objs

\* Promotion on an object whose queue is q while others are in states s and
\* want w: the lists stay lists, and who is let in neither waits nor is queued.
LEMMA PromoteType ==
    ASSUME TypeOK, QueuesOK, NEW o \in Objs, NEW hs \in LockSets,
           NEW hl, IsList(hl, Lockers), Members(hl) = {l \in Lockers : hs[l] # "N"},
           NEW q, IsList(q, Lockers), IsQueue(q), Members(q) \subseteq Members(queue[o]),
           NEW s \in [Lockers -> States], NEW w \in LockSets,
           \A l \in Lockers : l \in Members(q) <=> s[l] = "wait" /\ last[l] = o,
           \A l \in Lockers, p \in Objs : p # o =>
             (l \in Members(queue[p]) <=> s[l] = "wait" /\ last[l] = p),
           \A l \in Lockers : s[l] = "wait" <=> w[l] # "N",
           \A l \in Lockers : s[l] = "wait" => last[l] \in Objs,
           Promote(o, hs, hl, q, s, w), last' = last
    PROVE  /\ held' \in [Objs -> [Lockers -> {"N", "R", "W"}]]
           /\ IsListArray(queue', Objs, Lockers)
           /\ want' \in [Lockers -> {"N", "R", "W"}]
           /\ st' \in [Lockers -> States]
           /\ \A l \in Lockers, p \in Objs :
                l \in Members(queue'[p]) <=> st'[l] = "wait" /\ last'[l] = p
           /\ \A l \in Lockers : st'[l] = "wait" <=> want'[l] # "N"
           /\ IsList(ddObjs', Objs)
           /\ QueuesOK'
           /\ IsListArray(holders', Objs, Lockers)
           /\ \A p \in Objs : Members(holders'[p]) = {l \in Lockers : held'[p][l] # "N"}
<1> DEFINE P == Promotable(hs, q)
           in == LetIn(hs, P)
           r == RemoveAll(q, P)
<1>1. P \subseteq Members(q)
  BY PromotablePrefix
<1>2. in \in LockSets
  BY DEF LetIn, And, LockSets, TypeOK
<1>3. IsList(r, Lockers) /\ Members(r) = Members(q) \ P /\ IsQueue(r)
  BY LockersFinite, RemoveAllType, RemoveAllQueue
<1>4. /\ held' = [held EXCEPT ![o] = in]
      /\ holders' = [holders EXCEPT ![o] = AppendAll(hl, q, {l \in P : hs[l] = "N"})]
      /\ queue' = [queue EXCEPT ![o] = r]
      /\ want' = [l \in Lockers |-> IF l \in P THEN "N" ELSE w[l]]
      /\ st' = [l \in Lockers |-> IF l \notin P THEN s[l]
                   ELSE IF hs[l] = "N" THEN "granted" ELSE "run"]
      /\ ddObjs' = IF P = Members(q) THEN RemoveAll(ddObjs, {o}) ELSE ddObjs
  BY DEF Promote
<1>15. \A l \in Lockers : in[l] = IF l \in P THEN And(hs[l], want[l]) ELSE hs[l]
  BY DEF LetIn
<1> HIDE DEF P, in, r
<1>5. /\ held \in [Objs -> [Lockers -> {"N", "R", "W"}]]
      /\ IsListArray(queue, Objs, Lockers) /\ IsList(ddObjs, Objs)
  BY DEF TypeOK
<1>6. /\ queue'[o] = r /\ \A p \in Objs : p # o => queue'[p] = queue[p]
      /\ queue' = [p \in Objs |-> queue'[p]]
  BY <1>4, <1>5 DEF IsListArray
<1>7. held' \in [Objs -> [Lockers -> {"N", "R", "W"}]]
  BY <1>2, <1>4, <1>5 DEF LockSets
<1>8. IsListArray(queue', Objs, Lockers)
  <2>1. \A p \in Objs : IsList(queue'[p], Lockers)
    BY <1>3, <1>5, <1>6 DEF IsListArray
  <2> HIDE DEF LockSets
  <2> QED BY <1>6, <2>1 DEF IsListArray
<1>9. want' \in [Lockers -> {"N", "R", "W"}] /\ st' \in [Lockers -> States]
  BY <1>4 DEF LockSets, States
<1>10. ASSUME NEW l \in Lockers
       PROVE  /\ l \in P => st'[l] # "wait" /\ want'[l] = "N"
              /\ l \notin P => st'[l] = s[l] /\ want'[l] = w[l]
  BY <1>4
<1>11. ASSUME NEW l \in Lockers, NEW p \in Objs
       PROVE  l \in Members(queue'[p]) <=> st'[l] = "wait" /\ last'[l] = p
  <2>1. CASE p = o
    BY <1>3, <1>6, <1>10, <2>1
  <2>2. CASE p # o
    <3>1. l \in P => last[l] = o
      BY <1>1
    <3> QED BY <1>6, <1>10, <2>2, <3>1
  <2> QED BY <2>1, <2>2
<1>12. \A l \in Lockers : st'[l] = "wait" <=> want'[l] # "N"
  BY <1>10
<1>13. /\ IsList(ddObjs', Objs) /\ IsQueue(ddObjs')
       /\ Members(ddObjs') = IF P = Members(q) THEN Members(ddObjs) \ {o} ELSE Members(ddObjs)
  <2>1. /\ IsList(RemoveAll(ddObjs, {o}), Objs) /\ IsQueue(RemoveAll(ddObjs, {o}))
        /\ Members(RemoveAll(ddObjs, {o})) = Members(ddObjs) \ {o}
    <3>1. IsQueue(ddObjs) /\ IsFiniteSet(Objs)
      BY RowAssumption DEF QueuesOK
    <3> QED BY <1>5, <3>1, RemoveAllType, RemoveAllQueue
  <2> QED BY <1>4, <1>5, <2>1 DEF QueuesOK
<1>14. QueuesOK'
  <2>1. \A p \in Objs : IsQueue(queue'[p])
    BY <1>3, <1>6 DEF QueuesOK
  <2>2. Members(ddObjs) = {p \in Objs : Members(queue[p]) # {}}
    BY DEF QueuesOK
  <2>3. Members(queue'[o]) # {} <=> P # Members(q)
    BY <1>1, <1>3, <1>6
  <2>4. P # Members(q) => Members(queue[o]) # {}
    BY <1>1
  <2>5. \A p \in Objs : p # o => Members(queue'[p]) = Members(queue[p])
    BY <1>6
  <2>6. Members(ddObjs') = {p \in Objs : Members(queue'[p]) # {}}
    BY <1>13, <2>2, <2>3, <2>4, <2>5
  <2>7. \A l \in Lockers : st'[l] = "wait" => last'[l] \in Objs
    BY <1>10
  <2> QED BY <1>13, <2>1, <2>6, <2>7 DEF QueuesOK
<1>16. \A l \in Lockers : in[l] # "N" <=> l \in P \/ hs[l] # "N"
  <2>1. \A l \in P : l \in Members(queue[o]) /\ l \in Lockers
    BY <1>1 DEF IsList
  <2>2. \A l \in P : want[l] # "N"
    BY <2>1 DEF TypeOK
  <2> QED BY <1>15, <2>2 DEF And
<1>17. /\ IsListArray(holders', Objs, Lockers)
       /\ \A p \in Objs : Members(holders'[p]) = {l \in Lockers : held'[p][l] # "N"}
  <2> DEFINE new == {l \in P : hs[l] = "N"}
             a == AppendAll(hl, q, new)
  <2>1. /\ IsListArray(holders, Objs, Lockers)
        /\ \A p \in Objs : Members(holders[p]) = {l \in Lockers : held[p][l] # "N"}
    BY DEF TypeOK, Holds
  <2>2. IsList(a, Lockers) /\ Members(a) = Members(hl) \cup new
    <3>1. new \subseteq Members(q)
      BY <1>1
    <3> HIDE DEF new
    <3> QED BY <3>1, LockersFinite, AppendAllType
  <2>3. P \subseteq Lockers
    BY <1>1 DEF IsList
  <2>4. Members(a) = {l \in Lockers : in[l] # "N"}
    BY <1>16, <2>2, <2>3
  <2>5. holders' = [holders EXCEPT ![o] = a]
    BY <1>4
  <2> HIDE DEF a
  <2>6. /\ holders'[o] = a /\ \A p \in Objs : p # o => holders'[p] = holders[p]
        /\ holders' = [p \in Objs |-> holders'[p]]
    BY <2>1, <2>5 DEF IsListArray
  <2>7. held'[o] = in /\ \A p \in Objs : p # o => held'[p] = held[p]
    BY <1>4, <1>5
  <2>8. IsListArray(holders', Objs, Lockers)
    <3>1. \A p \in Objs : IsList(holders'[p], Lockers)
      BY <2>1, <2>2, <2>6 DEF IsListArray
    <3> QED BY <2>6, <3>1 DEF IsListArray
  <2>9. ASSUME NEW p \in Objs
        PROVE  Members(holders'[p]) = {l \in Lockers : held'[p][l] # "N"}
    <3>1. CASE p = o
      BY <2>4, <2>6, <2>7, <3>1
    <3>2. CASE p # o
      BY <2>1, <2>6, <2>7, <3>2
    <3> QED BY <3>1, <3>2
  <2> QED BY <2>8, <2>9
<1> QED BY <1>7, <1>8, <1>9, <1>11, <1>12, <1>13, <1>14, <1>17

\* At the start nobody holds or waits for anything.
LEMMA TypeInit == Init => TypeOK /\ QueuesOK
<1> SUFFICES ASSUME Init PROVE TypeOK /\ QueuesOK
  OBVIOUS
<1>1. Members(EmptyList) = {} /\ IsList(EmptyList, Lockers) /\ IsList(EmptyList, Objs)
  BY EmptyListType
<1>2. IsQueue(EmptyList)
  BY <1>1 DEF IsQueue
<1>3. QueuesOK
  BY <1>1, <1>2 DEF Init, QueuesOK
<1>4. IsListArray(queue, Objs, Lockers) /\ \A o \in Objs : Members(queue[o]) = {}
  BY <1>1 DEF Init, IsListArray
<1>5. todo \in [Lockers -> Seq(Objs \X {"R", "W"})]
  <2>1. setting.accesses \in [Lockers -> Seq(Objs \X {"R", "W"})]
    BY SettingAssumption DEF Init
  <2> QED BY <2>1 DEF Init
<1>6. \A l \in Lockers : st[l] = "run" /\ want[l] = "N"
  BY DEF Init
<1>7. /\ IsListArray(holders, Objs, Lockers)
      /\ \A o \in Objs : Members(holders[o]) = {l \in Lockers : Holds(l, o)}
  <2>1. \A o \in Objs : Members(holders[o]) = {} /\ \A l \in Lockers : ~Holds(l, o)
    BY <1>1 DEF Init, Holds
  <2>2. IsListArray(holders, Objs, Lockers)
    BY <1>1 DEF Init, IsListArray
  <2> QED BY <2>1, <2>2
<1> QED BY <1>1, <1>3, <1>4, <1>5, <1>6, <1>7 DEF TypeOK, Init, States, NoRow

\* A request takes the next access of a running locker.
LEMMA RequestType ==
    ASSUME TypeOK, NEW l \in Lockers, NEW o, NEW m, Requests(l, o, m)
    PROVE  /\ o \in Objs /\ m \in {"R", "W"} /\ st[l] = "run" /\ want[l] = "N"
           /\ \A p \in Objs : l \notin Members(queue[p])
           /\ [todo EXCEPT ![l] = Tail(@)] \in [Lockers -> Seq(Objs \X {"R", "W"})]
<1>1. todo[l] \in Seq(Objs \X {"R", "W"}) /\ todo[l] # <<>> /\ Head(todo[l]) = <<o, m>>
  BY DEF TypeOK, Requests
<1>2. Head(todo[l]) \in Objs \X {"R", "W"} /\ Tail(todo[l]) \in Seq(Objs \X {"R", "W"})
  BY <1>1
<1>3. st[l] = "run"
  BY DEF Requests
<1> QED BY <1>1, <1>2, <1>3 DEF TypeOK

\* Each action keeps the types.
LEMMA TypeGet ==
    ASSUME TypeOK, QueuesOK, NEW l \in Lockers, NEW o, NEW m, Get(l, o, m)
    PROVE  TypeOK' /\ QueuesOK'
<1>1. /\ o \in Objs /\ m \in {"R", "W"} /\ st[l] = "run" /\ want[l] = "N"
      /\ \A p \in Objs : l \notin Members(queue[p])
      /\ [todo EXCEPT ![l] = Tail(@)] \in [Lockers -> Seq(Objs \X {"R", "W"})]
  BY RequestType DEF Get
<1>2. /\ held' = [held EXCEPT ![o][l] = And(@, m)]
      /\ last' = [last EXCEPT ![l] = o]
      /\ todo' = [todo EXCEPT ![l] = Tail(@)]
      /\ UNCHANGED <<setting, queue, want, st, ddObjs, needDD, stale, ddVars>>
  BY DEF Get
<1>3. held' \in [Objs -> [Lockers -> {"N", "R", "W"}]]
  <2>1. And(held[o][l], m) \in {"N", "R", "W"}
    BY <1>1 DEF And
  <2> QED BY <1>1, <1>2, <2>1 DEF TypeOK
<1>4. last' \in [Lockers -> Objs \cup {NoObj}] /\ \A k \in Lockers : k # l => last'[k] = last[k]
  BY <1>1, <1>2 DEF TypeOK
<1>5. \A k \in Lockers, p \in Objs :
        k \in Members(queue'[p]) <=> st'[k] = "wait" /\ last'[k] = p
  BY <1>1, <1>2, <1>4 DEF TypeOK
<1>6. QueuesOK'
  <2>1. last'[l] = o
    BY <1>2 DEF TypeOK
  <2> QED BY <1>1, <1>2, <1>4, <2>1 DEF QueuesOK
<1>7. /\ IsListArray(holders', Objs, Lockers)
      /\ \A p \in Objs : Members(holders'[p]) = {k \in Lockers : Holds(k, p)'}
  <2>1. /\ IsListArray(holders, Objs, Lockers) /\ IsList(holders[o], Lockers)
        /\ \A p \in Objs : Members(holders[p]) = {k \in Lockers : held[p][k] # "N"}
    BY <1>1 DEF TypeOK, Holds, IsListArray
  <2>2. /\ held'[o][l] # "N"
        /\ \A k \in Lockers : k # l => held'[o][k] = held[o][k]
        /\ \A p \in Objs : p # o => held'[p] = held[p]
    BY <1>1, <1>2 DEF TypeOK, And
  <2>3. holders' = IF held[o][l] # "N" THEN holders
                   ELSE [holders EXCEPT ![o] = InsertTail(@, l)]
    BY DEF Get, Holds
  <2>4. /\ IsList(InsertTail(holders[o], l), Lockers)
        /\ Members(InsertTail(holders[o], l)) = Members(holders[o]) \cup {l}
    BY <2>1, LockersFinite, InsertTailType
  <2>5. /\ IsList(holders'[o], Lockers) /\ Members(holders'[o]) = Members(holders[o]) \cup {l}
        /\ \A p \in Objs : p # o => holders'[p] = holders[p]
        /\ holders' = [p \in Objs |-> holders'[p]]
    <3>1. CASE held[o][l] # "N"
      <4>1. l \in Members(holders[o])
        BY <1>1, <2>1, <3>1
      <4> QED BY <2>1, <2>3, <3>1, <4>1 DEF IsListArray
    <3>2. CASE held[o][l] = "N"
      <4>1. holders' = [holders EXCEPT ![o] = InsertTail(@, l)]
        BY <2>3, <3>2
      <4>2. /\ holders'[o] = InsertTail(holders[o], l)
            /\ \A p \in Objs : p # o => holders'[p] = holders[p]
            /\ holders' = [p \in Objs |-> holders'[p]]
        BY <1>1, <2>1, <4>1 DEF IsListArray
      <4> QED BY <2>4, <4>2
    <3> QED BY <3>1, <3>2
  <2>6. \A p \in Objs : IsList(holders'[p], Lockers)
    BY <2>1, <2>5 DEF IsListArray
  <2>7. \A p \in Objs : Members(holders'[p]) = {k \in Lockers : held'[p][k] # "N"}
    <3>1. Members(holders'[o]) = {k \in Lockers : held'[o][k] # "N"}
      <4>1. \A k \in Lockers : held'[o][k] # "N" <=> k = l \/ held[o][k] # "N"
        BY <2>2
      <4> QED BY <1>1, <2>1, <2>5, <4>1
    <3>2. \A p \in Objs : p # o => Members(holders'[p]) = {k \in Lockers : held'[p][k] # "N"}
      BY <2>1, <2>2, <2>5
    <3> QED BY <3>1, <3>2
  <2>8. IsListArray(holders', Objs, Lockers)
    BY <2>5, <2>6 DEF IsListArray
  <2> QED BY <2>7, <2>8 DEF Holds
<1> QED BY <1>1, <1>2, <1>3, <1>4, <1>5, <1>6, <1>7 DEF TypeOK, ddVars

LEMMA TypeSleep ==
    ASSUME TypeOK, QueuesOK, NEW l \in Lockers, NEW o, NEW m, Sleep(l, o, m)
    PROVE  TypeOK' /\ QueuesOK'
<1>1. /\ o \in Objs /\ m \in {"R", "W"} /\ st[l] = "run" /\ want[l] = "N"
      /\ \A p \in Objs : l \notin Members(queue[p])
      /\ [todo EXCEPT ![l] = Tail(@)] \in [Lockers -> Seq(Objs \X {"R", "W"})]
  BY RequestType DEF Sleep
<1>2. /\ queue' = [queue EXCEPT ![o] =
                     IF IHold(l, o, m) THEN InsertHead(@, l) ELSE InsertTail(@, l)]
      /\ want' = [want EXCEPT ![l] = m]
      /\ ddObjs' = IF Members(queue[o]) = {} THEN InsertHead(ddObjs, o) ELSE ddObjs
      /\ last' = [last EXCEPT ![l] = o]
      /\ st' = [st EXCEPT ![l] = "wait"]
      /\ todo' = [todo EXCEPT ![l] = Tail(@)]
      /\ needDD' = TRUE
      /\ UNCHANGED <<setting, held, holders, stale, ddVars>>
  BY DEF Sleep
<1>3. /\ IsListArray(queue, Objs, Lockers) /\ IsList(queue[o], Lockers)
      /\ IsQueue(queue[o]) /\ IsList(ddObjs, Objs) /\ IsQueue(ddObjs)
  BY <1>1 DEF TypeOK, QueuesOK, IsListArray
<1>4. PICK r : /\ queue'[o] = r /\ IsList(r, Lockers) /\ IsQueue(r)
               /\ Members(r) = Members(queue[o]) \cup {l}
  <2> DEFINE h == InsertHead(queue[o], l)
             t == InsertTail(queue[o], l)
  <2>1. /\ IsList(h, Lockers) /\ Members(h) = Members(queue[o]) \cup {l}
        /\ IsList(t, Lockers) /\ Members(t) = Members(queue[o]) \cup {l}
    BY <1>3, LockersFinite, InsertHeadType, InsertTailType
  <2>2. IsQueue(h) /\ IsQueue(t)
    BY <1>1, <1>3, LockersFinite, InsertQueue
  <2>3. queue'[o] = h \/ queue'[o] = t
    BY <1>1, <1>2, <1>3 DEF IsListArray
  <2> HIDE DEF h, t
  <2> QED BY <2>1, <2>2, <2>3
<1>5. queue' = [p \in Objs |-> queue'[p]] /\ \A p \in Objs : p # o => queue'[p] = queue[p]
  BY <1>2, <1>3 DEF IsListArray
<1>6. IsListArray(queue', Objs, Lockers)
  <2>1. \A p \in Objs : IsList(queue'[p], Lockers)
    BY <1>3, <1>4, <1>5 DEF IsListArray
  <2> QED BY <1>5, <2>1 DEF IsListArray
<1>7. /\ last' \in [Lockers -> Objs \cup {NoObj}] /\ want' \in [Lockers -> {"N", "R", "W"}]
      /\ st' \in [Lockers -> States]
      /\ last'[l] = o /\ want'[l] = m /\ st'[l] = "wait"
      /\ \A k \in Lockers : k # l => last'[k] = last[k] /\ want'[k] = want[k] /\ st'[k] = st[k]
  BY <1>1, <1>2 DEF TypeOK, States
<1>8. ASSUME NEW k \in Lockers, NEW p \in Objs
      PROVE  k \in Members(queue'[p]) <=> st'[k] = "wait" /\ last'[k] = p
  <2>1. k \in Members(queue[p]) <=> st[k] = "wait" /\ last[k] = p
    BY DEF TypeOK
  <2>2. CASE k = l
    BY <1>1, <1>4, <1>5, <1>7, <2>2
  <2>3. CASE k # l
    BY <1>4, <1>5, <1>7, <2>1, <2>3
  <2> QED BY <2>2, <2>3
<1>9. \A k \in Lockers : st'[k] = "wait" <=> want'[k] # "N"
  BY <1>1, <1>7 DEF TypeOK
<1>10. Members(ddObjs) = {p \in Objs : Members(queue[p]) # {}}
  BY DEF QueuesOK
<1>11. IsList(ddObjs', Objs) /\ IsQueue(ddObjs') /\ Members(ddObjs') = Members(ddObjs) \cup {o}
  <2>1. CASE Members(queue[o]) = {}
    <3>1. ddObjs' = InsertHead(ddObjs, o) /\ o \notin Members(ddObjs)
      BY <1>2, <1>10, <2>1
    <3> QED BY <1>1, <1>3, <3>1, RowAssumption, InsertQueue, InsertHeadType
  <2>2. CASE Members(queue[o]) # {}
    BY <1>1, <1>2, <1>3, <1>10, <2>2
  <2> QED BY <2>1, <2>2
<1>12. QueuesOK'
  <2>1. \A p \in Objs : IsQueue(queue'[p])
    BY <1>4, <1>5 DEF QueuesOK
  <2>2. Members(ddObjs') = {p \in Objs : Members(queue'[p]) # {}}
    BY <1>1, <1>4, <1>5, <1>10, <1>11
  <2>3. \A k \in Lockers : st'[k] = "wait" => last'[k] \in Objs
    BY <1>1, <1>7 DEF QueuesOK
  <2> QED BY <1>11, <2>1, <2>2, <2>3 DEF QueuesOK
<1>13. /\ IsListArray(holders', Objs, Lockers)
       /\ \A p \in Objs : Members(holders'[p]) = {k \in Lockers : Holds(k, p)'}
  <2>1. holders' = holders /\ held' = held
    BY <1>2
  <2> QED BY <2>1 DEF TypeOK, Holds
<1> QED BY <1>1, <1>2, <1>6, <1>7, <1>8, <1>9, <1>11, <1>12, <1>13 DEF TypeOK, ddVars

LEMMA TypeThread ==
    ASSUME TypeOK, QueuesOK, NEW l \in Lockers, Wake(l) \/ Commit(l) \/ End(l)
    PROVE  TypeOK' /\ QueuesOK'
<1>1. PICK x \in States \ {"wait"} : st' = [st EXCEPT ![l] = x]
  BY Zenon DEF Wake, Commit, End, States
<1>2. /\ UNCHANGED <<setting, held, holders, queue, want, ddObjs, needDD, stale, ddVars>>
      /\ last' = last \/ last' = [last EXCEPT ![l] = NoObj]
      /\ todo' = todo \/ todo' = [todo EXCEPT ![l] = <<>>]
  BY DEF Wake, Commit, End
<1>3. st[l] # "wait" /\ want[l] = "N" /\ \A p \in Objs : l \notin Members(queue[p])
  <2>1. st[l] # "wait"
    BY DEF Wake, Commit, End
  <2> QED BY <2>1 DEF TypeOK
<1>4. <<>> \in Seq(Objs \X {"R", "W"})
  OBVIOUS
<1>5. /\ st' \in [Lockers -> States] /\ last' \in [Lockers -> Objs \cup {NoObj}]
      /\ todo' \in [Lockers -> Seq(Objs \X {"R", "W"})]
      /\ st'[l] # "wait"
      /\ \A k \in Lockers : k # l => st'[k] = st[k] /\ last'[k] = last[k]
  <2>1. /\ st \in [Lockers -> States] /\ last \in [Lockers -> Objs \cup {NoObj}]
        /\ todo \in [Lockers -> Seq(Objs \X {"R", "W"})]
    BY DEF TypeOK
  <2>2. st' \in [Lockers -> States] /\ st'[l] # "wait" /\ \A k \in Lockers : k # l => st'[k] = st[k]
    BY <1>1, <2>1
  <2>3. last' \in [Lockers -> Objs \cup {NoObj}] /\ \A k \in Lockers : k # l => last'[k] = last[k]
    BY <1>2, <2>1
  <2>4. todo' \in [Lockers -> Seq(Objs \X {"R", "W"})]
    BY <1>2, <1>4, <2>1
  <2> QED BY <2>2, <2>3, <2>4
<1>6. \A k \in Lockers, p \in Objs :
        k \in Members(queue'[p]) <=> st'[k] = "wait" /\ last'[k] = p
  BY <1>2, <1>3, <1>5 DEF TypeOK
<1>7. \A k \in Lockers : st'[k] = "wait" <=> want'[k] # "N"
  BY <1>2, <1>3, <1>5 DEF TypeOK
<1>8. QueuesOK'
  BY <1>2, <1>5 DEF QueuesOK
<1>9. /\ IsListArray(holders', Objs, Lockers)
      /\ \A p \in Objs : Members(holders'[p]) = {k \in Lockers : Holds(k, p)'}
  BY <1>2 DEF TypeOK, Holds
<1> QED BY <1>2, <1>5, <1>6, <1>7, <1>8, <1>9 DEF TypeOK, ddVars

LEMMA TypeRelease ==
    ASSUME TypeOK, QueuesOK, NEW l \in Lockers, NEW o \in Objs, Release(l, o)
    PROVE  TypeOK' /\ QueuesOK'
<1> DEFINE hs == [held[o] EXCEPT ![l] = "N"]
           hl == RemoveAll(holders[o], {l})
<1>1. /\ Promote(o, hs, hl, queue[o], st, want)
      /\ needDD' = (needDD \/ (Members(queue[o]) # {} /\ queue'[o] = queue[o]))
      /\ stale' = (stale \/ (at = o /\ o \notin Members(ddObjs')))
      /\ UNCHANGED <<setting, todo, last, ddVars>>
  BY DEF Release, Regenerated
<1>2. /\ hs \in LockSets /\ st \in [Lockers -> States] /\ want \in LockSets
      /\ IsList(queue[o], Lockers) /\ IsQueue(queue[o])
  BY DEF TypeOK, QueuesOK, IsListArray, LockSets
<1>3. /\ \A k \in Lockers, p \in Objs : k \in Members(queue[p]) <=> st[k] = "wait" /\ last[k] = p
      /\ \A k \in Lockers : st[k] = "wait" <=> want[k] # "N"
      /\ \A k \in Lockers : st[k] = "wait" => last[k] \in Objs
  BY DEF TypeOK, QueuesOK
<1>4. last' = last
  BY <1>1
<1>7. IsList(hl, Lockers) /\ Members(hl) = {k \in Lockers : hs[k] # "N"}
  <2>1. IsList(holders[o], Lockers) /\ Members(holders[o]) = {k \in Lockers : held[o][k] # "N"}
    BY DEF TypeOK, Holds, IsListArray
  <2>2. IsList(hl, Lockers) /\ Members(hl) = Members(holders[o]) \ {l}
    BY <2>1, LockersFinite, RemoveAllType
  <2>3. hs[l] = "N" /\ \A k \in Lockers : k # l => hs[k] = held[o][k]
    BY DEF TypeOK
  <2> HIDE DEF hs, hl
  <2> QED BY <2>1, <2>2, <2>3
<1> HIDE DEF hs, hl
<1>5. /\ held' \in [Objs -> [Lockers -> {"N", "R", "W"}]]
      /\ IsListArray(queue', Objs, Lockers)
      /\ want' \in [Lockers -> {"N", "R", "W"}]
      /\ st' \in [Lockers -> States]
      /\ \A k \in Lockers, p \in Objs :
           k \in Members(queue'[p]) <=> st'[k] = "wait" /\ last'[k] = p
      /\ \A k \in Lockers : st'[k] = "wait" <=> want'[k] # "N"
      /\ IsList(ddObjs', Objs)
      /\ QueuesOK'
      /\ IsListArray(holders', Objs, Lockers)
      /\ \A p \in Objs : Members(holders'[p]) = {k \in Lockers : held'[p][k] # "N"}
  BY <1>1, <1>2, <1>3, <1>4, <1>7, PromoteType
<1>6. needDD' \in BOOLEAN /\ stale' \in BOOLEAN
  BY <1>1 DEF TypeOK
<1> QED BY <1>1, <1>5, <1>6 DEF TypeOK, Holds, ddVars

LEMMA TypeDetector ==
    ASSUME TypeOK, QueuesOK, Start \/ Scan \/ Finish
    PROVE  TypeOK' /\ QueuesOK'
<1>1. UNCHANGED <<setting, lockVars>>
  BY DEF Start, Scan, Finish
<1>2. QueuesOK'
  BY <1>1 DEF QueuesOK, lockVars
<1>3. FirstObj \in Objs \cup {NoObj}
  <2>1. Members(ddObjs) # {} => FirstIn(ddObjs, Members(ddObjs)) \in Members(ddObjs)
    BY FirstInMember DEF TypeOK
  <2> QED BY <2>1 DEF FirstObj, TypeOK, IsList
<1>4. ASSUME NEW o PROVE NextOf(o) \in Objs \cup {NoObj}
  <2> DEFINE later == {p \in Members(ddObjs) : ddObjs[p] > ddObjs[o]}
  <2>1. later # {} => FirstIn(ddObjs, later) \in later
    <3>1. later \subseteq Members(ddObjs)
      OBVIOUS
    <3> HIDE DEF later
    <3> QED BY <3>1, FirstInMember DEF TypeOK
  <2>2. later \subseteq Objs
    BY DEF TypeOK, IsList
  <2>3. NextOf(o) = IF later = {} THEN NoObj ELSE FirstIn(ddObjs, later)
    BY DEF NextOf
  <2> HIDE DEF later
  <2> QED BY <2>1, <2>2, <2>3
<1>5. NoRow \in [Lockers -> SUBSET Lockers]
  BY DEF NoRow
<1>6. [l \in Lockers |-> RowAfter(at, l)] \in [Lockers -> SUBSET Lockers]
  BY DEF RowAfter, Holders, TypeOK
<1>7. [l \in Lockers |-> SelfWaitAfter(at, l)] \in [Lockers -> BOOLEAN]
  BY DEF SelfWaitAfter, TypeOK
<1>8. [l \in Lockers |-> FALSE] \in [Lockers -> BOOLEAN]
  OBVIOUS
<1>9. /\ needDD' \in BOOLEAN /\ stale' \in BOOLEAN
      /\ pc' \in {"idle", "build", "kill"} /\ at' \in Objs \cup {NoObj}
      /\ matrix' \in [Lockers -> SUBSET Lockers]
      /\ selfWait' \in [Lockers -> BOOLEAN]
      /\ victims' = victims
  <2>1. CASE Start
    BY <1>3, <2>1 DEF Start, TypeOK
  <2>2. CASE Scan
    <3>1. /\ stale' = FALSE /\ UNCHANGED <<setting, lockVars, needDD, pc, victims>>
          /\ matrix' = NoRow \/ matrix' = [l \in Lockers |-> RowAfter(at, l)]
          /\ selfWait' = selfWait \/ selfWait' = [l \in Lockers |-> SelfWaitAfter(at, l)]
          /\ at' = FirstObj \/ at' = NextOf(at)
      BY <2>2 DEF Scan
    <3>2. at' \in Objs \cup {NoObj}
      BY <1>3, <1>4, <3>1
    <3>3. matrix' \in [Lockers -> SUBSET Lockers]
      BY <1>5, <1>6, <3>1
    <3>4. selfWait' \in [Lockers -> BOOLEAN]
      BY <1>7, <3>1 DEF TypeOK
    <3> QED BY <3>1, <3>2, <3>3, <3>4 DEF TypeOK
  <2>3. CASE Finish
    BY <1>5, <1>8, <2>3 DEF Finish, TypeOK
  <2> QED BY <2>1, <2>2, <2>3
<1> QED BY <1>1, <1>2, <1>9 DEF TypeOK, Holds, lockVars

LEMMA TypeChoose ==
    ASSUME TypeOK, QueuesOK, Choose
    PROVE  TypeOK' /\ QueuesOK'
<1>1. /\ victims' = {Victim(i, Find.rows[i]) : i \in Find.found}
      /\ pc' = "kill"
      /\ UNCHANGED <<setting, lockVars, needDD, stale, at, matrix, selfWait>>
  BY DEF Choose
<1>2. QueuesOK'
  BY <1>1 DEF QueuesOK, lockVars
<1>3. matrix \in [Lockers -> SUBSET Lockers] /\ setting \in Settings
      /\ last \in [Lockers -> Objs \cup {NoObj}]
  BY DEF TypeOK
<1>4. ASSUME NEW i \in Find.found
      PROVE  Victim(i, Find.rows[i]) \in [owner : Lockers, who : Lockers,
                                        last : Objs \cup {NoObj}, sure : BOOLEAN]
  <2>1. /\ Find \in FindTypes /\ i \in Find.rows[i]
    BY <1>3, FindSound
  <2>2. i \in Lockers /\ Find.rows[i] \in SUBSET Lockers
    BY <2>1 DEF FindTypes
  <2> QED BY <1>3, <2>1, <2>2, VictimInside
<1>5. victims' \subseteq [owner : Lockers, who : Lockers,
                          last : Objs \cup {NoObj}, sure : BOOLEAN]
  BY <1>1, <1>4
<1> QED BY <1>1, <1>2, <1>5 DEF TypeOK, Holds, lockVars

LEMMA TypeKill ==
    ASSUME TypeOK, QueuesOK, Kill
    PROVE  TypeOK' /\ QueuesOK'
<1>1. PICK v \in victims :
        /\ victims' = victims \ {v}
        /\ LET o == last[v.who]
           IN IF Abortable(v)
              THEN /\ Promote(o, held[o], holders[o], RemoveAll(queue[o], {v.who}),
                              [st EXCEPT ![v.who] = "aborted"],
                              [want EXCEPT ![v.who] = "N"])
                   /\ todo' = [todo EXCEPT ![v.who] = <<>>]
                   /\ needDD' = (needDD \/ ~v.sure)
              ELSE /\ needDD' = TRUE
                   /\ UNCHANGED <<held, holders, queue, want, st, ddObjs, todo>>
  BY DEF Kill
<1>2. UNCHANGED <<setting, last, stale, pc, at, matrix, selfWait>>
  BY DEF Kill
<1>3. v \in [owner : Lockers, who : Lockers, last : Objs \cup {NoObj}, sure : BOOLEAN]
  BY DEF TypeOK
<1>4. victims' \subseteq victims
  BY <1>1
<1>5. CASE ~Abortable(v)
  <2>1. /\ needDD' = TRUE
        /\ UNCHANGED <<held, holders, queue, want, st, ddObjs, todo>>
    BY <1>1, <1>5
  <2> QED BY <1>2, <1>4, <2>1 DEF TypeOK, Holds, QueuesOK
<1>6. CASE Abortable(v)
  <2>1. PICK l \in Lockers : l = v.who
    BY <1>3
  <2> DEFINE o == last[l]
             q == RemoveAll(queue[o], {l})
             s == [st EXCEPT ![l] = "aborted"]
             w == [want EXCEPT ![l] = "N"]
  <2>2. st[l] = "wait" /\ o \in Objs
    BY <1>6, <2>1 DEF Abortable, QueuesOK
  <2>3. /\ Promote(o, held[o], holders[o], q, s, w)
        /\ todo' = [todo EXCEPT ![l] = <<>>]
        /\ needDD' = (needDD \/ ~v.sure)
    BY <1>1, <1>6, <2>1
  <2>12. /\ IsList(holders[o], Lockers)
         /\ Members(holders[o]) = {k \in Lockers : held[o][k] # "N"}
    BY <2>2 DEF TypeOK, Holds, IsListArray
  <2>4. /\ held[o] \in LockSets /\ s \in [Lockers -> States] /\ w \in LockSets
        /\ IsList(queue[o], Lockers) /\ IsQueue(queue[o])
    BY <2>2 DEF TypeOK, QueuesOK, IsListArray, LockSets, States
  <2>5. IsList(q, Lockers) /\ Members(q) = Members(queue[o]) \ {l} /\ IsQueue(q)
    BY <2>4, LockersFinite, RemoveAllType, RemoveAllQueue
  <2>6. /\ s[l] = "aborted" /\ w[l] = "N"
        /\ \A k \in Lockers : k # l => s[k] = st[k] /\ w[k] = want[k]
    BY DEF TypeOK
  <2>7. /\ \A k \in Lockers, p \in Objs : k \in Members(queue[p]) <=> st[k] = "wait" /\ last[k] = p
        /\ \A k \in Lockers : st[k] = "wait" <=> want[k] # "N"
        /\ \A k \in Lockers : st[k] = "wait" => last[k] \in Objs
    BY DEF TypeOK, QueuesOK
  <2>8. /\ \A k \in Lockers : k \in Members(q) <=> s[k] = "wait" /\ last[k] = o
        /\ \A k \in Lockers, p \in Objs : p # o =>
             (k \in Members(queue[p]) <=> s[k] = "wait" /\ last[k] = p)
        /\ \A k \in Lockers : s[k] = "wait" <=> w[k] # "N"
        /\ \A k \in Lockers : s[k] = "wait" => last[k] \in Objs
    <3> HIDE DEF q, s, w
    <3>1. \A k \in Lockers : k \in Members(q) <=> s[k] = "wait" /\ last[k] = o
      BY <2>2, <2>5, <2>6, <2>7
    <3>2. \A k \in Lockers, p \in Objs : p # o =>
             (k \in Members(queue[p]) <=> s[k] = "wait" /\ last[k] = p)
      <4> SUFFICES ASSUME NEW k \in Lockers, NEW p \in Objs, p # o
                   PROVE  k \in Members(queue[p]) <=> s[k] = "wait" /\ last[k] = p
        OBVIOUS
      <4>1. CASE k = l
        BY <2>6, <2>7, <4>1
      <4>2. CASE k # l
        BY <2>6, <2>7, <4>2
      <4> QED BY <4>1, <4>2
    <3>3. \A k \in Lockers : s[k] = "wait" <=> w[k] # "N"
      BY <2>6, <2>7
    <3>4. \A k \in Lockers : s[k] = "wait" => last[k] \in Objs
      BY <2>6, <2>7
    <3> QED BY <3>1, <3>2, <3>3, <3>4
  <2>9. last' = last /\ Members(q) \subseteq Members(queue[o])
    BY <1>2, <2>5
  <2>13. PICK hs, hl : hs = held[o] /\ hl = holders[o]
    OBVIOUS
  <2>14. /\ Promote(o, hs, hl, q, s, w) /\ hs \in LockSets
         /\ IsList(hl, Lockers) /\ Members(hl) = {k \in Lockers : hs[k] # "N"}
    BY <2>3, <2>4, <2>12, <2>13
  <2> HIDE DEF q, s, w
  <2>10. /\ held' \in [Objs -> [Lockers -> {"N", "R", "W"}]]
         /\ IsListArray(queue', Objs, Lockers)
         /\ want' \in [Lockers -> {"N", "R", "W"}]
         /\ st' \in [Lockers -> States]
         /\ \A k \in Lockers, p \in Objs :
              k \in Members(queue'[p]) <=> st'[k] = "wait" /\ last'[k] = p
         /\ \A k \in Lockers : st'[k] = "wait" <=> want'[k] # "N"
         /\ IsList(ddObjs', Objs)
         /\ QueuesOK'
         /\ IsListArray(holders', Objs, Lockers)
         /\ \A p \in Objs : Members(holders'[p]) = {k \in Lockers : held'[p][k] # "N"}
    BY <2>2, <2>4, <2>5, <2>8, <2>9, <2>14, PromoteType
  <2>11. todo' \in [Lockers -> Seq(Objs \X {"R", "W"})] /\ needDD' \in BOOLEAN
    <3>1. <<>> \in Seq(Objs \X {"R", "W"})
      OBVIOUS
    <3> QED BY <1>3, <2>3, <3>1 DEF TypeOK
  <2> QED BY <1>2, <1>4, <2>10, <2>11 DEF TypeOK, Holds
<1> QED BY <1>5, <1>6

\* Every step is a step of a thread, of the lock table or of the detector.
LEMMA NextCases ==
    ASSUME Next
    PROVE  \/ \E l \in Lockers, o \in Objs, m \in {"R", "W"} : Get(l, o, m)
           \/ \E l \in Lockers, o \in Objs, m \in {"R", "W"} : Sleep(l, o, m)
           \/ \E l \in Lockers, o \in Objs : Release(l, o)
           \/ \E l \in Lockers : Wake(l) \/ Commit(l) \/ End(l)
           \/ Start \/ Scan \/ Choose \/ Kill \/ Finish
BY Zenon DEF Next

\* The accesses and the settings of the lockers are fixed.
LEMMA SettingKept ==
    ASSUME [Next]_vars
    PROVE  setting' = setting
<1>1. CASE UNCHANGED vars
  BY <1>1 DEF vars
<1>2. CASE \E l \in Lockers, o \in Objs, m \in {"R", "W"} : Get(l, o, m)
  BY <1>2, Zenon DEF Get
<1>3. CASE \E l \in Lockers, o \in Objs, m \in {"R", "W"} : Sleep(l, o, m)
  BY <1>3, Zenon DEF Sleep
<1>4. CASE \E l \in Lockers, o \in Objs : Release(l, o)
  BY <1>4, Zenon DEF Release
<1>5. CASE \E l \in Lockers : Wake(l) \/ Commit(l) \/ End(l)
  BY <1>5, Zenon DEF Wake, Commit, End
<1>6. CASE Start \/ Scan \/ Choose \/ Finish
  BY <1>6, Zenon DEF Start, Scan, Choose, Finish
<1>7. CASE Kill
  BY <1>7, Zenon DEF Kill
<1> QED BY <1>1, <1>2, <1>3, <1>4, <1>5, <1>6, <1>7, NextCases, Zenon

LEMMA TypeStep == TypeOK /\ QueuesOK /\ [Next]_vars => TypeOK' /\ QueuesOK'
<1> SUFFICES ASSUME TypeOK, QueuesOK, [Next]_vars PROVE TypeOK' /\ QueuesOK'
  OBVIOUS
<1>1. CASE UNCHANGED vars
  BY <1>1 DEF vars, lockVars, ddVars, TypeOK, QueuesOK, Holds
<1>2. CASE Next
  <2>1. ASSUME NEW l \in Lockers, NEW o \in Objs, NEW m \in {"R", "W"}, Get(l, o, m)
        PROVE  TypeOK' /\ QueuesOK'
    BY <2>1, TypeGet
  <2>2. ASSUME NEW l \in Lockers, NEW o \in Objs, NEW m \in {"R", "W"}, Sleep(l, o, m)
        PROVE  TypeOK' /\ QueuesOK'
    BY <2>2, TypeSleep
  <2>3. ASSUME NEW l \in Lockers, NEW o \in Objs, Release(l, o)
        PROVE  TypeOK' /\ QueuesOK'
    BY <2>3, TypeRelease
  <2>4. ASSUME NEW l \in Lockers, Wake(l) \/ Commit(l) \/ End(l)
        PROVE  TypeOK' /\ QueuesOK'
    BY <2>4, TypeThread
  <2>5. ASSUME Start \/ Scan \/ Finish PROVE TypeOK' /\ QueuesOK'
    BY <2>5, TypeDetector
  <2>6. ASSUME Choose PROVE TypeOK' /\ QueuesOK'
    BY <2>6, TypeChoose
  <2>7. ASSUME Kill PROVE TypeOK' /\ QueuesOK'
    BY <2>7, TypeKill
  <2> QED BY <1>2, <2>1, <2>2, <2>3, <2>4, <2>5, <2>6, <2>7, NextCases, Zenon
<1> QED BY <1>1, <1>2

-----------------------------------------------------------------------------
(* The walk over dd_objs.                                                  *)

\* The first object, and the one after o.
LEMMA WalkOrder ==
    ASSUME IsList(ddObjs, Objs), NEW o \in Members(ddObjs)
    PROVE  /\ FirstObj \in Members(ddObjs)
           /\ \A p \in Members(ddObjs) : ddObjs[FirstObj] <= ddObjs[p]
           /\ \/ /\ NextOf(o) = NoObj
                 /\ \A p \in Members(ddObjs) : ddObjs[p] <= ddObjs[o]
              \/ /\ NextOf(o) \in Members(ddObjs)
                 /\ ddObjs[o] < ddObjs[NextOf(o)]
                 /\ \A p \in Members(ddObjs) : ddObjs[p] < ddObjs[NextOf(o)] => ddObjs[p] <= ddObjs[o]
<1> DEFINE later == {p \in Members(ddObjs) : ddObjs[p] > ddObjs[o]}
<1>1. \A p \in Members(ddObjs) : ddObjs[p] \in Nat
  BY DEF IsList
<1>2. FirstObj = FirstIn(ddObjs, Members(ddObjs))
  BY DEF FirstObj
<1>3. /\ FirstObj \in Members(ddObjs)
      /\ \A p \in Members(ddObjs) : ddObjs[FirstObj] <= ddObjs[p]
  <2>1. Members(ddObjs) # {}
    OBVIOUS
  <2> QED BY <1>2, <2>1, FirstInMember
<1>4. NextOf(o) = IF later = {} THEN NoObj ELSE FirstIn(ddObjs, later)
  BY DEF NextOf
<1>5. \A p \in Members(ddObjs) : p \notin later => ddObjs[p] <= ddObjs[o]
  BY <1>1
<1>6. CASE later = {}
  BY <1>3, <1>4, <1>5, <1>6
<1>7. CASE later # {}
  <2>1. later \subseteq Members(ddObjs) /\ \A p \in later : ddObjs[p] > ddObjs[o]
    OBVIOUS
  <2> HIDE DEF later
  <2>2. /\ NextOf(o) \in later
        /\ \A p \in later : ddObjs[NextOf(o)] <= ddObjs[p]
    BY <1>4, <1>7, <2>1, FirstInMember
  <2>3. ASSUME NEW p \in Members(ddObjs), ddObjs[p] < ddObjs[NextOf(o)]
        PROVE  ddObjs[p] <= ddObjs[o]
    <3>1. p \notin later
      BY <1>1, <2>1, <2>2, <2>3
    <3> QED BY <1>5, <3>1
  <2> QED BY <1>1, <1>3, <2>1, <2>2, <2>3
<1> QED BY <1>6, <1>7

\* The matrix is free while the detector is idle, and the object it has come
\* to is on dd_objs unless its generation changed.
WalkOK ==
    /\ pc = "idle" => matrix = NoRow
    /\ at = NoObj => ~stale
    /\ (pc = "build" /\ at # NoObj /\ ~stale) => at \in Members(ddObjs)

\* An object other than o stays on dd_objs when the queue of o changes.
LEMMA OthersStay ==
    ASSUME QueuesOK, QueuesOK', NEW o, NEW p \in Objs, p # o,
           \A i \in Objs : i # o => queue'[i] = queue[i]
    PROVE  p \in Members(ddObjs) <=> p \in Members(ddObjs')
BY DEF QueuesOK

\* Locker l lets go of o, which leaves the locks hs on it, and P get in.
Releases(l, o, hs, P) ==
    /\ hs = [held[o] EXCEPT ![l] = "N"] /\ P = Promotable(hs, queue[o])
    /\ hs[l] = "N" /\ \A k \in Lockers : k # l => hs[k] = held[o][k]
    /\ held'[o] = LetIn(hs, P) /\ \A p \in Objs : p # o => held'[p] = held[p]
    /\ queue'[o] = RemoveAll(queue[o], P)
    /\ \A p \in Objs : p # o => queue'[p] = queue[p]
    /\ \A k \in Lockers \ P : st'[k] = st[k] /\ want'[k] = want[k]
    /\ \A k \in P : st'[k] \in {"granted", "run"} /\ st[k] = "wait" /\ last[k] = o
    /\ st[l] \in {"ending", "aborted"} /\ l \notin P
    /\ needDD' = (needDD \/ (Members(queue[o]) # {} /\ queue'[o] = queue[o]))
    /\ stale' = (stale \/ (at = o /\ o \notin Members(ddObjs')))
    /\ ddObjs' = IF P = Members(queue[o]) THEN RemoveAll(ddObjs, {o}) ELSE ddObjs
    /\ UNCHANGED <<setting, todo, last, pc, at, matrix, selfWait, victims>>

\* What a release does to the lock table.
LEMMA ReleaseFacts ==
    ASSUME TypeOK, QueuesOK, NEW l \in Lockers, NEW o \in Objs, Release(l, o)
    PROVE  \E hs \in LockSets, P \in SUBSET Members(queue[o]) : Releases(l, o, hs, P)
<1> DEFINE hs == [held[o] EXCEPT ![l] = "N"]
           P == Promotable(hs, queue[o])
<1>1. /\ Promote(o, hs, RemoveAll(holders[o], {l}), queue[o], st, want)
      /\ needDD' = (needDD \/ (Members(queue[o]) # {} /\ queue'[o] = queue[o]))
      /\ stale' = (stale \/ (at = o /\ o \notin Members(ddObjs')))
      /\ UNCHANGED <<setting, todo, last, ddVars>>
      /\ st[l] \in {"ending", "aborted"}
  BY DEF Release, Regenerated
<1>2. /\ hs \in LockSets /\ want \in LockSets
      /\ IsList(queue[o], Lockers) /\ IsQueue(queue[o])
  BY DEF TypeOK, QueuesOK, IsListArray, LockSets
<1>3. P \subseteq Members(queue[o])
  BY <1>2, PromotablePrefix
<1>4. /\ held' = [held EXCEPT ![o] = LetIn(hs, P)]
      /\ queue' = [queue EXCEPT ![o] = RemoveAll(queue[o], P)]
      /\ want' = [k \in Lockers |-> IF k \in P THEN "N" ELSE want[k]]
      /\ st' = [k \in Lockers |-> IF k \notin P THEN st[k]
                   ELSE IF hs[k] = "N" THEN "granted" ELSE "run"]
      /\ ddObjs' = IF P = Members(queue[o]) THEN RemoveAll(ddObjs, {o}) ELSE ddObjs
  BY <1>1 DEF Promote
<1> HIDE DEF hs, P
<1>5. /\ held'[o] = LetIn(hs, P) /\ \A p \in Objs : p # o => held'[p] = held[p]
  BY <1>4 DEF TypeOK
<1>6. /\ queue'[o] = RemoveAll(queue[o], P)
      /\ \A p \in Objs : p # o => queue'[p] = queue[p]
  BY <1>4 DEF TypeOK, IsListArray
<1>7. /\ \A k \in Lockers \ P : st'[k] = st[k] /\ want'[k] = want[k]
      /\ \A k \in P : st'[k] \in {"granted", "run"} /\ st[k] = "wait" /\ last[k] = o
  <2>1. \A k \in Lockers : k \in P => st[k] = "wait" /\ last[k] = o
    BY <1>3 DEF TypeOK
  <2>2. P \subseteq Lockers
    BY <1>2, <1>3 DEF IsList
  <2> QED BY <1>4, <2>1, <2>2
<1>8. l \notin P
  BY <1>1, <1>7
<1>9. hs[l] = "N" /\ \A k \in Lockers : k # l => hs[k] = held[o][k]
  BY DEF TypeOK, hs
<1>10. hs = [held[o] EXCEPT ![l] = "N"] /\ P = Promotable(hs, queue[o])
  BY DEF hs, P
<1>11. PICK h \in LockSets : h = hs
  BY <1>2
<1>12. Releases(l, o, h, P)
  BY <1>1, <1>4, <1>5, <1>6, <1>7, <1>8, <1>9, <1>10, <1>11, Zenon DEF Releases, ddVars
<1> QED BY <1>3, <1>12, Zenon

\* The abort of waiter l.
Aborts(l, o, q, P) ==
    /\ o = last[l] /\ q = RemoveAll(queue[o], {l}) /\ P = Promotable(held[o], q)
    /\ st[l] = "wait"
    /\ held'[o] = LetIn(held[o], P)
    /\ \A p \in Objs : p # o => held'[p] = held[p]
    /\ queue'[o] = RemoveAll(q, P)
    /\ \A p \in Objs : p # o => queue'[p] = queue[p]
    /\ st'[l] = "aborted" /\ want'[l] = "N"
    /\ \A k \in Lockers \ (P \cup {l}) : st'[k] = st[k] /\ want'[k] = want[k]
    /\ \A k \in P : st'[k] \in {"granted", "run"} /\ st[k] = "wait" /\ last[k] = o
    /\ todo' = [todo EXCEPT ![l] = <<>>]

\* What the detector does to the next victim.
LEMMA KillFacts ==
    ASSUME TypeOK, QueuesOK, Kill
    PROVE  /\ UNCHANGED <<setting, last, stale, pc, at, matrix, selfWait>>
           /\ pc = "kill"
           /\ \E v \in victims :
                /\ victims' = victims \ {v} /\ v.who \in Lockers
                /\ \/ /\ needDD' = TRUE
                      /\ UNCHANGED <<held, queue, want, st, ddObjs, todo>>
                   \/ /\ needDD' = (needDD \/ ~v.sure)
                      /\ \E o \in Objs : \E q, P :
                           P \subseteq Members(queue[o]) \ {v.who} /\ Aborts(v.who, o, q, P)
<1>1. PICK v \in victims :
        /\ victims' = victims \ {v}
        /\ LET o == last[v.who]
           IN IF Abortable(v)
              THEN /\ Promote(o, held[o], holders[o], RemoveAll(queue[o], {v.who}),
                              [st EXCEPT ![v.who] = "aborted"],
                              [want EXCEPT ![v.who] = "N"])
                   /\ todo' = [todo EXCEPT ![v.who] = <<>>]
                   /\ needDD' = (needDD \/ ~v.sure)
              ELSE /\ needDD' = TRUE
                   /\ UNCHANGED <<held, holders, queue, want, st, ddObjs, todo>>
  BY DEF Kill
<1>2. pc = "kill" /\ UNCHANGED <<setting, last, stale, pc, at, matrix, selfWait>>
  BY DEF Kill
<1>3. v.who \in Lockers
  BY DEF TypeOK
<1>4. CASE ~Abortable(v)
  BY <1>1, <1>2, <1>3, <1>4
<1>5. CASE Abortable(v)
  <2>1. PICK l \in Lockers : l = v.who
    BY <1>3
  <2> DEFINE o == last[l]
             q == RemoveAll(queue[o], {l})
             s == [st EXCEPT ![l] = "aborted"]
             w == [want EXCEPT ![l] = "N"]
             P == Promotable(held[o], q)
  <2>2. st[l] = "wait" /\ o \in Objs
    BY <1>5, <2>1 DEF Abortable, QueuesOK
  <2>3. /\ Promote(o, held[o], holders[o], q, s, w)
        /\ todo' = [todo EXCEPT ![l] = <<>>]
        /\ needDD' = (needDD \/ ~v.sure)
    BY <1>1, <1>5, <2>1
  <2>4. /\ IsList(queue[o], Lockers) /\ IsQueue(queue[o])
    BY <2>2 DEF TypeOK, QueuesOK, IsListArray
  <2>5. IsList(q, Lockers) /\ Members(q) = Members(queue[o]) \ {l} /\ IsQueue(q)
    BY <2>4, LockersFinite, RemoveAllType, RemoveAllQueue
  <2>6. /\ s[l] = "aborted" /\ w[l] = "N"
        /\ \A k \in Lockers : k # l => s[k] = st[k] /\ w[k] = want[k]
    BY DEF TypeOK
  <2>7. P \subseteq Members(queue[o]) \ {l}
    BY <2>5, PromotablePrefix
  <2>8. /\ held' = [held EXCEPT ![o] = LetIn(held[o], P)]
        /\ queue' = [queue EXCEPT ![o] = RemoveAll(q, P)]
        /\ want' = [k \in Lockers |-> IF k \in P THEN "N" ELSE w[k]]
        /\ st' = [k \in Lockers |-> IF k \notin P THEN s[k]
                     ELSE IF held[o][k] = "N" THEN "granted" ELSE "run"]
    BY <2>3 DEF Promote
  <2> HIDE DEF q, s, w, P
  <2>9. /\ held'[o] = LetIn(held[o], P)
        /\ \A p \in Objs : p # o => held'[p] = held[p]
    BY <2>2, <2>8 DEF TypeOK
  <2>10. /\ queue'[o] = RemoveAll(q, P)
         /\ \A p \in Objs : p # o => queue'[p] = queue[p]
    BY <2>2, <2>8 DEF TypeOK, IsListArray
  <2>11. st'[l] = "aborted" /\ want'[l] = "N"
    BY <2>6, <2>7, <2>8
  <2>12. /\ \A k \in Lockers \ (P \cup {l}) : st'[k] = st[k] /\ want'[k] = want[k]
         /\ \A k \in P : st'[k] \in {"granted", "run"} /\ st[k] = "wait" /\ last[k] = o
    <3>1. \A k \in P : k \in Lockers /\ k # l /\ st[k] = "wait" /\ last[k] = o
      BY <2>2, <2>4, <2>7 DEF TypeOK, IsList
    <3> QED BY <2>6, <2>8, <3>1
  <2>13. q = RemoveAll(queue[o], {l}) /\ P = Promotable(held[o], q)
    BY DEF q, P
  <2>14. Aborts(l, o, q, P)
    BY <2>2, <2>3, <2>9, <2>10, <2>11, <2>12, <2>13, Zenon DEF Aborts
  <2> HIDE DEF o
  <2>15. \E p \in Objs : \E r, S : S \subseteq Members(queue[p]) \ {l} /\ Aborts(l, p, r, S)
    BY <2>2, <2>7, <2>14, Zenon
  <2> QED BY <1>1, <1>2, <1>3, <2>1, <2>3, <2>15, Zenon
<1> QED BY <1>4, <1>5

\* What a request that is granted, and one that has to wait, does to the lock
\* table, and what the other steps of a thread leave alone.
LEMMA GetFacts ==
    ASSUME TypeOK, QueuesOK, NEW l \in Lockers, NEW o, NEW m, Get(l, o, m)
    PROVE  /\ o \in Objs /\ m \in {"R", "W"} /\ st[l] = "run" /\ want[l] = "N"
           /\ \A p \in Objs : l \notin Members(queue[p])
           /\ ~KeptOut(held[o], l, m)
           /\ held'[o] \in LockSets /\ held[o] \in LockSets
           /\ held'[o][l] = And(held[o][l], m)
           /\ \A k \in Lockers : k # l => held'[o][k] = held[o][k] /\ last'[k] = last[k]
           /\ \A p \in Objs : p # o => held'[p] = held[p]
           /\ todo[l] \in Seq(Objs \X {"R", "W"}) /\ todo[l] # <<>> /\ Head(todo[l]) = <<o, m>>
           /\ todo' = [todo EXCEPT ![l] = Tail(@)]
           /\ UNCHANGED <<setting, queue, want, st, ddObjs, needDD, stale, pc, at, matrix,
                          selfWait, victims>>
<1>1. /\ o \in Objs /\ m \in {"R", "W"} /\ st[l] = "run" /\ want[l] = "N"
      /\ \A p \in Objs : l \notin Members(queue[p])
  BY RequestType DEF Get
<1>2. /\ held' = [held EXCEPT ![o][l] = And(@, m)]
      /\ last' = [last EXCEPT ![l] = o]
      /\ todo' = [todo EXCEPT ![l] = Tail(@)]
      /\ UNCHANGED <<setting, queue, want, st, ddObjs, needDD, stale, ddVars>>
      /\ ~KeptOut(held[o], l, m)
      /\ Requests(l, o, m)
  BY DEF Get, Granted
<1>3. TypeOK'
  BY TypeGet
<1>4. held'[o] \in LockSets /\ held[o] \in LockSets
  BY <1>1, <1>3 DEF TypeOK, LockSets
<1>5. /\ held'[o][l] = And(held[o][l], m)
      /\ \A k \in Lockers : k # l => held'[o][k] = held[o][k]
      /\ \A p \in Objs : p # o => held'[p] = held[p]
  BY <1>1, <1>2 DEF TypeOK
<1>6. \A k \in Lockers : k # l => last'[k] = last[k]
  BY <1>2 DEF TypeOK
<1>7. todo[l] \in Seq(Objs \X {"R", "W"}) /\ todo[l] # <<>> /\ Head(todo[l]) = <<o, m>>
  BY <1>2 DEF TypeOK, Requests
<1> QED BY <1>1, <1>2, <1>4, <1>5, <1>6, <1>7 DEF ddVars

LEMMA SleepFacts ==
    ASSUME TypeOK, QueuesOK, NEW l \in Lockers, NEW o, NEW m, Sleep(l, o, m)
    PROVE  /\ o \in Objs /\ m \in {"R", "W"} /\ st[l] = "run" /\ want[l] = "N"
           /\ \A p \in Objs : l \notin Members(queue[p])
           /\ ~Granted(l, o, m)
           /\ held[o] \in LockSets
           /\ \/ queue'[o] = InsertHead(queue[o], l) /\ held[o][l] # "N"
              \/ queue'[o] = InsertTail(queue[o], l)
           /\ \A p \in Objs : p # o => queue'[p] = queue[p]
           /\ st'[l] = "wait" /\ last'[l] = o /\ want'[l] = m
           /\ \A k \in Lockers : k # l => /\ st'[k] = st[k] /\ last'[k] = last[k]
                                          /\ want'[k] = want[k]
           /\ todo[l] \in Seq(Objs \X {"R", "W"}) /\ todo[l] # <<>> /\ Head(todo[l]) = <<o, m>>
           /\ todo' = [todo EXCEPT ![l] = Tail(@)]
           /\ needDD'
           /\ ddObjs' = IF Members(queue[o]) = {} THEN InsertHead(ddObjs, o) ELSE ddObjs
           /\ UNCHANGED <<setting, held, stale, pc, at, matrix, selfWait, victims>>
<1>1. /\ o \in Objs /\ m \in {"R", "W"} /\ st[l] = "run" /\ want[l] = "N"
      /\ \A p \in Objs : l \notin Members(queue[p])
  BY RequestType DEF Sleep
<1>2. /\ queue' = [queue EXCEPT ![o] =
                     IF IHold(l, o, m) THEN InsertHead(@, l) ELSE InsertTail(@, l)]
      /\ want' = [want EXCEPT ![l] = m]
      /\ ddObjs' = IF Members(queue[o]) = {} THEN InsertHead(ddObjs, o) ELSE ddObjs
      /\ last' = [last EXCEPT ![l] = o]
      /\ st' = [st EXCEPT ![l] = "wait"]
      /\ todo' = [todo EXCEPT ![l] = Tail(@)]
      /\ needDD' = TRUE
      /\ UNCHANGED <<setting, held, stale, ddVars>>
      /\ ~Granted(l, o, m)
      /\ Requests(l, o, m)
  BY DEF Sleep
<1>3. held[o] \in LockSets
  BY <1>1 DEF TypeOK, LockSets
<1>4. /\ \/ queue'[o] = InsertHead(queue[o], l) /\ held[o][l] # "N"
         \/ queue'[o] = InsertTail(queue[o], l)
      /\ \A p \in Objs : p # o => queue'[p] = queue[p]
  <2>1. queue = [p \in Objs |-> queue[p]]
    BY DEF TypeOK, IsListArray
  <2>2. queue'[o] = IF IHold(l, o, m) THEN InsertHead(queue[o], l) ELSE InsertTail(queue[o], l)
    BY <1>1, <1>2, <2>1
  <2>3. \A p \in Objs : p # o => queue'[p] = queue[p]
    BY <1>1, <1>2, <2>1
  <2>4. IHold(l, o, m) => held[o][l] # "N"
    BY DEF IHold, Holds
  <2> QED BY <2>2, <2>3, <2>4
<1>5. /\ st'[l] = "wait" /\ last'[l] = o /\ want'[l] = m
      /\ \A k \in Lockers : k # l => st'[k] = st[k] /\ last'[k] = last[k] /\ want'[k] = want[k]
  BY <1>2 DEF TypeOK
<1>6. todo[l] \in Seq(Objs \X {"R", "W"}) /\ todo[l] # <<>> /\ Head(todo[l]) = <<o, m>>
  BY <1>2 DEF TypeOK, Requests
<1>7. UNCHANGED <<setting, held, stale, pc, at, matrix, selfWait, victims>>
  BY <1>2 DEF ddVars
<1> QED BY <1>1, <1>2, <1>3, <1>4, <1>5, <1>6, <1>7

Over(h) == st[h] \in {"ending", "aborted", "done"}

LEMMA ThreadFacts ==
    ASSUME TypeOK, NEW l \in Lockers, Wake(l) \/ Commit(l) \/ End(l)
    PROVE  /\ UNCHANGED <<setting, held, queue, want, ddObjs, needDD, stale, pc, at, matrix,
                          selfWait, victims>>
           /\ \A k \in Lockers : k # l => st'[k] = st[k] /\ last'[k] = last[k] /\ todo'[k] = todo[k]
           /\ todo'[l] = todo[l] \/ todo'[l] = <<>>
           /\ st[l] # "wait" /\ st'[l] # "wait"
           /\ \/ ~Over(l) /\ Over(l)'
              \/ ~Over(l) /\ ~Over(l)'
              \/ Over(l) /\ Over(l)'
           /\ \A k \in Lockers : k # l => (Over(k)' <=> Over(k))
<1>1. \/ st[l] = "granted" /\ st' = [st EXCEPT ![l] = "run"]
      \/ st[l] = "run" /\ st' = [st EXCEPT ![l] = "ending"]
      \/ st[l] \in {"ending", "aborted"} /\ st' = [st EXCEPT ![l] = "done"]
  BY Zenon DEF Wake, Commit, End
<1>2. /\ UNCHANGED <<setting, held, queue, want, ddObjs, needDD, stale, ddVars>>
      /\ last' = last \/ last' = [last EXCEPT ![l] = NoObj]
      /\ todo' = todo \/ todo' = [todo EXCEPT ![l] = <<>>]
  BY DEF Wake, Commit, End
<1>3. /\ \A k \in Lockers : k # l => st'[k] = st[k]
      /\ st'[l] \in {"run", "ending", "done"} /\ st[l] \in {"granted", "run", "ending", "aborted"}
      /\ st'[l] = "run" => st[l] = "granted"
  BY <1>1 DEF TypeOK
<1>4. \A k \in Lockers : k # l => last'[k] = last[k]
  BY <1>2 DEF TypeOK
<1>5. /\ \A k \in Lockers : k # l => todo'[k] = todo[k]
      /\ todo'[l] = todo[l] \/ todo'[l] = <<>>
  BY <1>2 DEF TypeOK
<1> QED BY <1>2, <1>3, <1>4, <1>5 DEF Over, ddVars

\* The walk stays on dd_objs.
LEMMA WalkStep ==
    ASSUME TypeOK, QueuesOK, WalkOK, [Next]_vars
    PROVE  WalkOK'
<1>0. QueuesOK' /\ TypeOK'
  BY TypeStep
<1>1. CASE UNCHANGED vars
  BY <1>1 DEF vars, lockVars, ddVars, WalkOK, NoRow
<1>2. ASSUME NEW l \in Lockers, NEW o \in Objs, NEW m \in {"R", "W"}, Get(l, o, m)
      PROVE  WalkOK'
  BY <1>2, GetFacts DEF WalkOK, NoRow
<1>3. ASSUME NEW l \in Lockers, NEW o \in Objs, NEW m \in {"R", "W"}, Sleep(l, o, m)
      PROVE  WalkOK'
  <2>1. UNCHANGED <<stale, pc, at, matrix>>
    BY <1>3, SleepFacts
  <2>2. ddObjs' = ddObjs \/ ddObjs' = InsertHead(ddObjs, o)
    BY <1>3, SleepFacts
  <2>3. Members(ddObjs) \subseteq Members(ddObjs')
    BY <2>2 DEF Members, InsertHead
  <2> QED BY <2>1, <2>3 DEF WalkOK, NoRow
<1>4. ASSUME NEW l \in Lockers, NEW o \in Objs, Release(l, o)
      PROVE  WalkOK'
  <2>1. /\ UNCHANGED <<pc, at, matrix>>
        /\ stale' = (stale \/ (at = o /\ o \notin Members(ddObjs')))
        /\ \A p \in Objs : p # o => queue'[p] = queue[p]
    <3>1. PICK hs \in LockSets, P \in SUBSET Members(queue[o]) : Releases(l, o, hs, P)
      BY <1>4, ReleaseFacts
    <3> QED BY <3>1 DEF Releases
  <2>2. \A p \in Objs : p # o => (p \in Members(ddObjs) <=> p \in Members(ddObjs'))
    BY <1>0, <2>1, OthersStay
  <2>3. stale \in BOOLEAN /\ at \in Objs \cup {NoObj} /\ o # NoObj
    BY RowAssumption DEF TypeOK
  <2> QED BY <2>1, <2>2, <2>3 DEF WalkOK, NoRow
<1>5. ASSUME NEW l \in Lockers, Wake(l) \/ Commit(l) \/ End(l)
      PROVE  WalkOK'
  BY <1>5, ThreadFacts DEF WalkOK, NoRow
<1>11. FirstObj \in Members(ddObjs) \/ FirstObj = NoObj
  <2>1. CASE Members(ddObjs) = {}
    BY <2>1 DEF FirstObj
  <2>2. CASE Members(ddObjs) # {}
    <3>1. PICK p : p \in Members(ddObjs)
      BY <2>2
    <3>2. IsList(ddObjs, Objs)
      BY DEF TypeOK
    <3> QED BY <3>1, <3>2, WalkOrder
  <2> QED BY <2>1, <2>2
<1>6. CASE Start
  <2>1. FirstObj \in Members(ddObjs) \/ FirstObj = NoObj
    BY <1>11
  <2> QED BY <1>6, <2>1 DEF Start, WalkOK, lockVars
<1>7. CASE Scan
  <2>1. FirstObj \in Members(ddObjs) \/ FirstObj = NoObj
    BY <1>11
  <2>2. ~stale => NextOf(at) \in Members(ddObjs) \/ NextOf(at) = NoObj
    BY <1>7, WalkOrder DEF Scan, WalkOK, TypeOK
  <2>3. /\ pc = "build" /\ pc' = pc /\ stale' = FALSE /\ ddObjs' = ddObjs
        /\ at' = IF stale THEN FirstObj ELSE NextOf(at)
    BY <1>7 DEF Scan, lockVars
  <2> QED BY <2>1, <2>2, <2>3 DEF WalkOK
<1>8. CASE Choose
  BY <1>8 DEF Choose, WalkOK
<1>9. CASE Kill
  BY <1>9 DEF Kill, WalkOK
<1>10. CASE Finish
  BY <1>10 DEF Finish, WalkOK, NoRow
<1> QED
  <2>1. CASE Next
    BY <2>1, <1>2, <1>3, <1>4, <1>5, <1>6, <1>7, <1>8, <1>9, <1>10, NextCases, Zenon
  <2> QED BY <1>1, <2>1

\* The types, the queues and the walk over dd_objs stay in order.
THEOREM WalkCorrect == Spec => [](TypeOK /\ QueuesOK /\ WalkOK)
<1>1. Init => TypeOK /\ QueuesOK /\ WalkOK
  BY TypeInit DEF Init, WalkOK
<1>2. TypeOK /\ QueuesOK /\ WalkOK /\ [Next]_vars => (TypeOK /\ QueuesOK /\ WalkOK)'
  BY TypeStep, WalkStep
<1> QED BY <1>1, <1>2, PTL DEF Spec

\* TypeOK: the variables have their types, and a locker waits if and only if it
\* is queued, for the object it asked for last and for no other.
THEOREM TypeCorrect == Spec => []TypeOK
BY WalkCorrect, PTL

\* DdObjsExact: dd_objs lists the objects with waiters, each once, and what the
\* walk has come to is one of them unless its generation changed.
THEOREM ListOfWaitedFor == Spec => []DdObjsExact
<1>1. TypeOK /\ QueuesOK /\ WalkOK => DdObjsExact
  BY DEF QueuesOK, IsQueue, WalkOK, DdObjsExact
<1> QED BY <1>1, WalkCorrect, PTL

-----------------------------------------------------------------------------
(* The lock table.                                                         *)

\* On every object the locks are compatible, and the first waiter is kept out.
LocksOK ==
    \A o \in Objs : /\ Granting(held[o], queue[o], want)
                    /\ HeadBlocked(held[o], queue[o], want)

\* What lockers want who are not on the queue does not matter.
LEMMA SameWants ==
    ASSUME NEW q, NEW hs, NEW w, NEW x, \A k \in Members(q) : x[k] = w[k],
           Members(q) \subseteq Lockers
    PROVE  /\ Granting(hs, q, w) => Granting(hs, q, x)
           /\ HeadBlocked(hs, q, w) => HeadBlocked(hs, q, x)
BY DEF Granting, HeadBlocked, KeptOut

\* A lock that is released, or a waiter that goes away, stands in nobody's way.
LEMMA ReleaseGranting ==
    ASSUME NEW q, NEW hs \in LockSets, NEW w, NEW l \in Lockers, l \notin Members(q),
           Members(q) \subseteq Lockers, Granting(hs, q, w)
    PROVE  Granting([hs EXCEPT ![l] = "N"], q, w)
<1>1. PICK rs \in LockSets : rs = [hs EXCEPT ![l] = "N"]
  BY DEF LockSets
<1>2. rs[l] = "N" /\ \A k \in Lockers : k # l => rs[k] = hs[k]
  BY <1>1 DEF LockSets
<1>3. Granting(rs, q, w)
  BY <1>2 DEF Granting, ModesConflict
<1> QED BY <1>1, <1>3

LEMMA LeaveGranting ==
    ASSUME NEW q, IsList(q, Lockers), IsQueue(q), NEW hs, NEW w, NEW l,
           Granting(hs, q, w)
    PROVE  Granting(hs, RemoveAll(q, {l}), w)
<1>1. Members(RemoveAll(q, {l})) = Members(q) \ {l}
  BY LockersFinite, RemoveAllType
<1>2. \A k \in Members(q) \ {l} : AheadOf(RemoveAll(q, {l}), k) = AheadOf(q, k) \ {l}
  BY RemoveAhead
<1> QED BY <1>1, <1>2 DEF Granting

\* A lock that is granted, and a waiter that joins the queue, fit in.
LEMMA GetGranting ==
    ASSUME NEW q, NEW hs \in LockSets, NEW w \in LockSets, NEW l \in Lockers,
           NEW m \in {"R", "W"}, l \notin Members(q), Members(q) \subseteq Lockers,
           ~KeptOut(hs, l, m), NEW rs \in LockSets, rs[l] = And(hs[l], m),
           \A k \in Lockers : k # l => rs[k] = hs[k],
           Granting(hs, q, w), HeadBlocked(hs, q, w)
    PROVE  Granting(rs, q, w) /\ HeadBlocked(rs, q, w)
<1>1. /\ And(hs[l], m) = "W" => hs[l] = "W" \/ m = "W"
      /\ And(hs[l], m) \in {"R", "W"}
      /\ hs[l] = "W" => And(hs[l], m) = "W"
  BY DEF And, LockSets
<1>2. \A h \in Lockers : h # l => ~ModesConflict(hs[h], m)
  BY DEF KeptOut
<1>3. \A h \in Lockers : h # l => ~ModesConflict(rs[l], rs[h]) /\ ~ModesConflict(rs[h], rs[l])
  <2> TAKE h \in Lockers
  <2> HAVE h # l
  <2>1. ~ModesConflict(hs[l], hs[h]) /\ ~ModesConflict(hs[h], m) /\ rs[h] = hs[h]
    BY <1>2 DEF Granting
  <2>2. hs[l] \in {"N", "R", "W"} /\ hs[h] \in {"N", "R", "W"}
    BY DEF LockSets
  <2> QED BY <1>1, <2>1, <2>2 DEF ModesConflict
<1>4. Granting(rs, q, w)
  BY <1>3 DEF Granting
<1>5. \A h \in Lockers : \A x : ModesConflict(hs[h], x) => ModesConflict(rs[h], x)
  BY <1>1 DEF ModesConflict, LockSets
<1>6. HeadBlocked(rs, q, w)
  BY <1>5 DEF HeadBlocked, KeptOut
<1> QED BY <1>4, <1>6

LEMMA SleepGranting ==
    ASSUME NEW q, IsList(q, Lockers), IsQueue(q), NEW hs \in LockSets,
           NEW w, NEW x, NEW l \in Lockers, NEW m \in {"R", "W"}, l \notin Members(q),
           x[l] = m, \A k \in Members(q) : x[k] = w[k],
           NEW r, (r = InsertHead(q, l) /\ hs[l] # "N") \/ r = InsertTail(q, l),
           hs[l] # "N" \/ Members(q) = {} => KeptOut(hs, l, m),
           Granting(hs, q, w), HeadBlocked(hs, q, w)
    PROVE  Granting(hs, r, x) /\ HeadBlocked(hs, r, x)
<1>1. Members(q) \subseteq Lockers
  BY DEF IsList
<1>2. Members(r) = Members(q) \cup {l}
  BY LockersFinite, InsertHeadType, InsertTailType
<1>3. Granting(hs, q, x) /\ HeadBlocked(hs, q, x)
  BY <1>1, SameWants
<1>4. hs[l] # "N" => hs[l] = "R" /\ m = "W"
  <2> SUFFICES ASSUME hs[l] # "N" PROVE hs[l] = "R" /\ m = "W"
    OBVIOUS
  <2>1. PICK h \in Lockers \ {l} : ModesConflict(hs[h], m)
    BY DEF KeptOut
  <2>2. ~ModesConflict(hs[h], hs[l])
    BY DEF Granting
  <2>3. hs[h] \in {"N", "R", "W"} /\ hs[l] \in {"N", "R", "W"}
    BY DEF LockSets
  <2> QED BY <2>1, <2>2, <2>3 DEF ModesConflict
<1>5. Granting(hs, r, x)
  BY <1>2, <1>3, <1>4 DEF Granting
<1>6. CASE r = InsertHead(q, l) /\ hs[l] # "N"
  <2>1. /\ AheadOf(r, l) = {}
        /\ \A k \in Members(q) : AheadOf(r, k) = AheadOf(q, k) \cup {l}
    BY <1>6, InsertAhead
  <2>2. HeadBlocked(hs, r, x)
    BY <1>2, <1>6, <2>1 DEF HeadBlocked
  <2> QED BY <1>5, <2>2
<1>7. CASE r = InsertTail(q, l)
  <2>1. /\ AheadOf(r, l) = Members(q)
        /\ \A k \in Members(q) : AheadOf(r, k) = AheadOf(q, k)
    BY <1>7, InsertAhead
  <2>2. HeadBlocked(hs, r, x)
    BY <1>2, <1>3, <2>1 DEF HeadBlocked
  <2> QED BY <1>5, <2>2
<1> QED BY <1>6, <1>7

\* The objects that a step leaves alone.
LEMMA Elsewhere ==
    ASSUME TypeOK, LocksOK, NEW p \in Objs, held'[p] = held[p], queue'[p] = queue[p],
           \A k \in Lockers : st[k] = "wait" /\ last[k] = p => want'[k] = want[k]
    PROVE  Granting(held'[p], queue'[p], want') /\ HeadBlocked(held'[p], queue'[p], want')
<1>1. Members(queue[p]) \subseteq Lockers
  BY DEF TypeOK, IsListArray, IsList
<1>2. \A k \in Members(queue[p]) : want'[k] = want[k]
  BY <1>1 DEF TypeOK
<1>3. Granting(held[p], queue[p], want) /\ HeadBlocked(held[p], queue[p], want)
  BY DEF LocksOK
<1> QED BY <1>1, <1>2, <1>3, SameWants

\* After a promotion with locks hs and queue q.
LEMMA PromotedOK ==
    ASSUME NEW q, IsList(q, Lockers), IsQueue(q), NEW hs \in LockSets,
           want \in LockSets, Granting(hs, q, want),
           NEW rs, rs = LetIn(hs, Promotable(hs, q)),
           NEW r, r = RemoveAll(q, Promotable(hs, q)),
           NEW x, \A k \in Members(q) \ Promotable(hs, q) : x[k] = want[k]
    PROVE  Granting(rs, r, x) /\ HeadBlocked(rs, r, x)
<1>1. Granting(rs, r, want) /\ HeadBlocked(rs, r, want)
  BY PromoteGranting
<1>2. Members(r) = Members(q) \ Promotable(hs, q)
  BY LockersFinite, RemoveAllType
<1>3. Members(q) \subseteq Lockers
  BY DEF IsList
<1> QED BY <1>1, <1>2, <1>3, SameWants

\* Queues and locks as the lemmas about them want them.
LEMMA ObjectType ==
    ASSUME TypeOK, QueuesOK, NEW o \in Objs
    PROVE  /\ IsList(queue[o], Lockers) /\ IsQueue(queue[o])
           /\ Members(queue[o]) \subseteq Lockers
           /\ held[o] \in LockSets /\ want \in LockSets
           /\ \A k \in Lockers : k \in Members(queue[o]) <=> st[k] = "wait" /\ last[k] = o
<1>1. IsList(queue[o], Lockers) /\ IsQueue(queue[o])
  BY DEF TypeOK, QueuesOK, IsListArray
<1>2. held[o] \in LockSets /\ want \in LockSets
  BY DEF TypeOK, LockSets
<1> QED BY <1>1, <1>2 DEF TypeOK, IsList

LEMMA LocksStep ==
    ASSUME TypeOK, QueuesOK, LocksOK, [Next]_vars
    PROVE  LocksOK'
<1>1. CASE UNCHANGED vars
  BY <1>1 DEF vars, lockVars, LocksOK, Granting, HeadBlocked, KeptOut
<1>2. ASSUME NEW l \in Lockers, NEW o \in Objs, NEW m \in {"R", "W"}, Get(l, o, m)
      PROVE  LocksOK'
  <2>1. /\ l \notin Members(queue[o]) /\ ~KeptOut(held[o], l, m)
        /\ held'[o] \in LockSets /\ held'[o][l] = And(held[o][l], m)
        /\ \A k \in Lockers : k # l => held'[o][k] = held[o][k]
        /\ \A p \in Objs : p # o => held'[p] = held[p]
        /\ queue' = queue /\ want' = want
    BY <1>2, GetFacts
  <2>2. Granting(held[o], queue[o], want) /\ HeadBlocked(held[o], queue[o], want)
    BY DEF LocksOK
  <2>3. Granting(held'[o], queue[o], want) /\ HeadBlocked(held'[o], queue[o], want)
    BY <2>1, <2>2, ObjectType, GetGranting
  <2>4. \A p \in Objs : p # o =>
          Granting(held'[p], queue'[p], want') /\ HeadBlocked(held'[p], queue'[p], want')
    BY <2>1, Elsewhere
  <2> QED BY <2>1, <2>3, <2>4, Zenon DEF LocksOK
<1>3. ASSUME NEW l \in Lockers, NEW o \in Objs, NEW m \in {"R", "W"}, Sleep(l, o, m)
      PROVE  LocksOK'
  <2>1. /\ l \notin Members(queue[o]) /\ ~Granted(l, o, m) /\ st[l] = "run"
        /\ \/ queue'[o] = InsertHead(queue[o], l) /\ held[o][l] # "N"
           \/ queue'[o] = InsertTail(queue[o], l)
        /\ \A p \in Objs : p # o => queue'[p] = queue[p]
        /\ want'[l] = m /\ \A k \in Lockers : k # l => want'[k] = want[k]
        /\ held' = held
    BY <1>3, SleepFacts
  <2>2. Granting(held[o], queue[o], want) /\ HeadBlocked(held[o], queue[o], want)
    BY DEF LocksOK
  <2>3. held[o][l] # "N" \/ Members(queue[o]) = {} => KeptOut(held[o], l, m)
    <3>1. ~KeptOut(held[o], l, m) /\ held[o][l] # "N" => IHold(l, o, m)
      BY DEF IHold, Holds, KeptOut
    <3> QED BY <2>1, <3>1 DEF Granted, WaiterConflict
  <2>4. \A k \in Members(queue[o]) : want'[k] = want[k]
    BY <2>1, ObjectType
  <2>5. PICK x : x = want'
    OBVIOUS
  <2>6. PICK r : r = queue'[o]
    OBVIOUS
  <2>7. Granting(held[o], r, x) /\ HeadBlocked(held[o], r, x)
    BY <2>1, <2>2, <2>3, <2>4, <2>5, <2>6, ObjectType, SleepGranting
  <2>8. \A p \in Objs : p # o =>
          Granting(held'[p], queue'[p], want') /\ HeadBlocked(held'[p], queue'[p], want')
    BY <2>1, Elsewhere
  <2> QED BY <2>1, <2>5, <2>6, <2>7, <2>8, Zenon DEF LocksOK
<1>4. ASSUME NEW l \in Lockers, NEW o \in Objs, Release(l, o)
      PROVE  LocksOK'
  <2>1. PICK hs \in LockSets, P \in SUBSET Members(queue[o]) : Releases(l, o, hs, P)
    BY <1>4, ReleaseFacts
  <2>2. Granting(held[o], queue[o], want)
    BY DEF LocksOK
  <2>3. l \notin Members(queue[o])
    BY <2>1, ObjectType DEF Releases
  <2>4. Granting(hs, queue[o], want)
    <3>1. Granting([held[o] EXCEPT ![l] = "N"], queue[o], want)
      BY <2>2, <2>3, ObjectType, ReleaseGranting
    <3> QED BY <2>1, <3>1 DEF Releases
  <2>5. \A k \in Members(queue[o]) \ P : want'[k] = want[k]
    BY <2>1, ObjectType DEF Releases
  <2>6. P = Promotable(hs, queue[o]) /\ held'[o] = LetIn(hs, P) /\ queue'[o] = RemoveAll(queue[o], P)
    BY <2>1 DEF Releases
  <2>7. Granting(held'[o], queue'[o], want') /\ HeadBlocked(held'[o], queue'[o], want')
    <3>1. PICK x, rs, r : x = want' /\ rs = held'[o] /\ r = queue'[o]
      OBVIOUS
    <3> QED BY <2>4, <2>5, <2>6, <3>1, ObjectType, PromotedOK
  <2>8. \A p \in Objs : p # o =>
          Granting(held'[p], queue'[p], want') /\ HeadBlocked(held'[p], queue'[p], want')
    BY <2>1, Elsewhere DEF Releases
  <2> QED BY <2>7, <2>8, Zenon DEF LocksOK
<1>5. ASSUME NEW l \in Lockers, Wake(l) \/ Commit(l) \/ End(l)
      PROVE  LocksOK'
  <2>1. held' = held /\ queue' = queue /\ want' = want
    BY <1>5, ThreadFacts
  <2> QED BY <2>1, Elsewhere DEF LocksOK
<1>6. CASE Start \/ Scan \/ Choose \/ Finish
  <2>1. held' = held /\ queue' = queue /\ want' = want
    BY <1>6 DEF Start, Scan, Choose, Finish, lockVars
  <2> QED BY <2>1, Elsewhere DEF LocksOK
<1>7. CASE Kill
  <2>1. CASE held' = held /\ queue' = queue /\ want' = want
    BY <2>1, Elsewhere DEF LocksOK
  <2>2. ASSUME NEW l \in Lockers, NEW o \in Objs, NEW q, NEW P,
               P \subseteq Members(queue[o]) \ {l}, Aborts(l, o, q, P)
        PROVE  LocksOK'
    <3>1. IsList(queue[o], Lockers) /\ IsQueue(queue[o]) /\ held[o] \in LockSets /\ want \in LockSets
      BY ObjectType
    <3>2. q = RemoveAll(queue[o], {l}) /\ P = Promotable(held[o], q)
      BY <2>2 DEF Aborts
    <3>3. Granting(held[o], q, want)
      BY <3>1, <3>2, LeaveGranting DEF LocksOK
    <3>4. IsList(q, Lockers) /\ IsQueue(q) /\ Members(q) = Members(queue[o]) \ {l}
      BY <3>1, <3>2, LockersFinite, RemoveAllType, RemoveAllQueue
    <3>5. \A k \in Members(q) \ P : want'[k] = want[k]
      BY <2>2, <3>1, <3>4 DEF IsList, Aborts
    <3>6. held'[o] = LetIn(held[o], P) /\ queue'[o] = RemoveAll(q, P)
      BY <2>2 DEF Aborts
    <3>7. Granting(held'[o], queue'[o], want') /\ HeadBlocked(held'[o], queue'[o], want')
      <4>1. PICK x, rs, r : x = want' /\ rs = held'[o] /\ r = queue'[o]
        OBVIOUS
      <4> QED BY <3>1, <3>2, <3>3, <3>4, <3>5, <3>6, <4>1, PromotedOK
    <3>8. \A p \in Objs : p # o =>
            /\ held'[p] = held[p] /\ queue'[p] = queue[p]
            /\ \A k \in Lockers : st[k] = "wait" /\ last[k] = p => want'[k] = want[k]
      BY <2>2 DEF Aborts
    <3>9. \A p \in Objs : p # o =>
            Granting(held'[p], queue'[p], want') /\ HeadBlocked(held'[p], queue'[p], want')
      BY <3>8, Elsewhere
    <3> QED BY <3>7, <3>9, Zenon DEF LocksOK
  <2> QED BY <1>7, <2>1, <2>2, KillFacts, Zenon
<1> QED
  <2>1. CASE Next
    BY <2>1, <1>2, <1>3, <1>4, <1>5, <1>6, <1>7, NextCases, Zenon
  <2> QED BY <1>1, <2>1

-----------------------------------------------------------------------------
(* The matrix while it is built.                                           *)

\* Who gets in after a release had nobody's lock in front of it, unless it was
\* first and the lock its own.
LEMMA PromoteFrees ==
    ASSUME NEW q, IsList(q, Lockers), IsQueue(q), NEW hd \in LockSets, NEW hs \in LockSets,
           want \in LockSets, \A k \in Members(q) : want[k] # "N",
           Granting(hd, q, want), HeadBlocked(hd, q, want),
           NEW l0 \in Lockers, l0 \notin Members(q), hs[l0] = "N",
           \A k \in Lockers : k # l0 => hs[k] = hd[k],
           NEW l \in Promotable(hs, q), NEW h \in Lockers, hs[h] # "N"
    PROVE  h = l /\ AheadOf(q, l) = {}
<1>1. /\ Members(q) \subseteq Lockers /\ l \in Members(q)
      /\ AheadOf(q, l) \subseteq Promotable(hs, q)
      /\ Promotable(hs, q) \subseteq Members(q)
      /\ ~KeptOut(LetIn(hs, AheadOf(q, l)), l, want[l])
  BY PromotablePrefix DEF IsList
<1>2. PICK f \in Members(q) : AheadOf(q, f) = {}
  BY <1>1, FirstAhead
<1>3. f = l \/ f \in AheadOf(q, l)
  BY <1>1, <1>2, AheadOrder
<1>4. PICK g \in Lockers \ {f} : ModesConflict(hd[g], want[f])
  BY <1>2 DEF HeadBlocked, KeptOut
<1>5. ~KeptOut(LetIn(hs, {}), f, want[f])
  <2>1. f \in Promotable(hs, q)
    BY <1>1, <1>3
  <2> QED BY <1>2, <2>1, PromotablePrefix
<1>6. LetIn(hs, {}) = hs
  BY DEF LetIn, LockSets
<1>7. \A k \in Lockers : /\ hs[k] \in {"N", "R", "W"} /\ hd[k] \in {"N", "R", "W"}
                         /\ want[k] \in {"N", "R", "W"}
  BY DEF LockSets
<1>8. \A k \in Lockers : ModesConflict(hd[g], hd[k]) => g = k
  BY DEF Granting
<1>9. ASSUME NEW k \in Lockers, hs[k] # "N", k # l
      PROVE  FALSE
  <2>1. PICK r : r = LetIn(hs, AheadOf(q, l))
    OBVIOUS
  <2>2. /\ r[k] \in {"R", "W"} /\ (hs[k] = "W" => r[k] = "W")
        /\ k \in AheadOf(q, l) /\ want[k] = "W" => r[k] = "W"
    <3>1. r[k] = IF k \in AheadOf(q, l) THEN And(hs[k], want[k]) ELSE hs[k]
      BY <2>1 DEF LetIn
    <3>2. k \in AheadOf(q, l) => want[k] # "N"
      BY <1>1
    <3> QED BY <1>7, <1>9, <3>1, <3>2 DEF And
  <2>3. ~ModesConflict(r[k], want[l])
    BY <1>1, <1>9, <2>1 DEF KeptOut
  <2>4. want[l] = "R" /\ r[k] = "R" /\ hs[k] = "R" /\ hd[k] = "R"
    <3>1. l \in Lockers /\ want[l] \in {"R", "W"}
      BY <1>1, <1>7
    <3> QED BY <1>7, <1>9, <2>2, <2>3, <3>1 DEF ModesConflict
  <2>5. CASE want[f] = "R"
    <3>1. hd[g] = "W"
      BY <1>4, <1>7, <2>5 DEF ModesConflict
    <3> QED BY <1>8, <2>4, <3>1 DEF ModesConflict
  <2>6. CASE want[f] = "W"
    <3>1. f \in AheadOf(q, l)
      BY <1>3, <2>4, <2>6
    <3>2. k # f => ~ModesConflict(hs[k], want[f])
      BY <1>5, <1>6 DEF KeptOut
    <3>3. k = f
      BY <2>4, <2>6, <3>2 DEF ModesConflict
    <3> QED BY <2>2, <2>4, <2>6, <3>1, <3>3
  <2>7. want[f] \in {"R", "W"}
    BY <1>1, <1>7
  <2> QED BY <2>5, <2>6, <2>7
<1>10. h = l
  BY <1>9
<1>11. hd[h] # "N"
  BY <1>7
<1>12. f = l
  <2> SUFFICES ASSUME f # l PROVE FALSE
    OBVIOUS
  <2>1. hd[l] = "R" /\ hs[l] = "R"
    <3>1. l # l0 /\ hd[l] # "N"
      BY <1>1, <1>10, <1>11
    <3>2. hs[l] = hd[l]
      BY <1>1, <3>1
    <3> QED BY <1>1, <3>1, <3>2 DEF Granting
  <2>2. ~ModesConflict(hs[l], want[f])
    BY <1>1, <1>5, <1>6 DEF KeptOut
  <2>3. want[f] = "R"
    <3>1. want[f] \in {"R", "W"}
      BY <1>1, <1>7
    <3> QED BY <2>1, <2>2, <3>1 DEF ModesConflict
  <2>4. hd[g] = "W"
    BY <1>4, <1>7, <2>3 DEF ModesConflict
  <2>5. g = l
    BY <1>1, <1>8, <2>1, <2>4 DEF ModesConflict
  <2> QED BY <2>1, <2>4, <2>5
<1> QED BY <1>2, <1>10, <1>12

\* An edge to a locker that is not about to release its locks is there for a
\* lock of that locker, and none to itself if it is first on the queue; lockers
\* that are about to release their locks are on no cycle of their own.
Edge(l, h) ==
    /\ st[l] = "wait"
    /\ held[last[l]][h] # "N"
    /\ h = l => AheadOf(queue[last[l]], l) # {}

Edges ==
    pc = "build" =>
        \A l, h \in Lockers : h \in matrix[l] /\ ~Over(h) => Edge(l, h)

Ended ==
    pc = "build" =>
        \A C \in SUBSET Lockers : C # {} /\ (\A h \in C : Over(h)) =>
            \E l \in C : matrix[l] \cap C = {}

\* What the walk adds to a row.
LEMMA ScanRow ==
    ASSUME TypeOK, QueuesOK, NEW o \in Objs, NEW l \in Lockers
    PROVE  /\ l \notin Members(queue[o]) => RowAfter(o, l) = matrix[l]
           /\ l \in Members(queue[o]) =>
                /\ st[l] = "wait" /\ last[l] = o
                /\ \A h \in Lockers :
                     h \in RowAfter(o, l) <=>
                       /\ h \in matrix[l] \/ h \in Holders(o)
                       /\ h = l => AheadOf(queue[o], l) # {}
           /\ \A h \in Lockers : h \in Holders(o) => held[o][h] # "N"
<1>1. \A h \in Lockers : h \in Holders(o) => held[o][h] # "N"
  BY DEF Holders, Holds
<1>2. IsFirst(l, o) <=> l \in Members(queue[o]) /\ AheadOf(queue[o], l) = {}
  BY ObjectType, FirstAhead DEF IsFirst
<1>3. l \in Members(queue[o]) => st[l] = "wait" /\ last[l] = o
  BY ObjectType
<1> QED BY <1>1, <1>2, <1>3 DEF RowAfter

LEMMA EdgesStep ==
    ASSUME TypeOK, QueuesOK, WalkOK, LocksOK, Edges, [Next]_vars
    PROVE  Edges'
<1>0. TypeOK' /\ QueuesOK'
  BY TypeStep
<1>1. CASE UNCHANGED vars
  BY <1>1 DEF vars, lockVars, ddVars, Edges, Edge, Over, AheadOf
<1>2. ASSUME NEW l0 \in Lockers, NEW o \in Objs, NEW m \in {"R", "W"}, Get(l0, o, m)
      PROVE  Edges'
  <2>1. /\ st[l0] = "run" /\ held'[o][l0] = And(held[o][l0], m)
        /\ \A k \in Lockers : k # l0 => held'[o][k] = held[o][k] /\ last'[k] = last[k]
        /\ \A p \in Objs : p # o => held'[p] = held[p]
        /\ UNCHANGED <<queue, st, pc, matrix>>
    BY <1>2, GetFacts
  <2>2. \A p \in Objs, k \in Lockers : held[p][k] # "N" => held'[p][k] # "N"
    BY <2>1 DEF And
  <2> SUFFICES ASSUME pc = "build", NEW l \in Lockers, NEW h \in Lockers, h \in matrix[l], ~Over(h)
               PROVE  Edge(l, h)'
    BY <2>1 DEF Edges, Over
  <2>3. Edge(l, h)
    BY DEF Edges
  <2>4. last'[l] = last[l] /\ last[l] \in Objs
    BY <2>1, <2>3 DEF Edge, QueuesOK
  <2> QED BY <2>1, <2>2, <2>3, <2>4 DEF Edge
<1>3. ASSUME NEW l0 \in Lockers, NEW o \in Objs, NEW m \in {"R", "W"}, Sleep(l0, o, m)
      PROVE  Edges'
  <2>1. /\ st[l0] = "run" /\ st'[l0] = "wait" /\ l0 \notin Members(queue[o])
        /\ \A k \in Lockers : k # l0 => st'[k] = st[k] /\ last'[k] = last[k]
        /\ \/ queue'[o] = InsertHead(queue[o], l0) /\ held[o][l0] # "N"
           \/ queue'[o] = InsertTail(queue[o], l0)
        /\ \A p \in Objs : p # o => queue'[p] = queue[p]
        /\ UNCHANGED <<held, pc, matrix>>
    BY <1>3, SleepFacts
  <2>2. \A k \in Members(queue[o]) : AheadOf(queue[o], k) \subseteq AheadOf(queue'[o], k)
    BY <2>1, ObjectType, InsertAhead
  <2> SUFFICES ASSUME pc = "build", NEW l \in Lockers, NEW h \in Lockers, h \in matrix[l], ~Over(h)'
               PROVE  Edge(l, h)'
    BY <2>1 DEF Edges
  <2>3. ~Over(h)
    BY <2>1 DEF Over
  <2>4. Edge(l, h)
    BY <2>3 DEF Edges
  <2>5. l # l0 /\ last'[l] = last[l] /\ last[l] \in Objs /\ l \in Members(queue[last[l]])
    BY <2>1, <2>4 DEF Edge, QueuesOK, TypeOK
  <2> QED BY <2>1, <2>2, <2>4, <2>5 DEF Edge
<1>4. ASSUME NEW l0 \in Lockers, NEW o \in Objs, Release(l0, o)
      PROVE  Edges'
  <2>1. PICK hs \in LockSets, P \in SUBSET Members(queue[o]) : Releases(l0, o, hs, P)
    BY <1>4, ReleaseFacts
  <2>2. /\ IsList(queue[o], Lockers) /\ IsQueue(queue[o])
        /\ Members(queue[o]) \subseteq Lockers
        /\ held[o] \in LockSets /\ want \in LockSets
        /\ \A k \in Lockers : k \in Members(queue[o]) <=> st[k] = "wait" /\ last[k] = o
    BY ObjectType
  <2>3. /\ P = Promotable(hs, queue[o])
        /\ hs[l0] = "N" /\ \A k \in Lockers : k # l0 => hs[k] = held[o][k]
        /\ held'[o] = LetIn(hs, P) /\ \A p \in Objs : p # o => held'[p] = held[p]
        /\ queue'[o] = RemoveAll(queue[o], P)
        /\ \A p \in Objs : p # o => queue'[p] = queue[p]
        /\ \A k \in Lockers \ P : st'[k] = st[k]
        /\ \A k \in P : st'[k] \in {"granted", "run"} /\ st[k] = "wait" /\ last[k] = o
        /\ st[l0] \in {"ending", "aborted"}
        /\ UNCHANGED <<last, pc, matrix>>
    BY <2>1 DEF Releases
  <2>4. \A k \in Members(queue[o]) : want[k] # "N"
    BY <2>2 DEF TypeOK
  <2>5. Granting(held[o], queue[o], want) /\ HeadBlocked(held[o], queue[o], want)
    BY DEF LocksOK
  <2>6. \A l \in P, h \in Lockers : hs[h] # "N" => h = l /\ AheadOf(queue[o], l) = {}
    <3>1. l0 \notin Members(queue[o])
      BY <2>2, <2>3
    <3> QED BY <2>2, <2>3, <2>4, <2>5, <3>1, PromoteFrees
  <2>7. \A k \in Lockers : Over(k)' <=> Over(k)
    <3>1. \A k \in Lockers : k \in P => ~Over(k)' /\ ~Over(k)
      BY <2>3 DEF Over
    <3>2. \A k \in Lockers \ P : Over(k)' <=> Over(k)
      BY <2>3 DEF Over
    <3> QED BY <3>1, <3>2
  <2> SUFFICES ASSUME pc = "build", NEW l \in Lockers, NEW h \in Lockers, h \in matrix[l], ~Over(h)
               PROVE  Edge(l, h)'
    BY <2>3, <2>7 DEF Edges
  <2>8. Edge(l, h) /\ h # l0
    BY <2>3 DEF Edges, Over
  <2>9. last[l] \in Objs /\ l \in Members(queue[last[l]])
    BY <2>8 DEF Edge, QueuesOK, TypeOK
  <2>10. l \notin P
    <3>1. l \in P => last[l] = o /\ hs[h] # "N"
      BY <2>3, <2>8 DEF Edge
    <3> QED BY <2>6, <2>8, <3>1 DEF Edge
  <2>11. CASE last[l] # o
    BY <2>3, <2>8, <2>9, <2>10, <2>11 DEF Edge
  <2>12. CASE last[l] = o
    <3>1. hs[h] # "N"
      BY <2>3, <2>8, <2>12 DEF Edge
    <3>2. held'[o][h] # "N"
      <4>1. held'[o][h] = IF h \in P THEN And(hs[h], want[h]) ELSE hs[h]
        BY <2>3 DEF LetIn
      <4>2. h \in P => want[h] # "N"
        BY <2>4
      <4> QED BY <3>1, <4>1, <4>2 DEF And
    <3>3. h = l => AheadOf(queue'[o], l) # {}
      <4>1. AheadOf(queue'[o], l) = AheadOf(queue[o], l) \ P
        BY <2>2, <2>3, <2>9, <2>10, <2>12, RemoveAhead
      <4>2. h = l => \A k \in AheadOf(queue[o], l) : k \notin P
        BY <2>2, <2>6, <2>8, <2>9, <2>12, <3>1, AheadOrder
      <4> QED BY <2>8, <2>12, <4>1, <4>2 DEF Edge
    <3> QED BY <2>3, <2>8, <2>10, <2>12, <3>2, <3>3 DEF Edge
  <2> QED BY <2>11, <2>12
<1>5. ASSUME NEW l0 \in Lockers, Wake(l0) \/ Commit(l0) \/ End(l0)
      PROVE  Edges'
  <2>1. /\ UNCHANGED <<held, queue, pc, matrix>>
        /\ \A k \in Lockers : k # l0 => st'[k] = st[k] /\ last'[k] = last[k]
        /\ st[l0] # "wait"
        /\ \A k \in Lockers : ~Over(k)' => ~Over(k)
    BY <1>5, ThreadFacts
  <2> SUFFICES ASSUME pc = "build", NEW l \in Lockers, NEW h \in Lockers, h \in matrix[l], ~Over(h)'
               PROVE  Edge(l, h)'
    BY <2>1 DEF Edges
  <2>2. Edge(l, h)
    BY <2>1 DEF Edges
  <2> QED BY <2>1, <2>2 DEF Edge
<1>6. CASE Start
  BY <1>6 DEF Start, WalkOK, NoRow, Edges
<1>7. CASE Scan
  <2>1. /\ pc = "build" /\ at \in Objs /\ UNCHANGED <<held, queue, last, st>>
        /\ matrix' = IF stale THEN NoRow ELSE [k \in Lockers |-> RowAfter(at, k)]
    BY <1>7 DEF Scan, lockVars, TypeOK
  <2> SUFFICES ASSUME NEW l \in Lockers, NEW h \in Lockers, h \in matrix'[l], ~Over(h)
               PROVE  Edge(l, h)
    BY <2>1 DEF Edges, Edge, Over
  <2>2. h \in RowAfter(at, l)
    BY <2>1 DEF NoRow
  <2>3. h \in matrix[l] => Edge(l, h)
    BY <2>1 DEF Edges
  <2> QED BY <2>1, <2>2, <2>3, ScanRow DEF Edge
<1>8. CASE Choose \/ Kill \/ Finish
  BY <1>8 DEF Choose, Kill, Finish, Edges
<1> QED
  <2>1. CASE Next
    BY <2>1, <1>2, <1>3, <1>4, <1>5, <1>6, <1>7, <1>8, NextCases, Zenon
  <2> QED BY <1>1, <2>1

LEMMA EndedStep ==
    ASSUME TypeOK, QueuesOK, WalkOK, LocksOK, Edges, Ended, [Next]_vars
    PROVE  Ended'
<1>1. CASE /\ UNCHANGED <<pc, matrix>>
           /\ \A k \in Lockers : Over(k)' <=> Over(k)
  BY <1>1 DEF Ended
<1>2. ASSUME NEW l0 \in Lockers, NEW o \in Objs, NEW m \in {"R", "W"}, Get(l0, o, m)
      PROVE  Ended'
  BY <1>1, <1>2, GetFacts DEF Over
<1>3. ASSUME NEW l0 \in Lockers, NEW o \in Objs, NEW m \in {"R", "W"}, Sleep(l0, o, m)
      PROVE  Ended'
  BY <1>1, <1>3, SleepFacts DEF Over
<1>4. ASSUME NEW l0 \in Lockers, NEW o \in Objs, Release(l0, o)
      PROVE  Ended'
  <2>1. PICK hs \in LockSets, P \in SUBSET Members(queue[o]) : Releases(l0, o, hs, P)
    BY <1>4, ReleaseFacts
  <2>2. \A k \in Lockers : k \in P => ~Over(k)' /\ ~Over(k)
    BY <2>1 DEF Over, Releases
  <2>3. \A k \in Lockers \ P : Over(k)' <=> Over(k)
    BY <2>1 DEF Over, Releases
  <2>4. UNCHANGED <<pc, matrix>>
    BY <2>1 DEF Releases
  <2> QED BY <1>1, <2>2, <2>3, <2>4
<1>5. ASSUME NEW l0 \in Lockers, Wake(l0) \/ Commit(l0) \/ End(l0)
      PROVE  Ended'
  <2>1. /\ UNCHANGED <<pc, matrix>> /\ st[l0] # "wait"
        /\ \A k \in Lockers : k # l0 => (Over(k)' <=> Over(k))
        /\ Over(l0) => Over(l0)'
    BY <1>5, ThreadFacts
  <2>2. CASE Over(l0)' <=> Over(l0)
    BY <1>1, <2>1, <2>2
  <2>3. CASE ~Over(l0)
    <3> SUFFICES ASSUME pc = "build", NEW C \in SUBSET Lockers, C # {},
                        \A h \in C : Over(h)'
                 PROVE  \E l \in C : matrix[l] \cap C = {}
      BY <2>1 DEF Ended
    <3>1. \A h \in C \ {l0} : Over(h) /\ l0 \notin matrix[h]
      <4>1. \A h \in C \ {l0} : Over(h)
        BY <2>1
      <4>2. \A h \in Lockers : Over(h) => l0 \notin matrix[h]
        BY <2>3 DEF Edges, Edge, Over
      <4> QED BY <4>1, <4>2
    <3>2. CASE C \ {l0} = {}
      <4>1. C = {l0}
        BY <3>2
      <4>2. l0 \notin matrix[l0]
        BY <2>1, <2>3 DEF Edges, Edge
      <4> QED BY <4>1, <4>2
    <3>3. CASE C \ {l0} # {}
      <4>1. PICK l \in C \ {l0} : matrix[l] \cap (C \ {l0}) = {}
        BY <3>1, <3>3 DEF Ended
      <4> QED BY <3>1, <4>1
    <3> QED BY <3>2, <3>3
  <2> QED BY <2>1, <2>2, <2>3
<1>6. CASE Start
  <2>1. \A l \in Lockers : matrix'[l] = {}
    BY <1>6 DEF Start, WalkOK, NoRow
  <2> QED BY <2>1 DEF Ended
<1>7. CASE Scan
  <2>1. /\ pc = "build" /\ at \in Objs /\ UNCHANGED st
        /\ matrix' = IF stale THEN NoRow ELSE [k \in Lockers |-> RowAfter(at, k)]
    BY <1>7 DEF Scan, lockVars, TypeOK
  <2>2. \A l \in Lockers : Over(l) => matrix'[l] \subseteq matrix[l]
    <3>1. \A l \in Lockers : Over(l) => RowAfter(at, l) = matrix[l]
      BY <2>1, ScanRow DEF Over
    <3> QED BY <2>1, <3>1 DEF NoRow
  <2> SUFFICES ASSUME NEW C \in SUBSET Lockers, C # {}, \A h \in C : Over(h)
               PROVE  \E l \in C : matrix'[l] \cap C = {}
    BY <2>1 DEF Ended, Over
  <2>3. PICK l \in C : matrix[l] \cap C = {}
    BY <2>1 DEF Ended
  <2> QED BY <2>2, <2>3
<1>8. CASE Choose \/ Kill \/ Finish
  BY <1>8 DEF Choose, Kill, Finish, Ended
<1>9. CASE UNCHANGED vars
  BY <1>1, <1>9 DEF vars, lockVars, ddVars, Over
<1> QED
  <2>1. CASE Next
    BY <2>1, <1>2, <1>3, <1>4, <1>5, <1>6, <1>7, <1>8, NextCases, Zenon
  <2> QED BY <1>9, <2>1

\* All that the proofs below need of the lock table and of the walk.
BuildInv == TypeOK /\ QueuesOK /\ WalkOK /\ LocksOK /\ Edges /\ Ended

\* The lock table stays in order, and so does the matrix.
THEOREM BuildCorrect == Spec => []BuildInv
<1>1. Init => BuildInv
  <2> SUFFICES ASSUME Init PROVE BuildInv
    OBVIOUS
  <2>1. TypeOK /\ QueuesOK
    BY TypeInit
  <2>2. LocksOK
    <3>1. \A o \in Objs : Members(queue[o]) = {} /\ \A l \in Lockers : held[o][l] = "N"
      BY DEF Init, EmptyList, Members
    <3> QED BY <3>1 DEF LocksOK, Granting, HeadBlocked, ModesConflict
  <2>3. WalkOK /\ Edges /\ Ended
    BY DEF Init, WalkOK, Edges, Ended
  <2> QED BY <2>1, <2>2, <2>3 DEF BuildInv
<1>2. BuildInv /\ [Next]_vars => BuildInv'
  BY TypeStep, WalkStep, LocksStep, EdgesStep, EndedStep DEF BuildInv
<1> QED BY <1>1, <1>2, PTL DEF Spec

\* A set of lockers of whom each has an edge to another one of them, or to
\* itself, consists of waiters.
LEMMA KnotWaits ==
    ASSUME BuildInv, pc = "build", NEW C \in SUBSET Lockers,
           \A j \in C : matrix[j] \cap C # {}
    PROVE  \A j \in C : \E h \in C : Edge(j, h)
<1> DEFINE E == {h \in C : Over(h)}
<1>1. E = {}
  <2> SUFFICES ASSUME E # {} PROVE FALSE
    OBVIOUS
  <2>1. PICK l \in E : matrix[l] \cap E = {}
    BY DEF BuildInv, Ended
  <2>2. PICK h \in C : h \in matrix[l] /\ ~Over(h)
    BY <2>1
  <2>3. st[l] = "wait"
    BY <2>1, <2>2 DEF BuildInv, Edges, Edge
  <2> QED BY <2>1, <2>3 DEF Over
<1> QED BY <1>1 DEF BuildInv, Edges

\* Such a set is, with all that are queued ahead of its members, stuck.
LEMMA KnotStuck ==
    ASSUME BuildInv, NEW C \in SUBSET Lockers,
           \A j \in C : \E h \in C : Edge(j, h)
    PROVE  C \subseteq Deadlocked
<1> DEFINE D == C \cup UNION {AheadOf(queue[last[j]], j) : j \in C}
           W == {l \in Lockers : st[l] = "wait"}
<1>0. TypeOK /\ QueuesOK /\ LocksOK
  BY DEF BuildInv
<1>1. ASSUME NEW j \in C
      PROVE  /\ last[j] \in Objs /\ j \in Members(queue[last[j]]) /\ st[j] = "wait"
             /\ IsList(queue[last[j]], Lockers) /\ IsQueue(queue[last[j]])
             /\ \A k \in Members(queue[last[j]]) :
                  k \in Lockers /\ st[k] = "wait" /\ last[k] = last[j]
             /\ AheadOf(queue[last[j]], j) \subseteq Members(queue[last[j]])
  <2>1. st[j] = "wait" /\ last[j] \in Objs
    BY <1>0 DEF Edge, QueuesOK
  <2>2. j \in Members(queue[last[j]])
    BY <1>0, <2>1 DEF TypeOK
  <2>3. AheadOf(queue[last[j]], j) \subseteq Members(queue[last[j]])
    BY DEF AheadOf
  <2> QED BY <1>0, <2>1, <2>2, <2>3, ObjectType
<1>2. ASSUME NEW k \in D
      PROVE  /\ st[k] = "wait" /\ k \in Lockers /\ last[k] \in Objs
             /\ k \in Members(queue[last[k]])
             /\ AheadOf(queue[last[k]], k) \subseteq D
             /\ \E j \in C : last[j] = last[k] /\ (k \in C => j = k)
  <2>1. CASE k \in C
    BY <1>1, <2>1
  <2>2. CASE k \notin C
    <3>1. PICK j \in C : k \in AheadOf(queue[last[j]], j)
      BY <2>2
    <3>2. k \in Members(queue[last[j]]) /\ last[k] = last[j] /\ st[k] = "wait" /\ k \in Lockers
      BY <1>1, <3>1
    <3>3. AheadOf(queue[last[j]], k) \subseteq AheadOf(queue[last[j]], j)
      BY <1>1, <3>1, AheadOrder
    <3> QED BY <1>1, <2>2, <3>1, <3>2, <3>3
  <2> QED BY <2>1, <2>2
<1>3. ASSUME NEW k \in D, AheadOf(queue[last[k]], k) = {}
      PROVE  \E h \in D \ {k} : ModesConflict(held[last[k]][h], want[k])
  <2>1. PICK j \in C : last[j] = last[k] /\ (k \in C => j = k)
    BY <1>2
  <2>2. PICK h \in C : Edge(j, h)
    OBVIOUS
  <2>3. PICK o \in Objs : o = last[k]
    BY <1>2
  <2>4. held[o][h] # "N" /\ h # k
    BY <1>3, <2>1, <2>2, <2>3 DEF Edge
  <2>5. k \in Members(queue[o]) /\ k \in Lockers /\ want[k] # "N"
    BY <1>0, <1>2, <2>3 DEF TypeOK
  <2>6. PICK g \in Lockers \ {k} : ModesConflict(held[o][g], want[k])
    BY <1>0, <1>3, <2>3, <2>5 DEF LocksOK, HeadBlocked, KeptOut
  <2>7. g # h => ~ModesConflict(held[o][g], held[o][h])
    BY <1>0, <2>3 DEF LocksOK, Granting
  <2>8. held[o][h] \in {"R", "W"} /\ held[o][g] \in {"N", "R", "W"} /\ want[k] \in {"R", "W"}
    <3>1. held \in [Objs -> [Lockers -> {"N", "R", "W"}]] /\ want \in [Lockers -> {"N", "R", "W"}]
      BY <1>0 DEF TypeOK
    <3>2. h \in Lockers
      BY <1>1, <2>2
    <3> HIDE DEF D
    <3> QED BY <2>4, <2>5, <3>1, <3>2
  <2>9. ModesConflict(held[o][h], want[k])
    BY <2>6, <2>7, <2>8 DEF ModesConflict
  <2> QED BY <2>2, <2>3, <2>4, <2>9
<1>4. D \subseteq W
  BY <1>2
<1>5. Stuck(D)
  <2> HIDE DEF D
  <2> SUFFICES ASSUME NEW k \in D, AheadOf(queue[last[k]], k) \cap D = {}
               PROVE  \E h \in D \ {k} : ModesConflict(held[last[k]][h], want[k])
    BY DEF Stuck
  <2>1. AheadOf(queue[last[k]], k) = {}
    BY <1>2
  <2> QED BY <1>3, <2>1
<1>6. C \subseteq D
  OBVIOUS
<1> HIDE DEF D
<1> QED BY <1>4, <1>5, <1>6 DEF Deadlocked

\* Whoever the search finds is deadlocked.
LEMMA FoundDeadlocked ==
    ASSUME BuildInv, pc = "build", NEW i \in Find.found
    PROVE  i \in Lockers /\ i \in Find.rows[i] /\ Find.rows[i] \subseteq Lockers /\ i \in Deadlocked
<1>1. matrix \in [Lockers -> SUBSET Lockers]
  BY DEF BuildInv, TypeOK
<1>2. i \in Lockers /\ Find.rows[i] \subseteq Lockers
  BY <1>1, FindSound DEF FindTypes
<1>3. i \in Find.rows[i] /\ i \in Reach(i)
  BY <1>1, FindSound
<1>4. /\ i \in Knot(i) /\ Knot(i) \subseteq Lockers
      /\ \A j \in Knot(i) : matrix[j] \cap Knot(i) # {}
  BY <1>1, <1>2, <1>3, KnotClosed
<1>5. \A j \in Knot(i) : \E h \in Knot(i) : Edge(j, h)
  BY <1>4, KnotWaits
<1>6. Knot(i) \subseteq Deadlocked
  BY <1>4, <1>5, KnotStuck
<1> QED BY <1>2, <1>3, <1>4, <1>6

\* The victims are those of the deadlocks found.
LEMMA ChosenVictims ==
    ASSUME BuildInv, [Next]_vars, Chosen
    PROVE  /\ Choose
           /\ \A v \in victims' : \E i \in Find.found :
                /\ v.who \in Find.rows[i]
                /\ setting.kind = "default" /\ ~PrioritySet => v.who = i
           /\ \A i \in Find.found : \E v \in victims' : v.who \in Find.rows[i]
<1>0. TypeOK /\ QueuesOK
  BY DEF BuildInv
<1>1. Choose
  <2>1. ~UNCHANGED vars
    BY DEF Chosen, vars, ddVars
  <2>2. ASSUME NEW l \in Lockers, NEW o \in Objs, NEW m \in {"R", "W"}, Get(l, o, m)
        PROVE  FALSE
    BY <2>2 DEF Get, Chosen, ddVars
  <2>3. ASSUME NEW l \in Lockers, NEW o \in Objs, NEW m \in {"R", "W"}, Sleep(l, o, m)
        PROVE  FALSE
    BY <2>3 DEF Sleep, Chosen, ddVars
  <2>4. ASSUME NEW l \in Lockers, NEW o \in Objs, Release(l, o)
        PROVE  FALSE
    BY <2>4 DEF Release, Chosen, ddVars
  <2>5. ASSUME NEW l \in Lockers, Wake(l) \/ Commit(l) \/ End(l)
        PROVE  FALSE
    BY <2>5 DEF Wake, Commit, End, Chosen, ddVars
  <2>6. ~Start /\ ~Scan /\ ~Kill /\ ~Finish
    BY DEF Start, Scan, Kill, Finish, Chosen
  <2>7. Next
    BY <2>1
  <2> QED BY <2>2, <2>3, <2>4, <2>5, <2>6, <2>7, NextCases, Zenon
<1>2. victims' = {Victim(i, Find.rows[i]) : i \in Find.found}
  BY <1>1 DEF Choose
<1>3. ASSUME NEW i \in Find.found
      PROVE  /\ Victim(i, Find.rows[i]).who \in Find.rows[i]
             /\ setting.kind = "default" /\ ~PrioritySet => Victim(i, Find.rows[i]).who = i
  <2>1. i \in Lockers /\ i \in Find.rows[i] /\ Find.rows[i] \subseteq Lockers
    BY FoundDeadlocked DEF Chosen
  <2>2. setting \in Settings /\ last \in [Lockers -> Objs \cup {NoObj}]
    BY <1>0 DEF TypeOK
  <2>3. PICK d \in SUBSET Lockers : d = Find.rows[i]
    BY <2>1
  <2> QED BY <2>1, <2>2, <2>3, VictimInside
<1> HIDE DEF Chosen
<1>4. \A v \in victims' : \E i \in Find.found :
        /\ v.who \in Find.rows[i]
        /\ setting.kind = "default" /\ ~PrioritySet => v.who = i
  BY <1>2, <1>3
<1>5. \A i \in Find.found : \E v \in victims' : v.who \in Find.rows[i]
  BY <1>2, <1>3
<1> QED BY <1>1, <1>4, <1>5

\* VictimsDeadlocked: with the matrix put together object by object while the
\* others lock and unlock, nobody is chosen under the default policy who is not
\* deadlocked.
THEOREM OnlyDeadlocked == Spec => VictimsDeadlocked
<1>1. BuildInv /\ [Next]_vars =>
        [Chosen /\ setting.kind = "default" /\ ~PrioritySet =>
           \A v \in victims' : v.who \in Deadlocked]_vars
  <2> SUFFICES ASSUME BuildInv, [Next]_vars, Chosen, setting.kind = "default", ~PrioritySet,
                      NEW v \in victims'
               PROVE  v.who \in Deadlocked
    OBVIOUS
  <2>1. PICK i \in Find.found : v.who = i
    BY ChosenVictims
  <2> QED BY <2>1, FoundDeadlocked DEF Chosen
<1> QED BY <1>1, BuildCorrect, PTL DEF Spec, VictimsDeadlocked

-----------------------------------------------------------------------------
(* What the walk has seen.                                                 *)

\* The detector was at object o since it last began.
Passed(o) == o \in Members(ddObjs) /\ (at = NoObj \/ ddObjs[o] < ddObjs[at])

\* While there is no reason to run again, the row of a waiter is empty before
\* the walk comes to its object, and has all the edges to waiters afterwards.
RowsOK ==
    pc = "build" /\ ~needDD /\ ~stale =>
        \A l \in Lockers : st[l] = "wait" =>
            /\ Passed(last[l]) => \A h \in Lockers : st[h] = "wait" /\ Edge(l, h) => h \in matrix[l]
            /\ ~Passed(last[l]) => matrix[l] = {}

\* At the start of the walk it has seen nothing.
LEMMA NothingPassed ==
    ASSUME TypeOK, QueuesOK, NEW l \in Lockers, st[l] = "wait"
    PROVE  /\ last[l] \in Members(ddObjs)
           /\ FirstObj # NoObj
           /\ ~(ddObjs[last[l]] < ddObjs[FirstObj])
<1>1. last[l] \in Members(ddObjs)
  BY DEF QueuesOK, TypeOK
<1>2. IsList(ddObjs, Objs)
  BY DEF TypeOK
<1>3. FirstObj \in Members(ddObjs) /\ ddObjs[FirstObj] <= ddObjs[last[l]]
  BY <1>1, <1>2, WalkOrder
<1>4. FirstObj \in Objs /\ ddObjs[FirstObj] \in Nat /\ ddObjs[last[l]] \in Nat
  BY <1>1, <1>2, <1>3 DEF IsList
<1> QED BY <1>1, <1>3, <1>4, RowAssumption

\* One object further it has seen that one.
LEMMA OnePassed ==
    ASSUME TypeOK, QueuesOK, at \in Members(ddObjs), NEW p \in Members(ddObjs)
    PROVE  (NextOf(at) = NoObj \/ ddObjs[p] < ddObjs[NextOf(at)])
             <=> (ddObjs[p] < ddObjs[at] \/ p = at)
<1>1. IsList(ddObjs, Objs) /\ IsQueue(ddObjs)
  BY DEF TypeOK, QueuesOK
<1>2. \A i \in Members(ddObjs) : ddObjs[i] \in Nat /\ i \in Objs
  BY <1>1 DEF IsList
<1>3. ddObjs[p] = ddObjs[at] => p = at
  BY <1>1 DEF IsQueue
<1>4. \/ /\ NextOf(at) = NoObj
         /\ \A i \in Members(ddObjs) : ddObjs[i] <= ddObjs[at]
      \/ /\ NextOf(at) \in Members(ddObjs)
         /\ ddObjs[at] < ddObjs[NextOf(at)]
         /\ \A i \in Members(ddObjs) : ddObjs[i] < ddObjs[NextOf(at)] => ddObjs[i] <= ddObjs[at]
  BY <1>1, WalkOrder
<1> QED BY <1>2, <1>3, <1>4, RowAssumption

LEMMA RowsStep ==
    ASSUME BuildInv, RowsOK, [Next]_vars
    PROVE  RowsOK'
<1>0. /\ TypeOK /\ QueuesOK /\ WalkOK /\ LocksOK
      /\ TypeOK' /\ QueuesOK' /\ WalkOK'
  BY TypeStep, WalkStep DEF BuildInv
<1>1. CASE UNCHANGED vars
  BY <1>1 DEF vars, lockVars, ddVars, RowsOK, Passed, Edge, AheadOf
<1>2. ASSUME NEW l0 \in Lockers, NEW o \in Objs, NEW m \in {"R", "W"}, Get(l0, o, m)
      PROVE  RowsOK'
  <2>1. /\ st[l0] = "run"
        /\ \A k \in Lockers : k # l0 => held'[o][k] = held[o][k] /\ last'[k] = last[k]
        /\ \A p \in Objs : p # o => held'[p] = held[p]
        /\ UNCHANGED <<queue, st, ddObjs, needDD, stale, pc, at, matrix>>
    BY <1>0, <1>2, GetFacts
  <2> SUFFICES ASSUME pc = "build", ~needDD, ~stale, NEW l \in Lockers, st[l] = "wait"
               PROVE  /\ Passed(last[l]) => \A h \in Lockers : st[h] = "wait" /\ Edge(l, h)' => h \in matrix[l]
                      /\ ~Passed(last[l]) => matrix[l] = {}
    BY <2>1 DEF RowsOK, Passed
  <2>2. last'[l] = last[l] /\ last[l] \in Objs
    BY <1>0, <2>1 DEF QueuesOK
  <2>3. \A h \in Lockers : st[h] = "wait" => held'[last[l]][h] = held[last[l]][h]
    BY <2>1, <2>2
  <2>4. \A h \in Lockers : st[h] = "wait" /\ Edge(l, h)' => Edge(l, h)
    BY <2>1, <2>2, <2>3 DEF Edge
  <2> QED BY <2>4 DEF RowsOK
<1>3. ASSUME NEW l0 \in Lockers, NEW o \in Objs, NEW m \in {"R", "W"}, Sleep(l0, o, m)
      PROVE  RowsOK'
  <2>1. needDD'
    BY <1>0, <1>3, SleepFacts
  <2> QED BY <2>1 DEF RowsOK
<1>4. ASSUME NEW l0 \in Lockers, NEW o \in Objs, Release(l0, o)
      PROVE  RowsOK'
  <2>1. PICK hs \in LockSets, P \in SUBSET Members(queue[o]) : Releases(l0, o, hs, P)
    BY <1>0, <1>4, ReleaseFacts
  <2>2. /\ IsList(queue[o], Lockers) /\ IsQueue(queue[o])
        /\ \A k \in Lockers : k \in Members(queue[o]) <=> st[k] = "wait" /\ last[k] = o
    BY <1>0, ObjectType
  <2>3. /\ \A k \in Lockers : k # l0 => hs[k] = held[o][k]
        /\ held'[o] = LetIn(hs, P) /\ \A p \in Objs : p # o => held'[p] = held[p]
        /\ queue'[o] = RemoveAll(queue[o], P)
        /\ \A p \in Objs : p # o => queue'[p] = queue[p]
        /\ \A k \in Lockers \ P : st'[k] = st[k]
        /\ \A k \in P : st'[k] \in {"granted", "run"}
        /\ st[l0] \in {"ending", "aborted"} /\ l0 \notin P
        /\ ~needDD' => ~needDD
        /\ ~stale' => ~stale
        /\ ddObjs' = ddObjs \/ ddObjs' = RemoveAll(ddObjs, {o})
        /\ UNCHANGED <<last, pc, at, matrix>>
    BY <1>0, <2>1 DEF Releases, TypeOK
  <2> SUFFICES ASSUME pc = "build", ~needDD, ~stale, ~stale', NEW l \in Lockers, st'[l] = "wait"
               PROVE  /\ Passed(last[l])' => \A h \in Lockers : st'[h] = "wait" /\ Edge(l, h)' => h \in matrix[l]
                      /\ ~Passed(last[l])' => matrix[l] = {}
    BY <2>3 DEF RowsOK
  <2>4. \A h \in Lockers : st'[h] = "wait" => st[h] = "wait" /\ h \notin P /\ h # l0
    BY <2>3
  <2>5. st[l] = "wait" /\ l \notin P /\ last[l] \in Objs /\ l \in Members(queue[last[l]])
    BY <1>0, <2>4 DEF TypeOK, QueuesOK
  <2>6. \A h \in Lockers : st'[h] = "wait" /\ Edge(l, h)' => Edge(l, h)
    <3>1. \A h \in Lockers : st'[h] = "wait" => held'[last[l]][h] = held[last[l]][h]
      BY <2>3, <2>4, <2>5 DEF LetIn
    <3>2. AheadOf(queue'[last[l]], l) \subseteq AheadOf(queue[last[l]], l)
      <4>1. CASE last[l] = o
        BY <2>2, <2>3, <2>5, <4>1, RemoveAhead
      <4>2. CASE last[l] # o
        BY <2>3, <2>5, <4>2
      <4> QED BY <4>1, <4>2
    <3> QED BY <2>3, <2>5, <3>1, <3>2 DEF Edge
  <2>7. Passed(last[l])' <=> Passed(last[l])
    <3>1. last[l] \in Members(ddObjs) /\ last[l] \in Members(ddObjs')
      <4>1. last[l] \in Members(ddObjs)
        BY <1>0, <2>5 DEF QueuesOK
      <4>2. l \in Members(queue'[last[l]])
        BY <1>0, <2>3, <2>5 DEF TypeOK
      <4> QED BY <1>0, <2>5, <4>1, <4>2 DEF QueuesOK
    <3>2. at # NoObj => at \in Members(ddObjs) /\ at \in Members(ddObjs')
      BY <1>0, <2>3 DEF WalkOK
    <3>3. \A i, j \in Members(ddObjs) : i \in Members(ddObjs') /\ j \in Members(ddObjs') =>
            (ddObjs'[i] < ddObjs'[j] <=> ddObjs[i] < ddObjs[j])
      <4>1. CASE ddObjs' = ddObjs
        BY <4>1
      <4>2. CASE ddObjs' = RemoveAll(ddObjs, {o})
        <5>1. IsList(ddObjs, Objs) /\ IsQueue(ddObjs)
          BY <1>0 DEF TypeOK, QueuesOK
        <5>2. PICK r : r = RemoveAll(ddObjs, {o})
          OBVIOUS
        <5>3. /\ IsList(r, Objs) /\ Members(r) = Members(ddObjs) \ {o}
              /\ \A i, j \in Members(ddObjs) \ {o} : r[i] <= r[j] <=> ddObjs[i] <= ddObjs[j]
          BY <5>1, <5>2, RowAssumption, RemoveAllType, RemoveAllQueue
        <5>4. \A i \in Members(r) : r[i] \in Nat /\ ddObjs[i] \in Nat
          BY <5>1, <5>3 DEF IsList
        <5>5. \A i, j \in Members(r) : r[i] < r[j] <=> ddObjs[i] < ddObjs[j]
          BY <5>3, <5>4
        <5> QED BY <4>2, <5>2, <5>5
      <4> QED BY <2>3, <4>1, <4>2
    <3> QED BY <2>3, <3>1, <3>2, <3>3 DEF Passed
  <2> QED BY <2>4, <2>5, <2>6, <2>7 DEF RowsOK
<1>5. ASSUME NEW l0 \in Lockers, Wake(l0) \/ Commit(l0) \/ End(l0)
      PROVE  RowsOK'
  <2>1. /\ UNCHANGED <<held, queue, ddObjs, needDD, stale, pc, at, matrix>>
        /\ \A k \in Lockers : k # l0 => st'[k] = st[k] /\ last'[k] = last[k]
        /\ st[l0] # "wait" /\ st'[l0] # "wait"
    BY <1>0, <1>5, ThreadFacts
  <2> SUFFICES ASSUME pc = "build", ~needDD, ~stale, NEW l \in Lockers, st'[l] = "wait"
               PROVE  /\ Passed(last'[l]) => \A h \in Lockers : st'[h] = "wait" /\ Edge(l, h)' => h \in matrix[l]
                      /\ ~Passed(last'[l]) => matrix[l] = {}
    BY <2>1 DEF RowsOK, Passed
  <2>2. last'[l] = last[l] /\ st[l] = "wait"
    BY <2>1
  <2>3. \A h \in Lockers : st'[h] = "wait" /\ Edge(l, h)' => st[h] = "wait" /\ Edge(l, h)
    BY <2>1, <2>2 DEF Edge
  <2> QED BY <2>2, <2>3 DEF RowsOK
<1>6. CASE Start \/ (Scan /\ stale)
  <2>1. /\ \A l \in Lockers : matrix'[l] = {}
        /\ at' = FirstObj /\ UNCHANGED <<st, last, ddObjs>>
    BY <1>0, <1>6 DEF Start, Scan, WalkOK, NoRow, lockVars
  <2>2. \A l \in Lockers : st[l] = "wait" => ~Passed(last[l])'
    BY <1>0, <2>1, NothingPassed DEF Passed
  <2> QED BY <2>1, <2>2 DEF RowsOK
<1>7. CASE Scan /\ ~stale
  <2>1. /\ pc = "build" /\ at \in Members(ddObjs) /\ at \in Objs
        /\ UNCHANGED <<held, queue, last, st, ddObjs, needDD>>
        /\ matrix' = [k \in Lockers |-> RowAfter(at, k)] /\ at' = NextOf(at)
    BY <1>0, <1>7 DEF Scan, lockVars, TypeOK, WalkOK
  <2> SUFFICES ASSUME ~needDD, NEW l \in Lockers, st[l] = "wait"
               PROVE  /\ Passed(last[l])' => \A h \in Lockers : st[h] = "wait" /\ Edge(l, h) => h \in matrix'[l]
                      /\ ~Passed(last[l])' => matrix'[l] = {}
    BY <2>1 DEF RowsOK, Edge
  <2>2. last[l] \in Members(ddObjs) /\ (l \in Members(queue[at]) <=> last[l] = at)
    BY <1>0, <2>1 DEF QueuesOK, TypeOK
  <2>3. Passed(last[l])' <=> Passed(last[l]) \/ last[l] = at
    BY <1>0, <2>1, <2>2, OnePassed, RowAssumption DEF Passed
  <2>4. matrix'[l] = RowAfter(at, l)
    BY <2>1
  <2>5. CASE last[l] = at
    <3>1. \A h \in Lockers : st[h] = "wait" /\ Edge(l, h) => h \in Holders(at)
      BY <2>5 DEF Edge, Holders, Holds
    <3>2. \A h \in Lockers : st[h] = "wait" /\ Edge(l, h) => h \in RowAfter(at, l)
      BY <1>0, <2>1, <2>2, <2>5, <3>1, ScanRow DEF Edge
    <3> QED BY <2>3, <2>4, <2>5, <3>2
  <2>6. CASE last[l] # at
    <3>1. matrix'[l] = matrix[l]
      BY <1>0, <2>1, <2>2, <2>4, <2>6, ScanRow
    <3> QED BY <1>7, <2>1, <2>3, <2>6, <3>1 DEF RowsOK
  <2> QED BY <2>5, <2>6
<1>8. CASE Choose \/ Kill \/ Finish
  BY <1>8 DEF Choose, Kill, Finish, RowsOK
<1> QED
  <2>1. CASE Next
    BY <2>1, <1>2, <1>3, <1>4, <1>5, <1>6, <1>7, <1>8, NextCases, Zenon
  <2> QED BY <1>1, <2>1

\* In a stuck set everybody waits for one of the set: for somebody whose lock
\* keeps out whoever of the set is foremost on the same queue.
LEMMA StuckEdge ==
    ASSUME TypeOK, QueuesOK, NEW D \in SUBSET {k \in Lockers : st[k] = "wait"}, Stuck(D),
           NEW l \in D
    PROVE  \E h \in D : Edge(l, h)
<1>1. PICK o \in Objs : o = last[l]
  BY DEF QueuesOK
<1>2. IsList(queue[o], Lockers) /\ IsQueue(queue[o])
  BY ObjectType
<1> DEFINE F == D \cap Members(queue[o])
<1>3. l \in F /\ F \subseteq Members(queue[o]) /\ \A k \in F : last[k] = o
  BY <1>1, ObjectType
<1> HIDE DEF F
<1>4. PICK f \in F : \A j \in F : queue[o][f] <= queue[o][j]
  BY <1>2, <1>3, FirstInMember
<1>5. AheadOf(queue[o], f) \cap F = {}
  <2>1. \A j \in Members(queue[o]) : queue[o][j] \in Nat
    BY <1>2 DEF IsList
  <2> QED BY <1>3, <1>4, <2>1 DEF AheadOf
<1>6. f = l \/ f \in AheadOf(queue[o], l)
  BY <1>2, <1>3, <1>5, AheadOrder
<1>7. PICK h \in D \ {f} : ModesConflict(held[o][h], want[f])
  <2>1. f \in D /\ last[f] = o
    BY <1>3 DEF F
  <2>2. AheadOf(queue[o], f) \cap D = {}
    BY <1>5 DEF F, AheadOf
  <2> QED BY <2>1, <2>2 DEF Stuck
<1>8. held[o][h] # "N"
  BY <1>7 DEF ModesConflict
<1>9. h = l => AheadOf(queue[o], l) # {}
  BY <1>6, <1>7
<1> QED BY <1>1, <1>8, <1>9 DEF Edge

\* All that the detector has to know to find a deadlock.
THEOREM RowsCorrect == Spec => [](BuildInv /\ RowsOK)
<1>1. Init => RowsOK
  BY DEF Init, RowsOK
<1>2. BuildInv /\ RowsOK /\ [Next]_vars => RowsOK'
  BY RowsStep
<1> QED BY <1>1, <1>2, BuildCorrect, PTL DEF Spec

\* A set that is stuck meets the row of some deadlock that is found.
LEMMA StuckFound ==
    ASSUME BuildInv, RowsOK, Choose, ~needDD,
           NEW D \in SUBSET {k \in Lockers : st[k] = "wait"}, Stuck(D), D # {}
    PROVE  /\ \A l \in D : matrix[l] \cap D # {}
           /\ \E i \in Find.found : i \in D \/ Find.rows[i] \cap D # {}
<1>1. TypeOK /\ QueuesOK /\ WalkOK
  BY DEF BuildInv
<1>2. pc = "build" /\ at = NoObj /\ ~stale
  BY <1>1 DEF Choose, WalkOK
<1>3. ASSUME NEW l \in D
      PROVE  matrix[l] \cap D # {}
  <2>1. PICK h \in D : Edge(l, h)
    BY <1>1, StuckEdge
  <2>2. Passed(last[l])
    BY <1>1, <1>2, NothingPassed DEF Passed
  <2>3. h \in matrix[l]
    BY <1>2, <2>1, <2>2 DEF RowsOK
  <2> QED BY <2>1, <2>3
<1>4. matrix \in [Lockers -> SUBSET Lockers] /\ D \in SUBSET Lockers
  BY <1>1 DEF TypeOK
<1> QED BY <1>3, <1>4, FindComplete

\* DeadlockFound: if somebody is deadlocked when the walk ends, a victim is
\* chosen or there is reason to run again.
THEOREM FindsDeadlock == Spec => DeadlockFound
<1>1. BuildInv /\ RowsOK /\ [Next]_vars =>
        [Chosen /\ Deadlocked # {} => victims' # {} \/ needDD]_vars
  <2> SUFFICES ASSUME BuildInv, RowsOK, [Next]_vars, Chosen, Deadlocked # {}, ~needDD
               PROVE  victims' # {}
    OBVIOUS
  <2>1. Choose
    BY ChosenVictims
  <2>2. PICK D \in SUBSET {k \in Lockers : st[k] = "wait"} : Stuck(D) /\ D # {}
    BY DEF Deadlocked
  <2>3. PICK i \in Find.found : TRUE
    BY <2>1, <2>2, StuckFound
  <2>4. PICK v \in victims' : v.who \in Find.rows[i]
    BY <2>3, ChosenVictims
  <2> QED BY <2>4
<1> QED BY <1>1, RowsCorrect, PTL DEF Spec, DeadlockFound

-----------------------------------------------------------------------------
(* Exclusive locks only.                                                   *)

\* A stuck set after a step is stuck before it, unless somebody went to sleep.
LEMMA StuckStays ==
    ASSUME NEW D, \A l \in D : last'[l] = last[l] /\ want'[l] = want[l],
           \A l, h \in D : held'[last[l]][h] = held[last[l]][h],
           \A l \in D : AheadOf(queue'[last[l]], l) \subseteq AheadOf(queue[last[l]], l),
           Stuck(D)'
    PROVE  Stuck(D)
<1> SUFFICES ASSUME NEW l \in D, AheadOf(queue[last[l]], l) \cap D = {}
             PROVE  \E h \in D \ {l} : ModesConflict(held[last[l]][h], want[l])
  BY DEF Stuck
<1>1. AheadOf(queue'[last[l]], l) \cap D = {} /\ last'[l] = last[l]
  OBVIOUS
<1>2. PICK h \in D \ {l} : ModesConflict(held'[last[l]][h], want'[l])
  BY <1>1 DEF Stuck
<1> QED BY <1>2

LEMMA StuckBefore ==
    ASSUME BuildInv, [Next]_vars, ~needDD',
           NEW D \in SUBSET Lockers, \A l \in D : st'[l] = "wait", Stuck(D)'
    PROVE  (\A l \in D : st[l] = "wait") /\ Stuck(D)
<1>0. TypeOK /\ QueuesOK
  BY DEF BuildInv
<1>1. ASSUME UNCHANGED <<held, queue, want, last, st>>
      PROVE  (\A l \in D : st[l] = "wait") /\ Stuck(D)
  BY <1>1, StuckStays
<1>2. ASSUME NEW l0 \in Lockers, NEW o \in Objs, NEW m \in {"R", "W"}, Get(l0, o, m)
      PROVE  (\A l \in D : st[l] = "wait") /\ Stuck(D)
  <2>1. /\ st[l0] = "run"
        /\ \A k \in Lockers : k # l0 => held'[o][k] = held[o][k] /\ last'[k] = last[k]
        /\ \A p \in Objs : p # o => held'[p] = held[p]
        /\ UNCHANGED <<queue, want, st>>
    BY <1>0, <1>2, GetFacts
  <2>2. \A l \in D : l # l0 /\ last'[l] = last[l] /\ last[l] \in Objs
    BY <1>0, <2>1 DEF QueuesOK
  <2>3. \A l, h \in D : held'[last[l]][h] = held[last[l]][h]
    BY <2>1, <2>2
  <2> QED BY <2>1, <2>2, <2>3, StuckStays
<1>3. ASSUME NEW l0 \in Lockers, NEW o \in Objs, NEW m \in {"R", "W"}, Sleep(l0, o, m)
      PROVE  FALSE
  BY <1>0, <1>3, SleepFacts
<1>4. ASSUME NEW l0 \in Lockers, NEW o \in Objs, Release(l0, o)
      PROVE  (\A l \in D : st[l] = "wait") /\ Stuck(D)
  <2>1. PICK hs \in LockSets, P \in SUBSET Members(queue[o]) : Releases(l0, o, hs, P)
    BY <1>0, <1>4, ReleaseFacts
  <2>2. /\ \A k \in Lockers : k # l0 => hs[k] = held[o][k]
        /\ held'[o] = LetIn(hs, P) /\ \A p \in Objs : p # o => held'[p] = held[p]
        /\ queue'[o] = RemoveAll(queue[o], P)
        /\ \A p \in Objs : p # o => queue'[p] = queue[p]
        /\ \A k \in Lockers \ P : st'[k] = st[k] /\ want'[k] = want[k]
        /\ \A k \in P : st'[k] \in {"granted", "run"}
        /\ st[l0] \in {"ending", "aborted"} /\ l0 \notin P
        /\ last' = last
    BY <2>1 DEF Releases
  <2>3. \A l \in D : l \notin P /\ l # l0 /\ st[l] = "wait" /\ want'[l] = want[l]
    BY <2>2
  <2>4. \A l \in D : last[l] \in Objs /\ l \in Members(queue[last[l]])
    BY <1>0, <2>3 DEF QueuesOK, TypeOK
  <2>5. \A l, h \in D : held'[last[l]][h] = held[last[l]][h]
    BY <2>2, <2>3, <2>4 DEF LetIn
  <2>6. ASSUME NEW l \in D
        PROVE  AheadOf(queue'[last[l]], l) \subseteq AheadOf(queue[last[l]], l)
    <3>1. CASE last[l] = o
      BY <1>0, <2>2, <2>3, <2>4, <3>1, ObjectType, RemoveAhead
    <3>2. CASE last[l] # o
      BY <2>2, <2>4, <3>2
    <3> QED BY <3>1, <3>2
  <2> QED BY <2>2, <2>3, <2>5, <2>6, StuckStays
<1>5. ASSUME NEW l0 \in Lockers, Wake(l0) \/ Commit(l0) \/ End(l0)
      PROVE  (\A l \in D : st[l] = "wait") /\ Stuck(D)
  <2>1. /\ UNCHANGED <<held, queue, want>>
        /\ \A k \in Lockers : k # l0 => st'[k] = st[k] /\ last'[k] = last[k]
        /\ st'[l0] # "wait"
    BY <1>0, <1>5, ThreadFacts
  <2>2. \A l \in D : l # l0 /\ st[l] = "wait" /\ last'[l] = last[l]
    BY <2>1
  <2> QED BY <2>1, <2>2, StuckStays
<1>6. CASE Start \/ Scan \/ Choose \/ Finish
  BY <1>1, <1>6 DEF Start, Scan, Choose, Finish, lockVars
<1>7. CASE Kill
  <2>1. ASSUME NEW l0 \in Lockers, NEW o \in Objs, NEW q, NEW P,
               P \subseteq Members(queue[o]) \ {l0}, Aborts(l0, o, q, P), last' = last
        PROVE  (\A l \in D : st[l] = "wait") /\ Stuck(D)
    <3>1. IsList(queue[o], Lockers) /\ IsQueue(queue[o])
      BY <1>0, ObjectType
    <3>2. /\ q = RemoveAll(queue[o], {l0})
          /\ held'[o] = LetIn(held[o], P) /\ \A p \in Objs : p # o => held'[p] = held[p]
          /\ queue'[o] = RemoveAll(q, P)
          /\ \A p \in Objs : p # o => queue'[p] = queue[p]
          /\ \A k \in Lockers \ (P \cup {l0}) : st'[k] = st[k] /\ want'[k] = want[k]
          /\ \A k \in P : st'[k] \in {"granted", "run"}
          /\ st'[l0] = "aborted"
      BY <2>1 DEF Aborts
    <3>3. \A l \in D : l \notin P /\ l # l0 /\ st[l] = "wait" /\ want'[l] = want[l]
      BY <3>2
    <3>4. \A l \in D : last[l] \in Objs /\ l \in Members(queue[last[l]])
      BY <1>0, <3>3 DEF QueuesOK, TypeOK
    <3>5. \A l, h \in D : held'[last[l]][h] = held[last[l]][h]
      BY <3>2, <3>3, <3>4 DEF LetIn
    <3>6. IsList(q, Lockers) /\ IsQueue(q) /\ Members(q) = Members(queue[o]) \ {l0}
      BY <3>1, <3>2, LockersFinite, RemoveAllType, RemoveAllQueue
    <3>7. ASSUME NEW l \in D
          PROVE  AheadOf(queue'[last[l]], l) \subseteq AheadOf(queue[last[l]], l)
      <4>1. CASE last[l] = o
        <5>1. l \in Members(q) \ P /\ l \in Members(queue[o]) \ {l0}
          BY <3>3, <3>4, <3>6, <4>1
        <5>2. AheadOf(queue'[o], l) \subseteq AheadOf(q, l)
          BY <3>2, <3>6, <5>1, RemoveAhead
        <5>3. AheadOf(q, l) \subseteq AheadOf(queue[o], l)
          BY <3>1, <3>2, <5>1, RemoveAhead
        <5> QED BY <4>1, <5>2, <5>3
      <4>2. CASE last[l] # o
        BY <3>2, <3>4, <4>2
      <4> QED BY <4>1, <4>2
    <3> QED BY <2>1, <3>3, <3>5, <3>7, StuckStays
  <2> QED BY <1>0, <1>1, <1>7, <2>1, KillFacts, Zenon
<1>8. CASE UNCHANGED vars
  BY <1>1, <1>8 DEF vars, lockVars
<1> QED
  <2>1. CASE Next
    BY <2>1, <1>2, <1>3, <1>4, <1>5, <1>6, <1>7, NextCases, Zenon
  <2> QED BY <1>8, <2>1

\* If the transactions lock exclusively, all locks there are and will be are
\* exclusive, and a row has at most one edge while nothing asks for another run.
AllWrites(s) == \A i \in DOMAIN s : s[i][2] = "W"

ExclusiveModes ==
    AllExclusive =>
        /\ \A l \in Lockers : AllWrites(todo[l])
        /\ \A l \in Lockers : want[l] \in {"N", "W"}
        /\ \A o \in Objs, l \in Lockers : held[o][l] \in {"N", "W"}

OneEdge ==
    AllExclusive /\ pc = "build" /\ ~needDD /\ ~stale =>
        \A l \in Lockers : st[l] = "wait" => \A x, y \in matrix[l] : x = y

\* The next request is for an exclusive lock, and so are those after it.
LEMMA NextExclusive ==
    ASSUME NEW s \in Seq(Objs \X {"R", "W"}), s # <<>>, NEW o, NEW m, Head(s) = <<o, m>>,
           AllWrites(s)
    PROVE  m = "W" /\ AllWrites(Tail(s))
<1>1. s[1] = <<o, m>> /\ 1 \in DOMAIN s
  OBVIOUS
<1>2. m = "W"
  BY <1>1 DEF AllWrites
<1>3. \A i \in DOMAIN Tail(s) : i + 1 \in DOMAIN s /\ Tail(s)[i] = s[i + 1]
  OBVIOUS
<1> QED BY <1>2, <1>3 DEF AllWrites

\* Letting waiters in makes no other modes than those there were.
LEMMA LetInExclusive ==
    ASSUME NEW hs \in LockSets, NEW S, \A l \in Lockers : want[l] \in {"N", "W"},
           \A l \in Lockers : hs[l] \in {"N", "W"}
    PROVE  \A l \in Lockers : LetIn(hs, S)[l] \in {"N", "W"}
BY DEF LetIn, And

LEMMA ModesStep ==
    ASSUME BuildInv, ExclusiveModes, [Next]_vars
    PROVE  ExclusiveModes'
<1>0. TypeOK /\ QueuesOK /\ TypeOK'
  BY TypeStep DEF BuildInv
<1>1. setting' = setting
  BY SettingKept
<1>2. AllExclusive' <=> AllExclusive
  BY <1>1 DEF AllExclusive
<1> SUFFICES ASSUME AllExclusive,
                    \A l \in Lockers : AllWrites(todo[l]),
                    \A l \in Lockers : want[l] \in {"N", "W"},
                    \A o \in Objs, l \in Lockers : held[o][l] \in {"N", "W"}
             PROVE  /\ \A l \in Lockers : AllWrites(todo'[l])
                    /\ \A l \in Lockers : want'[l] \in {"N", "W"}
                    /\ \A o \in Objs, l \in Lockers : held'[o][l] \in {"N", "W"}
  BY <1>2 DEF ExclusiveModes
<1> DEFINE Goal == /\ \A l \in Lockers : AllWrites(todo'[l])
                   /\ \A l \in Lockers : want'[l] \in {"N", "W"}
                   /\ \A o \in Objs, l \in Lockers : held'[o][l] \in {"N", "W"}
<1>3. ASSUME UNCHANGED <<todo, want, held>>
      PROVE  Goal
  BY <1>3
<1>4. ASSUME NEW l0 \in Lockers, NEW o \in Objs, NEW m \in {"R", "W"}, Get(l0, o, m)
      PROVE  Goal
  <2>1. /\ held'[o][l0] = And(held[o][l0], m)
        /\ \A k \in Lockers : k # l0 => held'[o][k] = held[o][k]
        /\ \A p \in Objs : p # o => held'[p] = held[p]
        /\ want' = want
        /\ todo[l0] \in Seq(Objs \X {"R", "W"}) /\ todo[l0] # <<>> /\ Head(todo[l0]) = <<o, m>>
        /\ todo' = [todo EXCEPT ![l0] = Tail(@)]
    BY <1>0, <1>4, GetFacts
  <2>2. m = "W" /\ AllWrites(Tail(todo[l0]))
    BY <2>1, NextExclusive
  <2>3. todo'[l0] = Tail(todo[l0]) /\ \A k \in Lockers : k # l0 => todo'[k] = todo[k]
    BY <1>0, <2>1 DEF TypeOK
  <2>4. And(held[o][l0], m) = "W"
    BY <2>2 DEF And
  <2>5. \A l \in Lockers : AllWrites(todo'[l])
    BY <2>2, <2>3
  <2> QED BY <2>1, <2>4, <2>5
<1>5. ASSUME NEW l0 \in Lockers, NEW o \in Objs, NEW m \in {"R", "W"}, Sleep(l0, o, m)
      PROVE  Goal
  <2>1. /\ held' = held
        /\ want'[l0] = m /\ \A k \in Lockers : k # l0 => want'[k] = want[k]
        /\ todo[l0] \in Seq(Objs \X {"R", "W"}) /\ todo[l0] # <<>> /\ Head(todo[l0]) = <<o, m>>
        /\ todo' = [todo EXCEPT ![l0] = Tail(@)]
    BY <1>0, <1>5, SleepFacts
  <2>2. m = "W" /\ AllWrites(Tail(todo[l0]))
    BY <2>1, NextExclusive
  <2>3. todo'[l0] = Tail(todo[l0]) /\ \A k \in Lockers : k # l0 => todo'[k] = todo[k]
    BY <1>0, <2>1 DEF TypeOK
  <2>4. \A l \in Lockers : AllWrites(todo'[l])
    BY <2>2, <2>3
  <2> QED BY <2>1, <2>2, <2>4
<1>6. ASSUME NEW l0 \in Lockers, NEW o \in Objs, Release(l0, o)
      PROVE  Goal
  <2>1. PICK hs \in LockSets, P \in SUBSET Members(queue[o]) : Releases(l0, o, hs, P)
    BY <1>0, <1>6, ReleaseFacts
  <2>2. /\ hs[l0] = "N" /\ \A k \in Lockers : k # l0 => hs[k] = held[o][k]
        /\ held'[o] = LetIn(hs, P) /\ \A p \in Objs : p # o => held'[p] = held[p]
        /\ todo' = todo
    BY <2>1 DEF Releases
  <2>3. \A l \in Lockers : held'[o][l] \in {"N", "W"}
    BY <2>2, LetInExclusive
  <2>4. want' = [k \in Lockers |-> IF k \in Promotable([held[o] EXCEPT ![l0] = "N"], queue[o]) THEN "N" ELSE want[k]]
    BY <1>6 DEF Release, Promote
  <2>5. \A l \in Lockers : want'[l] \in {"N", "W"}
    BY <2>4
  <2> QED BY <2>2, <2>3, <2>5
<1>7. ASSUME NEW l0 \in Lockers, Wake(l0) \/ Commit(l0) \/ End(l0)
      PROVE  Goal
  <2>1. /\ UNCHANGED <<held, want>>
        /\ \A k \in Lockers : k # l0 => todo'[k] = todo[k]
        /\ todo'[l0] = todo[l0] \/ todo'[l0] = <<>>
    BY <1>0, <1>7, ThreadFacts
  <2>2. AllWrites(<<>>)
    BY DEF AllWrites
  <2>3. \A l \in Lockers : AllWrites(todo'[l])
    BY <2>1, <2>2
  <2> QED BY <2>1, <2>3
<1>8. ASSUME Kill
      PROVE  Goal
  <2>1. PICK v \in victims : v.who \in Lockers /\
          \/ UNCHANGED <<held, want, todo>>
          \/ \E o \in Objs : \E q, P : P \subseteq Members(queue[o]) \ {v.who} /\ Aborts(v.who, o, q, P)
    BY <1>0, <1>8, KillFacts
  <2>2. ASSUME NEW l0 \in Lockers, NEW o \in Objs, NEW q, NEW P,
               P \subseteq Members(queue[o]) \ {l0}, Aborts(l0, o, q, P)
        PROVE  Goal
    <3>1. /\ held'[o] = LetIn(held[o], P) /\ \A p \in Objs : p # o => held'[p] = held[p]
          /\ want'[l0] = "N"
          /\ \A k \in Lockers \ (P \cup {l0}) : want'[k] = want[k]
          /\ todo' = [todo EXCEPT ![l0] = <<>>]
      BY <2>2 DEF Aborts
    <3>2. held[o] \in LockSets
      BY <1>0, ObjectType
    <3>3. \A l \in Lockers : held'[o][l] \in {"N", "W"}
      BY <3>1, <3>2, LetInExclusive
    <3>4. \A l \in P : want'[l] = "N"
      <4>1. \A l \in P : l \in Lockers /\ st'[l] # "wait"
        BY <1>0, <2>2, ObjectType DEF Aborts
      <4> QED BY <1>0, <4>1 DEF TypeOK
    <3>5. \A l \in Lockers : want'[l] \in {"N", "W"}
      BY <3>1, <3>4
    <3>6. todo'[l0] = <<>> /\ \A k \in Lockers : k # l0 => todo'[k] = todo[k]
      BY <1>0, <3>1 DEF TypeOK
    <3>7. AllWrites(<<>>)
      BY DEF AllWrites
    <3>8. \A l \in Lockers : AllWrites(todo'[l])
      BY <3>6, <3>7
    <3> QED BY <3>1, <3>3, <3>5, <3>8
  <2> QED BY <1>3, <2>1, <2>2, Zenon
<1>9. ASSUME Start \/ Scan \/ Choose \/ Finish
      PROVE  Goal
  BY <1>3, <1>9 DEF Start, Scan, Choose, Finish, lockVars
<1>10. ASSUME UNCHANGED vars
       PROVE  Goal
  BY <1>3, <1>10 DEF vars, lockVars
<1> HIDE DEF Goal
<1>11. Goal
  <2>1. CASE Next
    BY <2>1, <1>4, <1>5, <1>6, <1>7, <1>8, <1>9, NextCases, Zenon
  <2> QED BY <1>10, <2>1
<1> QED BY <1>11 DEF Goal

LEMMA OneEdgeStep ==
    ASSUME BuildInv, RowsOK, ExclusiveModes, OneEdge, [Next]_vars
    PROVE  OneEdge'
<1>0. TypeOK /\ QueuesOK /\ WalkOK /\ LocksOK
  BY DEF BuildInv
<1>1. setting' = setting
  BY SettingKept
<1> DEFINE Single(M) == \A l \in Lockers : st'[l] = "wait" => \A x, y \in M[l] : x = y
<1> SUFFICES ASSUME AllExclusive, pc' = "build", ~needDD', ~stale'
             PROVE  Single(matrix')
  BY <1>1 DEF OneEdge, AllExclusive
<1>2. ASSUME UNCHANGED <<pc, matrix>>, ~needDD, ~stale,
             \A l \in Lockers : st'[l] = "wait" => st[l] = "wait"
      PROVE  Single(matrix')
  BY <1>2 DEF OneEdge
<1>3. ASSUME NEW l0 \in Lockers, NEW o \in Objs, NEW m \in {"R", "W"}, Get(l0, o, m)
      PROVE  Single(matrix')
  BY <1>0, <1>2, <1>3, GetFacts
<1>4. ASSUME NEW l0 \in Lockers, NEW o \in Objs, NEW m \in {"R", "W"}, Sleep(l0, o, m)
      PROVE  FALSE
  BY <1>0, <1>4, SleepFacts
<1>5. ASSUME NEW l0 \in Lockers, NEW o \in Objs, Release(l0, o)
      PROVE  Single(matrix')
  <2>1. PICK hs \in LockSets, P \in SUBSET Members(queue[o]) : Releases(l0, o, hs, P)
    BY <1>0, <1>5, ReleaseFacts
  <2>2. /\ \A k \in Lockers \ P : st'[k] = st[k]
        /\ \A k \in P : st'[k] \in {"granted", "run"}
        /\ UNCHANGED <<pc, matrix>> /\ ~needDD /\ ~stale
    BY <1>0, <2>1 DEF Releases, TypeOK
  <2>3. \A k \in Lockers : st'[k] = "wait" => st[k] = "wait"
    BY <2>2
  <2> QED BY <1>2, <2>2, <2>3
<1>6. ASSUME NEW l0 \in Lockers, Wake(l0) \/ Commit(l0) \/ End(l0)
      PROVE  Single(matrix')
  BY <1>0, <1>2, <1>6, ThreadFacts
<1>7. ASSUME Start \/ (Scan /\ stale)
      PROVE  Single(matrix')
  <2>1. \A l \in Lockers : matrix'[l] = {}
    BY <1>0, <1>7 DEF Start, Scan, WalkOK, NoRow
  <2> QED BY <2>1
<1>8. ASSUME Scan, ~stale
      PROVE  Single(matrix')
  <2>1. /\ pc = "build" /\ at \in Members(ddObjs) /\ at \in Objs
        /\ UNCHANGED <<held, queue, last, st, ddObjs>> /\ ~needDD
        /\ matrix' = [k \in Lockers |-> RowAfter(at, k)]
    BY <1>0, <1>8 DEF Scan, lockVars, TypeOK, WalkOK
  <2> SUFFICES ASSUME NEW l \in Lockers, st[l] = "wait", NEW x \in matrix'[l], NEW y \in matrix'[l]
               PROVE  x = y
    BY <2>1
  <2>2. x \in RowAfter(at, l) /\ y \in RowAfter(at, l) /\ (l \in Members(queue[at]) <=> last[l] = at)
    BY <1>0, <2>1 DEF TypeOK
  <2>3. CASE last[l] # at
    BY <1>0, <1>8, <2>1, <2>2, <2>3, ScanRow DEF OneEdge
  <2>4. CASE last[l] = at
    <3>1. ~Passed(last[l])
      <4>1. IsList(ddObjs, Objs) /\ at # NoObj
        BY <1>0, <2>1, RowAssumption DEF TypeOK
      <4>2. ddObjs[at] \in Nat
        BY <2>1, <4>1 DEF IsList
      <4> QED BY <2>4, <4>1, <4>2 DEF Passed
    <3>2. matrix[l] = {}
      BY <1>8, <2>1, <3>1 DEF RowsOK
    <3>3. x \in Lockers /\ y \in Lockers
      <4>1. RowAfter(at, l) \subseteq matrix[l] \cup Holders(at)
        BY DEF RowAfter
      <4> QED BY <2>2, <3>2, <4>1 DEF Holders
    <3>4. x \in Holders(at) /\ y \in Holders(at)
      BY <1>0, <2>1, <2>2, <2>4, <3>2, <3>3, ScanRow
    <3>5. held[at][x] # "N" /\ held[at][y] # "N"
      BY <1>0, <2>1, <3>3, <3>4, ScanRow
    <3>6. held[at][x] = "W" /\ held[at][y] = "W"
      BY <2>1, <3>3, <3>5 DEF ExclusiveModes
    <3>7. x # y => ~ModesConflict(held[at][x], held[at][y])
      BY <1>0, <2>1, <3>3 DEF LocksOK, Granting
    <3> QED BY <3>6, <3>7 DEF ModesConflict
  <2> QED BY <2>3, <2>4
<1>9. ASSUME Choose \/ Kill \/ Finish
      PROVE  FALSE
  BY <1>9 DEF Choose, Kill, Finish
<1>10. ASSUME UNCHANGED vars
       PROVE  Single(matrix')
  BY <1>2, <1>10 DEF vars, lockVars, ddVars
<1> HIDE DEF Single
<1> QED
  <2>1. CASE Next
    BY <2>1, <1>3, <1>4, <1>5, <1>6, <1>7, <1>8, <1>9, NextCases, Zenon
  <2> QED BY <1>10, <2>1

\* While nothing asks for another run, a stuck set has a victim in it when the
\* detector aborts, and there is none when it is idle.
Pursued ==
    AllExclusive /\ ~needDD /\ pc # "build" =>
        \A D \in SUBSET Lockers : (\A l \in D : st[l] = "wait") /\ Stuck(D) /\ D # {} =>
            pc = "kill" /\ \E v \in victims : v.who \in D

\* If rows have one edge, what a locker that is found reaches is all in the
\* stuck set that it reaches.
LEMMA FoundInside ==
    ASSUME BuildInv, pc = "build", \A l \in Lockers : st[l] = "wait" => \A x, y \in matrix[l] : x = y,
           NEW D \in SUBSET Lockers, \A l \in D : st[l] = "wait" /\ matrix[l] \cap D # {},
           NEW i \in Find.found, i \in D \/ Find.rows[i] \cap D # {}
    PROVE  Find.rows[i] \subseteq D
<1>1. matrix \in [Lockers -> SUBSET Lockers]
  BY DEF BuildInv, TypeOK
<1>2. i \in Lockers /\ i \in Find.rows[i] /\ Find.rows[i] \subseteq Reach(i)
  BY <1>1, FindSound, FoundDeadlocked
<1>3. \A l \in D : matrix[l] \subseteq D
  <2> TAKE l \in D
  <2>1. \A x, y \in matrix[l] : x = y
    OBVIOUS
  <2>2. PICK h : h \in matrix[l] /\ h \in D
    OBVIOUS
  <2> QED BY <2>1, <2>2
<1>4. \A l \in D : Reach(l) \subseteq D
  BY <1>3 DEF Reach
<1>5. i \in Knot(i) /\ Knot(i) \subseteq Lockers /\ \A j \in Knot(i) : matrix[j] \cap Knot(i) # {}
  BY <1>1, <1>2, KnotClosed
<1>6. \A j \in Knot(i) : st[j] = "wait"
  BY <1>5, KnotWaits DEF Edge
<1>7. \A j \in Knot(i) : matrix[j] \subseteq Knot(i)
  <2> TAKE j \in Knot(i)
  <2>1. \A x, y \in matrix[j] : x = y
    BY <1>5, <1>6
  <2>2. PICK h : h \in matrix[j] /\ h \in Knot(i)
    BY <1>5
  <2> QED BY <2>1, <2>2
<1>8. Reach(i) \subseteq Knot(i)
  BY <1>5, <1>7 DEF Reach
<1>9. i \in D
  <2>1. CASE Find.rows[i] \cap D # {}
    <3>1. PICK x \in D : x \in Find.rows[i]
      BY <2>1
    <3>2. i \in Reach(x)
      BY <1>2, <1>8, <3>1 DEF Knot
    <3> QED BY <1>4, <3>2
  <2> QED BY <2>1
<1> QED BY <1>2, <1>4, <1>9

LEMMA PursuedStep ==
    ASSUME BuildInv, RowsOK, OneEdge, Pursued, [Next]_vars
    PROVE  Pursued'
<1>0. TypeOK /\ QueuesOK /\ WalkOK
  BY DEF BuildInv
<1>1. setting' = setting
  BY SettingKept
<1> SUFFICES ASSUME AllExclusive, ~needDD', pc' # "build",
                    NEW D \in SUBSET Lockers, \A l \in D : st'[l] = "wait", Stuck(D)', D # {}
             PROVE  pc' = "kill" /\ \E v \in victims' : v.who \in D
  BY <1>1 DEF Pursued, AllExclusive
<1> DEFINE Goal == pc' = "kill" /\ \E v \in victims' : v.who \in D
<1>2. (\A l \in D : st[l] = "wait") /\ Stuck(D)
  BY StuckBefore
<1>3. ASSUME ~needDD, pc # "build"
      PROVE  pc = "kill" /\ \E v \in victims : v.who \in D
  BY <1>2, <1>3 DEF Pursued
<1>4. ASSUME UNCHANGED <<pc, victims>>, ~needDD
      PROVE  Goal
  BY <1>3, <1>4
<1>5. ASSUME NEW l0 \in Lockers, NEW o \in Objs, NEW m \in {"R", "W"}, Get(l0, o, m)
      PROVE  Goal
  BY <1>0, <1>4, <1>5, GetFacts
<1>6. ASSUME NEW l0 \in Lockers, NEW o \in Objs, NEW m \in {"R", "W"}, Sleep(l0, o, m)
      PROVE  FALSE
  BY <1>0, <1>6, SleepFacts
<1>7. ASSUME NEW l0 \in Lockers, NEW o \in Objs, Release(l0, o)
      PROVE  Goal
  <2>1. PICK hs \in LockSets, P \in SUBSET Members(queue[o]) : Releases(l0, o, hs, P)
    BY <1>0, <1>7, ReleaseFacts
  <2>2. UNCHANGED <<pc, victims>> /\ ~needDD
    BY <2>1 DEF Releases
  <2> QED BY <1>4, <2>2
<1>8. ASSUME NEW l0 \in Lockers, Wake(l0) \/ Commit(l0) \/ End(l0)
      PROVE  Goal
  BY <1>0, <1>4, <1>8, ThreadFacts
<1>9. ASSUME Start \/ Scan
      PROVE  FALSE
  BY <1>9 DEF Start, Scan
<1>10. ASSUME Choose
       PROVE  Goal
  <2>1. pc = "build" /\ at = NoObj /\ ~stale /\ ~needDD /\ pc' = "kill" /\ Chosen
    BY <1>0, <1>10 DEF Choose, WalkOK, Chosen
  <2>2. \A l \in Lockers : st[l] = "wait" => \A x, y \in matrix[l] : x = y
    BY <2>1 DEF OneEdge
  <2>3. D \in SUBSET {k \in Lockers : st[k] = "wait"}
    BY <1>2
  <2>4. \A l \in D : matrix[l] \cap D # {}
    BY <1>2, <1>10, <2>1, <2>3, StuckFound
  <2>5. PICK i \in Find.found : i \in D \/ Find.rows[i] \cap D # {}
    BY <1>2, <1>10, <2>1, <2>3, StuckFound
  <2>6. \A l \in D : st[l] = "wait" /\ matrix[l] \cap D # {}
    BY <1>2, <2>4
  <2>7. Find.rows[i] \subseteq D
    BY <2>1, <2>2, <2>5, <2>6, FoundInside
  <2>8. PICK v \in victims' : v.who \in Find.rows[i]
    BY <2>1, ChosenVictims
  <2> QED BY <2>1, <2>7, <2>8
<1>11. ASSUME Kill
       PROVE  Goal
  <2>1. PICK v \in victims :
          /\ victims' = victims \ {v}
          /\ \/ needDD' = TRUE
             \/ needDD' = (needDD \/ ~v.sure) /\ st'[v.who] = "aborted"
    <3>1. PICK v \in victims :
            /\ victims' = victims \ {v}
            /\ \/ needDD' = TRUE
               \/ /\ needDD' = (needDD \/ ~v.sure)
                  /\ \E o \in Objs : \E q, P :
                       P \subseteq Members(queue[o]) \ {v.who} /\ Aborts(v.who, o, q, P)
      BY <1>0, <1>11, KillFacts, Zenon
    <3>2. \A o, q, P : Aborts(v.who, o, q, P) => st'[v.who] = "aborted"
      BY Zenon DEF Aborts
    <3> QED BY <3>1, <3>2, Zenon
  <2>2. st'[v.who] = "aborted" /\ ~needDD
    BY <2>1
  <2>3. PICK w \in victims : w.who \in D
    BY <1>3, <1>11, <2>2 DEF Kill
  <2>4. w # v
    BY <2>2, <2>3
  <2> QED BY <1>11, <2>1, <2>3, <2>4 DEF Kill
<1>12. ASSUME Finish
       PROVE  Goal
  <2>1. pc = "kill" /\ victims = {} /\ ~needDD
    BY <1>12 DEF Finish
  <2> QED BY <1>3, <2>1
<1>13. ASSUME UNCHANGED vars
       PROVE  Goal
  BY <1>4, <1>13 DEF vars, lockVars, ddVars
<1> HIDE DEF Goal
<1>14. Goal
  <2>1. CASE Next
    BY <2>1, <1>5, <1>6, <1>7, <1>8, <1>9, <1>10, <1>11, <1>12, NextCases, Zenon
  <2> QED BY <1>13, <2>1
<1> QED BY <1>14 DEF Goal

\* ExclusiveBroken: if the transactions lock exclusively, one run of the
\* detector breaks every deadlock there is.
THEOREM DeadlocksBroken == Spec => []ExclusiveBroken
<1> DEFINE All == BuildInv /\ RowsOK /\ ExclusiveModes /\ OneEdge /\ Pursued
<1>1. Init => ExclusiveModes /\ OneEdge /\ Pursued
  <2> SUFFICES ASSUME Init PROVE ExclusiveModes /\ OneEdge /\ Pursued
    OBVIOUS
  <2>1. ExclusiveModes
    BY DEF Init, ExclusiveModes, AllExclusive, AllWrites
  <2>2. OneEdge
    BY DEF Init, OneEdge
  <2>3. Pursued
    BY DEF Init, Pursued
  <2> QED BY <2>1, <2>2, <2>3
<1>2. All /\ [Next]_vars => (ExclusiveModes /\ OneEdge /\ Pursued)'
  BY ModesStep, OneEdgeStep, PursuedStep
<1>3. Spec => []All
  BY <1>1, <1>2, RowsCorrect, PTL DEF Spec
<1>4. All => ExclusiveBroken
  <2> SUFFICES ASSUME All, AllExclusive, pc = "idle", ~needDD,
                      NEW D \in SUBSET {l \in Lockers : st[l] = "wait"}, Stuck(D), NEW l \in D
               PROVE  FALSE
    BY DEF ExclusiveBroken, Deadlocked
  <2>1. D \in SUBSET Lockers /\ (\A k \in D : st[k] = "wait") /\ D # {}
    OBVIOUS
  <2> QED BY <2>1 DEF Pursued
<1> QED BY <1>3, <1>4, PTL
=============================================================================
