------------------------- MODULE PositionDiffProofs -------------------------
(***************************************************************************)
(* Proofs about PositionDiff: the buys that are sized with a budget fit    *)
(* that budget.  Value is a fold over the stocks, so what it computes      *)
(* needs induction over finite sets; the induction is stated for the SET   *)
(* of subsets a property holds of, which the provers can instantiate.      *)
(***************************************************************************)
EXTENDS PositionDiff, FiniteSetTheorems, WellFoundedInduction, TLAPS

-----------------------------------------------------------------------------
(* Induction                                                                 *)

\* A set of natural numbers that is not empty has a least element.
LEMMA LeastElement ==
  ASSUME NEW T \in SUBSET Nat, T # {}
  PROVE  \E m \in T : \A n \in T : m <= n
<1> DEFINE R == OpToRel(<, Nat)
<1>1. PICK m \in T : \A n \in T : <<n, m>> \notin R
  BY NatLessThanWellFounded, WFMin
<1>2. \A n \in T : ~(n < m)
  BY <1>1 DEF OpToRel
<1> QED
  BY <1>2

\* Induction over the natural numbers, for the numbers a property holds of.
LEMMA Induction ==
  ASSUME NEW T \in SUBSET Nat, 0 \in T, \A n \in T : n + 1 \in T
  PROVE  T = Nat
<1> SUFFICES ASSUME Nat \ T # {} PROVE FALSE
  OBVIOUS
<1>1. PICK m \in Nat \ T : \A n \in Nat \ T : m <= n
  BY LeastElement
<1>2. m # 0 /\ m - 1 \in Nat
  BY <1>1
<1>3. m - 1 \in T
  BY <1>1, <1>2
<1> QED
  BY <1>1, <1>2, <1>3

\* Induction over the subsets of a finite set, for the subsets a property holds
\* of: it holds of a set if it holds of the set without any one of its elements.
LEMMA SetInduction ==
  ASSUME NEW S, IsFiniteSet(S), NEW P \in SUBSET SUBSET S,
         \A s \in SUBSET S : (\A x \in s : s \ {x} \in P) => s \in P
  PROVE  P = SUBSET S
<1> SUFFICES ASSUME (SUBSET S) \ P # {} PROVE FALSE
  OBVIOUS
<1>1. \A s \in SUBSET S : IsFiniteSet(s) /\ Cardinality(s) \in Nat
  BY FS_Subset, FS_CardinalityType
<1> DEFINE T == {n \in Nat : \E s \in (SUBSET S) \ P : Cardinality(s) = n}
<1>2. T \in SUBSET Nat /\ T # {}
  BY <1>1
<1>3. PICK m \in T : \A n \in T : m <= n
  <2> HIDE DEF T
  <2> QED
    BY <1>2, LeastElement
<1>4. PICK s \in (SUBSET S) \ P : Cardinality(s) = m
  BY <1>3
<1>5. PICK x \in s : s \ {x} \notin P
  BY <1>4
<1>6. s \ {x} \in SUBSET S /\ Cardinality(s \ {x}) = m - 1 /\ m \in Nat
  BY <1>1, <1>4, <1>5, FS_RemoveElement
<1>7. m - 1 \in T
  BY <1>1, <1>5, <1>6
<1> QED
  BY <1>3, <1>6, <1>7

-----------------------------------------------------------------------------
(* Sums over finite sets                                                     *)

\* The element of a set a fold takes first.
Pick(s) == CHOOSE x \in s : TRUE

\* `it' gives the sum of f over each subset of S.
IsTotal(it, f, S) ==
  it = [s \in SUBSET S |-> IF s = {} THEN 0 ELSE f[Pick(s)] + it[s \ {Pick(s)}]]

\* The sum of f over S.
Total(f, S) == (CHOOSE it : IsTotal(it, f, S))[S]

\* The element that is picked from a set is one of its elements.
LEMMA PickIsIn ==
  ASSUME NEW s, s # {}
  PROVE  Pick(s) \in s
BY DEF Pick

\* There is a function that gives the sum of f over each subset: it is built up
\* from the smaller subsets to the larger ones.
LEMMA TotalExists ==
  ASSUME NEW S, IsFiniteSet(S), NEW f
  PROVE  \E it : IsTotal(it, f, S)
<1> DEFINE D(n) == {s \in SUBSET S : Cardinality(s) <= n}
           Row(g, n) == g = [s \in D(n) |-> IF s = {} THEN 0 ELSE f[Pick(s)] + g[s \ {Pick(s)}]]
           T == {n \in Nat : \E g : Row(g, n)}
<1>1. \A s \in SUBSET S : IsFiniteSet(s) /\ Cardinality(s) \in Nat /\ (Cardinality(s) = 0 <=> s = {})
  BY FS_Subset, FS_CardinalityType, FS_EmptySet
<1>2. \A s \in SUBSET S : s # {} => s \ {Pick(s)} \in SUBSET S
                                    /\ Cardinality(s \ {Pick(s)}) = Cardinality(s) - 1
  BY <1>1, PickIsIn, FS_RemoveElement
<1>3. 0 \in T
  <2> DEFINE g == [s \in D(0) |-> 0]
  <2>1. \A s \in D(0) : s = {}
    BY <1>1
  <2>2. g = [s \in D(0) |-> IF s = {} THEN 0 ELSE f[Pick(s)] + g[s \ {Pick(s)}]]
    BY <2>1
  <2>3. \E gg : Row(gg, 0)
    <3> HIDE DEF g, D
    <3> QED
      BY <2>2
  <2> QED
    BY <2>3
<1>4. ASSUME NEW n \in T PROVE n + 1 \in T
  <2>1. PICK g : Row(g, n)
    OBVIOUS
  <2> DEFINE h == [s \in D(n + 1) |-> IF s = {} THEN 0 ELSE f[Pick(s)] + g[s \ {Pick(s)}]]
  <2>2. \A s \in D(n) : h[s] = g[s]
    <3>1. \A s \in D(n) : s \in D(n + 1)
      BY <1>1
    <3>2. \A s \in D(n) : g[s] = IF s = {} THEN 0 ELSE f[Pick(s)] + g[s \ {Pick(s)}]
      BY <2>1
    <3> QED
      BY <3>1, <3>2
  <2>3. \A s \in D(n + 1) : s # {} => s \ {Pick(s)} \in D(n)
    BY <1>1, <1>2
  <2>4. h = [s \in D(n + 1) |-> IF s = {} THEN 0 ELSE f[Pick(s)] + h[s \ {Pick(s)}]]
    BY <2>2, <2>3
  <2>5. \E gg : Row(gg, n + 1)
    <3> HIDE DEF h, D
    <3> QED
      BY <2>4
  <2>6. n + 1 \in Nat
    OBVIOUS
  <2> QED
    BY <2>5, <2>6
<1>5. T = Nat
  <2> HIDE DEF T
  <2>1. T \in SUBSET Nat
    BY DEF T
  <2> QED
    BY <1>3, <1>4, <2>1, Induction
<1>6. D(Cardinality(S)) = SUBSET S
  BY FS_Subset, FS_CardinalityType
<1>7. PICK g : Row(g, Cardinality(S))
  BY <1>1, <1>5
<1> QED
  BY <1>6, <1>7 DEF IsTotal

\* Two such functions agree wherever both are defined.
LEMMA TotalUnique ==
  ASSUME NEW S, IsFiniteSet(S), NEW T \in SUBSET S, NEW f, NEW it, NEW jt,
         IsTotal(it, f, S), IsTotal(jt, f, T)
  PROVE  \A s \in SUBSET T : it[s] = jt[s]
<1> DEFINE P == {s \in SUBSET T : it[s] = jt[s]}
<1>1. IsFiniteSet(T)
  BY FS_Subset
<1>2. ASSUME NEW s \in SUBSET T, \A x \in s : s \ {x} \in P
      PROVE  s \in P
  <2>1. s \in SUBSET S
    OBVIOUS
  <2>2. it[s] = IF s = {} THEN 0 ELSE f[Pick(s)] + it[s \ {Pick(s)}]
    BY <2>1 DEF IsTotal
  <2>3. jt[s] = IF s = {} THEN 0 ELSE f[Pick(s)] + jt[s \ {Pick(s)}]
    BY DEF IsTotal
  <2>4. s # {} => it[s \ {Pick(s)}] = jt[s \ {Pick(s)}]
    BY <1>2, PickIsIn
  <2> QED
    BY <2>2, <2>3, <2>4
<1>3. P = SUBSET T
  <2> HIDE DEF P
  <2>1. P \in SUBSET SUBSET T
    BY DEF P
  <2> QED
    BY <1>1, <1>2, <2>1, SetInduction
<1> QED
  BY <1>3

\* Such a function, made for a set, gives the sums over its subsets too.
LEMMA TotalOf ==
  ASSUME NEW S, IsFiniteSet(S), NEW f, NEW it, IsTotal(it, f, S), NEW s \in SUBSET S
  PROVE  it[s] = Total(f, s)
<1>1. IsTotal(CHOOSE jt : IsTotal(jt, f, s), f, s)
  BY FS_Subset, TotalExists
<1>2. s \in SUBSET s
  OBVIOUS
<1> QED
  BY <1>1, <1>2, TotalUnique DEF Total

\* What the recursion computes, stated without the recursion
LEMMA TotalIs ==
  ASSUME NEW S, IsFiniteSet(S), NEW f
  PROVE  /\ Total(f, {}) = 0
         /\ S # {} => Total(f, S) = f[Pick(S)] + Total(f, S \ {Pick(S)})
<1>1. PICK it : IsTotal(it, f, S)
  BY TotalExists
<1>2. it[{}] = 0 /\ (S # {} => it[S] = f[Pick(S)] + it[S \ {Pick(S)}])
  BY <1>1 DEF IsTotal
<1>3. it[{}] = Total(f, {}) /\ it[S] = Total(f, S)
      /\ it[S \ {Pick(S)}] = Total(f, S \ {Pick(S)})
  BY <1>1, TotalOf
<1> QED
  BY <1>2, <1>3

\* The sum over no elements is 0.
LEMMA TotalEmpty ==
  ASSUME NEW f
  PROVE  Total(f, {}) = 0
BY TotalIs, FS_EmptySet

\* A sum of integers is an integer, a sum of natural numbers a natural number.
LEMMA TotalType ==
  ASSUME NEW S, IsFiniteSet(S), NEW f, \A x \in S : f[x] \in Int
  PROVE  /\ Total(f, S) \in Int
         /\ (\A x \in S : f[x] \in Nat) => Total(f, S) \in Nat
<1> DEFINE P == {s \in SUBSET S : /\ Total(f, s) \in Int
                                  /\ (\A x \in S : f[x] \in Nat) => Total(f, s) \in Nat}
<1>1. ASSUME NEW s \in SUBSET S, \A x \in s : s \ {x} \in P
      PROVE  s \in P
  <2>1. IsFiniteSet(s)
    BY FS_Subset
  <2>2. CASE s = {}
    BY <2>2, TotalEmpty
  <2>3. CASE s # {}
    <3>1. Pick(s) \in s /\ Pick(s) \in S
      BY <2>3, PickIsIn
    <3>2. s \ {Pick(s)} \in P
      BY <1>1, <3>1
    <3>3. Total(f, s) = f[Pick(s)] + Total(f, s \ {Pick(s)})
      BY <2>1, <2>3, TotalIs
    <3> QED
      BY <3>1, <3>2, <3>3
  <2> QED
    BY <2>2, <2>3
<1>2. P = SUBSET S
  <2> HIDE DEF P
  <2>1. P \in SUBSET SUBSET S
    BY DEF P
  <2> QED
    BY <1>1, <2>1, SetInduction
<1> QED
  BY <1>2

\* The order in which the elements are added does not matter.
LEMMA TotalRemove ==
  ASSUME NEW S, IsFiniteSet(S), NEW f, \A x \in S : f[x] \in Int, NEW y \in S
  PROVE  Total(f, S) = f[y] + Total(f, S \ {y})
<1> DEFINE P == {s \in SUBSET S : \A z \in s : Total(f, s) = f[z] + Total(f, s \ {z})}
<1>1. ASSUME NEW s \in SUBSET S, \A x \in s : s \ {x} \in P
      PROVE  s \in P
  <2> SUFFICES ASSUME NEW z \in s PROVE Total(f, s) = f[z] + Total(f, s \ {z})
    OBVIOUS
  <2> DEFINE x == Pick(s)
  <2>1. IsFiniteSet(s) /\ x \in s
    BY FS_Subset, PickIsIn
  <2>2. Total(f, s) = f[x] + Total(f, s \ {x})
    BY <2>1, TotalIs
  <2> HIDE DEF x
  <2>3. CASE z = x
    BY <2>2, <2>3
  <2>4. CASE z # x
    <3> DEFINE u == s \ {x, z}
    <3>1. (s \ {x}) \ {z} = u /\ (s \ {z}) \ {x} = u
      OBVIOUS
    <3>2. Total(f, s \ {x}) = f[z] + Total(f, u)
      BY <1>1, <2>1, <2>4, <3>1
    <3>3. Total(f, s \ {z}) = f[x] + Total(f, u)
      BY <1>1, <2>1, <2>4, <3>1
    <3>4. Total(f, u) \in Int
      <4>1. IsFiniteSet(u) /\ \A v \in u : f[v] \in Int
        BY FS_Subset
      <4> QED
        BY <4>1, TotalType
    <3>5. f[x] \in Int /\ f[z] \in Int
      BY <2>1
    <3> HIDE DEF u
    <3> QED
      BY <2>2, <3>2, <3>3, <3>4, <3>5
  <2> QED
    BY <2>3, <2>4
<1>2. P = SUBSET S
  <2> HIDE DEF P
  <2>1. P \in SUBSET SUBSET S
    BY DEF P
  <2> QED
    BY <1>1, <2>1, SetInduction
<1> QED
  BY <1>2

\* A sum of smaller numbers is smaller.
LEMMA TotalAtMost ==
  ASSUME NEW S, IsFiniteSet(S), NEW f, NEW g,
         \A x \in S : f[x] \in Int /\ g[x] \in Int /\ f[x] <= g[x]
  PROVE  Total(f, S) <= Total(g, S)
<1> DEFINE P == {s \in SUBSET S : Total(f, s) <= Total(g, s)}
<1>1. ASSUME NEW s \in SUBSET S, \A x \in s : s \ {x} \in P
      PROVE  s \in P
  <2>1. IsFiniteSet(s)
    BY FS_Subset
  <2>2. CASE s = {}
    BY <2>2, TotalEmpty
  <2>3. CASE s # {}
    <3> DEFINE x == Pick(s)
               u == s \ {x}
    <3>1. x \in S /\ u \in P
      BY <1>1, <2>3, PickIsIn
    <3>2. /\ Total(f, s) = f[x] + Total(f, u)
          /\ Total(g, s) = g[x] + Total(g, u)
      BY <2>1, <2>3, TotalIs
    <3>3. Total(f, u) \in Int /\ Total(g, u) \in Int
      <4>1. IsFiniteSet(u)
        BY FS_Subset
      <4> QED
        BY <4>1, TotalType
    <3> HIDE DEF x, u
    <3> QED
      BY <3>1, <3>2, <3>3
  <2> QED
    BY <2>2, <2>3
<1>2. P = SUBSET S
  <2> HIDE DEF P
  <2>1. P \in SUBSET SUBSET S
    BY DEF P
  <2> QED
    BY <1>1, <2>1, SetInduction
<1> QED
  BY <1>2

\* If one number changes, the sum changes by as much.
LEMMA TotalChange ==
  ASSUME NEW S, IsFiniteSet(S), NEW f, NEW g, NEW y \in S,
         \A x \in S : f[x] \in Int /\ g[x] \in Int,
         \A x \in S \ {y} : g[x] = f[x]
  PROVE  Total(g, S) = Total(f, S) + g[y] - f[y]
<1> DEFINE u == S \ {y}
<1>1. IsFiniteSet(u) /\ \A x \in u : f[x] \in Int /\ g[x] \in Int
  BY FS_RemoveElement
<1>2. Total(f, S) = f[y] + Total(f, u) /\ Total(g, S) = g[y] + Total(g, u)
  BY TotalRemove
<1>3. Total(f, u) \in Int /\ Total(g, u) \in Int
  BY <1>1, TotalType
<1>4. Total(f, u) <= Total(g, u) /\ Total(g, u) <= Total(f, u)
  <2>1. \A x \in u : f[x] \in Int /\ g[x] \in Int /\ f[x] <= g[x] /\ g[x] <= f[x]
    BY <1>1
  <2> HIDE DEF u
  <2> QED
    BY <1>1, <2>1, TotalAtMost
<1> QED
  BY <1>2, <1>3, <1>4

\* If each of the n elements of N has at most the n-th part of b, and the
\* others have nothing, all of them together have at most b.
LEMMA TotalOfShares ==
  ASSUME NEW S, IsFiniteSet(S), NEW N \in SUBSET S, NEW f, NEW b \in Nat,
         \A x \in S : f[x] \in Nat,
         \A x \in N : Cardinality(N) * f[x] <= b,
         \A x \in S \ N : f[x] = 0
  PROVE  Total(f, S) <= b
<1> DEFINE n == Cardinality(N)
<1>1. IsFiniteSet(N) /\ n \in Nat /\ (n = 0 <=> N = {})
  BY FS_Subset, FS_CardinalityType, FS_EmptySet
<1> HIDE DEF n
<1> DEFINE P == {s \in SUBSET S : n * Total(f, s) <= Cardinality(s \cap N) * b}
<1>2. ASSUME NEW s \in SUBSET S, \A x \in s : s \ {x} \in P
      PROVE  s \in P
  <2>1. IsFiniteSet(s)
    BY FS_Subset
  <2>2. CASE s = {}
    <3>1. Total(f, s) = 0 /\ s \cap N = {} /\ Cardinality({}) = 0
      BY <2>2, TotalEmpty, FS_EmptySet
    <3>2. n * 0 <= 0 * b
      BY <1>1
    <3> QED
      BY <3>1, <3>2
  <2>3. CASE s # {}
    <3> DEFINE x == Pick(s)
               u == s \ {x}
               m == Cardinality(u \cap N)
               t == Total(f, u)
    <3>1. x \in s /\ x \in S /\ u \in P /\ u \in SUBSET S
      BY <1>2, <2>3, PickIsIn
    <3>2. Total(f, s) = f[x] + t
      BY <2>1, <2>3, TotalIs
    <3>3. IsFiniteSet(u) /\ IsFiniteSet(u \cap N)
      BY <2>1, FS_Subset
    <3>4. m \in Nat /\ t \in Nat
      <4>1. t \in Nat
        BY <3>1, <3>3, TotalType
      <4> QED
        BY <3>3, <4>1, FS_CardinalityType
    <3>5. Cardinality(s \cap N) = IF x \in N THEN m + 1 ELSE m
      <4>1. CASE x \in N
        <5>1. s \cap N = (u \cap N) \cup {x} /\ x \notin u \cap N
          BY <3>1, <4>1
        <5> QED
          BY <3>3, <4>1, <5>1, FS_AddElement
      <4>2. CASE x \notin N
        <5>1. s \cap N = u \cap N
          BY <4>2
        <5> QED
          BY <4>2, <5>1
      <4> QED
        BY <4>1, <4>2
    <3>6. n * t <= m * b
      BY <3>1
    <3>7. f[x] \in Nat /\ (x \in N => n * f[x] <= b) /\ (x \notin N => f[x] = 0)
      BY <3>1 DEF n
    <3> HIDE DEF x, u, m, t
    <3>8. n * (f[x] + t) = n * f[x] + n * t /\ (m + 1) * b = m * b + b
      BY <1>1, <3>4, <3>7
    <3>9. n * f[x] \in Nat /\ n * t \in Nat /\ m * b \in Nat
      BY <1>1, <3>4, <3>7
    <3>10. n * (f[x] + t) <= (IF x \in N THEN m + 1 ELSE m) * b
      <4>1. CASE x \in N
        BY <3>6, <3>7, <3>8, <3>9, <4>1
      <4>2. CASE x \notin N
        BY <1>1, <3>4, <3>6, <3>7, <3>9, <4>2
      <4> QED
        BY <4>1, <4>2
    <3> QED
      BY <3>2, <3>5, <3>10
  <2> QED
    BY <2>2, <2>3
<1>3. P = SUBSET S
  <2> HIDE DEF P
  <2>1. P \in SUBSET SUBSET S
    BY DEF P
  <2> QED
    BY <1>2, <2>1, SetInduction
<1>4. S \cap N = N /\ n * Total(f, S) <= n * b
  <2>1. S \cap N = N
    OBVIOUS
  <2> QED
    BY <1>3, <2>1 DEF n
<1>5. Total(f, S) \in Nat
  BY TotalType
<1>6. CASE n = 0
  <2>1. \A x \in S : f[x] \in Int /\ f[x] = 0
    BY <1>1, <1>6
  <2> DEFINE z == [x \in S |-> 0]
  <2>2. \A x \in S : f[x] \in Int /\ z[x] \in Int /\ f[x] <= z[x]
    BY <2>1
  <2>3. Total(f, S) <= Total(z, S)
    BY <2>2, TotalAtMost
  <2>4. Total(z, S) = 0
    <3> DEFINE Q == {s \in SUBSET S : Total(z, s) = 0}
    <3>1. ASSUME NEW s \in SUBSET S, \A x \in s : s \ {x} \in Q
          PROVE  s \in Q
      <4>1. IsFiniteSet(s)
        BY FS_Subset
      <4>2. CASE s = {}
        BY <4>2, TotalEmpty
      <4>3. CASE s # {}
        <5>1. Pick(s) \in s /\ z[Pick(s)] = 0 /\ Total(z, s \ {Pick(s)}) = 0
          BY <3>1, <4>3, PickIsIn
        <5>2. Total(z, s) = z[Pick(s)] + Total(z, s \ {Pick(s)})
          BY <4>1, <4>3, TotalIs
        <5> HIDE DEF z
        <5> QED
          BY <5>1, <5>2
      <4> QED
        BY <4>2, <4>3
    <3>2. Q = SUBSET S
      <4> HIDE DEF Q
      <4>1. Q \in SUBSET SUBSET S
        BY DEF Q
      <4> QED
        BY <3>1, <4>1, SetInduction
    <3> QED
      BY <3>2
  <2> HIDE DEF z
  <2> QED
    BY <1>5, <2>3, <2>4
<1>7. CASE n > 0
  BY <1>1, <1>4, <1>5, <1>7
<1> QED
  BY <1>1, <1>6, <1>7

-----------------------------------------------------------------------------
\* The value of a portfolio, a fold in the model, is the sum of what its stocks
\* are worth.
LEMMA ValueIs ==
  ASSUME NEW qty, IsFiniteSet(DOMAIN qty), NEW price
  PROVE  Value(qty, price) = Total([s \in DOMAIN qty |-> qty[s] * price[s]], DOMAIN qty)
<1> DEFINE S == DOMAIN qty
           f == [s \in S |-> qty[s] * price[s]]
           Is(it) == it = [s \in SUBSET S |->
                             IF s = {} THEN 0
                             ELSE (qty[Pick(s)] * price[Pick(s)]) + it[s \ {Pick(s)}]]
<1>1. Value(qty, price) = (CHOOSE it : Is(it))[S]
  BY DEF Value, MapThenSumSet, MapThenFoldSet, Pick
<1>2. \A s \in SUBSET S : s # {} => f[Pick(s)] = qty[Pick(s)] * price[Pick(s)]
  BY PickIsIn
<1>3. \A it : IsTotal(it, f, S) <=> Is(it)
  BY <1>2 DEF IsTotal
<1>4. Is(CHOOSE it : Is(it))
  <2>1. \E it : Is(it)
    BY <1>3, TotalExists
  <2> HIDE DEF Is
  <2> QED
    BY <2>1
<1> DEFINE it == CHOOSE it : Is(it)
<1>5. IsTotal(it, f, S)
  BY <1>3, <1>4
<1>6. it[S] = Total(f, S)
  <2> HIDE DEF f, it, S
  <2>1. IsFiniteSet(S) /\ S \in SUBSET S
    BY DEF S
  <2> QED
    BY <1>5, <2>1, TotalOf
<1> HIDE DEF Is
<1> QED
  BY <1>1, <1>6

\* Quantities and prices that are natural numbers have such a value.
LEMMA ValueType ==
  ASSUME NEW S, IsFiniteSet(S), NEW qty \in [S -> Nat], NEW price \in [S -> Nat]
  PROVE  Value(qty, price) \in Nat
<1> DEFINE f == [s \in S |-> qty[s] * price[s]]
<1>1. \A s \in S : f[s] \in Nat /\ f[s] \in Int
  OBVIOUS
<1>2. DOMAIN qty = S
  OBVIOUS
<1> HIDE DEF f
<1>3. Total(f, S) \in Nat
  BY <1>1, TotalType
<1> QED
  BY <1>2, <1>3, ValueIs DEF f

\* The quotient of a whole division, times the divisor, fits the dividend.
LEMMA QuotientFits ==
  ASSUME NEW a \in Nat, NEW b \in Nat \ {0}
  PROVE  a \div b \in Nat /\ b * (a \div b) <= a
OBVIOUS

\* The equal share of the budget bounds what one stock is bought for.
LEMMA FloorSharesFit ==
  ASSUME NEW portfolio \in Nat, NEW budget \in Nat, NEW targets \in Nat \ {0},
         NEW new \in Nat \ {0}, NEW price \in Nat \ {0}
  PROVE  LET shares == FloorShares(portfolio, budget, targets, new, price)
         IN  shares \in Nat /\ new * (shares * price) <= budget
<1> DEFINE byWeight == portfolio \div (targets * price)
           byBudget == budget \div (new * price)
           shares == FloorShares(portfolio, budget, targets, new, price)
<1>1. targets * price \in Nat \ {0} /\ new * price \in Nat \ {0}
  OBVIOUS
<1>2. byWeight \in Nat /\ byBudget \in Nat /\ (new * price) * byBudget <= budget
  BY <1>1, QuotientFits
<1>3. shares = IF byWeight < byBudget THEN byWeight ELSE byBudget
  BY DEF FloorShares
<1> HIDE DEF byWeight, byBudget, shares
<1>4. shares \in Nat /\ shares <= byBudget
  BY <1>2, <1>3
<1>5. new * (shares * price) = (new * price) * shares
  BY <1>4
<1>6. (new * price) * shares <= (new * price) * byBudget
  BY <1>1, <1>2, <1>4
<1>7. (new * price) * shares \in Nat /\ (new * price) * byBudget \in Nat
  BY <1>1, <1>2, <1>4
<1>8. new * (shares * price) <= budget
  BY <1>2, <1>5, <1>6, <1>7
<1> QED
  BY <1>4, <1>8 DEF shares

\* calculate sells all of what is held and no target, and nothing else.
LEMMA SellSharesType ==
  ASSUME NEW S, NEW holding \in [S -> Nat], NEW target
  PROVE  /\ SellShares(target, holding) \in [S -> Nat]
         /\ \A s \in S : SellShares(target, holding)[s] = IF s \in target THEN 0 ELSE holding[s]
BY DEF SellShares, Only, Held

\* Only stocks that are new and have a price hint are bought, each for at most
\* an equal share of the budget.
Sized(buys, S, new, hint, budget) ==
  /\ buys \in [S -> Nat]
  /\ \A s \in S : buys[s] > 0 => s \in new /\ hint[s] > 0 /\ budget > 0
  /\ \A s \in S : Cardinality(new) * (buys[s] * hint[s]) <= IF budget > 0 THEN budget ELSE 0

\* What calculate and _recalculate_buy_orders make of a budget is sized like that.
LEMMA BuySharesType ==
  ASSUME NEW S, IsFiniteSet(S), NEW holding \in [S -> Nat], NEW target \in SUBSET S,
         NEW price \in [S -> Nat], NEW hint \in [S -> Nat], NEW budget \in Int
  PROVE  Sized(BuyShares(target, holding, price, hint, budget),
               S, target \ Held(holding), hint, budget)
<1> DEFINE buys == BuyShares(target, holding, price, hint, budget)
           new == target \ Held(holding)
           n == Cardinality(new)
           t == Cardinality(target)
           kept == Only(holding, target)
           portfolio == budget + Value(kept, price)
           share(s) == FloorShares(portfolio, budget, t, n, hint[s])
<1>1. buys = [s \in S |-> IF s \in new /\ hint[s] > 0 /\ budget > 0 THEN share(s) ELSE 0]
  BY DEF BuyShares
<1>2. IsFiniteSet(new) /\ IsFiniteSet(target) /\ n \in Nat /\ t \in Nat
  BY FS_Subset, FS_CardinalityType
<1>3. new # {} => n # 0 /\ t # 0
  BY <1>2, FS_EmptySet
<1>4. Value(kept, price) \in Nat
  <2>1. kept \in [S -> Nat]
    BY DEF Only
  <2> HIDE DEF kept
  <2> QED
    BY <2>1, ValueType
<1> HIDE DEF n, t, new, kept
<1>5. ASSUME NEW s \in S, s \in new, hint[s] > 0, budget > 0
      PROVE  share(s) \in Nat /\ n * (share(s) * hint[s]) <= budget
  <2>1. portfolio \in Nat /\ budget \in Nat /\ hint[s] \in Nat \ {0}
    BY <1>4, <1>5
  <2>2. n \in Nat \ {0} /\ t \in Nat \ {0}
    BY <1>2, <1>3, <1>5
  <2> HIDE DEF portfolio
  <2> QED
    BY <2>1, <2>2, FloorSharesFit
<1> HIDE DEF share
<1>6. \A s \in S : buys[s] \in Nat
                   /\ (buys[s] > 0 => s \in new /\ hint[s] > 0 /\ budget > 0)
  BY <1>1, <1>5
<1>7. ASSUME NEW s \in S
      PROVE  n * (buys[s] * hint[s]) <= IF budget > 0 THEN budget ELSE 0
  <2>1. CASE s \in new /\ hint[s] > 0 /\ budget > 0
    BY <1>1, <1>5, <2>1
  <2>2. CASE ~(s \in new /\ hint[s] > 0 /\ budget > 0)
    <3>1. buys[s] = 0
      BY <1>1, <2>2
    <3>2. n * (0 * hint[s]) = 0
      BY <1>2
    <3> QED
      BY <3>1, <3>2
  <2> QED
    BY <2>1, <2>2
<1>8. buys \in [S -> Nat]
  BY <1>1, <1>6
<1> HIDE DEF buys
<1>9. Sized(buys, S, new, hint, budget)
  BY <1>6, <1>7, <1>8 DEF n, Sized
<1> QED
  BY <1>9 DEF new, buys

\* Whatever prices, holdings and targets there are, the buys that are sized with
\* a budget cost at most that budget (_recalculate_buy_orders), if every hint is
\* the price of the stock.
THEOREM BuysFitTheBudget ==
  ASSUME NEW S, IsFiniteSet(S), NEW holding \in [S -> Nat], NEW target \in SUBSET S,
         NEW price \in [S -> Nat], NEW hint \in [S -> Nat], NEW budget \in Nat,
         \A s \in S : hint[s] \in {0, price[s]}
  PROVE  Value(BuyShares(target, holding, price, hint, budget), price) <= budget
<1> DEFINE buys == BuyShares(target, holding, price, hint, budget)
           new == target \ Held(holding)
           f == [s \in S |-> buys[s] * price[s]]
<1>1. Sized(buys, S, new, hint, budget)
  BY BuySharesType
<1> HIDE DEF buys
<1>2. buys \in [S -> Nat] /\ \A s \in S : f[s] \in Nat
  BY <1>1 DEF Sized
<1>3. ASSUME NEW s \in new PROVE Cardinality(new) * f[s] <= budget
  <2>1. s \in S
    OBVIOUS
  <2>2. CASE hint[s] = price[s]
    <3>1. f[s] = buys[s] * hint[s]
      BY <2>1, <2>2
    <3>2. Cardinality(new) * (buys[s] * hint[s]) <= IF budget > 0 THEN budget ELSE 0
      BY <1>1, <2>1 DEF Sized
    <3> QED
      BY <3>1, <3>2
  <2>3. CASE hint[s] = 0
    <3>1. f[s] = 0
      BY <1>1, <2>1, <2>3 DEF Sized
    <3>2. Cardinality(new) \in Nat
      BY FS_Subset, FS_CardinalityType
    <3> QED
      BY <3>1, <3>2
  <2> QED
    BY <2>1, <2>2, <2>3
<1>4. \A s \in S \ new : f[s] = 0
  BY <1>1 DEF Sized
<1>5. new \in SUBSET S /\ DOMAIN buys = S
  BY <1>2
<1>6. Value(buys, price) = Total(f, S)
  BY <1>5, ValueIs
<1> HIDE DEF f, new
<1>7. Total(f, S) <= budget
  BY <1>2, <1>3, <1>4, <1>5, TotalOfShares
<1> QED
  BY <1>6, <1>7 DEF buys

\* The plan sizes the buys in the same way, with some budget.
LEMMA PlannedBuysType ==
  ASSUME NEW S, IsFiniteSet(S), NEW holding \in [S -> Nat], NEW target \in SUBSET S,
         NEW price \in [S -> Nat], NEW hint \in [S -> Nat], NEW cash \in Int
  PROVE  \E budget \in Int : Sized(PlannedBuys(target, holding, price, hint, cash),
                                   S, target \ Held(holding), hint, budget)
<1> DEFINE sold == Value(SellShares(target, holding), price)
           investable == cash + sold
           budget == investable - CashBuffer(investable)
<1>1. sold \in Nat
  BY SellSharesType, ValueType
<1>2. investable \in Int
  BY <1>1
<1>3. budget \in Int
  <2> HIDE DEF investable
  <2> QED
    BY <1>2 DEF CashBuffer
<1>4. PlannedBuys(target, holding, price, hint, cash)
        = BuyShares(target, holding, price, hint, budget)
  BY DEF PlannedBuys
<1> HIDE DEF budget
<1> QED
  BY <1>3, <1>4, BuySharesType

\* Smaller quantities are worth less.
LEMMA ValueAtMost ==
  ASSUME NEW S, IsFiniteSet(S), NEW price \in [S -> Nat], NEW d \in [S -> Nat], NEW e \in [S -> Nat],
         \A s \in S : e[s] <= d[s]
  PROVE  Value(e, price) <= Value(d, price)
<1> DEFINE f == [s \in S |-> d[s] * price[s]]
           g == [s \in S |-> e[s] * price[s]]
<1>1. Value(d, price) = Total(f, S) /\ Value(e, price) = Total(g, S)
  <2>1. DOMAIN d = S /\ DOMAIN e = S
    OBVIOUS
  <2> QED
    BY <2>1, ValueIs
<1>2. ASSUME NEW s \in S PROVE g[s] \in Int /\ f[s] \in Int /\ g[s] <= f[s]
  <2>1. d[s] \in Nat /\ e[s] \in Nat /\ price[s] \in Nat /\ e[s] <= d[s]
    OBVIOUS
  <2> QED
    BY <2>1
<1> HIDE DEF f, g
<1>3. Total(g, S) <= Total(f, S)
  BY <1>2, TotalAtMost
<1> QED
  BY <1>1, <1>3

\* k of x have been paid.
LEMMA ValueLess ==
  ASSUME NEW S, IsFiniteSet(S), NEW price \in [S -> Nat], NEW d \in [S -> Nat], NEW e \in [S -> Nat],
         NEW x \in S, NEW k \in Nat, e[x] = d[x] - k, \A s \in S \ {x} : e[s] = d[s]
  PROVE  Value(e, price) = Value(d, price) - k * price[x]
<1> DEFINE f == [s \in S |-> d[s] * price[s]]
           g == [s \in S |-> e[s] * price[s]]
<1>1. Value(d, price) = Total(f, S) /\ Value(e, price) = Total(g, S)
  <2>1. DOMAIN d = S /\ DOMAIN e = S
    OBVIOUS
  <2> QED
    BY <2>1, ValueIs
<1>2. \A s \in S : g[s] \in Int /\ f[s] \in Int
  OBVIOUS
<1>3. \A s \in S \ {x} : g[s] = f[s]
  OBVIOUS
<1>4. g[x] - f[x] = -(k * price[x]) /\ f[x] \in Int /\ g[x] \in Int
  <2>1. d[x] \in Nat /\ e[x] \in Nat /\ price[x] \in Nat /\ e[x] = d[x] - k
    OBVIOUS
  <2>2. g[x] = (d[x] - k) * price[x] /\ f[x] = d[x] * price[x]
    OBVIOUS
  <2> HIDE DEF f, g
  <2>3. (d[x] - k) * price[x] = d[x] * price[x] - k * price[x]
    BY <2>1
  <2>4. d[x] * price[x] \in Int /\ k * price[x] \in Int
    BY <2>1
  <2> QED
    BY <2>2, <2>3, <2>4
<1>5. k * price[x] \in Int
  OBVIOUS
<1> HIDE DEF f, g
<1>6. Total(g, S) = Total(f, S) + g[x] - f[x]
  BY <1>2, <1>3, TotalChange
<1>7. Total(f, S) \in Int
  BY <1>2, TotalType
<1> QED
  BY <1>1, <1>4, <1>5, <1>6, <1>7

\* Nothing is worth nothing.
LEMMA ValueOfNothing ==
  ASSUME NEW S, IsFiniteSet(S), NEW price \in [S -> Nat], NEW d \in [S -> Nat],
         \A s \in S : d[s] = 0
  PROVE  Value(d, price) = 0
<1> DEFINE f == [s \in S |-> d[s] * price[s]]
<1>1. Value(d, price) = Total(f, S)
  <2>1. DOMAIN d = S
    OBVIOUS
  <2> QED
    BY <2>1, ValueIs
<1>2. \A s \in S : f[s] = 0
  OBVIOUS
<1> HIDE DEF f
<1>3. Total(f, S) <= 0
  <2>1. /\ {} \in SUBSET S /\ 0 \in Nat /\ \A s \in S : f[s] \in Nat
        /\ \A x \in {} : Cardinality({}) * f[x] <= 0 
        /\ \A s \in S \ {} : f[s] = 0
    BY <1>2
  <2> QED
    BY <2>1, TotalOfShares
<1>4. Total(f, S) \in Nat
  BY <1>2, TotalType
<1> QED
  BY <1>1, <1>3, <1>4
=============================================================================
