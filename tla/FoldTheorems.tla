---------------------------- MODULE FoldTheorems ----------------------------
(***************************************************************************)
(* What the proofs need of the folds and sums the models are written with: *)
(* induction along numbers and finite sets, the steps of FoldLeft, sums    *)
(* that do not depend on the order, and sequences that sort a set.  Where  *)
(* an operator would be a parameter, a function or a set of pairs is.      *)
(***************************************************************************)
EXTENDS Integers, FiniteSets, SequencesExt, FiniteSetTheorems,
        NaturalsInduction, WellFoundedInduction, TLAPS

------------------------------------------------------------------------------
(* Induction and folds. *)

\* A set of natural numbers that is not empty has a least element.
LEMMA LeastNat ==
  ASSUME NEW T, T \subseteq Nat, T # {}
  PROVE  \E n \in T : \A m \in T : n <= m
<1> DEFINE R == OpToRel(<, Nat)
<1>1. \A m, n \in Nat : <<m, n>> \in R <=> m < n
  BY DEF OpToRel
<1>2. IsWellFoundedOn(R, Nat)
  BY NatLessThanWellFounded
<1> HIDE DEF R
<1>3. PICK n \in T : \A m \in T : ~ (<<m, n>> \in R)
  BY <1>2, WFMin
<1>4. \A m \in T : m \in Nat /\ n \in Nat /\ ~(m < n)
  BY <1>1, <1>3, Zenon
<1> QED  BY <1>4

\* Induction along 0..n.
LEMMA UpTo ==
  ASSUME NEW n \in Nat, NEW S, 0 \in S,
         \A k \in 1 .. n : k - 1 \in S => k \in S
  PROVE  \A k \in 0 .. n : k \in S
<1> DEFINE T == {k \in 0 .. n : k \notin S}
<1> SUFFICES ASSUME T # {} PROVE FALSE
  OBVIOUS
<1>1. T \subseteq Nat
  OBVIOUS
<1> HIDE DEF T
<1>2. PICK k \in T : \A m \in T : k <= m
  BY <1>1, LeastNat
<1> USE DEF T
<1>3. k \in 1 .. n /\ k - 1 \in 0 .. n
  OBVIOUS
<1>4. k - 1 \in S
  BY <1>2, <1>3
<1> QED  BY <1>2, <1>3, <1>4

\* Max of a set of the indices of a list.
LEMMA MaxIndex ==
  ASSUME NEW n \in Nat, NEW S, S \subseteq 1 .. n, S # {}
  PROVE  Max(S) \in S /\ \A x \in S : x <= Max(S)
<1> DEFINE T == {n - x : x \in S}
<1>1. T \subseteq Nat /\ T # {}
  OBVIOUS
<1>2. PICK m \in T : \A k \in T : m <= k
  BY <1>1, LeastNat
<1>3. PICK x \in S : m = n - x
  BY <1>2
<1>4. \A y \in S : x >= y
  <2> TAKE y \in S
  <2>1. m <= n - y  BY <1>2
  <2> QED  BY <1>3, <2>1
<1>5. \E z \in S : \A y \in S : z >= y
  BY <1>4
<1> QED  BY <1>5 DEF Max

\* The function g by which FoldLeft is defined, when F[i] is what the fold does
\* with the i-th of n elements.
Folds(g, n, St, base, F) ==
  /\ g \in [SUBSET (1 .. n) -> St]
  /\ \A s \in SUBSET (1 .. n) :
       g[s] = IF s = {} THEN base ELSE F[Max(s)][g[s \ {Max(s)}]]

\* The function by which FoldLeft is defined exists: it is built up index by
\* index.
LEMMA FoldExists ==
  ASSUME NEW n \in Nat, NEW St, NEW base \in St, NEW F \in [1 .. n -> [St -> St]]
  PROVE  \E g : Folds(g, n, St, base, F)
<1> DEFINE Good(k, g) == \A s \in SUBSET (1 .. k) :
             g[s] = IF s = {} THEN base ELSE F[Max(s)][g[s \ {Max(s)}]]
           S == {k \in 0 .. n : \E g \in [SUBSET (1 .. k) -> St] : Good(k, g)}
<1>1. 0 \in S
  <2> DEFINE g == [s \in SUBSET (1 .. 0) |-> base]
  <2>1. g \in [SUBSET (1 .. 0) -> St]
    OBVIOUS
  <2>2. Good(0, g)
    OBVIOUS
  <2> HIDE DEF g, Good
  <2>3. 0 \in 0 .. n
    OBVIOUS
  <2> QED  BY <2>1, <2>2, <2>3
<1>2. ASSUME NEW k \in 1 .. n, k - 1 \in S PROVE k \in S
  <2>1. PICK g \in [SUBSET (1 .. k - 1) -> St] : Good(k - 1, g)
    BY <1>2
  <2> DEFINE h == [s \in SUBSET (1 .. k) |->
                     IF k \in s THEN F[k][g[s \ {k}]] ELSE g[s]]
  <2>2. \A s \in SUBSET (1 .. k) : s \ {k} \in SUBSET (1 .. k - 1)
    OBVIOUS
  <2>3. \A s \in SUBSET (1 .. k) : k \notin s => s \in SUBSET (1 .. k - 1)
    OBVIOUS
  <2>4. h \in [SUBSET (1 .. k) -> St]
    <3> SUFFICES ASSUME NEW s \in SUBSET (1 .. k)
                 PROVE  (IF k \in s THEN F[k][g[s \ {k}]] ELSE g[s]) \in St
      OBVIOUS
    <3>1. g[s \ {k}] \in St
      BY <2>1, <2>2
    <3> QED  BY <2>1, <2>3, <3>1
  <2>5. ASSUME NEW s \in SUBSET (1 .. k)
        PROVE  h[s] = IF s = {} THEN base ELSE F[Max(s)][h[s \ {Max(s)}]]
    <3>1. CASE k \in s
      <4>1. Max(s) = k
        <5>1. k \in Nat /\ s \subseteq 1 .. k /\ s # {}
          BY <3>1
        <5>2. Max(s) \in s /\ \A x \in s : x <= Max(s)
          BY <5>1, MaxIndex, Zenon
        <5>3. Max(s) \in 1 .. k /\ k <= Max(s)
          BY <3>1, <5>1, <5>2
        <5> QED  BY <5>3
      <4>2. h[s \ {k}] = g[s \ {k}]
        OBVIOUS
      <4> QED  BY <3>1, <4>1, <4>2
    <3>2. CASE k \notin s
      <4>1. s \in SUBSET (1 .. k - 1)
        BY <3>2
      <4>2. g[s] = IF s = {} THEN base ELSE F[Max(s)][g[s \ {Max(s)}]]
        BY <2>1, <4>1
      <4>3. h[s] = g[s] /\ h[s \ {Max(s)}] = g[s \ {Max(s)}]
        BY <3>2
      <4> HIDE DEF h
      <4> QED  BY <4>2, <4>3
    <3> QED  BY <3>1, <3>2
  <2>6. Good(k, h)
    BY <2>5
  <2> HIDE DEF h, Good
  <2>7. k \in 0 .. n
    OBVIOUS
  <2> QED  BY <2>4, <2>6, <2>7
<1>3. n \in S
  <2> HIDE DEF S
  <2>1. \A k \in 1 .. n : k - 1 \in S => k \in S
    BY <1>2
  <2>2. \A k \in 0 .. n : k \in S
    BY <1>1, <2>1, UpTo
  <2> QED  BY <2>2
<1> QED  BY <1>3 DEF Folds

\* The indices below one: what is left of 1..k without its largest element.
LEMMA Below ==
  ASSUME NEW k \in Nat, k # 0
  PROVE  1 .. k # {} /\ Max(1 .. k) = k /\ (1 .. k) \ {k} = 1 .. (k - 1)
<1>1. Max(1 .. k) \in 1 .. k /\ \A x \in 1 .. k : x <= Max(1 .. k)
  <2>1. 1 .. k \subseteq 1 .. k /\ 1 .. k # {}
    OBVIOUS
  <2> QED  BY <2>1, MaxIndex, Zenon
<1>2. k \in 1 .. k
  OBVIOUS
<1>3. Max(1 .. k) = k
  BY <1>1, <1>2
<1> QED  BY <1>3

\* A function defined like the one of FoldLeft, on the states the fold keeps to.
Computes(it, n, St, base, F) ==
  /\ it[{}] = base
  /\ \A s \in SUBSET (1 .. n) :
       s # {} /\ it[s \ {Max(s)}] \in St => it[s] = F[Max(s)][it[s \ {Max(s)}]]

\* The states of a fold, h[k] after k elements, and its result.
States(h, n, St, base, F, result) ==
  /\ h \in [0 .. n -> St]
  /\ h[0] = base
  /\ h[n] = result
  /\ \A k \in 1 .. n : h[k] = F[k][h[k - 1]]

\* What such a function holds at 1..k is the state of the fold after k elements.
LEMMA FoldSteps ==
  ASSUME NEW n \in Nat, NEW St, NEW base \in St, NEW F \in [1 .. n -> [St -> St]],
         NEW it, Computes(it, n, St, base, F)
  PROVE  \E h : States(h, n, St, base, F, it[1 .. n])
<1> DEFINE h == [k \in 0 .. n |-> it[1 .. k]]
<1>1. h[0] = base
  <2>1. h[0] = it[1 .. 0] /\ 1 .. 0 = {}
    OBVIOUS
  <2> QED  BY <2>1 DEF Computes
<1>2. ASSUME NEW k \in 1 .. n, h[k - 1] \in St PROVE h[k] = F[k][h[k - 1]]
  <2>1. k \in Nat /\ k # 0 /\ 1 .. k \in SUBSET (1 .. n)
    OBVIOUS
  <2>2. 1 .. k # {} /\ Max(1 .. k) = k /\ (1 .. k) \ {k} = 1 .. (k - 1)
    BY <2>1, Below
  <2>3. h[k] = it[1 .. k] /\ h[k - 1] = it[1 .. (k - 1)]
    OBVIOUS
  <2> HIDE DEF h
  <2>4. (1 .. k) \ {Max(1 .. k)} = 1 .. (k - 1)
    BY <2>2
  <2>5. it[(1 .. k) \ {Max(1 .. k)}] = h[k - 1]
    BY <2>3, <2>4
  <2>6. it[1 .. k] = F[Max(1 .. k)][it[(1 .. k) \ {Max(1 .. k)}]]
    BY <1>2, <2>1, <2>2, <2>5 DEF Computes
  <2> QED  BY <2>2, <2>3, <2>5, <2>6
<1>3. \A k \in 0 .. n : h[k] \in St
  <2> DEFINE S == {k \in 0 .. n : h[k] \in St}
  <2>1. 0 \in S
    BY <1>1
  <2>2. ASSUME NEW k \in 1 .. n, k - 1 \in S PROVE k \in S
    <3>1. h[k - 1] \in St /\ k \in 0 .. n
      BY <2>2
    <3> HIDE DEF h
    <3>2. h[k] = F[k][h[k - 1]]
      BY <1>2, <3>1
    <3> QED  BY <3>1, <3>2
  <2>3. \A k \in 0 .. n : k \in S
    <3> HIDE DEF S
    <3>1. \A k \in 1 .. n : k - 1 \in S => k \in S
      BY <2>2
    <3> QED  BY <2>1, <3>1, UpTo
  <2> QED  BY <2>3
<1>4. h \in [0 .. n -> St] /\ h[n] = it[1 .. n]
  BY <1>3
<1>5. \A k \in 1 .. n : k - 1 \in 0 .. n
  OBVIOUS
<1> HIDE DEF h
<1>6. States(h, n, St, base, F, it[1 .. n])
  BY <1>1, <1>2, <1>3, <1>4, <1>5 DEF States
<1> QED  BY <1>6

------------------------------------------------------------------------------
(* Induction along finite sets. *)

\* Every subset of a finite set is in G if one is whenever all smaller are.
LEMMA SubsetInduction ==
  ASSUME NEW S, IsFiniteSet(S), NEW G,
         \A T \in SUBSET S : (\A U \in SUBSET T : U # T => U \in G) => T \in G
  PROVE  \A T \in SUBSET S : T \in G
<1> DEFINE C(k) == \E T \in SUBSET S : T \notin G /\ Cardinality(T) = k
           N == {k \in Nat : C(k)}
<1>1. \A T \in SUBSET S : IsFiniteSet(T) /\ Cardinality(T) \in Nat
  BY FS_Subset, FS_CardinalityType
<1> SUFFICES ASSUME NEW T0 \in SUBSET S, T0 \notin G PROVE FALSE
  OBVIOUS
<1>2. Cardinality(T0) \in N
  BY <1>1
<1>3. N \subseteq Nat /\ N # {}
  BY <1>2
<1>4. PICK k \in N : \A m \in N : k <= m
  <2> HIDE DEF N
  <2> QED  BY <1>3, LeastNat
<1>5. PICK T \in SUBSET S : T \notin G /\ Cardinality(T) = k
  BY <1>4
<1>6. ASSUME NEW U \in SUBSET T, U # T PROVE U \in G
  <2>1. IsFiniteSet(T) /\ U \in SUBSET S
    BY <1>1
  <2>2. Cardinality(U) <= Cardinality(T) /\ Cardinality(U) # Cardinality(T)
    BY <1>6, <2>1, FS_Subset
  <2>3. Cardinality(U) \in Nat /\ Cardinality(T) \in Nat
    BY <1>1, <2>1
  <2>4. ~(k <= Cardinality(U))
    BY <1>5, <2>2, <2>3
  <2>5. Cardinality(U) \notin N
    BY <1>4, <2>4
  <2> QED  BY <2>1, <2>3, <2>5
<1> QED  BY <1>5, <1>6

------------------------------------------------------------------------------
(* Sums. *)

Pick(t) == CHOOSE x \in t : TRUE

\* The function g by which SumFunction(f) is defined.
SumEquation(g, f, S) ==
  g = [t \in SUBSET S |-> IF t = {} THEN 0 ELSE f[Pick(t)] + g[t \ {Pick(t)}]]

\* g[t] is the sum of f over t, whichever element is taken first.
IsSum(g, f, S) ==
  /\ g \in [SUBSET S -> Int]
  /\ g[{}] = 0
  /\ \A t \in SUBSET S : \A x \in t : g[t] = f[x] + g[t \ {x}]

\* What is picked from a set is in it.
LEMMA PickIn ==
  ASSUME NEW t, t # {}
  PROVE  Pick(t) \in t
  BY DEF Pick

\* That function exists: it is built up along the size of the sets.
LEMMA SumEquationSolved ==
  ASSUME NEW S, IsFiniteSet(S), NEW f \in [S -> Int]
  PROVE  \E g : SumEquation(g, f, S)
<1> DEFINE Small(k) == {t \in SUBSET S : Cardinality(t) <= k}
           Good(k, g) == \A t \in Small(k) :
             g[t] = IF t = {} THEN 0 ELSE f[Pick(t)] + g[t \ {Pick(t)}]
           n == Cardinality(S)
           K == {k \in 0 .. n : \E g \in [Small(k) -> Int] : Good(k, g)}
<1>1. n \in Nat /\ \A t \in SUBSET S : /\ IsFiniteSet(t) /\ Cardinality(t) \in 0 .. n
                                       /\ Cardinality(t) = 0 <=> t = {}
  BY FS_Subset, FS_CardinalityType, FS_EmptySet
<1>2. ASSUME NEW t \in SUBSET S, t # {}
      PROVE  /\ Pick(t) \in S /\ t \ {Pick(t)} \in SUBSET S
             /\ Cardinality(t \ {Pick(t)}) = Cardinality(t) - 1
  BY <1>1, <1>2, PickIn, FS_RemoveElement
<1> HIDE DEF n
<1>3. 0 \in K
  <2> DEFINE g == [t \in Small(0) |-> 0]
  <2>1. g \in [Small(0) -> Int]
    OBVIOUS
  <2>2. \A t \in Small(0) : t = {}
    BY <1>1
  <2>3. Good(0, g)
    BY <2>2
  <2>4. 0 \in 0 .. n
    BY <1>1
  <2> HIDE DEF g, Good, Small
  <2> QED  BY <2>1, <2>3, <2>4
<1>4. ASSUME NEW k \in 1 .. n, k - 1 \in K PROVE k \in K
  <2>1. PICK g \in [Small(k - 1) -> Int] : Good(k - 1, g)
    BY <1>4
  <2> DEFINE h == [t \in Small(k) |->
                     IF t = {} THEN 0 ELSE f[Pick(t)] + g[t \ {Pick(t)}]]
  <2>2. ASSUME NEW t \in Small(k), t # {}
        PROVE  Pick(t) \in S /\ t \ {Pick(t)} \in Small(k - 1)
    BY <1>1, <1>2, <2>2
  <2>3. h \in [Small(k) -> Int]
    <3>1. ASSUME NEW t \in Small(k)
          PROVE  (IF t = {} THEN 0 ELSE f[Pick(t)] + g[t \ {Pick(t)}]) \in Int
      <4>1. CASE t = {}
        BY <4>1
      <4>2. CASE t # {}
        <5>1. Pick(t) \in S /\ t \ {Pick(t)} \in Small(k - 1)
          BY <2>2, <4>2
        <5>2. f[Pick(t)] \in Int /\ g[t \ {Pick(t)}] \in Int
          <6> HIDE DEF Small
          <6> QED  BY <2>1, <5>1
        <5> QED  BY <4>2, <5>2
      <4> QED  BY <4>1, <4>2
    <3> HIDE DEF Small
    <3> QED  BY <3>1
  <2>4. ASSUME NEW t \in Small(k - 1) PROVE t \in Small(k) /\ h[t] = g[t]
    <3>1. t \in Small(k)
      BY <1>1
    <3>2. h[t] = IF t = {} THEN 0 ELSE f[Pick(t)] + g[t \ {Pick(t)}]
      <4> HIDE DEF Small
      <4> QED  BY <3>1
    <3>3. g[t] = IF t = {} THEN 0 ELSE f[Pick(t)] + g[t \ {Pick(t)}]
      BY <2>1
    <3> QED  BY <3>1, <3>2, <3>3
  <2>5. ASSUME NEW t \in Small(k)
        PROVE  h[t] = IF t = {} THEN 0 ELSE f[Pick(t)] + h[t \ {Pick(t)}]
    <3>1. CASE t = {}
      <4> HIDE DEF Small
      <4> QED  BY <3>1
    <3>2. CASE t # {}
      <4>1. t \ {Pick(t)} \in Small(k - 1)
        BY <2>2, <3>2
      <4>2. h[t \ {Pick(t)}] = g[t \ {Pick(t)}]
        <5> HIDE DEF Small, h
        <5> QED  BY <2>4, <4>1
      <4>3. h[t] = f[Pick(t)] + g[t \ {Pick(t)}]
        <5> HIDE DEF Small
        <5> QED  BY <3>2
      <4> HIDE DEF h
      <4> QED  BY <3>2, <4>2, <4>3
    <3> QED  BY <3>1, <3>2
  <2>6. Good(k, h)
    <3> HIDE DEF h, Small
    <3> QED  BY <2>5
  <2>7. k \in 0 .. n
    BY <1>1
  <2> HIDE DEF h, Good, Small
  <2> QED  BY <2>3, <2>6, <2>7
<1>5. n \in K
  <2> HIDE DEF K
  <2>1. \A k \in 1 .. n : k - 1 \in K => k \in K
    BY <1>4
  <2>2. \A k \in 0 .. n : k \in K
    BY <1>1, <1>3, <2>1, UpTo
  <2> QED  BY <1>1, <2>2
<1>6. PICK g \in [Small(n) -> Int] : Good(n, g)
  BY <1>5
<1>7. Small(n) = SUBSET S
  BY <1>1
<1>8. \A t \in SUBSET S : g[t] = IF t = {} THEN 0 ELSE f[Pick(t)] + g[t \ {Pick(t)}]
  BY <1>6, <1>7
<1>9. g = [t \in SUBSET S |-> g[t]]
  BY <1>6, <1>7
<1>10. SumEquation(g, f, S)
  BY <1>8, <1>9 DEF SumEquation
<1> QED  BY <1>10

\* A solution is a sum.
LEMMA SolutionIsSum ==
  ASSUME NEW S, IsFiniteSet(S), NEW f \in [S -> Int], NEW g, SumEquation(g, f, S)
  PROVE  IsSum(g, f, S)
<1>1. g[{}] = 0 /\ \A t \in SUBSET S : t # {} => g[t] = f[Pick(t)] + g[t \ {Pick(t)}]
  BY DEF SumEquation
<1>2. g = [t \in SUBSET S |-> g[t]]
  BY DEF SumEquation
<1> DEFINE G == {t \in SUBSET S : /\ g[t] \in Int
                                  /\ \A x \in t : g[t] = f[x] + g[t \ {x}]}
<1>3. ASSUME NEW t \in SUBSET S, \A u \in SUBSET t : u # t => u \in G
      PROVE  t \in G
  <2>1. CASE t = {}
    BY <1>1, <2>1
  <2>2. CASE t # {}
    <3> DEFINE c == Pick(t)
    <3>1. c \in t /\ c \in S
      BY <2>2, PickIn
    <3> HIDE DEF c
    <3>2. g[t] = f[c] + g[t \ {c}]
      BY <1>1, <2>2 DEF c
    <3>3. t \ {c} \in G
      BY <1>3, <3>1
    <3>4. g[t \ {c}] \in Int /\ f[c] \in Int
      BY <3>1, <3>3
    <3>5. ASSUME NEW x \in t, x # c PROVE g[t] = f[x] + g[t \ {x}]
      <4>1. t \ {x} \in G /\ c \in t \ {x} /\ x \in t \ {c}
        BY <1>3, <3>1, <3>5
      <4>2. g[t \ {c}] = f[x] + g[(t \ {c}) \ {x}]
        BY <3>3, <4>1
      <4>3. g[t \ {x}] = f[c] + g[(t \ {x}) \ {c}]
        BY <4>1
      <4>4. (t \ {c}) \ {x} = (t \ {x}) \ {c}
        OBVIOUS
      <4>5. (t \ {c}) \ {x} \in G
        <5>1. (t \ {c}) \ {x} \in SUBSET t /\ (t \ {c}) \ {x} # t
          BY <3>1
        <5> QED  BY <1>3, <5>1
      <4>6. g[(t \ {c}) \ {x}] \in Int /\ f[x] \in Int
        BY <4>5
      <4>7. g[(t \ {x}) \ {c}] = g[(t \ {c}) \ {x}]
        BY <4>4
      <4> DEFINE r == g[(t \ {c}) \ {x}]
      <4>8. r \in Int /\ g[t \ {c}] = f[x] + r /\ g[t \ {x}] = f[c] + r
        BY <4>2, <4>3, <4>6, <4>7
      <4> HIDE DEF r
      <4>9. f[x] + g[t \ {x}] = f[c] + (f[x] + r)
        BY <3>4, <4>6, <4>8
      <4> QED  BY <3>2, <4>8, <4>9
    <3>6. \A x \in t : g[t] = f[x] + g[t \ {x}]
      BY <3>2, <3>5
    <3>7. g[t] \in Int
      BY <3>2, <3>4
    <3> QED  BY <3>6, <3>7
  <2> QED  BY <2>1, <2>2
<1>4. \A t \in SUBSET S : t \in G
  <2> HIDE DEF G
  <2> QED  BY <1>3, SubsetInduction
<1>5. g \in [SUBSET S -> Int]
  BY <1>2, <1>4
<1> QED  BY <1>1, <1>4, <1>5 DEF IsSum

\* SumFunction is a sum.
LEMMA SumFunctionIsSum ==
  ASSUME NEW S, IsFiniteSet(S), NEW f \in [S -> Int]
  PROVE  \E g : IsSum(g, f, S) /\ SumFunction(f) = g[S]
<1> DEFINE g == CHOOSE h : SumEquation(h, f, S)
<1>1. DOMAIN f = S
  OBVIOUS
<1>2. SumFunction(f) = g[S]
  BY <1>1 DEF SumFunction, SumFunctionOnSet, FoldFunctionOnSet, MapThenFoldSet,
              SumEquation, Pick
<1>3. SumEquation(g, f, S)
  BY SumEquationSolved
<1> HIDE DEF g
<1>4. IsSum(g, f, S)
  BY <1>3, SolutionIsSum
<1> QED  BY <1>2, <1>4

\* Two sums of the same values agree on every set both know.
LEMMA SumUnique ==
  ASSUME NEW S, NEW f, NEW g, IsSum(g, f, S),
         NEW T, NEW e, NEW h, IsSum(h, e, T),
         IsFiniteSet(T), T \subseteq S, \A x \in T : f[x] = e[x]
  PROVE  \A U \in SUBSET T : g[U] = h[U]
<1> DEFINE G == {U \in SUBSET T : g[U] = h[U]}
<1>1. ASSUME NEW U \in SUBSET T, \A V \in SUBSET U : V # U => V \in G
      PROVE  U \in G
  <2>1. CASE U = {}
    BY <2>1 DEF IsSum
  <2>2. CASE U # {}
    <3>1. PICK x \in U : TRUE
      BY <2>2
    <3>2. U \ {x} \in G
      BY <1>1, <3>1
    <3>3. g[U] = f[x] + g[U \ {x}] /\ h[U] = e[x] + h[U \ {x}]
      BY <3>1 DEF IsSum
    <3> QED  BY <3>1, <3>2, <3>3
  <2> QED  BY <2>1, <2>2
<1> HIDE DEF G
<1>2. \A U \in SUBSET T : U \in G
  BY <1>1, SubsetInduction
<1> QED  BY <1>2 DEF G

\* The sum over a part of a set.
LEMMA SumOfPart ==
  ASSUME NEW S, NEW f, NEW g, IsSum(g, f, S), IsFiniteSet(S),
         NEW T, T \subseteq S, NEW e \in [T -> Int], \A x \in T : f[x] = e[x]
  PROVE  SumFunction(e) = g[T]
<1>1. IsFiniteSet(T)
  BY FS_Subset
<1>2. PICK h : IsSum(h, e, T) /\ SumFunction(e) = h[T]
  BY <1>1, SumFunctionIsSum
<1>3. \A U \in SUBSET T : g[U] = h[U]
  BY <1>1, <1>2, SumUnique
<1> QED  BY <1>2, <1>3

\* A sum of integers is an integer, one of natural numbers a natural number.
LEMMA SumType ==
  ASSUME NEW S, IsFiniteSet(S), NEW f \in [S -> Int]
  PROVE  SumFunction(f) \in Int
<1>1. PICK g : IsSum(g, f, S) /\ SumFunction(f) = g[S]
  BY SumFunctionIsSum
<1> QED  BY <1>1 DEF IsSum

\* A sum of natural numbers is one.
LEMMA SumNat ==
  ASSUME NEW S, IsFiniteSet(S), NEW f \in [S -> Int], \A x \in S : f[x] \in Nat
  PROVE  SumFunction(f) \in Nat
<1>1. PICK g : IsSum(g, f, S) /\ SumFunction(f) = g[S]
  BY SumFunctionIsSum
<1> DEFINE G == {U \in SUBSET S : g[U] \in Nat}
<1>2. ASSUME NEW U \in SUBSET S, \A V \in SUBSET U : V # U => V \in G
      PROVE  U \in G
  <2>1. CASE U = {}
    BY <1>1, <2>1 DEF IsSum
  <2>2. CASE U # {}
    <3>1. PICK x \in U : TRUE
      BY <2>2
    <3>2. U \ {x} \in G
      BY <1>2, <3>1
    <3>3. g[U] = f[x] + g[U \ {x}]
      BY <1>1, <3>1 DEF IsSum
    <3> QED  BY <3>1, <3>2, <3>3
  <2> QED  BY <2>1, <2>2
<1> HIDE DEF G
<1>3. \A U \in SUBSET S : U \in G
  BY <1>2, SubsetInduction
<1> QED  BY <1>1, <1>3 DEF G

\* The same value for each element.
LEMMA SumConst ==
  ASSUME NEW S, IsFiniteSet(S), NEW f \in [S -> Int], NEW c \in Int,
         \A x \in S : f[x] = c
  PROVE  SumFunction(f) = Cardinality(S) * c
<1>1. PICK g : IsSum(g, f, S) /\ SumFunction(f) = g[S]
  BY SumFunctionIsSum
<1> DEFINE G == {U \in SUBSET S : g[U] = Cardinality(U) * c}
<1>2. ASSUME NEW U \in SUBSET S, \A V \in SUBSET U : V # U => V \in G
      PROVE  U \in G
  <2>1. CASE U = {}
    <3>1. Cardinality(U) = 0 /\ g[U] = 0 /\ 0 * c = 0
      BY <1>1, <2>1, FS_EmptySet DEF IsSum
    <3> QED  BY <3>1
  <2>2. CASE U # {}
    <3>1. PICK x \in U : TRUE
      BY <2>2
    <3>2. U \ {x} \in G
      BY <1>2, <3>1
    <3>3. g[U] = c + g[U \ {x}]
      BY <1>1, <3>1 DEF IsSum
    <3>4. IsFiniteSet(U) /\ Cardinality(U) \in Nat
      BY FS_Subset, FS_CardinalityType
    <3>5. Cardinality(U \ {x}) = Cardinality(U) - 1
      BY <3>1, <3>4, FS_RemoveElement
    <3>6. g[U] = c + (Cardinality(U) - 1) * c
      BY <3>2, <3>3, <3>5
    <3>7. \A n \in Nat : c + (n - 1) * c = n * c
      OBVIOUS
    <3>8. g[U] = Cardinality(U) * c
      BY <3>4, <3>6, <3>7
    <3> QED  BY <3>8
  <2> QED  BY <2>1, <2>2
<1> HIDE DEF G
<1>3. \A U \in SUBSET S : U \in G
  BY <1>2, SubsetInduction
<1> QED  BY <1>1, <1>3 DEF G

\* Nothing to add.
LEMMA SumEmpty ==
  ASSUME NEW f \in [{} -> Int]
  PROVE  SumFunction(f) = 0
<1>1. IsFiniteSet({})
  BY FS_EmptySet
<1>2. PICK g : IsSum(g, f, {}) /\ SumFunction(f) = g[{}]
  BY <1>1, SumFunctionIsSum
<1> QED  BY <1>2 DEF IsSum

\* One element taken out.
LEMMA SumRemove ==
  ASSUME NEW S, IsFiniteSet(S), NEW f \in [S -> Int], NEW x \in S,
         NEW e \in [S \ {x} -> Int], \A y \in S \ {x} : f[y] = e[y]
  PROVE  SumFunction(f) = f[x] + SumFunction(e)
<1>1. PICK g : IsSum(g, f, S) /\ SumFunction(f) = g[S]
  BY SumFunctionIsSum
<1>2. S \ {x} \subseteq S
  OBVIOUS
<1>3. SumFunction(e) = g[S \ {x}]
  BY <1>1, <1>2, SumOfPart
<1>4. g[S] = f[x] + g[S \ {x}]
  BY <1>1 DEF IsSum
<1> QED  BY <1>1, <1>3, <1>4

\* One element added.
LEMMA SumInsert ==
  ASSUME NEW S, IsFiniteSet(S), NEW f \in [S -> Int], NEW x, x \notin S,
         NEW e \in [S \cup {x} -> Int], \A y \in S : f[y] = e[y]
  PROVE  SumFunction(e) = e[x] + SumFunction(f)
<1> DEFINE T == S \cup {x}
<1>1. IsFiniteSet(T) /\ x \in T /\ T \ {x} = S
  BY FS_AddElement
<1>2. f \in [T \ {x} -> Int] /\ e \in [T -> Int] /\ \A y \in T \ {x} : e[y] = f[y]
  BY <1>1
<1> HIDE DEF T
<1> QED  BY <1>1, <1>2, SumRemove

\* One element's value changed.
LEMMA SumChange ==
  ASSUME NEW S, IsFiniteSet(S), NEW f \in [S -> Int], NEW e \in [S -> Int],
         NEW x \in S, \A y \in S \ {x} : f[y] = e[y]
  PROVE  SumFunction(e) = SumFunction(f) + e[x] - f[x]
<1> DEFINE r == [y \in S \ {x} |-> f[y]]
<1>1. r \in [S \ {x} -> Int] /\ \A y \in S \ {x} : f[y] = r[y] /\ e[y] = r[y]
  OBVIOUS
<1> HIDE DEF r
<1>2. SumFunction(f) = f[x] + SumFunction(r)
  BY <1>1, SumRemove
<1>3. SumFunction(e) = e[x] + SumFunction(r)
  BY <1>1, SumRemove
<1>4. IsFiniteSet(S \ {x})
  BY FS_RemoveElement
<1>5. SumFunction(r) \in Int /\ f[x] \in Int /\ e[x] \in Int
  BY <1>1, <1>4, SumType
<1> QED  BY <1>2, <1>3, <1>5

\* Adding two functions.
LEMMA SumPlus ==
  ASSUME NEW S, IsFiniteSet(S), NEW f \in [S -> Int], NEW e \in [S -> Int],
         NEW d \in [S -> Int], \A x \in S : d[x] = f[x] + e[x]
  PROVE  SumFunction(d) = SumFunction(f) + SumFunction(e)
<1>1. PICK g : IsSum(g, f, S) /\ SumFunction(f) = g[S]
  BY SumFunctionIsSum
<1>2. PICK h : IsSum(h, e, S) /\ SumFunction(e) = h[S]
  BY SumFunctionIsSum
<1>3. PICK k : IsSum(k, d, S) /\ SumFunction(d) = k[S]
  BY SumFunctionIsSum
<1> DEFINE G == {U \in SUBSET S : k[U] = g[U] + h[U]}
<1>4. ASSUME NEW U \in SUBSET S, \A V \in SUBSET U : V # U => V \in G
      PROVE  U \in G
  <2>1. CASE U = {}
    BY <1>1, <1>2, <1>3, <2>1 DEF IsSum
  <2>2. CASE U # {}
    <3>1. PICK x \in U : TRUE
      BY <2>2
    <3>2. U \ {x} \in G
      BY <1>4, <3>1
    <3>3. /\ g[U] = f[x] + g[U \ {x}] /\ h[U] = e[x] + h[U \ {x}]
          /\ k[U] = d[x] + k[U \ {x}]
      BY <1>1, <1>2, <1>3, <3>1 DEF IsSum
    <3>4. g[U \ {x}] \in Int /\ h[U \ {x}] \in Int /\ f[x] \in Int /\ e[x] \in Int
      BY <1>1, <1>2, <3>1 DEF IsSum
    <3>5. k[U \ {x}] = g[U \ {x}] + h[U \ {x}] /\ d[x] = f[x] + e[x]
      BY <3>1, <3>2
    <3> QED  BY <3>3, <3>4, <3>5
  <2> QED  BY <2>1, <2>2
<1> HIDE DEF G
<1>5. \A U \in SUBSET S : U \in G
  BY <1>4, SubsetInduction
<1>6. S \in G
  BY <1>5
<1> QED  BY <1>1, <1>2, <1>3, <1>6 DEF G

\* The sum over two sets that have no element in common.
LEMMA SumDisjoint ==
  ASSUME NEW S, IsFiniteSet(S), NEW f \in [S -> Int], NEW g, IsSum(g, f, S),
         NEW T, NEW R, T \subseteq S, R \subseteq S, T \cap R = {}
  PROVE  g[T \cup R] = g[T] + g[R]
<1> DEFINE G == {U \in SUBSET T : g[U \cup R] = g[U] + g[R]}
<1>1. ASSUME NEW U \in SUBSET T, \A V \in SUBSET U : V # U => V \in G
      PROVE  U \in G
  <2>0. g[R] \in Int
    BY DEF IsSum
  <2>1. CASE U = {}
    <3>1. U \cup R = R
      BY <2>1
    <3> QED  BY <2>0, <2>1, <3>1 DEF IsSum
  <2>2. CASE U # {}
    <3>1. PICK x \in U : TRUE
      BY <2>2
    <3>2. U \ {x} \in G
      BY <1>1, <3>1
    <3>3. g[U] = f[x] + g[U \ {x}]
      BY <3>1 DEF IsSum
    <3>4. U \cup R \in SUBSET S /\ x \in U \cup R /\ (U \cup R) \ {x} = (U \ {x}) \cup R
      BY <3>1
    <3>5. g[U \cup R] = f[x] + g[(U \cup R) \ {x}]
      BY <3>4 DEF IsSum
    <3>6. g[U \cup R] = f[x] + g[(U \ {x}) \cup R]
      BY <3>4, <3>5
    <3>7. g[U \ {x}] \in Int
      BY DEF IsSum
    <3>8. g[(U \ {x}) \cup R] = g[U \ {x}] + g[R]
      BY <3>2
    <3>9. f[x] \in Int
      BY <3>1
    <3> QED  BY <2>0, <3>3, <3>6, <3>7, <3>8, <3>9
  <2> QED  BY <2>1, <2>2
<1> HIDE DEF G
<1>2. IsFiniteSet(T)
  BY FS_Subset
<1>3. \A U \in SUBSET T : U \in G
  BY <1>1, <1>2, SubsetInduction
<1>4. T \in G
  BY <1>3
<1> QED  BY <1>4 DEF G


\* The sum of f over some rows S of a table.
Rows(f, S) == SumFunction([x \in S |-> f[x]])

\* Rows taken out of a table and put in.
LEMMA RowsChange ==
  ASSUME NEW U, NEW f \in [U -> Int], NEW S, S \subseteq U, IsFiniteSet(S)
  PROVE  /\ Rows(f, S) \in Int
         /\ \A x \in S : Rows(f, S \ {x}) = Rows(f, S) - f[x]
         /\ \A x \in U : x \notin S => Rows(f, S \cup {x}) = Rows(f, S) + f[x]
         /\ \A T \in SUBSET S : Rows(f, S \ T) = Rows(f, S) - Rows(f, T)
         /\ (\A x \in S : f[x] \in Nat) => Rows(f, S) \in Nat
<1> DEFINE F(T) == [x \in T |-> f[x]]
<1>1. ASSUME NEW T \in SUBSET U PROVE F(T) \in [T -> Int] /\ \A x \in T : F(T)[x] = f[x]
  OBVIOUS
<1>2. \A T : Rows(f, T) = SumFunction(F(T))
  BY DEF Rows
<1> HIDE DEF F
<1>3. SumFunction(F(S)) \in Int
  BY <1>1, SumType
<1>4. ASSUME NEW x \in S
      PROVE  SumFunction(F(S \ {x})) = SumFunction(F(S)) - f[x]
  <2>1. /\ F(S) \in [S -> Int] /\ F(S \ {x}) \in [S \ {x} -> Int]
        /\ \A y \in S \ {x} : F(S)[y] = F(S \ {x})[y]
        /\ F(S)[x] = f[x]
    BY <1>1
  <2>2. SumFunction(F(S)) = F(S)[x] + SumFunction(F(S \ {x}))
    <3> DEFINE p == F(S)
               r == F(S \ {x})
    <3>1. p \in [S -> Int] /\ r \in [S \ {x} -> Int] /\ \A y \in S \ {x} : p[y] = r[y]
      BY <2>1
    <3> HIDE DEF p, r
    <3>2. SumFunction(p) = p[x] + SumFunction(r)
      BY <3>1, SumRemove
    <3> QED  BY <3>2 DEF p, r
  <2>3. IsFiniteSet(S \ {x})
    BY FS_RemoveElement
  <2>4. SumFunction(F(S \ {x})) \in Int
    BY <2>1, <2>3, SumType
  <2>5. f[x] \in Int
    OBVIOUS
  <2> QED  BY <2>1, <2>2, <2>4, <2>5
<1>5. ASSUME NEW x \in U, x \notin S
      PROVE  SumFunction(F(S \cup {x})) = SumFunction(F(S)) + f[x]
  <2>1. /\ F(S) \in [S -> Int] /\ F(S \cup {x}) \in [S \cup {x} -> Int]
        /\ \A y \in S : F(S)[y] = F(S \cup {x})[y]
        /\ F(S \cup {x})[x] = f[x]
    BY <1>1
  <2>2. SumFunction(F(S \cup {x})) = F(S \cup {x})[x] + SumFunction(F(S))
    <3> DEFINE p == F(S)
               r == F(S \cup {x})
    <3>1. p \in [S -> Int] /\ r \in [S \cup {x} -> Int] /\ \A y \in S : p[y] = r[y]
      BY <2>1
    <3> HIDE DEF p, r
    <3>2. SumFunction(r) = r[x] + SumFunction(p)
      BY <1>5, <3>1, SumInsert
    <3> QED  BY <3>2 DEF p, r
  <2>3. f[x] \in Int
    OBVIOUS
  <2> QED  BY <1>3, <2>1, <2>2, <2>3
<1>6. ASSUME NEW T \in SUBSET S
      PROVE  SumFunction(F(S \ T)) = SumFunction(F(S)) - SumFunction(F(T))
  <2>1. /\ F(S) \in [S -> Int] /\ F(S \ T) \in [S \ T -> Int] /\ F(T) \in [T -> Int]
        /\ \A y \in S \ T : F(S)[y] = F(S \ T)[y]
        /\ \A y \in T : F(S)[y] = F(T)[y]
    BY <1>1
  <2>2. SumFunction(F(S)) = SumFunction(F(T)) + SumFunction(F(S \ T))
    <3> DEFINE p == F(S)
               d == F(T)
               r == F(S \ T)
    <3>1. /\ p \in [S -> Int] /\ d \in [T -> Int] /\ r \in [S \ T -> Int]
          /\ \A y \in T : p[y] = d[y]
          /\ \A y \in S \ T : p[y] = r[y]
      BY <2>1
    <3> HIDE DEF p, d, r
    <3>2. T \subseteq S
      OBVIOUS
    <3>3. PICK g : IsSum(g, p, S) /\ SumFunction(p) = g[S]
      BY <3>1, SumFunctionIsSum
    <3>4. SumFunction(d) = g[T]
      BY <3>1, <3>2, <3>3, SumOfPart
    <3>5. S \ T \subseteq S /\ T \cap (S \ T) = {} /\ T \cup (S \ T) = S
      OBVIOUS
    <3>6. SumFunction(r) = g[S \ T]
      BY <3>1, <3>3, <3>5, SumOfPart
    <3>7. g[T \cup (S \ T)] = g[T] + g[S \ T]
      BY <3>1, <3>2, <3>3, <3>5, SumDisjoint
    <3>8. SumFunction(p) = SumFunction(d) + SumFunction(r)
      BY <3>3, <3>4, <3>5, <3>6, <3>7
    <3> QED  BY <3>8 DEF p, d, r
  <2>3. IsFiniteSet(T) /\ IsFiniteSet(S \ T)
    BY FS_Subset, FS_Difference
  <2>4. SumFunction(F(T)) \in Int /\ SumFunction(F(S \ T)) \in Int
    BY <2>1, <2>3, SumType
  <2> QED  BY <2>2, <2>4
<1>7. ASSUME \A x \in S : f[x] \in Nat PROVE SumFunction(F(S)) \in Nat
  BY <1>1, <1>7, SumNat
<1> QED  BY <1>2, <1>3, <1>4, <1>5, <1>6, <1>7

\* What belongs to each of several owners, added up, is what there is.
LEMMA SumByOwner ==
  ASSUME NEW S, IsFiniteSet(S), NEW f \in [S -> Int], NEW A, IsFiniteSet(A),
         NEW own \in [S -> A], NEW d \in [A -> Int],
         \A a \in A : d[a] = SumFunction([x \in {y \in S : own[y] = a} |-> f[x]])
  PROVE  SumFunction(d) = SumFunction(f)
<1> DEFINE Of(B) == {y \in S : own[y] \in B}
<1>1. PICK g : IsSum(g, f, S) /\ SumFunction(f) = g[S]
  BY SumFunctionIsSum
<1>2. PICK h : IsSum(h, d, A) /\ SumFunction(d) = h[A]
  BY SumFunctionIsSum
<1>3. ASSUME NEW a \in A PROVE d[a] = g[Of({a})]
  <2> DEFINE e == [x \in {y \in S : own[y] = a} |-> f[x]]
             T == {y \in S : own[y] = a}
  <2>1. T \subseteq S /\ e \in [T -> Int] /\ \A x \in T : f[x] = e[x]
    OBVIOUS
  <2>2. d[a] = SumFunction(e) /\ T = Of({a})
    OBVIOUS
  <2> HIDE DEF e, T, Of
  <2>3. SumFunction(e) = g[T]
    BY <1>1, <2>1, SumOfPart
  <2> QED  BY <2>2, <2>3
<1> DEFINE G == {B \in SUBSET A : h[B] = g[Of(B)]}
<1>4. ASSUME NEW B \in SUBSET A, \A V \in SUBSET B : V # B => V \in G
      PROVE  B \in G
  <2>1. CASE B = {}
    <3>1. Of(B) = {}
      BY <2>1
    <3>2. h[B] = 0 /\ g[{}] = 0
      BY <1>1, <1>2, <2>1 DEF IsSum
    <3> QED  BY <3>1, <3>2
  <2>2. CASE B # {}
    <3>1. PICK a \in B : TRUE
      BY <2>2
    <3>2. B \ {a} \in G
      BY <1>4, <3>1
    <3>3. h[B] = d[a] + h[B \ {a}]
      BY <1>2, <3>1 DEF IsSum
    <3>4. /\ Of({a}) \cap Of(B \ {a}) = {} /\ Of({a}) \cup Of(B \ {a}) = Of(B)
          /\ Of({a}) \subseteq S /\ Of(B \ {a}) \subseteq S
      BY <3>1
    <3>5. d[a] = g[Of({a})] /\ h[B \ {a}] = g[Of(B \ {a})]
      BY <1>3, <3>1, <3>2
    <3> HIDE DEF Of
    <3>6. g[Of({a}) \cup Of(B \ {a})] = g[Of({a})] + g[Of(B \ {a})]
      <4> DEFINE P == Of({a})
                 Q == Of(B \ {a})
      <4>1. P \subseteq S /\ Q \subseteq S /\ P \cap Q = {}
        BY <3>4
      <4> HIDE DEF P, Q
      <4>2. g[P \cup Q] = g[P] + g[Q]
        BY <1>1, <4>1, SumDisjoint
      <4> QED  BY <4>2 DEF P, Q
    <3> QED  BY <3>3, <3>4, <3>5, <3>6
  <2> QED  BY <2>1, <2>2
<1>5. Of(A) = S
  OBVIOUS
<1> HIDE DEF G, Of
<1>6. \A B \in SUBSET A : B \in G
  BY <1>4, SubsetInduction
<1>7. A \in G
  BY <1>6
<1> QED  BY <1>1, <1>2, <1>5, <1>7 DEF G

\* Nothing but zeros.
LEMMA SumZero ==
  ASSUME NEW S, IsFiniteSet(S), NEW f \in [S -> Int], \A x \in S : f[x] = 0
  PROVE  SumFunction(f) = 0
<1>1. SumFunction(f) = Cardinality(S) * 0
  BY SumConst
<1>2. Cardinality(S) \in Nat
  BY FS_CardinalityType
<1> QED  BY <1>1, <1>2

\* One element that counts among zeros.
LEMMA SumAt ==
  ASSUME NEW S, IsFiniteSet(S), NEW f \in [S -> Int], NEW x \in S,
         \A y \in S \ {x} : f[y] = 0
  PROVE  SumFunction(f) = f[x]
<1> DEFINE z == [y \in S |-> 0]
<1>1. z \in [S -> Int] /\ z[x] = 0 /\ \A y \in S : z[y] = 0
  OBVIOUS
<1>2. \A y \in S \ {x} : z[y] = f[y]
  BY <1>1
<1> HIDE DEF z
<1>3. SumFunction(z) = 0
  BY <1>1, SumZero
<1>4. SumFunction(f) = SumFunction(z) + f[x] - z[x]
  BY <1>1, <1>2, SumChange
<1>5. f[x] \in Int
  OBVIOUS
<1> QED  BY <1>1, <1>3, <1>4, <1>5

\* d has the values of f at other places, among zeros.
Into(h, f, S, d, A) ==
  /\ h \in [S -> A] /\ \A x, y \in S : h[x] = h[y] => x = y
  /\ f \in [S -> Int] /\ d \in [A -> Int]
  /\ \A x \in S : d[h[x]] = f[x]
  /\ \A b \in A : (\A x \in S : h[x] # b) => d[b] = 0

\* That changes nothing in the sum.
LEMMA SumInto ==
  ASSUME NEW S, IsFiniteSet(S), NEW A, IsFiniteSet(A), NEW f, NEW d, NEW h,
         Into(h, f, S, d, A)
  PROVE  SumFunction(d) = SumFunction(f)
<1>0. /\ h \in [S -> A] /\ \A x, y \in S : h[x] = h[y] => x = y
      /\ f \in [S -> Int] /\ d \in [A -> Int]
      /\ \A x \in S : d[h[x]] = f[x]
      /\ \A b \in A : (\A x \in S : h[x] # b) => d[b] = 0
  BY DEF Into
<1>1. ASSUME NEW b \in A
      PROVE  d[b] = SumFunction([x \in {y \in S : h[y] = b} |-> f[x]])
  <2> DEFINE T == {y \in S : h[y] = b}
             e == [x \in T |-> f[x]]
  <2>1. IsFiniteSet(T)
    <3>1. T \subseteq S
      OBVIOUS
    <3> QED  BY <3>1, FS_Subset
  <2>2. e \in [T -> Int] /\ \A x \in T : e[x] = f[x]
    BY <1>0
  <2>3. CASE \A x \in S : h[x] # b
    <3>1. \A x \in T : e[x] = 0
      BY <2>3
    <3>2. SumFunction(e) = 0
      <4> HIDE DEF e, T
      <4> QED  BY <2>1, <2>2, <3>1, SumZero
    <3>3. d[b] = 0
      BY <1>0, <2>3
    <3> QED  BY <3>2, <3>3
  <2>4. CASE \E x \in S : h[x] = b
    <3>1. PICK x \in S : h[x] = b
      BY <2>4
    <3>2. x \in T /\ \A y \in T \ {x} : e[y] = 0
      BY <1>0, <3>1
    <3>3. SumFunction(e) = e[x]
      <4> HIDE DEF e, T
      <4> QED  BY <2>1, <2>2, <3>2, SumAt
    <3>4. e[x] = f[x] /\ d[b] = f[x]
      BY <1>0, <3>1, <3>2
    <3> QED  BY <3>3, <3>4
  <2> QED  BY <2>3, <2>4
<1> QED  BY <1>0, <1>1, SumByOwner

\* d has the values of f k places further, after zeros.
Shifts(d, f, n, k) ==
  /\ \A i \in 0 .. n - k : d[i + k] = f[i]
  /\ \A j \in 0 .. n : j < k => d[j] = 0

\* That changes nothing in the sum.
LEMMA SumShifted ==
  ASSUME NEW n \in Nat, NEW k \in 0 .. n, NEW f \in [0 .. n - k -> Int],
         NEW d \in [0 .. n -> Int], Shifts(d, f, n, k)
  PROVE  SumFunction(d) = SumFunction(f)
<1> DEFINE S == 0 .. n - k
           A == 0 .. n
           h == [i \in S |-> i + k]
<1>1. IsFiniteSet(S) /\ IsFiniteSet(A) /\ h \in [S -> A]
  BY FS_Interval
<1>2. \A x, y \in S : h[x] = h[y] => x = y
  OBVIOUS
<1>3. \A x \in S : d[h[x]] = f[x]
  BY DEF Shifts
<1>4. ASSUME NEW b \in A, \A x \in S : h[x] # b PROVE d[b] = 0
  <2>1. CASE b >= k
    <3>1. b - k \in S /\ h[b - k] = b
      BY <2>1
    <3> QED  BY <1>4, <3>1
  <2> QED  BY <2>1 DEF Shifts
<1>5. f \in [S -> Int] /\ d \in [A -> Int]
  OBVIOUS
<1>6. Into(h, f, S, d, A)
  <2> HIDE DEF h
  <2> QED  BY <1>1, <1>2, <1>3, <1>4, <1>5 DEF Into
<1> HIDE DEF S, A, h
<1> QED  BY <1>1, <1>6, SumInto

\* One row of a table changed.
LEMMA RowsAlter ==
  ASSUME NEW U, NEW f \in [U -> Int], NEW e \in [U -> Int], NEW S, S \subseteq U,
         IsFiniteSet(S), NEW x, \A y \in S \ {x} : f[y] = e[y]
  PROVE  Rows(e, S) = IF x \in S THEN Rows(f, S) + e[x] - f[x] ELSE Rows(f, S)
<1> DEFINE F == [y \in S |-> f[y]]
           E == [y \in S |-> e[y]]
<1>1. F \in [S -> Int] /\ E \in [S -> Int]
  OBVIOUS
<1>2. \A y \in S : F[y] = f[y] /\ E[y] = e[y]
  OBVIOUS
<1>3. Rows(f, S) = SumFunction(F) /\ Rows(e, S) = SumFunction(E)
  BY DEF Rows
<1>4. CASE x \in S
  <2> HIDE DEF F, E
  <2>1. \A y \in S \ {x} : F[y] = E[y]
    BY <1>2
  <2>2. SumFunction(E) = SumFunction(F) + E[x] - F[x]
    BY <1>1, <1>4, <2>1, SumChange
  <2> QED  BY <1>2, <1>3, <1>4, <2>2
<1>5. CASE x \notin S
  <2>1. F = E
    BY <1>5
  <2> QED  BY <1>3, <1>5, <2>1
<1> QED  BY <1>4, <1>5

\* More rows of natural numbers add up to more.
LEMMA RowsMore ==
  ASSUME NEW U, NEW f \in [U -> Int], NEW T, T \subseteq U, IsFiniteSet(T),
         \A x \in T : f[x] \in Nat, NEW S, S \subseteq T
  PROVE  Rows(f, S) <= Rows(f, T)
<1>1. IsFiniteSet(T \ S) /\ IsFiniteSet(S)
  BY FS_Subset
<1>2. T \ S \subseteq U /\ S \subseteq U /\ S \in SUBSET T
  OBVIOUS
<1>3. Rows(f, T \ S) = Rows(f, T) - Rows(f, S)
  BY <1>2, RowsChange
<1>4. Rows(f, T) \in Int /\ Rows(f, S) \in Int
  BY <1>1, <1>2, RowsChange
<1>5. Rows(f, T \ S) \in Nat
  <2>1. \A x \in T \ S : f[x] \in Nat
    OBVIOUS
  <2> QED  BY <1>1, <1>2, <2>1, RowsChange
<1> QED  BY <1>3, <1>4, <1>5

------------------------------------------------------------------------------
(* Sets in an order. *)

\* R orders the elements of S.
Orders(R, S) ==
  /\ \A x, y \in S : x # y => <<x, y>> \in R \/ <<y, x>> \in R
  /\ \A x, y, z \in S : <<x, y>> \in R /\ <<y, z>> \in R => <<x, z>> \in R

\* q lists the elements of S in that order.
Sorted(q, R, S) ==
  q \in SetToSeqs(S) /\ \A i, j \in DOMAIN q : i < j => <<q[i], q[j]>> \in R

\* A finite set that is not empty has an element that comes last.
LEMMA LastExists ==
  ASSUME NEW S, IsFiniteSet(S), NEW R, Orders(R, S)
  PROVE  \A T \in SUBSET S : T # {} => \E m \in T : \A x \in T : x # m => <<x, m>> \in R
<1> DEFINE Has(T) == T # {} => \E m \in T : \A x \in T : x # m => <<x, m>> \in R
           G == {T \in SUBSET S : Has(T)}
<1>1. ASSUME NEW T \in SUBSET S, \A U \in SUBSET T : U # T => U \in G
      PROVE  T \in G
  <2>1. CASE T = {}
    BY <2>1
  <2>2. CASE T # {}
    <3>1. PICK x \in T : TRUE
      BY <2>2
    <3>2. CASE T = {x}
      <4>1. \A y \in T : y # x => <<y, x>> \in R
        BY <3>2
      <4> QED  BY <3>1, <4>1
    <3>3. CASE T # {x}
      <4>1. T \ {x} \in SUBSET T /\ T \ {x} # T /\ T \ {x} # {}
        BY <3>1, <3>3
      <4>2. T \ {x} \in G
        BY <1>1, <4>1
      <4>3. PICK m \in T \ {x} : \A y \in T \ {x} : y # m => <<y, m>> \in R
        BY <4>1, <4>2
      <4>4. CASE <<x, m>> \in R
        <5>1. \A y \in T : y # m => <<y, m>> \in R
          BY <4>3, <4>4
        <5> QED  BY <4>3, <5>1
      <4>5. CASE <<m, x>> \in R
        <5>1. ASSUME NEW y \in T, y # x PROVE <<y, x>> \in R
          <6>1. CASE y = m
            BY <4>5, <6>1
          <6>2. CASE y # m
            <7>1. <<y, m>> \in R /\ y \in S /\ m \in S /\ x \in S
              BY <4>3, <5>1, <6>2
            <7> QED  BY <4>5, <7>1 DEF Orders
          <6> QED  BY <6>1, <6>2
        <5> QED  BY <3>1, <5>1
      <4>6. <<x, m>> \in R \/ <<m, x>> \in R
        BY <3>1, <4>3 DEF Orders
      <4> QED  BY <4>4, <4>5, <4>6
    <3> QED  BY <3>2, <3>3
  <2> QED  BY <2>1, <2>2
<1> HIDE DEF G
<1>2. \A T \in SUBSET S : T \in G
  BY <1>1, SubsetInduction
<1> QED  BY <1>2 DEF G

\* Every finite set can be listed in its order.
LEMMA SortExists ==
  ASSUME NEW S, IsFiniteSet(S), NEW R, Orders(R, S)
  PROVE  \E q : Sorted(q, R, S)
<1> DEFINE G == {T \in SUBSET S : \E q : Sorted(q, R, T)}
<1>1. ASSUME NEW T \in SUBSET S, \A U \in SUBSET T : U # T => U \in G
      PROVE  T \in G
  <2>0. IsFiniteSet(T) /\ Cardinality(T) \in Nat
    BY FS_Subset, FS_CardinalityType
  <2>1. CASE T = {}
    <3> DEFINE q == [i \in 1 .. 0 |-> i]
    <3>1. Cardinality(T) = 0
      BY <2>1, FS_EmptySet
    <3>2. q \in [1 .. 0 -> T] /\ DOMAIN q = {}
      OBVIOUS
    <3>3. Sorted(q, R, T)
      BY <3>1, <3>2 DEF Sorted, SetToSeqs
    <3> HIDE DEF q
    <3> QED  BY <3>3
  <2>2. CASE T # {}
    <3>1. PICK m \in T : \A x \in T : x # m => <<x, m>> \in R
      BY <2>2, LastExists
    <3>2. T \ {m} \in G
      BY <1>1, <3>1
    <3>3. PICK p : Sorted(p, R, T \ {m})
      BY <3>2
    <3> DEFINE n == Cardinality(T)
               q == [i \in 1 .. n |-> IF i = n THEN m ELSE p[i]]
    <3>4. n \in Nat /\ Cardinality(T \ {m}) = n - 1
      BY <2>0, <3>1, FS_RemoveElement
    <3> HIDE DEF n
    <3>5. /\ p \in [1 .. n - 1 -> T \ {m}] /\ DOMAIN p = 1 .. n - 1
          /\ \A i, j \in 1 .. n - 1 : i # j => p[i] # p[j]
      BY <3>3, <3>4 DEF Sorted, SetToSeqs
    <3>6. \A i \in 1 .. n : i # n => i \in 1 .. n - 1 /\ q[i] = p[i] /\ p[i] \in T \ {m}
      BY <3>4, <3>5
    <3>7. \A i \in 1 .. n : i = n => q[i] = m
      OBVIOUS
    <3>8. q \in [1 .. n -> T]
      BY <3>1, <3>6
    <3>9. DOMAIN q = 1 .. n
      OBVIOUS
    <3> HIDE DEF q
    <3>10. ASSUME NEW i \in 1 .. n, NEW j \in 1 .. n, i # j PROVE q[i] # q[j]
      <4>1. CASE i # n /\ j # n
        BY <3>5, <3>6, <3>10, <4>1
      <4>2. CASE i = n \/ j = n
        BY <3>6, <3>7, <3>10, <4>2
      <4> QED  BY <4>1, <4>2
    <3>11. ASSUME NEW i \in 1 .. n, NEW j \in 1 .. n, i < j PROVE <<q[i], q[j]>> \in R
      <4>1. i # n
        BY <3>4, <3>11
      <4>2. CASE j = n
        BY <3>1, <3>6, <3>7, <4>1, <4>2
      <4>3. CASE j # n
        <5>1. i \in DOMAIN p /\ j \in DOMAIN p
          BY <3>5, <3>6, <4>1, <4>3
        <5>2. <<p[i], p[j]>> \in R
          BY <3>3, <3>11, <5>1 DEF Sorted
        <5> QED  BY <3>6, <4>1, <4>3, <5>2
      <4> QED  BY <4>2, <4>3
    <3>12. Sorted(q, R, T)
      BY <3>8, <3>9, <3>10, <3>11 DEF Sorted, SetToSeqs, n
    <3> QED  BY <3>12
  <2> QED  BY <2>1, <2>2
<1> HIDE DEF G
<1>2. \A T \in SUBSET S : T \in G
  BY <1>1, SubsetInduction
<1>3. S \in G
  BY <1>2
<1> QED  BY <1>3 DEF G

\* A list of a set has all its elements.
LEMMA ListedAll ==
  ASSUME NEW S, IsFiniteSet(S), NEW q \in SetToSeqs(S)
  PROVE  /\ q \in Seq(S) /\ DOMAIN q = 1 .. Len(q)
         /\ \A i, j \in DOMAIN q : i # j => q[i] # q[j]
         /\ \A x \in S : \E i \in DOMAIN q : q[i] = x
<1> DEFINE n == Cardinality(S)
<1>1. n \in Nat
  BY FS_CardinalityType
<1>2. q \in [1 .. n -> S] /\ \A i, j \in 1 .. n : i # j => q[i] # q[j]
  BY DEF SetToSeqs
<1>3. q \in Seq(S) /\ Len(q) = n /\ DOMAIN q = 1 .. n
  BY <1>1, <1>2
<1>4. q \in Injection(1 .. n, S)
  BY <1>2 DEF Injection, IsInjective
<1>5. Cardinality(1 .. n) = n
  BY <1>1, FS_Interval
<1>6. q \in Surjection(1 .. n, S)
  BY <1>4, <1>5, FS_Injection
<1>7. \A x \in S : \E i \in 1 .. n : q[i] = x
  BY <1>6 DEF Surjection
<1> QED  BY <1>2, <1>3, <1>7

=============================================================================
