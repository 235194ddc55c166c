-------------------------- MODULE GovernanceProofs --------------------------
(***************************************************************************)
(* For any accounts, witnesses, proposals, periods and limits: the votes   *)
(* every account and every witness holds are what a recount would give,    *)
(* delayed votes are counted exactly, every VEST votes at most once, and   *)
(* nobody's governance votes are for ever.                                 *)
(***************************************************************************)
EXTENDS Governance, FoldTheorems

------------------------------------------------------------------------------
(* Chains of proxies. *)

Above == Accounts \cup {NoProxy}
ProxyMap == [Accounts -> Above]

\* One step up.
Up(p, x) == IF x = NoProxy THEN NoProxy ELSE p[x]

\* What the constants are.
LEMMA Constants ==
  /\ Depth \in Nat /\ Depth >= 1
  /\ NoProxy \notin Accounts /\ Null \in Accounts /\ Account \subseteq Accounts
  /\ Null \notin Account
  /\ IsFiniteSet(Accounts) /\ IsFiniteSet(Witness) /\ IsFiniteSet(Proposal)
  /\ Elected \subseteq Witness
  /\ Proposal \subseteq Nat
  /\ DelayInterval \in Nat /\ DelayInterval >= 1 /\ DelayTotal \in Nat /\ DelayTotal >= 1
  /\ ExpirationPeriod \in Nat /\ ExpirationPeriod >= 1
  /\ DeclinePeriod \in Nat /\ WithdrawInterval \in Nat
  /\ WithdrawIntervals \in Nat /\ WithdrawIntervals >= 1
  /\ Percent100 \in Nat /\ Percent100 >= 1
  /\ RemoveThreshold \in Nat /\ RemoveThreshold >= 1
  /\ MaxWitnessVotes \in Nat /\ Stake \in Nat /\ MaxTime \in Nat
<1>1. IsFiniteSet(Account \cup {Null})
  BY GovernanceAssumption, FS_AddElement
<1> QED  BY <1>1, GovernanceAssumption DEF Accounts

\* f is the chain of proxies from a, as far as n.
IsChain(f, p, a, n) ==
  /\ f \in [0 .. n -> Above]
  /\ f[0] = a
  /\ \A k \in 1 .. n : f[k] = Up(p, f[k - 1])

\* There is one, ...
LEMMA ChainExists ==
  ASSUME NEW p \in ProxyMap, NEW a \in Above
  PROVE  \E f : IsChain(f, p, a, Depth)
<1> DEFINE S == {n \in 0 .. Depth : \E f : IsChain(f, p, a, n)}
<1>0. Depth \in Nat
  BY Constants
<1>1. 0 \in S
  <2>1. IsChain([k \in 0 .. 0 |-> a], p, a, 0)
    BY DEF IsChain
  <2> QED  BY <1>0, <2>1
<1>2. ASSUME NEW n \in 1 .. Depth, n - 1 \in S PROVE n \in S
  <2>1. PICK f : IsChain(f, p, a, n - 1)
    BY <1>2
  <2> DEFINE g == [k \in 0 .. n |-> IF k = n THEN Up(p, f[n - 1]) ELSE f[k]]
  <2>2. f[n - 1] \in Above
    BY <1>0, <2>1 DEF IsChain
  <2>3. Up(p, f[n - 1]) \in Above
    BY <2>2 DEF Up, ProxyMap, Above
  <2>4. g \in [0 .. n -> Above] /\ g[0] = a
    BY <1>0, <2>1, <2>3 DEF IsChain
  <2>5. ASSUME NEW k \in 1 .. n PROVE g[k] = Up(p, g[k - 1])
    <3>1. CASE k = n
      <4>1. g[k] = Up(p, f[n - 1]) /\ g[n - 1] = f[n - 1]
        BY <1>0, <3>1
      <4> QED  BY <3>1, <4>1
    <3>2. CASE k # n
      <4>1. k \in 1 .. n - 1 /\ g[k] = f[k] /\ g[k - 1] = f[k - 1]
        BY <1>0, <3>2
      <4> QED  BY <2>1, <4>1 DEF IsChain
    <3> QED  BY <3>1, <3>2
  <2> HIDE DEF g
  <2> QED  BY <1>0, <2>4, <2>5 DEF IsChain
<1> HIDE DEF S
<1>3. Depth \in S
  BY <1>0, <1>1, <1>2, UpTo
<1> QED  BY <1>3 DEF S

\* ... and Chain is it.
LEMMA ChainIs ==
  ASSUME NEW p \in ProxyMap, NEW a \in Above
  PROVE  IsChain(Chain(p, a), p, a, Depth)
<1> DEFINE Eq(f) == f = [k \in 0 .. Depth |->
                           IF k = 0 THEN a
                           ELSE IF f[k - 1] = NoProxy THEN NoProxy ELSE p[f[k - 1]]]
<1>0. Depth \in Nat
  BY Constants
<1>1. PICK f : IsChain(f, p, a, Depth)
  BY ChainExists
<1>2. Eq(f)
  <2> DEFINE g == [k \in 0 .. Depth |->
                     IF k = 0 THEN a
                     ELSE IF f[k - 1] = NoProxy THEN NoProxy ELSE p[f[k - 1]]]
  <2>1. \A k \in 0 .. Depth : f[k] = g[k]
    BY <1>0, <1>1 DEF IsChain, Up
  <2>2. f = [k \in 0 .. Depth |-> f[k]]
    BY <1>1 DEF IsChain
  <2> QED  BY <2>1, <2>2
<1>3. Chain(p, a) = CHOOSE h : Eq(h)
  BY DEF Chain
<1> DEFINE c == Chain(p, a)
<1>4. Eq(c)
  BY <1>2, <1>3, ZenonT(60)
<1> HIDE DEF c
<1>5. \A k \in 0 .. Depth : c[k] = IF k = 0 THEN a ELSE Up(p, c[k - 1])
  BY <1>4 DEF Up
<1>6. c = [k \in 0 .. Depth |-> c[k]]
  BY <1>4
<1> DEFINE S == {n \in 0 .. Depth : c[n] \in Above}
<1>7. 0 \in S
  BY <1>0, <1>5
<1>8. ASSUME NEW n \in 1 .. Depth, n - 1 \in S PROVE n \in S
  <2>1. c[n] = Up(p, c[n - 1]) /\ c[n - 1] \in Above
    BY <1>0, <1>5, <1>8
  <2>2. c[n] \in Above
    BY <2>1 DEF Up, ProxyMap, Above
  <2> QED  BY <1>0, <2>2
<1> HIDE DEF S
<1>9. \A n \in 0 .. Depth : n \in S
  BY <1>0, <1>7, <1>8, UpTo
<1>10. c \in [0 .. Depth -> Above]
  BY <1>6, <1>9 DEF S
<1>11. c[0] = a /\ \A k \in 1 .. Depth : c[k] = Up(p, c[k - 1])
  BY <1>0, <1>5
<1> QED  BY <1>10, <1>11 DEF IsChain, c

\* The parts of that, for use.
LEMMA Steps ==
  ASSUME NEW p \in ProxyMap, NEW a \in Above
  PROVE  /\ \A k \in 0 .. Depth : Chain(p, a)[k] \in Above
         /\ Chain(p, a)[0] = a
         /\ \A k \in 0 .. Depth - 1 : Chain(p, a)[k + 1] = Up(p, Chain(p, a)[k])
<1>0. Depth \in Nat
  BY Constants
<1> DEFINE c == Chain(p, a)
<1>1. IsChain(c, p, a, Depth)
  BY ChainIs
<1> HIDE DEF c
<1>2. \A k \in 0 .. Depth : c[k] \in Above
  BY <1>0, <1>1 DEF IsChain
<1>3. ASSUME NEW k \in 0 .. Depth - 1 PROVE c[k + 1] = Up(p, c[k])
  <2>1. k + 1 \in 1 .. Depth /\ (k + 1) - 1 = k
    BY <1>0
  <2> QED  BY <1>1, <2>1 DEF IsChain
<1> QED  BY <1>1, <1>2, <1>3 DEF IsChain, c

\* Above an account without proxy there is nothing.
LEMMA Ended ==
  ASSUME NEW p \in ProxyMap, NEW a \in Above, NEW k \in 0 .. Depth, Chain(p, a)[k] = NoProxy
  PROVE  \A l \in k .. Depth : Chain(p, a)[l] = NoProxy
<1> DEFINE c == Chain(p, a)
           S == {m \in 0 .. Depth - k : c[k + m] = NoProxy}
<1>0. Depth \in Nat /\ Depth - k \in Nat /\ k \in Nat
  BY Constants
<1>1. \A m \in 0 .. Depth - 1 : c[m + 1] = Up(p, c[m])
  BY Steps
<1>2. 0 \in S
  BY <1>0
<1>3. ASSUME NEW m \in 1 .. Depth - k, m - 1 \in S PROVE m \in S
  <2>1. c[k + (m - 1)] = NoProxy
    BY <1>3
  <2> HIDE DEF c
  <2>2. k + (m - 1) \in 0 .. Depth - 1 /\ (k + (m - 1)) + 1 = k + m
    BY <1>0
  <2>3. c[k + m] = NoProxy
    BY <1>1, <2>1, <2>2 DEF Up
  <2> QED  BY <1>0, <2>3
<1> HIDE DEF S
<1>4. \A m \in 0 .. Depth - k : m \in S
  BY <1>0, <1>2, <1>3, UpTo
<1>5. ASSUME NEW l \in k .. Depth PROVE c[l] = NoProxy
  <2>1. l - k \in 0 .. Depth - k /\ k + (l - k) = l
    BY <1>0
  <2>2. l - k \in S
    BY <1>4, <2>1
  <2> QED  BY <2>1, <2>2 DEF S
<1> QED  BY <1>5

\* A chain goes on as the chain of the account it has reached.
LEMMA From ==
  ASSUME NEW p \in ProxyMap, NEW a \in Above, NEW k \in 0 .. Depth,
         NEW l \in 0 .. Depth - k
  PROVE  Chain(p, a)[k + l] = Chain(p, Chain(p, a)[k])[l]
<1> DEFINE c == Chain(p, a)
           x == c[k]
           e == Chain(p, x)
           S == {m \in 0 .. Depth - k : c[k + m] = e[m]}
<1>0. Depth \in Nat /\ Depth - k \in Nat /\ k \in Nat
  BY Constants
<1>1. \A m \in 0 .. Depth - 1 : c[m + 1] = Up(p, c[m])
  BY Steps
<1>2. x \in Above
  BY Steps
<1>3. e[0] = x /\ \A m \in 0 .. Depth - 1 : e[m + 1] = Up(p, e[m])
  <2> HIDE DEF x
  <2> QED  BY <1>2, Steps
<1> HIDE DEF c, e
<1>4. 0 \in S
  BY <1>0, <1>3
<1>5. ASSUME NEW m \in 1 .. Depth - k, m - 1 \in S PROVE m \in S
  <2>1. c[k + (m - 1)] = e[m - 1]
    BY <1>5
  <2>2. /\ k + (m - 1) \in 0 .. Depth - 1 /\ (k + (m - 1)) + 1 = k + m
        /\ m - 1 \in 0 .. Depth - 1 /\ (m - 1) + 1 = m
    BY <1>0
  <2>3. c[k + m] = e[m]
    BY <1>1, <1>3, <2>1, <2>2
  <2> QED  BY <1>0, <2>3
<1> HIDE DEF S
<1>6. l \in S
  BY <1>0, <1>4, <1>5, UpTo
<1> QED  BY <1>6 DEF S, e, c, x

\* No set of accounts is closed under taking proxies: there are no cycles.
Acyclic(p) == \A S \in SUBSET Accounts : S # {} => \E x \in S : p[x] \notin S

\* So nobody is its own proxy, through any number of others.
LEMMA NoReturn ==
  ASSUME NEW p \in ProxyMap, Acyclic(p), NEW x \in Accounts, NEW k \in 1 .. Depth
  PROVE  Chain(p, x)[k] # x
<1> DEFINE c == Chain(p, x)
           S == {c[m] : m \in 0 .. k - 1}
<1> SUFFICES ASSUME c[k] = x PROVE FALSE
  OBVIOUS
<1>0. Depth \in Nat /\ k \in Nat /\ NoProxy \notin Accounts
  BY Constants
<1>1. /\ \A m \in 0 .. Depth : c[m] \in Above
      /\ c[0] = x
      /\ \A m \in 0 .. Depth - 1 : c[m + 1] = Up(p, c[m])
  BY Steps DEF Above
<1>2. ASSUME NEW m \in 0 .. k - 1 PROVE c[m] \in Accounts
  <2>1. CASE c[m] = NoProxy
    <3>1. m \in 0 .. Depth /\ k \in m .. Depth
      BY <1>0
    <3>2. x \in Above
      BY DEF Above
    <3>3. c[k] = NoProxy
      BY <2>1, <3>1, <3>2, Ended
    <3> QED  BY <1>0, <3>3
  <2>2. CASE c[m] # NoProxy
    <3>1. m \in 0 .. Depth
      BY <1>0
    <3> QED  BY <1>1, <2>2, <3>1 DEF Above
  <2> QED  BY <2>1, <2>2
<1> HIDE DEF c
<1>3. S \in SUBSET Accounts /\ S # {}
  <2>1. 0 \in 0 .. k - 1
    BY <1>0
  <2> QED  BY <1>2, <2>1
<1>4. ASSUME NEW y \in S PROVE p[y] \in S
  <2>1. PICK m \in 0 .. k - 1 : y = c[m]
    OBVIOUS
  <2>2. m \in 0 .. Depth - 1 /\ c[m] # NoProxy
    BY <1>0, <1>2
  <2>3. c[m + 1] = p[y]
    BY <1>1, <2>1, <2>2 DEF Up
  <2>4. CASE m = k - 1
    <3>1. p[y] = c[0]
      BY <1>0, <1>1, <2>3, <2>4
    <3>2. 0 \in 0 .. k - 1
      BY <1>0
    <3> QED  BY <3>1, <3>2
  <2>5. CASE m # k - 1
    <3>1. m + 1 \in 0 .. k - 1
      BY <1>0, <2>5
    <3> QED  BY <2>3, <3>1
  <2> QED  BY <2>4, <2>5
<1> HIDE DEF S
<1> QED  BY <1>3, <1>4 DEF Acyclic

\* A chain meets an account once.
LEMMA Once ==
  ASSUME NEW p \in ProxyMap, Acyclic(p), NEW b \in Above, NEW x \in Accounts,
         NEW i \in 0 .. Depth, NEW j \in 0 .. Depth,
         Chain(p, b)[i] = x, Chain(p, b)[j] = x
  PROVE  i = j
<1>0. Depth \in Nat
  BY Constants
<1>1. ASSUME NEW k \in 0 .. Depth, NEW l \in 0 .. Depth,
             Chain(p, b)[k] = x, Chain(p, b)[l] = x, k < l
      PROVE  FALSE
  <2>1. l - k \in 0 .. Depth - k /\ l - k \in 1 .. Depth /\ k + (l - k) = l
    BY <1>0, <1>1
  <2>2. Chain(p, b)[k + (l - k)] = Chain(p, x)[l - k]
    BY <1>1, <2>1, From
  <2>3. Chain(p, x)[l - k] # x
    BY <2>1, NoReturn
  <2> QED  BY <1>1, <2>1, <2>2, <2>3
<1> QED  BY <1>0, <1>1

------------------------------------------------------------------------------
(* A proxy taken away. *)

Cut(p, a) == [p EXCEPT ![a] = NoProxy]

\* Who is i proxies below x.
Reach(p, x, i) == {b \in Accounts : Chain(p, b)[i] = x}

\* Without a's proxy the chains are what they were as far as a, ...
LEMMA CutBelow ==
  ASSUME NEW p \in ProxyMap, NEW a \in Accounts, NEW b \in Above, NEW k \in 0 .. Depth,
         \A m \in 0 .. k - 1 : Chain(p, b)[m] # a
  PROVE  Chain(Cut(p, a), b)[k] = Chain(p, b)[k]
<1> DEFINE q == Cut(p, a)
           c == Chain(p, b)
           e == Chain(q, b)
           S == {n \in 0 .. k : e[n] = c[n]}
<1>0. Depth \in Nat /\ k \in Nat
  BY Constants
<1>1. q \in ProxyMap /\ \A x \in Accounts : x # a => q[x] = p[x]
  BY DEF Cut, ProxyMap, Above
<1> HIDE DEF q
<1>2. /\ \A m \in 0 .. Depth : c[m] \in Above
      /\ c[0] = b /\ \A m \in 0 .. Depth - 1 : c[m + 1] = Up(p, c[m])
  BY Steps
<1>3. e[0] = b /\ \A m \in 0 .. Depth - 1 : e[m + 1] = Up(q, e[m])
  BY <1>1, Steps
<1> HIDE DEF c, e
<1>4. 0 \in S
  BY <1>0, <1>2, <1>3
<1>5. ASSUME NEW n \in 1 .. k, n - 1 \in S PROVE n \in S
  <2>1. n - 1 \in 0 .. Depth - 1 /\ (n - 1) + 1 = n /\ n - 1 \in 0 .. k - 1 /\ n - 1 \in 0 .. Depth
    BY <1>0
  <2>2. e[n - 1] = c[n - 1] /\ c[n - 1] # a /\ c[n - 1] \in Above
    BY <1>2, <1>5, <2>1 DEF c
  <2>3. Up(q, c[n - 1]) = Up(p, c[n - 1])
    BY <1>1, <2>2 DEF Up, Above
  <2>4. e[n] = c[n]
    BY <1>2, <1>3, <2>1, <2>2, <2>3
  <2> QED  BY <1>0, <2>4
<1> HIDE DEF S
<1>6. k \in S
  BY <1>0, <1>4, <1>5, UpTo
<1> QED  BY <1>6 DEF S, c, e, q

\* ... and end there.
LEMMA CutReach ==
  ASSUME NEW p \in ProxyMap, Acyclic(p), NEW a \in Accounts, NEW x \in Accounts,
         NEW k \in 0 .. Depth, NEW b \in Accounts
  PROVE  b \in Reach(Cut(p, a), x, k) <=>
           b \in Reach(p, x, k) /\ \A m \in 0 .. k - 1 : Chain(p, b)[m] # a
<1>0. Depth \in Nat /\ NoProxy \notin Accounts /\ k \in Nat
  BY Constants
<1>1. Cut(p, a) \in ProxyMap /\ Cut(p, a)[a] = NoProxy
  BY DEF Cut, ProxyMap, Above
<1>2. b \in Above
  BY DEF Above
<1>3. CASE \A m \in 0 .. k - 1 : Chain(p, b)[m] # a
  BY <1>2, <1>3, CutBelow DEF Reach
<1>4. ASSUME NEW m \in 0 .. k - 1, Chain(p, b)[m] = a
      PROVE  b \notin Reach(Cut(p, a), x, k)
  <2>1. m \in 0 .. Depth /\ m \in 0 .. Depth - 1 /\ m + 1 \in 0 .. Depth /\ k \in m + 1 .. Depth
    BY <1>0
  <2>2. ASSUME NEW l \in 0 .. m - 1 PROVE Chain(p, b)[l] # a
    <3>1. l \in 0 .. Depth /\ l # m
      BY <1>0
    <3> QED  BY <1>2, <1>4, <2>1, <3>1, Once
  <2>3. Chain(Cut(p, a), b)[m] = a
    BY <1>2, <1>4, <2>1, <2>2, CutBelow
  <2>4. Chain(Cut(p, a), b)[m + 1] = Up(Cut(p, a), a)
    BY <1>1, <1>2, <2>1, <2>3, Steps
  <2>5. Chain(Cut(p, a), b)[m + 1] = NoProxy
    BY <1>0, <1>1, <2>4 DEF Up
  <2>6. Chain(Cut(p, a), b)[k] = NoProxy
    BY <1>1, <1>2, <2>1, <2>5, Ended
  <2> QED  BY <1>0, <2>6 DEF Reach
<1> QED  BY <1>3, <1>4

\* Who is below a stays there.
LEMMA CutOwn ==
  ASSUME NEW p \in ProxyMap, Acyclic(p), NEW a \in Accounts, NEW k \in 0 .. Depth
  PROVE  Reach(Cut(p, a), a, k) = Reach(p, a, k)
<1>0. Depth \in Nat /\ k \in Nat
  BY Constants
<1>1. ASSUME NEW b \in Accounts, b \in Reach(p, a, k), NEW m \in 0 .. k - 1
      PROVE  Chain(p, b)[m] # a
  <2>1. m \in 0 .. Depth /\ m # k /\ b \in Above
    BY <1>0 DEF Above
  <2>2. Chain(p, b)[k] = a
    BY <1>1 DEF Reach
  <2> QED  BY <2>1, <2>2, Once
<1>2. \A b \in Accounts : b \in Reach(Cut(p, a), a, k) <=> b \in Reach(p, a, k)
  BY <1>1, CutReach
<1> QED  BY <1>2 DEF Reach

\* Those below x through a, when a is d + 1 proxies below x, are no longer.
LEMMA CutAbove ==
  ASSUME NEW p \in ProxyMap, Acyclic(p), NEW a \in Accounts, NEW x \in Accounts,
         NEW j \in 0 .. Depth - 1, NEW d \in 0 .. j, Chain(p, a)[d + 1] = x
  PROVE  /\ Reach(p, a, j - d) \subseteq Reach(p, x, j + 1)
         /\ Reach(Cut(p, a), x, j + 1) = Reach(p, x, j + 1) \ Reach(p, a, j - d)
<1>0. Depth \in Nat /\ j \in Nat /\ d \in Nat /\ j + 1 \in 0 .. Depth
  BY Constants
<1>1. ASSUME NEW b \in Accounts, NEW m \in 0 .. j, Chain(p, b)[m] = a
      PROVE  Chain(p, b)[j + 1] = Chain(p, a)[j + 1 - m]
  <2>1. m \in 0 .. Depth /\ j + 1 - m \in 0 .. Depth - m /\ m + (j + 1 - m) = j + 1 /\ b \in Above
    BY <1>0 DEF Above
  <2> QED  BY <1>1, <2>1, From
<1>2. ASSUME NEW b \in Accounts, Chain(p, b)[j - d] = a PROVE Chain(p, b)[j + 1] = x
  <2>1. j - d \in 0 .. j /\ j + 1 - (j - d) = d + 1
    BY <1>0
  <2> QED  BY <1>1, <1>2, <2>1
<1>3. ASSUME NEW b \in Accounts, Chain(p, b)[j + 1] = x,
             NEW m \in 0 .. j, Chain(p, b)[m] = a
      PROVE  m = j - d
  <2>1. j + 1 - m \in 0 .. Depth /\ d + 1 \in 0 .. Depth /\ a \in Above
    BY <1>0 DEF Above
  <2>2. Chain(p, a)[j + 1 - m] = x
    BY <1>1, <1>3
  <2>3. j + 1 - m = d + 1
    BY <2>1, <2>2, Once
  <2> QED  BY <1>0, <2>3
<1>4. ASSUME NEW b \in Accounts
      PROVE  b \in Reach(Cut(p, a), x, j + 1) <=>
               b \in Reach(p, x, j + 1) /\ b \notin Reach(p, a, j - d)
  <2>1. j - d \in 0 .. j /\ (j + 1) - 1 = j
    BY <1>0
  <2>2. b \in Reach(Cut(p, a), x, j + 1) <=>
          b \in Reach(p, x, j + 1) /\ \A m \in 0 .. (j + 1) - 1 : Chain(p, b)[m] # a
    BY <1>0, CutReach
  <2> QED  BY <1>3, <2>1, <2>2 DEF Reach
<1>5. Reach(p, a, j - d) \subseteq Reach(p, x, j + 1)
  BY <1>2 DEF Reach
<1> QED  BY <1>4, <1>5 DEF Reach

\* Nobody is below x through a that is not itself.
LEMMA CutAside ==
  ASSUME NEW p \in ProxyMap, Acyclic(p), NEW a \in Accounts, NEW x \in Accounts,
         NEW j \in 0 .. Depth - 1, \A d \in 0 .. j : Chain(p, a)[d + 1] # x
  PROVE  Reach(Cut(p, a), x, j + 1) = Reach(p, x, j + 1)
<1>0. Depth \in Nat /\ j \in Nat /\ j + 1 \in 0 .. Depth
  BY Constants
<1>1. ASSUME NEW b \in Accounts, Chain(p, b)[j + 1] = x,
             NEW m \in 0 .. j, Chain(p, b)[m] = a
      PROVE  FALSE
  <2>1. /\ m \in 0 .. Depth /\ j + 1 - m \in 0 .. Depth - m /\ m + (j + 1 - m) = j + 1
        /\ b \in Above /\ j - m \in 0 .. j /\ (j - m) + 1 = j + 1 - m
    BY <1>0 DEF Above
  <2>2. Chain(p, a)[j + 1 - m] = x
    BY <1>1, <2>1, From
  <2> QED  BY <2>1, <2>2
<1>2. ASSUME NEW b \in Accounts
      PROVE  b \in Reach(Cut(p, a), x, j + 1) <=> b \in Reach(p, x, j + 1)
  <2>1. (j + 1) - 1 = j
    BY <1>0
  <2>2. b \in Reach(Cut(p, a), x, j + 1) <=>
          b \in Reach(p, x, j + 1) /\ \A m \in 0 .. (j + 1) - 1 : Chain(p, b)[m] # a
    BY <1>0, CutReach
  <2> QED  BY <1>1, <2>1, <2>2 DEF Reach
<1> QED  BY <1>2 DEF Reach

------------------------------------------------------------------------------
(* What a difference passed along a chain adds. *)

Counts == [0 .. Depth -> Int]

\* What proxied[x][j] gets of the difference g of a, ...
Shift(p, a, g, x, j) ==
  SumFunction([d \in {d \in 0 .. j : Chain(p, a)[d + 1] = x} |-> g[j - d]])

\* ... which is the part of it that is as far below x.
LEMMA ShiftIs ==
  ASSUME NEW p \in ProxyMap, Acyclic(p), NEW a \in Accounts, NEW x \in Accounts,
         NEW j \in 0 .. Depth - 1, NEW g \in Counts
  PROVE  /\ \A d \in 0 .. j : Chain(p, a)[d + 1] = x => Shift(p, a, g, x, j) = g[j - d]
         /\ (\A d \in 0 .. j : Chain(p, a)[d + 1] # x) => Shift(p, a, g, x, j) = 0
<1> DEFINE T == {d \in 0 .. j : Chain(p, a)[d + 1] = x}
           e == [d \in T |-> g[j - d]]
<1>0. Depth \in Nat /\ j \in Nat
  BY Constants
<1>1. IsFiniteSet(T)
  <2>1. IsFiniteSet(0 .. j) /\ T \subseteq 0 .. j
    BY <1>0, FS_Interval
  <2> QED  BY <2>1, FS_Subset
<1>2. e \in [T -> Int]
  <2>1. \A d \in T : j - d \in 0 .. Depth
    BY <1>0
  <2> QED  BY <2>1 DEF Counts
<1>3. Shift(p, a, g, x, j) = SumFunction(e)
  BY DEF Shift
<1>4. ASSUME NEW d \in 0 .. j, Chain(p, a)[d + 1] = x
      PROVE  Shift(p, a, g, x, j) = g[j - d]
  <2>1. d \in T /\ e[d] = g[j - d]
    BY <1>4
  <2>2. ASSUME NEW f \in T \ {d} PROVE FALSE
    <3>1. f + 1 \in 0 .. Depth /\ d + 1 \in 0 .. Depth /\ f + 1 # d + 1 /\ a \in Above
      BY <1>0 DEF Above
    <3>2. Chain(p, a)[f + 1] = x
      OBVIOUS
    <3> QED  BY <1>4, <3>1, <3>2, Once
  <2> HIDE DEF T, e
  <2>3. SumFunction(e) = e[d]
    BY <1>1, <1>2, <2>1, <2>2, SumAt
  <2> QED  BY <1>3, <2>1, <2>3
<1>5. ASSUME \A d \in 0 .. j : Chain(p, a)[d + 1] # x
      PROVE  Shift(p, a, g, x, j) = 0
  <2>1. T = {}
    BY <1>5
  <2> HIDE DEF T, e
  <2>2. SumFunction(e) = 0
    BY <1>1, <1>2, <2>1, SumZero
  <2> QED  BY <1>3, <2>2
<1> QED  BY <1>4, <1>5

\* What those i proxies below a vote with, D being what each votes with itself.
Under(D, p, a) == [i \in 0 .. Depth |-> Rows(D, Reach(p, a, i))]

\* When a's proxy goes, what was counted at x through a is what Shift takes.
LEMMA CutRows ==
  ASSUME NEW p \in ProxyMap, Acyclic(p), NEW a \in Accounts, NEW x \in Accounts,
         NEW j \in 0 .. Depth - 1, NEW D \in [Accounts -> Int]
  PROVE  /\ Under(D, p, a) \in Counts
         /\ Rows(D, Reach(Cut(p, a), x, j + 1))
              = Rows(D, Reach(p, x, j + 1)) - Shift(p, a, Under(D, p, a), x, j)
<1> DEFINE g == Under(D, p, a)
<1>0. Depth \in Nat /\ j \in Nat /\ IsFiniteSet(Accounts)
  BY Constants
<1>1. \A y, i : Reach(p, y, i) \subseteq Accounts /\ IsFiniteSet(Reach(p, y, i))
  BY <1>0, FS_Subset DEF Reach
<1>2. \A y, i : Rows(D, Reach(p, y, i)) \in Int
  BY <1>1, RowsChange
<1>3. g \in Counts
  BY <1>2 DEF Under, Counts
<1>4. CASE \E d \in 0 .. j : Chain(p, a)[d + 1] = x
  <2>1. PICK d \in 0 .. j : Chain(p, a)[d + 1] = x
    BY <1>4
  <2>2. /\ Reach(p, a, j - d) \subseteq Reach(p, x, j + 1)
        /\ Reach(Cut(p, a), x, j + 1) = Reach(p, x, j + 1) \ Reach(p, a, j - d)
    BY <2>1, CutAbove
  <2>3. j - d \in 0 .. Depth
    BY <1>0
  <2>4. g[j - d] = Rows(D, Reach(p, a, j - d))
    BY <2>3 DEF Under
  <2>5. Shift(p, a, g, x, j) = g[j - d]
    <3> HIDE DEF g
    <3> QED  BY <1>3, <2>1, ShiftIs
  <2>6. Rows(D, Reach(p, x, j + 1) \ Reach(p, a, j - d))
          = Rows(D, Reach(p, x, j + 1)) - Rows(D, Reach(p, a, j - d))
    BY <1>1, <2>2, RowsChange
  <2> QED  BY <1>3, <2>2, <2>4, <2>5, <2>6
<1>5. CASE \A d \in 0 .. j : Chain(p, a)[d + 1] # x
  <2>1. Reach(Cut(p, a), x, j + 1) = Reach(p, x, j + 1)
    BY <1>5, CutAside
  <2>2. Shift(p, a, g, x, j) = 0
    <3> HIDE DEF g
    <3> QED  BY <1>3, <1>5, ShiftIs
  <2> QED  BY <1>2, <1>3, <2>1, <2>2
<1> QED  BY <1>4, <1>5

------------------------------------------------------------------------------
(* What a difference does to the votes of witnesses. *)

Tables == [Accounts -> [0 .. Depth - 1 -> Int]]

\* What each account votes with, D being what it votes with itself.
Power(pr, D) == [x \in Accounts |-> D[x] + SumFunction(pr[x])]

\* Those who vote for w in their own name.
Voting(bal, p, w) == {x \in Accounts : <<x, w>> \in bal /\ p[x] = NoProxy}

\* The first m + 1 counts.
Prefix(g, m) == SumFunction([i \in 0 .. m |-> g[i]])

\* What w gets of the difference g of a.
Passed(p, a, g, bal, w) ==
  SumFunction([d \in {d \in 0 .. Depth : /\ Chain(p, a)[d] # NoProxy
                                         /\ p[Chain(p, a)[d]] = NoProxy
                                         /\ <<Chain(p, a)[d], w>> \in bal} |->
                 Prefix(g, Depth - d)])

\* Sums of counts are integers.
LEMMA PrefixType ==
  ASSUME NEW g \in Counts, NEW m \in 0 .. Depth
  PROVE  Prefix(g, m) \in Int
<1>0. Depth \in Nat
  BY Constants
<1>1. [i \in 0 .. m |-> g[i]] \in [0 .. m -> Int] /\ IsFiniteSet(0 .. m)
  BY <1>0, FS_Interval, SMTT(60) DEF Counts
<1> QED  BY <1>1, SumType DEF Prefix

\* A table's row adds up to an integer.
LEMMA PowerType ==
  ASSUME NEW pr \in Tables, NEW D \in [Accounts -> Int]
  PROVE  /\ \A x \in Accounts : SumFunction(pr[x]) \in Int
         /\ Power(pr, D) \in [Accounts -> Int]
<1>0. Depth \in Nat
  BY Constants
<1>1. ASSUME NEW x \in Accounts PROVE SumFunction(pr[x]) \in Int
  <2>1. pr[x] \in [0 .. Depth - 1 -> Int] /\ IsFiniteSet(0 .. Depth - 1)
    BY <1>0, FS_Interval DEF Tables
  <2> QED  BY <2>1, SumType
<1> QED  BY <1>1 DEF Power

\* A chain ends at one account.
LEMMA RootOnce ==
  ASSUME NEW p \in ProxyMap, NEW a \in Accounts, NEW d \in 0 .. Depth, NEW e \in 0 .. Depth,
         Chain(p, a)[d] \in Accounts, p[Chain(p, a)[d]] = NoProxy,
         Chain(p, a)[e] \in Accounts, p[Chain(p, a)[e]] = NoProxy
  PROVE  d = e
<1>0. Depth \in Nat /\ NoProxy \notin Accounts /\ a \in Above
  BY Constants DEF Above
<1>1. ASSUME NEW k \in 0 .. Depth, NEW l \in 0 .. Depth, k < l,
             Chain(p, a)[k] \in Accounts, p[Chain(p, a)[k]] = NoProxy
      PROVE  Chain(p, a)[l] = NoProxy
  <2>1. k \in 0 .. Depth - 1 /\ k + 1 \in 0 .. Depth /\ l \in k + 1 .. Depth
    BY <1>0, <1>1
  <2>2. Chain(p, a)[k + 1] = NoProxy
    BY <1>0, <1>1, <2>1, Steps DEF Up
  <2> QED  BY <1>0, <2>1, <2>2, Ended
<1>2. ~(d < e) /\ ~(e < d)
  BY <1>0, <1>1
<1> QED  BY <1>0, <1>2

\* What w gets is what is still within Depth at the account that votes for it.
LEMMA PassedIs ==
  ASSUME NEW p \in ProxyMap, NEW a \in Accounts, NEW g \in Counts, NEW bal, NEW w
  PROVE  /\ \A d \in 0 .. Depth :
              Chain(p, a)[d] \in Voting(bal, p, w) =>
                Passed(p, a, g, bal, w) = Prefix(g, Depth - d)
         /\ (\A d \in 0 .. Depth : Chain(p, a)[d] \notin Voting(bal, p, w)) =>
              Passed(p, a, g, bal, w) = 0
<1> DEFINE T == {d \in 0 .. Depth : /\ Chain(p, a)[d] # NoProxy
                                    /\ p[Chain(p, a)[d]] = NoProxy
                                    /\ <<Chain(p, a)[d], w>> \in bal}
           e == [d \in T |-> Prefix(g, Depth - d)]
<1>0. Depth \in Nat /\ NoProxy \notin Accounts /\ a \in Above
  BY Constants DEF Above
<1>1. IsFiniteSet(T)
  <2>1. IsFiniteSet(0 .. Depth) /\ T \subseteq 0 .. Depth
    BY <1>0, FS_Interval
  <2> QED  BY <2>1, FS_Subset
<1>2. e \in [T -> Int]
  <2>1. \A d \in T : Depth - d \in 0 .. Depth
    BY <1>0
  <2> QED  BY <2>1, PrefixType
<1>3. Passed(p, a, g, bal, w) = SumFunction(e)
  BY DEF Passed
<1>4. \A d \in 0 .. Depth : d \in T <=> Chain(p, a)[d] \in Voting(bal, p, w)
  <2>1. \A d \in 0 .. Depth : Chain(p, a)[d] \in Accounts \cup {NoProxy}
    BY <1>0, Steps DEF Above
  <2> QED  BY <1>0, <2>1 DEF Voting
<1>5. ASSUME NEW d \in 0 .. Depth, Chain(p, a)[d] \in Voting(bal, p, w)
      PROVE  Passed(p, a, g, bal, w) = Prefix(g, Depth - d)
  <2>1. d \in T
    BY <1>4, <1>5
  <2>2. e[d] = Prefix(g, Depth - d)
    BY <2>1
  <2>3. ASSUME NEW f \in T \ {d} PROVE FALSE
    <3>1. f \in 0 .. Depth /\ f \in T /\ f # d
      OBVIOUS
    <3>2. Chain(p, a)[f] \in Voting(bal, p, w)
      BY <1>4, <3>1
    <3> QED  BY <1>5, <3>1, <3>2, RootOnce DEF Voting
  <2> HIDE DEF T, e
  <2>4. SumFunction(e) = e[d]
    BY <1>1, <1>2, <2>1, <2>3, SumAt
  <2> QED  BY <1>3, <2>2, <2>4
<1>6. ASSUME \A d \in 0 .. Depth : Chain(p, a)[d] \notin Voting(bal, p, w)
      PROVE  Passed(p, a, g, bal, w) = 0
  <2>1. T = {}
    BY <1>4, <1>6
  <2> HIDE DEF T, e
  <2>2. SumFunction(e) = 0
    BY <1>1, <1>2, <2>1, SumZero
  <2> QED  BY <1>3, <2>2
<1> QED  BY <1>5, <1>6

\* e is the row s of x with the difference g of a passed on.
Gains(e, s, p, a, g, x) ==
  \A j \in 0 .. Depth - 1 : e[j] = s[j] + Shift(p, a, g, x, j)

\* What x as a whole gets of the difference g of a: the part within Depth.
LEMMA Gain ==
  ASSUME NEW p \in ProxyMap, Acyclic(p), NEW a \in Accounts, NEW x \in Accounts,
         NEW g \in Counts, NEW s \in [0 .. Depth - 1 -> Int], NEW e \in [0 .. Depth - 1 -> Int],
         Gains(e, s, p, a, g, x)
  PROVE  /\ \A d \in 1 .. Depth : Chain(p, a)[d] = x =>
              SumFunction(e) = SumFunction(s) + Prefix(g, Depth - d)
         /\ (\A d \in 1 .. Depth : Chain(p, a)[d] # x) => SumFunction(e) = SumFunction(s)
<1> DEFINE A == 0 .. Depth - 1
           sh == [j \in A |-> Shift(p, a, g, x, j)]
<1>0. Depth \in Nat /\ IsFiniteSet(A)
  BY Constants, FS_Interval
<1>1. sh \in [A -> Int] /\ \A j \in A : sh[j] = Shift(p, a, g, x, j)
  <2>1. ASSUME NEW j \in A PROVE Shift(p, a, g, x, j) \in Int
    <3>1. CASE \E d \in 0 .. j : Chain(p, a)[d + 1] = x
      <4>1. PICK d \in 0 .. j : Chain(p, a)[d + 1] = x
        BY <3>1
      <4>2. j - d \in 0 .. Depth
        BY <1>0
      <4>3. Shift(p, a, g, x, j) = g[j - d]
        BY <4>1, ShiftIs
      <4> QED  BY <4>2, <4>3 DEF Counts
    <3>2. CASE \A d \in 0 .. j : Chain(p, a)[d + 1] # x
      BY <3>2, ShiftIs
    <3> QED  BY <3>1, <3>2
  <2> QED  BY <2>1
<1> HIDE DEF sh
<1>2. SumFunction(e) = SumFunction(s) + SumFunction(sh)
  <2>1. s \in [A -> Int] /\ e \in [A -> Int] /\ \A j \in A : e[j] = s[j] + sh[j]
    BY <1>1 DEF Gains
  <2>2. sh \in [A -> Int]
    BY <1>1
  <2> QED  BY <1>0, <2>1, <2>2, SumPlus
<1>3. SumFunction(s) \in Int
  BY <1>0, SumType
<1>4. ASSUME NEW d \in 1 .. Depth, Chain(p, a)[d] = x
      PROVE  SumFunction(sh) = Prefix(g, Depth - d)
  <2> DEFINE n == Depth - 1
             k == d - 1
             f == [i \in 0 .. Depth - d |-> g[i]]
  <2>1. n \in Nat /\ k \in 0 .. n /\ n - k = Depth - d
    BY <1>0
  <2>2. f \in [0 .. Depth - d -> Int] /\ \A i \in 0 .. Depth - d : f[i] = g[i]
    BY <1>0 DEF Counts
  <2>3. ASSUME NEW i \in 0 .. Depth - d PROVE sh[i + k] = f[i]
    <3>1. i + k \in A /\ k \in 0 .. i + k /\ k + 1 = d /\ (i + k) - k = i
      BY <1>0
    <3> HIDE DEF k
    <3>2. Shift(p, a, g, x, i + k) = g[(i + k) - k]
      BY <1>4, <3>1, ShiftIs, ZenonT(60)
    <3> QED  BY <1>1, <2>2, <3>1, <3>2
  <2>4. ASSUME NEW j \in A, j < k PROVE sh[j] = 0
    <3>1. ASSUME NEW l \in 0 .. j, Chain(p, a)[l + 1] = x PROVE FALSE
      <4>1. l + 1 \in 0 .. Depth /\ d \in 0 .. Depth /\ l + 1 # d /\ a \in Above
        BY <1>0, <2>4 DEF Above
      <4> QED  BY <1>4, <3>1, <4>1, Once
    <3>2. Shift(p, a, g, x, j) = 0
      BY <3>1, ShiftIs
    <3> QED  BY <1>1, <3>2
  <2>5. Prefix(g, Depth - d) = SumFunction(f)
    BY DEF Prefix
  <2>6. f \in [0 .. n - k -> Int] /\ sh \in [0 .. n -> Int]
    BY <1>1, <2>1, <2>2
  <2>7. \A i \in 0 .. n - k : sh[i + k] = f[i]
    BY <2>1, <2>3
  <2>8. Shifts(sh, f, n, k)
    BY <2>4, <2>7 DEF Shifts
  <2> HIDE DEF f, n, k, A
  <2>9. SumFunction(sh) = SumFunction(f)
    BY <2>1, <2>6, <2>8, SumShifted
  <2> QED  BY <2>5, <2>9
<1>5. ASSUME \A d \in 1 .. Depth : Chain(p, a)[d] # x
      PROVE  SumFunction(sh) = 0
  <2>1. ASSUME NEW j \in A PROVE sh[j] = 0
    <3>1. \A d \in 0 .. j : d + 1 \in 1 .. Depth
      BY <1>0
    <3>2. Shift(p, a, g, x, j) = 0
      BY <1>5, <3>1, ShiftIs
    <3> QED  BY <1>1, <3>2
  <2> QED  BY <1>0, <1>1, <2>1, SumZero
<1> QED  BY <1>2, <1>3, <1>4, <1>5

\* e is the table t with the difference g of a passed on.
Shifted(e, t, p, a, g) ==
  \A x \in Accounts, j \in 0 .. Depth - 1 : e[x][j] = t[x][j] + Shift(p, a, g, x, j)

\* What a witness gets is what those who vote for it get, a itself aside.
LEMMA PassedOn ==
  ASSUME NEW p \in ProxyMap, Acyclic(p), NEW a \in Accounts, NEW g \in Counts,
         NEW t \in Tables, NEW e \in Tables, Shifted(e, t, p, a, g),
         NEW D \in [Accounts -> Int], NEW bal, NEW w
  PROVE  LET S == Voting(bal, p, w)
         IN  /\ Passed(p, a, g, bal, w) \in Int
             /\ Rows(Power(e, D), S) = Rows(Power(t, D), S) + Passed(p, a, g, bal, w)
                                         - (IF a \in S THEN Prefix(g, Depth) ELSE 0)
<1> DEFINE S == Voting(bal, p, w)
           c == Chain(p, a)
           pa == Passed(p, a, g, bal, w)
           qt == Power(t, D)
           qe == Power(e, D)
<1>0. Depth \in Nat /\ NoProxy \notin Accounts /\ IsFiniteSet(Accounts) /\ a \in Above
  BY Constants DEF Above
<1>1. S \subseteq Accounts /\ IsFiniteSet(S) /\ \A x \in S : p[x] = NoProxy
  BY <1>0, FS_Subset DEF Voting
<1>2. qt \in [Accounts -> Int] /\ qe \in [Accounts -> Int]
  BY PowerType
<1>3. ASSUME NEW x \in Accounts
      PROVE  /\ \A d \in 1 .. Depth : c[d] = x => qe[x] = qt[x] + Prefix(g, Depth - d)
             /\ (\A d \in 1 .. Depth : c[d] # x) => qe[x] = qt[x]
  <2>1. t[x] \in [0 .. Depth - 1 -> Int] /\ e[x] \in [0 .. Depth - 1 -> Int]
    BY DEF Tables
  <2>2. \A j \in 0 .. Depth - 1 : e[x][j] = t[x][j] + Shift(p, a, g, x, j)
    BY DEF Shifted
  <2> DEFINE sx == t[x]
             ex == e[x]
  <2>3. /\ \A d \in 1 .. Depth : c[d] = x =>
              SumFunction(ex) = SumFunction(sx) + Prefix(g, Depth - d)
        /\ (\A d \in 1 .. Depth : c[d] # x) => SumFunction(ex) = SumFunction(sx)
    <3> HIDE DEF sx, ex
    <3>1. sx \in [0 .. Depth - 1 -> Int] /\ ex \in [0 .. Depth - 1 -> Int]
      BY <2>1 DEF sx, ex
    <3>2. Gains(ex, sx, p, a, g, x)
      BY <2>2 DEF sx, ex, Gains
    <3>3. /\ \A d \in 1 .. Depth : Chain(p, a)[d] = x =>
                SumFunction(ex) = SumFunction(sx) + Prefix(g, Depth - d)
          /\ (\A d \in 1 .. Depth : Chain(p, a)[d] # x) => SumFunction(ex) = SumFunction(sx)
      <4> HIDE DEF c
      <4> QED  BY <3>1, <3>2, Gain
    <3> QED  BY <3>3
  <2>4. qt[x] = D[x] + SumFunction(t[x]) /\ qe[x] = D[x] + SumFunction(e[x])
    BY DEF Power
  <2>5. SumFunction(t[x]) \in Int /\ D[x] \in Int
    BY PowerType
  <2>6. \A d \in 1 .. Depth : Prefix(g, Depth - d) \in Int
    <3>1. \A d \in 1 .. Depth : Depth - d \in 0 .. Depth
      BY <1>0
    <3> QED  BY <3>1, PrefixType
  <2> QED  BY <2>3, <2>4, <2>5, <2>6
<1>4. 0 \in 0 .. Depth /\ c[0] = a /\ Depth - 0 = Depth
  BY <1>0, Steps
<1>5. Rows(qt, S) \in Int /\ Rows(qe, S) \in Int
  BY <1>1, <1>2, RowsChange
<1>6. \A d \in 0 .. Depth : Prefix(g, Depth - d) \in Int
  <2>1. \A d \in 0 .. Depth : Depth - d \in 0 .. Depth
    BY <1>0
  <2> QED  BY <2>1, PrefixType
<1>7. CASE \E d \in 0 .. Depth : c[d] \in S
  <2>1. PICK d \in 0 .. Depth : c[d] \in S
    BY <1>7
  <2>2. pa = Prefix(g, Depth - d)
    BY <2>1, PassedIs
  <2>3. ASSUME NEW k \in 0 .. Depth, c[k] \in S PROVE k = d
    BY <1>1, <2>1, <2>3, RootOnce
  <2>4. ASSUME NEW y \in S \ {c[d]} PROVE qt[y] = qe[y]
    <3>1. ASSUME NEW k \in 1 .. Depth, c[k] = y PROVE FALSE
      <4>1. k \in 0 .. Depth /\ c[k] \in S
        BY <1>0, <3>1
      <4> QED  BY <2>3, <3>1, <4>1
    <3> QED  BY <1>1, <1>3, <3>1
  <2> DEFINE x == c[d]
  <2>5. x \in Accounts
    BY <1>1, <2>1
  <2>6. Rows(qe, S) = Rows(qt, S) + qe[x] - qt[x]
    <3> HIDE DEF S, qe, qt, c
    <3> QED  BY <1>1, <1>2, <2>1, <2>4, RowsAlter
  <2>7. CASE d = 0
    <3>1. x = a /\ a \in S /\ pa = Prefix(g, Depth)
      BY <1>4, <2>1, <2>2, <2>7
    <3>2. qe[x] = qt[x]
      <4>1. \A k \in 1 .. Depth : c[k] # a
        BY NoReturn
      <4> QED  BY <1>3, <3>1, <4>1
    <3>3. Prefix(g, Depth) \in Int /\ qt[x] \in Int
      BY <1>2, <1>4, <1>6, <2>5
    <3> HIDE DEF S, qe, qt, c, pa, x
    <3>4. pa \in Int /\ Rows(qe, S) = Rows(qt, S) + pa - Prefix(g, Depth)
      BY <1>5, <2>6, <3>1, <3>2, <3>3
    <3> QED  BY <3>1, <3>4 DEF S, qe, qt, pa
  <2>8. CASE d # 0
    <3>1. a \notin S
      BY <1>4, <2>3, <2>8
    <3>2. d \in 1 .. Depth
      BY <1>0, <2>8
    <3>3. qe[x] = qt[x] + Prefix(g, Depth - d)
      BY <1>3, <2>5, <3>2
    <3>4. Prefix(g, Depth - d) \in Int /\ qt[x] \in Int
      BY <1>2, <1>6, <2>5
    <3> HIDE DEF S, qe, qt, c, pa, x
    <3>5. pa \in Int /\ Rows(qe, S) = Rows(qt, S) + pa - 0
      BY <1>5, <2>2, <2>6, <3>3, <3>4
    <3> QED  BY <3>1, <3>5 DEF S, qe, qt, pa
  <2> QED  BY <2>7, <2>8
<1>8. CASE \A d \in 0 .. Depth : c[d] \notin S
  <2>1. pa = 0
    BY <1>8, PassedIs
  <2>2. a \notin S
    BY <1>4, <1>8
  <2>3. ASSUME NEW y \in S PROVE qt[y] = qe[y]
    <3>1. \A k \in 1 .. Depth : c[k] # y
      <4>1. \A k \in 1 .. Depth : k \in 0 .. Depth
        BY <1>0
      <4> QED  BY <1>8, <4>1
    <3> QED  BY <1>1, <1>3, <3>1
  <2> HIDE DEF S, qe, qt, c, pa
  <2>4. Rows(qe, S) = Rows(qt, S)
    BY <1>1, <1>2, <2>2, <2>3, RowsAlter
  <2>5. pa \in Int /\ Rows(qe, S) = Rows(qt, S) + pa - 0
    BY <1>5, <2>1, <2>4
  <2> QED  BY <2>2, <2>5 DEF S, qe, qt, pa
<1> QED  BY <1>7, <1>8

------------------------------------------------------------------------------
(* The tallies stay what a recount would give. *)

\* pr is what a recount gives of the votes proxied to each account.
Exact(pr, p, D) ==
  \A x \in Accounts, j \in 0 .. Depth - 1 : pr[x][j] = Rows(D, Reach(p, x, j + 1))

\* pr and vt are what a recount gives, and only those without proxy hold ballots.
Tallied(D, pr, vt, p, bal) ==
  /\ D \in [Accounts -> Int] /\ pr \in Tables /\ vt \in [Witness -> Int]
  /\ p \in ProxyMap /\ Acyclic(p)
  /\ bal \subseteq Accounts \X Witness /\ \A v \in bal : p[v[1]] = NoProxy
  /\ Exact(pr, p, D)
  /\ \A w \in Witness : vt[w] = Rows(Power(pr, D), Voting(bal, p, w))

\* What adjust_proxied_witness_votes returns.
LEMMA AdjustIs ==
  ASSUME NEW p \in ProxyMap, Acyclic(p), NEW a \in Accounts, NEW g \in Counts,
         NEW t, t.proxied \in Tables, t.votes \in [Witness -> Int],
         NEW r, r = adjust_proxied_witness_votes(t, p, a, g)
  PROVE  /\ r.proxied \in Tables /\ Shifted(r.proxied, t.proxied, p, a, g)
         /\ r.votes \in [Witness -> Int]
         /\ \A w \in Witness : r.votes[w] = t.votes[w] + Passed(p, a, g, ballots, w)
<1>1. r.proxied = [x \in Accounts |-> [j \in 0 .. Depth - 1 |->
                     t.proxied[x][j] + Shift(p, a, g, x, j)]]
  BY DEF adjust_proxied_witness_votes, Shift
<1>2. r.votes = [w \in Witness |-> t.votes[w] + Passed(p, a, g, ballots, w)]
  BY DEF adjust_proxied_witness_votes, Passed, Prefix
<1>3. ASSUME NEW x \in Accounts, NEW j \in 0 .. Depth - 1
      PROVE  t.proxied[x][j] + Shift(p, a, g, x, j) \in Int
  <2>1. t.proxied[x][j] \in Int
    BY DEF Tables
  <2>2. Shift(p, a, g, x, j) \in Int
    <3>1. CASE \E d \in 0 .. j : Chain(p, a)[d + 1] = x
      <4>1. PICK d \in 0 .. j : Chain(p, a)[d + 1] = x
        BY <3>1
      <4>2. j - d \in 0 .. Depth
        BY Constants
      <4>3. Shift(p, a, g, x, j) = g[j - d]
        BY <4>1, ShiftIs
      <4> QED  BY <4>2, <4>3 DEF Counts
    <3>2. CASE \A d \in 0 .. j : Chain(p, a)[d + 1] # x
      BY <3>2, ShiftIs, SMTT(60)
    <3> QED  BY <3>1, <3>2
  <2> QED  BY <2>1, <2>2
<1>4. r.proxied \in Tables /\ Shifted(r.proxied, t.proxied, p, a, g)
  <2> DEFINE e == r.proxied
  <2>1. e \in Tables
    BY <1>1, <1>3 DEF Tables
  <2>2. \A x \in Accounts, j \in 0 .. Depth - 1 :
          e[x][j] = t.proxied[x][j] + Shift(p, a, g, x, j)
    BY <1>1
  <2> QED  BY <2>1, <2>2 DEF Shifted
<1>5. ASSUME NEW w \in Witness PROVE Passed(p, a, g, ballots, w) \in Int
  <2>1. CASE \E d \in 0 .. Depth : Chain(p, a)[d] \in Voting(ballots, p, w)
    <3>1. PICK d \in 0 .. Depth : Chain(p, a)[d] \in Voting(ballots, p, w)
      BY <2>1
    <3>2. Depth - d \in 0 .. Depth
      BY Constants
    <3> QED  BY <3>1, <3>2, PassedIs, PrefixType
  <2>2. CASE \A d \in 0 .. Depth : Chain(p, a)[d] \notin Voting(ballots, p, w)
    BY <2>2, PassedIs
  <2> QED  BY <2>1, <2>2
<1>6. r.votes \in [Witness -> Int]
  BY <1>2, <1>5
<1> QED  BY <1>2, <1>4, <1>6

\* All of a difference of one place.
LEMMA SingleSum ==
  ASSUME NEW n \in Int
  PROVE  Single(n) \in Counts /\ Prefix(Single(n), Depth) = n
<1> DEFINE f == [i \in 0 .. Depth |-> Single(n)[i]]
<1>0. Depth \in Nat /\ IsFiniteSet(0 .. Depth)
  BY Constants, FS_Interval
<1>1. Single(n) \in Counts
  BY DEF Single, Counts
<1>2. f \in [0 .. Depth -> Int] /\ f[0] = n /\ \A i \in (0 .. Depth) \ {0} : f[i] = 0
  BY <1>0 DEF Single
<1>3. 0 \in 0 .. Depth
  BY <1>0
<1> HIDE DEF f
<1>4. SumFunction(f) = f[0]
  BY <1>0, <1>2, <1>3, SumAt
<1> QED  BY <1>1, <1>2, <1>4 DEF Prefix, f

\* An account that gets n more of its own.
LEMMA TallyGain ==
  ASSUME NEW D, NEW t, NEW p, Tallied(D, t.proxied, t.votes, p, ballots),
         NEW a \in Accounts, NEW n \in Int,
         NEW E \in [Accounts -> Int], E[a] = D[a] + n, \A x \in Accounts \ {a} : E[x] = D[x],
         NEW r, r = adjust_proxied_witness_votes(t, p, a, Single(n))
  PROVE  Tallied(E, r.proxied, r.votes, p, ballots)
<1> DEFINE g == Single(n)
           pt == t.proxied
           pr == r.proxied
<1>0. /\ Depth \in Nat /\ IsFiniteSet(Accounts)
      /\ D \in [Accounts -> Int] /\ pt \in Tables /\ t.votes \in [Witness -> Int]
      /\ p \in ProxyMap /\ Acyclic(p) /\ Exact(pt, p, D)
      /\ \A w \in Witness : t.votes[w] = Rows(Power(pt, D), Voting(ballots, p, w))
  BY Constants DEF Tallied
<1>1. g \in Counts /\ Prefix(g, Depth) = n
  BY SingleSum
<1>2. /\ pr \in Tables /\ Shifted(pr, pt, p, a, g)
      /\ r.votes \in [Witness -> Int]
      /\ \A w \in Witness : r.votes[w] = t.votes[w] + Passed(p, a, g, ballots, w)
  BY <1>0, <1>1, AdjustIs
<1>3. \A y \in Accounts \ {a} : D[y] = E[y]
  OBVIOUS
<1>4. Exact(pr, p, E)
  <2> SUFFICES ASSUME NEW x \in Accounts, NEW j \in 0 .. Depth - 1
               PROVE  pr[x][j] = Rows(E, Reach(p, x, j + 1))
    BY DEF Exact
  <2> DEFINE S == Reach(p, x, j + 1)
  <2>1. S \subseteq Accounts /\ IsFiniteSet(S) /\ (a \in S <=> Chain(p, a)[j + 1] = x)
    BY <1>0, FS_Subset DEF Reach
  <2>2. pr[x][j] = Rows(D, S) + Shift(p, a, g, x, j)
    BY <1>0, <1>2 DEF Shifted, Exact
  <2>3. Rows(D, S) \in Int
    BY <1>0, <2>1, RowsChange
  <2>4. Rows(E, S) = IF a \in S THEN Rows(D, S) + E[a] - D[a] ELSE Rows(D, S)
    <3> HIDE DEF S
    <3>1. \A y \in S \ {a} : D[y] = E[y]
      BY <1>3, <2>1
    <3> QED  BY <1>0, <2>1, <3>1, RowsAlter
  <2>5. D[a] \in Int
    BY <1>0
  <2>6. CASE a \in S
    <3>1. j \in 0 .. j /\ j - j = 0 /\ Chain(p, a)[j + 1] = x
      BY <1>0, <2>1, <2>6
    <3>2. Shift(p, a, g, x, j) = g[j - j]
      <4> HIDE DEF g
      <4> QED  BY <1>0, <1>1, <3>1, ShiftIs
    <3>3. g[0] = n
      BY <1>0 DEF Single
    <3> QED  BY <2>2, <2>3, <2>4, <2>5, <2>6, <3>1, <3>2, <3>3
  <2>7. CASE a \notin S
    <3>1. Shift(p, a, g, x, j) = 0
      <4>1. CASE \E d \in 0 .. j : Chain(p, a)[d + 1] = x
        <5>1. PICK d \in 0 .. j : Chain(p, a)[d + 1] = x
          BY <4>1
        <5>2. d # j
          BY <2>1, <2>7, <5>1
        <5>3. Shift(p, a, g, x, j) = g[j - d]
          <6> HIDE DEF g
          <6> QED  BY <1>0, <1>1, <5>1, ShiftIs
        <5>4. g[j - d] = 0
          BY <1>0, <5>2 DEF Single
        <5> QED  BY <5>3, <5>4
      <4>2. CASE \A d \in 0 .. j : Chain(p, a)[d + 1] # x
        <5> HIDE DEF g
        <5> QED  BY <1>0, <1>1, <4>2, ShiftIs
      <4> QED  BY <4>1, <4>2
    <3> QED  BY <2>2, <2>3, <2>4, <2>7, <3>1
  <2> QED  BY <2>6, <2>7
<1>5. ASSUME NEW w \in Witness
      PROVE  r.votes[w] = Rows(Power(pr, E), Voting(ballots, p, w))
  <2> DEFINE S == Voting(ballots, p, w)
             q == Power(pr, D)
             u == Power(pr, E)
             ps == Passed(p, a, g, ballots, w)
  <2>1. S \subseteq Accounts /\ IsFiniteSet(S)
    BY <1>0, FS_Subset DEF Voting
  <2>2. /\ ps \in Int
        /\ Rows(q, S) = Rows(Power(pt, D), S) + ps - (IF a \in S THEN Prefix(g, Depth) ELSE 0)
    <3> HIDE DEF g, pr, pt
    <3> QED  BY <1>0, <1>1, <1>2, PassedOn
  <2>3. q \in [Accounts -> Int] /\ u \in [Accounts -> Int]
    <3> HIDE DEF pr
    <3> QED  BY <1>0, <1>2, PowerType
  <2>4. \A y \in S \ {a} : q[y] = u[y]
    <3> HIDE DEF pr
    <3> QED  BY <1>3, <2>1 DEF Power
  <2>5. u[a] = q[a] + n
    <3>1. SumFunction(pr[a]) \in Int /\ D[a] \in Int
      <4> HIDE DEF pr
      <4> QED  BY <1>0, <1>2, PowerType
    <3> HIDE DEF pr
    <3> QED  BY <3>1 DEF Power
  <2>6. Rows(u, S) = IF a \in S THEN Rows(q, S) + u[a] - q[a] ELSE Rows(q, S)
    <3> HIDE DEF q, u, S
    <3> QED  BY <2>1, <2>3, <2>4, RowsAlter
  <2>7. Rows(q, S) \in Int /\ q[a] \in Int
    <3> HIDE DEF q, S
    <3> QED  BY <2>1, <2>3, RowsChange
  <2>8. t.votes[w] = Rows(Power(pt, D), S) /\ t.votes[w] \in Int
    BY <1>0
  <2>9. r.votes[w] = t.votes[w] + ps
    BY <1>2
  <2> HIDE DEF q, u, S, ps, g, pt, pr
  <2>10. r.votes[w] = Rows(u, S)
    BY <1>1, <2>2, <2>5, <2>6, <2>7, <2>8, <2>9
  <2> QED  BY <2>10 DEF u, S, pr
<1> QED  BY <1>0, <1>2, <1>4, <1>5 DEF Tallied

\* The same counts, to be taken away.
Neg(g) == [i \in 0 .. Depth |-> -g[i]]

\* Taking away is the opposite of adding.
LEMMA NegShift ==
  ASSUME NEW p \in ProxyMap, Acyclic(p), NEW a \in Accounts, NEW x \in Accounts,
         NEW j \in 0 .. Depth - 1, NEW g \in Counts
  PROVE  /\ Neg(g) \in Counts /\ Shift(p, a, g, x, j) \in Int
         /\ Shift(p, a, Neg(g), x, j) = 0 - Shift(p, a, g, x, j)
<1>0. Depth \in Nat
  BY Constants
<1>1. Neg(g) \in Counts /\ \A i \in 0 .. Depth : Neg(g)[i] = -g[i]
  BY DEF Neg, Counts
<1>2. CASE \E d \in 0 .. j : Chain(p, a)[d + 1] = x
  <2>1. PICK d \in 0 .. j : Chain(p, a)[d + 1] = x
    BY <1>2
  <2>2. j - d \in 0 .. Depth
    BY <1>0
  <2>3. Shift(p, a, g, x, j) = g[j - d]
    BY <2>1, ShiftIs
  <2>4. Shift(p, a, Neg(g), x, j) = Neg(g)[j - d]
    BY <1>1, <2>1, ShiftIs
  <2>5. g[j - d] \in Int
    BY <2>2 DEF Counts
  <2>6. Neg(g)[j - d] = -g[j - d]
    BY <1>1, <2>2
  <2>7. Shift(p, a, Neg(g), x, j) = 0 - Shift(p, a, g, x, j)
    BY <2>3, <2>4, <2>5, <2>6
  <2>8. Shift(p, a, g, x, j) \in Int
    BY <2>3, <2>5
  <2> QED  BY <1>1, <2>7, <2>8
<1>3. CASE \A d \in 0 .. j : Chain(p, a)[d + 1] # x
  <2>1. Shift(p, a, g, x, j) = 0
    BY <1>3, ShiftIs
  <2>2. Shift(p, a, Neg(g), x, j) = 0
    BY <1>1, <1>3, ShiftIs
  <2> QED  BY <1>1, <2>1, <2>2
<1> QED  BY <1>2, <1>3

\* Also of the whole.
LEMMA NegPrefix ==
  ASSUME NEW g \in Counts
  PROVE  Prefix(Neg(g), Depth) = -Prefix(g, Depth)
<1> DEFINE f == [i \in 0 .. Depth |-> g[i]]
           e == [i \in 0 .. Depth |-> Neg(g)[i]]
           z == [i \in 0 .. Depth |-> 0]
<1>0. Depth \in Nat /\ IsFiniteSet(0 .. Depth)
  BY Constants, FS_Interval
<1>1. f \in [0 .. Depth -> Int] /\ e \in [0 .. Depth -> Int] /\ z \in [0 .. Depth -> Int]
  BY DEF Counts, Neg
<1>2. \A i \in 0 .. Depth : z[i] = f[i] + e[i]
  BY DEF Counts, Neg
<1>3. \A i \in 0 .. Depth : z[i] = 0
  OBVIOUS
<1>4. Prefix(g, Depth) = SumFunction(f) /\ Prefix(Neg(g), Depth) = SumFunction(e)
  BY DEF Prefix
<1> HIDE DEF f, e, z
<1>5. SumFunction(z) = SumFunction(f) + SumFunction(e)
  BY <1>0, <1>1, <1>2, SumPlus, ZenonT(60)
<1>6. SumFunction(z) = 0
  BY <1>0, <1>1, <1>3, SumZero
<1>7. SumFunction(f) \in Int /\ SumFunction(e) \in Int
  BY <1>0, <1>1, SumType
<1> QED  BY <1>4, <1>5, <1>6, <1>7

\* All who are below a, a included, make up what a votes with.
LEMMA PowerSum ==
  ASSUME NEW p \in ProxyMap, NEW a \in Accounts, NEW D \in [Accounts -> Int],
         NEW pr \in Tables, Exact(pr, p, D)
  PROVE  /\ Under(D, p, a) \in Counts
         /\ Under(D, p, a)[0] = D[a]
         /\ \A i \in 1 .. Depth : Under(D, p, a)[i] = pr[a][i - 1]
         /\ Prefix(Under(D, p, a), Depth) = Power(pr, D)[a]
<1> DEFINE u == Under(D, p, a)
           f == [i \in 0 .. Depth |-> u[i]]
           z == [i \in 0 .. Depth |-> IF i = 0 THEN 0 ELSE u[i]]
           s == pr[a]
<1>0. Depth \in Nat /\ Depth >= 1 /\ IsFiniteSet(0 .. Depth) /\ IsFiniteSet(Accounts)
  BY Constants, FS_Interval
<1>1. \A y, i : Reach(p, y, i) \subseteq Accounts /\ IsFiniteSet(Reach(p, y, i))
  BY <1>0, FS_Subset DEF Reach
<1>2. \A y, i : Rows(D, Reach(p, y, i)) \in Int
  BY <1>1, RowsChange
<1>3. u \in Counts /\ \A i \in 0 .. Depth : u[i] = Rows(D, Reach(p, a, i))
  BY <1>2 DEF Under, Counts
<1>4. u[0] = D[a]
  <2>1. Reach(p, a, 0) = {a}
    <3>1. \A b \in Accounts : Chain(p, b)[0] = b
      BY Steps DEF Above
    <3> QED  BY <3>1 DEF Reach
  <2>2. Rows(D, {a}) = D[a]
    <3> DEFINE o == [x \in {a} |-> D[x]]
    <3>1. o \in [{a} -> Int] /\ IsFiniteSet({a}) /\ o[a] = D[a] /\ a \in {a}
      BY FS_Singleton
    <3>2. \A y \in {a} \ {a} : o[y] = 0
      OBVIOUS
    <3> HIDE DEF o
    <3>3. SumFunction(o) = o[a]
      BY <3>1, <3>2, SumAt
    <3> QED  BY <3>1, <3>3 DEF Rows, o
  <2>3. 0 \in 0 .. Depth
    BY <1>0
  <2> QED  BY <1>3, <2>1, <2>2, <2>3
<1>5. ASSUME NEW i \in 1 .. Depth PROVE u[i] = s[i - 1]
  <2>1. i - 1 \in 0 .. Depth - 1 /\ (i - 1) + 1 = i /\ i \in 0 .. Depth
    BY <1>0
  <2>2. s[i - 1] = Rows(D, Reach(p, a, (i - 1) + 1))
    BY <2>1 DEF Exact
  <2> QED  BY <1>3, <2>1, <2>2
<1> HIDE DEF u
<1>6. f \in [0 .. Depth -> Int] /\ z \in [0 .. Depth -> Int] /\ s \in [0 .. Depth - 1 -> Int]
  BY <1>3 DEF Counts, Tables
<1>7. f[0] = D[a] /\ z[0] = 0
  BY <1>0, <1>4
<1>8. Shifts(z, s, Depth, 1)
  <2>1. ASSUME NEW i \in 0 .. Depth - 1 PROVE z[i + 1] = s[i]
    <3>1. i + 1 \in 1 .. Depth /\ (i + 1) - 1 = i /\ i + 1 \in 0 .. Depth /\ i + 1 # 0
      BY <1>0
    <3> QED  BY <1>5, <3>1
  <2>2. \A j \in 0 .. Depth : j < 1 => z[j] = 0
    BY <1>0
  <2> QED  BY <2>1, <2>2 DEF Shifts
<1> HIDE DEF f, z, s
<1>9. SumFunction(f) = SumFunction(z) + f[0] - z[0]
  <2>1. 0 \in 0 .. Depth
    BY <1>0
  <2>2. \A i \in (0 .. Depth) \ {0} : z[i] = f[i]
    BY DEF f, z
  <2> QED  BY <1>0, <1>6, <2>1, <2>2, SumChange
<1>10. SumFunction(z) = SumFunction(s)
  <2>1. 1 \in 0 .. Depth
    BY <1>0
  <2> QED  BY <1>0, <1>6, <1>8, <2>1, SumShifted, ZenonT(60)
<1>11. SumFunction(s) \in Int /\ Power(pr, D)[a] = D[a] + SumFunction(s)
  <2>1. SumFunction(pr[a]) \in Int
    BY PowerType
  <2> QED  BY <2>1 DEF Power, s
<1>12. Prefix(u, Depth) = SumFunction(f)
  BY DEF Prefix, f
<1>13. D[a] \in Int
  OBVIOUS
<1>14. Prefix(u, Depth) = Power(pr, D)[a]
  BY <1>7, <1>9, <1>10, <1>11, <1>12, <1>13
<1> QED  BY <1>3, <1>4, <1>5, <1>14 DEF u, s

\* Taking a proxy away makes no cycle.
LEMMA CutAcyclic ==
  ASSUME NEW p \in ProxyMap, Acyclic(p), NEW a \in Accounts
  PROVE  /\ Cut(p, a) \in ProxyMap /\ Acyclic(Cut(p, a)) /\ Cut(p, a)[a] = NoProxy
         /\ \A x \in Accounts : x # a => Cut(p, a)[x] = p[x]
<1>1. /\ Cut(p, a) \in ProxyMap /\ Cut(p, a)[a] = NoProxy
      /\ \A x \in Accounts : x # a => Cut(p, a)[x] = p[x]
  BY DEF Cut, ProxyMap, Above
<1>2. ASSUME NEW S \in SUBSET Accounts, S # {} PROVE \E x \in S : Cut(p, a)[x] \notin S
  <2>1. PICK x \in S : p[x] \notin S
    BY <1>2 DEF Acyclic
  <2>2. CASE x = a
    BY <1>1, <2>2, Constants
  <2>3. CASE x # a
    BY <1>1, <2>1, <2>3
  <2> QED  BY <2>2, <2>3
<1> QED  BY <1>1, <1>2 DEF Acyclic

\* An account whose votes are taken away, and with them its proxy and ballots.
LEMMA TallyCut ==
  ASSUME NEW D, NEW t, NEW p, Tallied(D, t.proxied, t.votes, p, ballots),
         NEW a \in Accounts, NEW r,
         r = adjust_proxied_witness_votes(t, p, a, Neg(Under(D, p, a)))
  PROVE  Tallied(D, r.proxied, r.votes, Cut(p, a), {v \in ballots : v[1] # a})
<1> DEFINE k == Under(D, p, a)
           g == Neg(k)
           pt == t.proxied
           pr == r.proxied
           o == Cut(p, a)
           bal == {v \in ballots : v[1] # a}
<1>0. /\ Depth \in Nat /\ IsFiniteSet(Accounts) /\ NoProxy \notin Accounts
      /\ D \in [Accounts -> Int] /\ pt \in Tables /\ t.votes \in [Witness -> Int]
      /\ p \in ProxyMap /\ Acyclic(p) /\ Exact(pt, p, D)
      /\ ballots \subseteq Accounts \X Witness /\ \A v \in ballots : p[v[1]] = NoProxy
      /\ \A w \in Witness : t.votes[w] = Rows(Power(pt, D), Voting(ballots, p, w))
  BY Constants DEF Tallied
<1>1. k \in Counts /\ Prefix(k, Depth) = Power(pt, D)[a]
  <2> HIDE DEF pt
  <2> QED  BY <1>0, PowerSum
<1>2. g \in Counts /\ Prefix(g, Depth) = -Power(pt, D)[a]
  <2> HIDE DEF k, pt
  <2>1. g \in Counts
    BY <1>1 DEF Neg, Counts
  <2> QED  BY <1>1, <2>1, NegPrefix
<1>3. /\ pr \in Tables /\ Shifted(pr, pt, p, a, g)
      /\ r.votes \in [Witness -> Int]
      /\ \A w \in Witness : r.votes[w] = t.votes[w] + Passed(p, a, g, ballots, w)
  <2>1. r = adjust_proxied_witness_votes(t, p, a, g)
    OBVIOUS
  <2> HIDE DEF g
  <2> QED  BY <1>0, <1>2, <2>1, AdjustIs
<1>4. /\ o \in ProxyMap /\ Acyclic(o) /\ o[a] = NoProxy
      /\ \A x \in Accounts : x # a => o[x] = p[x]
  BY <1>0, CutAcyclic
<1>5. Exact(pr, o, D)
  <2> SUFFICES ASSUME NEW x \in Accounts, NEW j \in 0 .. Depth - 1
               PROVE  pr[x][j] = Rows(D, Reach(o, x, j + 1))
    BY DEF Exact
  <2>1. pr[x][j] = Rows(D, Reach(p, x, j + 1)) + Shift(p, a, g, x, j)
    BY <1>0, <1>3 DEF Shifted, Exact
  <2>2. Rows(D, Reach(o, x, j + 1)) = Rows(D, Reach(p, x, j + 1)) - Shift(p, a, k, x, j)
    BY <1>0, CutRows
  <2>3. Shift(p, a, g, x, j) = 0 - Shift(p, a, k, x, j) /\ Shift(p, a, k, x, j) \in Int
    <3> HIDE DEF k
    <3> QED  BY <1>0, <1>1, NegShift
  <2>4. Rows(D, Reach(p, x, j + 1)) \in Int
    <3>1. Reach(p, x, j + 1) \subseteq Accounts /\ IsFiniteSet(Reach(p, x, j + 1))
      BY <1>0, FS_Subset DEF Reach
    <3> QED  BY <1>0, <3>1, RowsChange
  <2> QED  BY <2>1, <2>2, <2>3, <2>4
<1>6. bal \subseteq Accounts \X Witness /\ \A v \in bal : o[v[1]] = NoProxy
  BY <1>0, <1>4
<1>7. ASSUME NEW w \in Witness
      PROVE  r.votes[w] = Rows(Power(pr, D), Voting(bal, o, w))
  <2> DEFINE S == Voting(ballots, p, w)
             R == Voting(bal, o, w)
             q == Power(pr, D)
             ps == Passed(p, a, g, ballots, w)
  <2>1. S \subseteq Accounts /\ IsFiniteSet(S)
    BY <1>0, FS_Subset DEF Voting
  <2>2. R = S \ {a}
    <3>1. \A x \in Accounts : <<x, w>> \in bal <=> <<x, w>> \in ballots /\ x # a
      OBVIOUS
    <3> HIDE DEF bal, o
    <3> QED  BY <1>4, <3>1 DEF Voting
  <2>3. /\ ps \in Int
        /\ Rows(q, S) = Rows(Power(pt, D), S) + ps - (IF a \in S THEN Prefix(g, Depth) ELSE 0)
    <3> HIDE DEF g, pr, pt
    <3> QED  BY <1>0, <1>2, <1>3, PassedOn
  <2>4. q \in [Accounts -> Int] /\ Power(pt, D) \in [Accounts -> Int]
    <3> HIDE DEF pr, pt
    <3> QED  BY <1>0, <1>3, PowerType
  <2>5. Rows(q, R) = IF a \in S THEN Rows(q, S) - q[a] ELSE Rows(q, S)
    <3>1. CASE a \in S
      <4> HIDE DEF S, q, R
      <4> QED  BY <2>1, <2>2, <2>4, <3>1, RowsChange
    <3>2. CASE a \notin S
      <4>1. R = S
        BY <2>2, <3>2
      <4> QED  BY <3>2, <4>1
    <3> QED  BY <3>1, <3>2
  <2>6. q[a] = Power(pt, D)[a]
    <3>1. \A d \in 1 .. Depth : Chain(p, a)[d] # a
      BY <1>0, NoReturn
    <3> DEFINE sx == pt[a]
               ex == pr[a]
    <3>2. sx \in [0 .. Depth - 1 -> Int] /\ ex \in [0 .. Depth - 1 -> Int]
      BY <1>0, <1>3 DEF Tables
    <3>3. Gains(ex, sx, p, a, g, a)
      BY <1>3 DEF Gains, Shifted
    <3>4. g \in Counts /\ p \in ProxyMap /\ Acyclic(p)
      BY <1>0, <1>2
    <3>5. SumFunction(ex) = SumFunction(sx)
      <4> HIDE DEF ex, sx, g
      <4> QED  BY <3>1, <3>2, <3>3, <3>4, Gain
    <3> QED  BY <3>5 DEF Power
  <2>7. Rows(q, S) \in Int /\ q[a] \in Int
    <3> HIDE DEF q, S
    <3> QED  BY <2>1, <2>4, RowsChange
  <2>8. t.votes[w] = Rows(Power(pt, D), S) /\ t.votes[w] \in Int
    BY <1>0
  <2>9. r.votes[w] = t.votes[w] + ps
    BY <1>3
  <2> HIDE DEF q, R, S, ps, g, pt, pr, o, bal
  <2>10. r.votes[w] = Rows(q, R)
    BY <1>2, <2>3, <2>5, <2>6, <2>7, <2>8, <2>9
  <2> QED  BY <2>10 DEF q, R, pr, o, bal
<1> HIDE DEF o, bal, pr
<1>8. Tallied(D, pr, r.votes, o, bal)
  BY <1>0, <1>3, <1>4, <1>5, <1>6, <1>7 DEF Tallied
<1> QED  BY <1>8 DEF o, bal, pr

\* An account without proxy and ballots that gets a proxy.
LEMMA TallyGraft ==
  ASSUME NEW D, NEW t, NEW p \in ProxyMap, Acyclic(p), NEW a \in Accounts, p[a] # NoProxy,
         NEW o, o = Cut(p, a),
         Tallied(D, t.proxied, t.votes, o, {v \in ballots : v[1] # a}),
         NEW r, r = adjust_proxied_witness_votes(t, p, a, Under(D, o, a))
  PROVE  Tallied(D, r.proxied, r.votes, p, {v \in ballots : v[1] # a})
<1> DEFINE g == Under(D, p, a)
           pt == t.proxied
           pr == r.proxied
           bal == {v \in ballots : v[1] # a}
<1>0. /\ Depth \in Nat /\ IsFiniteSet(Accounts) /\ NoProxy \notin Accounts
      /\ D \in [Accounts -> Int] /\ pt \in Tables /\ t.votes \in [Witness -> Int]
      /\ Exact(pt, o, D)
      /\ bal \subseteq Accounts \X Witness /\ \A v \in bal : o[v[1]] = NoProxy
      /\ \A w \in Witness : t.votes[w] = Rows(Power(pt, D), Voting(bal, o, w))
  BY Constants DEF Tallied
<1>1. /\ o \in ProxyMap /\ o[a] = NoProxy
      /\ \A x \in Accounts : x # a => o[x] = p[x]
  BY CutAcyclic
<1>2. Under(D, o, a) = g
  <2>1. \A i \in 0 .. Depth : Reach(o, a, i) = Reach(p, a, i)
    BY CutOwn
  <2> QED  BY <2>1 DEF Under
<1>3. g \in Counts
  <2>1. 0 \in 0 .. Depth - 1
    BY Constants
  <2> QED  BY <1>0, <2>1, CutRows
<1>4. /\ pr \in Tables /\ Shifted(pr, pt, p, a, g)
      /\ r.votes \in [Witness -> Int]
      /\ \A w \in Witness : r.votes[w] = t.votes[w] + Passed(p, a, g, ballots, w)
  <2> HIDE DEF g
  <2> QED  BY <1>0, <1>2, <1>3, AdjustIs
<1>5. Exact(pr, p, D)
  <2> SUFFICES ASSUME NEW x \in Accounts, NEW j \in 0 .. Depth - 1
               PROVE  pr[x][j] = Rows(D, Reach(p, x, j + 1))
    BY DEF Exact
  <2>1. pr[x][j] = Rows(D, Reach(o, x, j + 1)) + Shift(p, a, g, x, j)
    BY <1>0, <1>4 DEF Shifted, Exact
  <2>2. Rows(D, Reach(o, x, j + 1)) = Rows(D, Reach(p, x, j + 1)) - Shift(p, a, g, x, j)
    BY <1>0, CutRows
  <2>3. Shift(p, a, g, x, j) \in Int
    <3> HIDE DEF g
    <3> QED  BY <1>0, <1>3, NegShift
  <2>4. Rows(D, Reach(p, x, j + 1)) \in Int
    <3>1. Reach(p, x, j + 1) \subseteq Accounts /\ IsFiniteSet(Reach(p, x, j + 1))
      BY <1>0, FS_Subset DEF Reach
    <3> QED  BY <1>0, <3>1, RowsChange
  <2> QED  BY <2>1, <2>2, <2>3, <2>4
<1>6. \A v \in bal : p[v[1]] = NoProxy
  <2>1. \A v \in bal : v[1] \in Accounts /\ v[1] # a
    BY <1>0
  <2> QED  BY <1>0, <1>1, <2>1
<1>7. ASSUME NEW w \in Witness
      PROVE  r.votes[w] = Rows(Power(pr, D), Voting(bal, p, w))
  <2> DEFINE S == Voting(ballots, p, w)
             q == Power(pr, D)
             ps == Passed(p, a, g, ballots, w)
  <2>1. Voting(bal, p, w) = S /\ Voting(bal, o, w) = S /\ a \notin S
    <3>1. \A x \in Accounts : <<x, w>> \in bal <=> <<x, w>> \in ballots /\ x # a
      OBVIOUS
    <3> HIDE DEF bal
    <3> QED  BY <1>1, <3>1 DEF Voting
  <2>2. /\ ps \in Int
        /\ Rows(q, S) = Rows(Power(pt, D), S) + ps - (IF a \in S THEN Prefix(g, Depth) ELSE 0)
    <3> HIDE DEF g, pr, pt
    <3> QED  BY <1>0, <1>3, <1>4, PassedOn
  <2>3. t.votes[w] = Rows(Power(pt, D), S) /\ t.votes[w] \in Int
    BY <1>0, <2>1
  <2>4. r.votes[w] = t.votes[w] + ps
    BY <1>4
  <2> HIDE DEF q, S, ps, g, pt, pr, bal
  <2>5. r.votes[w] = Rows(q, S)
    BY <2>1, <2>2, <2>3, <2>4
  <2> QED  BY <2>1, <2>5 DEF q, pr, bal
<1> HIDE DEF bal, pr
<1>8. Tallied(D, pr, r.votes, p, bal)
  BY <1>0, <1>4, <1>5, <1>6, <1>7 DEF Tallied
<1> QED  BY <1>8 DEF bal, pr

------------------------------------------------------------------------------
(* Every VEST that votes is counted once. *)

\* What b votes with itself is counted at x, which is k proxies above it: x votes
\* in its own name, or the votes get no further.
TopOf(p, b, x, k) == Chain(p, b)[k] = x /\ (k = Depth \/ p[x] = NoProxy)

\* There is such an account, ...
LEMMA TopExists ==
  ASSUME NEW p \in ProxyMap, NEW b \in Accounts
  PROVE  \E x \in Accounts, k \in 0 .. Depth : TopOf(p, b, x, k)
<1> DEFINE c == Chain(p, b)
           Root(m) == c[m] \in Accounts /\ p[c[m]] = NoProxy
           S == {k \in 0 .. Depth : c[k] \in Accounts \/ \E m \in 0 .. Depth : Root(m)}
<1>0. Depth \in Nat /\ b \in Above
  BY Constants DEF Above
<1>1. /\ \A k \in 0 .. Depth : c[k] \in Above
      /\ c[0] = b /\ \A k \in 0 .. Depth - 1 : c[k + 1] = Up(p, c[k])
  BY <1>0, Steps
<1>2. 0 \in S
  BY <1>0, <1>1
<1>3. ASSUME NEW k \in 1 .. Depth, k - 1 \in S PROVE k \in S
  <2>1. k - 1 \in 0 .. Depth - 1 /\ (k - 1) + 1 = k /\ k - 1 \in 0 .. Depth /\ k \in 0 .. Depth
    BY <1>0
  <2>2. CASE \E m \in 0 .. Depth : Root(m)
    BY <2>1, <2>2
  <2>3. CASE c[k - 1] \in Accounts
    <3>1. c[k] = p[c[k - 1]]
      BY <1>1, <2>1, <2>3, Constants DEF Up
    <3>2. CASE c[k] = NoProxy
      <4>1. Root(k - 1)
        BY <2>3, <3>1, <3>2
      <4> QED  BY <2>1, <4>1
    <3>3. CASE c[k] # NoProxy
      BY <1>1, <2>1, <3>3 DEF Above
    <3> QED  BY <3>2, <3>3
  <2> QED  BY <1>3, <2>2, <2>3
<1> HIDE DEF S
<1>4. Depth \in S
  BY <1>0, <1>2, <1>3, UpTo
<1>5. CASE \E m \in 0 .. Depth : Root(m)
  <2>1. PICK m \in 0 .. Depth : Root(m)
    BY <1>5
  <2> QED  BY <2>1 DEF TopOf
<1>6. CASE c[Depth] \in Accounts
  <2>1. Depth \in 0 .. Depth
    BY <1>0
  <2> QED  BY <1>6, <2>1 DEF TopOf
<1> QED  BY <1>4, <1>5, <1>6 DEF S

\* ... and only one.
LEMMA TopOnce ==
  ASSUME NEW p \in ProxyMap, NEW b \in Accounts,
         NEW x \in Accounts, NEW k \in 0 .. Depth, TopOf(p, b, x, k),
         NEW y \in Accounts, NEW l \in 0 .. Depth, TopOf(p, b, y, l)
  PROVE  x = y /\ k = l
<1>0. Depth \in Nat /\ NoProxy \notin Accounts /\ b \in Above
  BY Constants DEF Above
<1>1. ASSUME NEW u \in Accounts, NEW i \in 0 .. Depth, TopOf(p, b, u, i),
             NEW v \in Accounts, NEW j \in 0 .. Depth, TopOf(p, b, v, j), i < j
      PROVE  FALSE
  <2>1. i \in 0 .. Depth - 1 /\ i + 1 \in 0 .. Depth /\ j \in i + 1 .. Depth /\ i # Depth
    BY <1>0, <1>1
  <2>2. Chain(p, b)[i] = u /\ p[u] = NoProxy /\ Chain(p, b)[j] = v
    BY <1>1, <2>1 DEF TopOf
  <2>3. Chain(p, b)[i + 1] = NoProxy
    BY <1>0, <2>1, <2>2, Steps DEF Up
  <2>4. Chain(p, b)[j] = NoProxy
    BY <1>0, <2>1, <2>3, Ended
  <2> QED  BY <1>0, <2>2, <2>4
<1>2. ~(k < l) /\ ~(l < k)
  BY <1>1
<1>3. k = l
  BY <1>0, <1>2
<1> QED  BY <1>3 DEF TopOf

\* What is counted at each account.
Count(pr, p, D) ==
  [x \in Accounts |-> IF p[x] = NoProxy THEN Power(pr, D)[x] ELSE pr[x][Depth - 1]]

\* At an account that votes in its own name, everyone below it is counted.
LEMMA CountRoot ==
  ASSUME NEW p \in ProxyMap, Acyclic(p), NEW D \in [Accounts -> Int],
         NEW pr \in Tables, Exact(pr, p, D), NEW x \in Accounts
  PROVE  Power(pr, D)[x] = Rows(D, {b \in Accounts : \E k \in 0 .. Depth : Chain(p, b)[k] = x})
<1> DEFINE S == {b \in Accounts : \E k \in 0 .. Depth : Chain(p, b)[k] = x}
           f == [b \in S |-> D[b]]
           A == 0 .. Depth
           u == Under(D, p, x)
           far == [b \in S |-> CHOOSE k \in A : Chain(p, b)[k] = x]
<1>0. Depth \in Nat /\ IsFiniteSet(Accounts) /\ IsFiniteSet(A)
  BY Constants, FS_Interval
<1>1. S \subseteq Accounts /\ IsFiniteSet(S) /\ f \in [S -> Int]
  BY <1>0, FS_Subset
<1>2. u \in Counts /\ Prefix(u, Depth) = Power(pr, D)[x]
  BY PowerSum
<1>3. u \in [A -> Int] /\ \A i \in A : u[i] = Rows(D, Reach(p, x, i))
  BY <1>2 DEF Counts, Under
<1>4. ASSUME NEW b \in S PROVE far[b] \in A /\ Chain(p, b)[far[b]] = x
  <2>1. \E k \in A : Chain(p, b)[k] = x
    OBVIOUS
  <2> QED  BY <2>1
<1>5. far \in [S -> A]
  BY <1>4
<1>6. ASSUME NEW i \in A PROVE {b \in S : far[b] = i} = Reach(p, x, i)
  <2>1. ASSUME NEW b \in Accounts, Chain(p, b)[i] = x PROVE b \in S /\ far[b] = i
    <3>1. b \in S
      BY <2>1
    <3>2. far[b] \in A /\ Chain(p, b)[far[b]] = x
      BY <1>4, <3>1
    <3> HIDE DEF far
    <3>3. b \in Above
      BY DEF Above
    <3>4. far[b] = i
      BY <2>1, <3>2, <3>3, Once
    <3> QED  BY <3>1, <3>4
  <2> HIDE DEF far
  <2>2. ASSUME NEW b \in S, far[b] = i PROVE b \in Accounts /\ Chain(p, b)[i] = x
    BY <1>1, <1>4, <2>2
  <2> HIDE DEF S
  <2> QED  BY <1>1, <2>1, <2>2 DEF Reach
<1>7. ASSUME NEW i \in A
      PROVE  u[i] = SumFunction([b \in {b \in S : far[b] = i} |-> f[b]])
  <2> DEFINE R == {b \in S : far[b] = i}
  <2>1. R = Reach(p, x, i)
    BY <1>6
  <2>2. [b \in R |-> f[b]] = [b \in R |-> D[b]]
    OBVIOUS
  <2>3. Rows(D, R) = SumFunction([b \in R |-> D[b]])
    BY DEF Rows
  <2>4. u[i] = Rows(D, R)
    BY <1>3, <2>1
  <2> QED  BY <2>2, <2>3, <2>4
<1> HIDE DEF far, S, u, f
<1>8. SumFunction(u) = SumFunction(f)
  <2>1. u \in [A -> Int] /\ IsFiniteSet(A)
    BY <1>0, <1>3
  <2> HIDE DEF A
  <2> QED  BY <1>1, <1>5, <1>7, <2>1, SumByOwner
<1>9. Prefix(u, Depth) = SumFunction(u)
  <2>1. u = [i \in A |-> u[i]]
    BY <1>3
  <2> QED  BY <2>1 DEF Prefix
<1>10. Rows(D, S) = SumFunction(f)
  BY DEF Rows, f
<1> QED  BY <1>2, <1>8, <1>9, <1>10 DEF S

\* What is counted is what there is to vote with.
LEMMA CountAll ==
  ASSUME NEW p \in ProxyMap, Acyclic(p), NEW D \in [Accounts -> Int],
         NEW pr \in Tables, Exact(pr, p, D)
  PROVE  /\ Count(pr, p, D) \in [Accounts -> Int]
         /\ SumFunction(Count(pr, p, D)) = SumFunction(D)
<1> DEFINE top == [b \in Accounts |-> CHOOSE x \in Accounts : \E k \in 0 .. Depth : TopOf(p, b, x, k)]
           cn == Count(pr, p, D)
<1>0. Depth \in Nat /\ Depth >= 1 /\ IsFiniteSet(Accounts)
  BY Constants
<1>1. ASSUME NEW b \in Accounts
      PROVE  top[b] \in Accounts /\ \E k \in 0 .. Depth : TopOf(p, b, top[b], k)
  <2>1. \E x \in Accounts : \E k \in 0 .. Depth : TopOf(p, b, x, k)
    BY TopExists
  <2> QED  BY <2>1
<1>2. top \in [Accounts -> Accounts]
  BY <1>1
<1>3. cn \in [Accounts -> Int]
  <2>1. \A x \in Accounts : pr[x][Depth - 1] \in Int
    BY <1>0 DEF Tables
  <2>2. Power(pr, D) \in [Accounts -> Int]
    BY PowerType
  <2> QED  BY <2>1, <2>2 DEF Count
<1>4. ASSUME NEW x \in Accounts, NEW b \in Accounts
      PROVE  top[b] = x <=> \E k \in 0 .. Depth : TopOf(p, b, x, k)
  <2>1. top[b] \in Accounts /\ \E k \in 0 .. Depth : TopOf(p, b, top[b], k)
    BY <1>1
  <2> HIDE DEF top
  <2> QED  BY <2>1, TopOnce
<1> HIDE DEF top
<1>5. ASSUME NEW x \in Accounts
      PROVE  cn[x] = SumFunction([b \in {b \in Accounts : top[b] = x} |-> D[b]])
  <2> DEFINE R == {b \in Accounts : top[b] = x}
  <2>1. Rows(D, R) = SumFunction([b \in R |-> D[b]])
    BY DEF Rows
  <2>2. CASE p[x] = NoProxy
    <3>1. R = {b \in Accounts : \E k \in 0 .. Depth : Chain(p, b)[k] = x}
      BY <1>4, <2>2 DEF TopOf
    <3>2. Power(pr, D)[x] = Rows(D, R)
      BY <3>1, CountRoot
    <3>3. cn[x] = Power(pr, D)[x]
      BY <2>2 DEF Count
    <3> QED  BY <2>1, <3>2, <3>3
  <2>3. CASE p[x] # NoProxy
    <3>1. Depth \in 0 .. Depth /\ Depth - 1 \in 0 .. Depth - 1 /\ (Depth - 1) + 1 = Depth
      BY <1>0
    <3>2. R = Reach(p, x, Depth)
      BY <1>4, <2>3, <3>1 DEF TopOf, Reach
    <3>3. pr[x][Depth - 1] = Rows(D, Reach(p, x, (Depth - 1) + 1))
      BY <3>1 DEF Exact
    <3>4. cn[x] = pr[x][Depth - 1]
      BY <2>3 DEF Count
    <3> QED  BY <2>1, <3>1, <3>2, <3>3, <3>4
  <2> QED  BY <2>2, <2>3
<1> HIDE DEF cn
<1>6. SumFunction(cn) = SumFunction(D)
  BY <1>0, <1>2, <1>3, <1>5, SumByOwner
<1> QED  BY <1>3, <1>6 DEF cn

\* So those who vote in their own name have no more votes than there are, and no
\* count is negative.
LEMMA CountBound ==
  ASSUME NEW p \in ProxyMap, Acyclic(p), NEW D \in [Accounts -> Int],
         \A x \in Accounts : D[x] \in Nat,
         NEW pr \in Tables, Exact(pr, p, D)
  PROVE  /\ \A x \in Accounts, j \in 0 .. Depth - 1 : pr[x][j] \in Nat
         /\ \A x \in Accounts : Power(pr, D)[x] \in Nat
         /\ \A S \in SUBSET {x \in Accounts : p[x] = NoProxy} :
              Rows(Power(pr, D), S) \in Nat /\ Rows(Power(pr, D), S) <= SumFunction(D)
<1> DEFINE cn == Count(pr, p, D)
           q == Power(pr, D)
<1>0. Depth \in Nat /\ Depth >= 1 /\ IsFiniteSet(Accounts) /\ IsFiniteSet(0 .. Depth - 1)
  BY Constants, FS_Interval
<1>1. ASSUME NEW x \in Accounts, NEW j \in 0 .. Depth - 1 PROVE pr[x][j] \in Nat
  <2>1. Reach(p, x, j + 1) \subseteq Accounts /\ IsFiniteSet(Reach(p, x, j + 1))
    BY <1>0, FS_Subset DEF Reach
  <2>2. \A y \in Reach(p, x, j + 1) : D[y] \in Nat
    BY <2>1
  <2>3. Rows(D, Reach(p, x, j + 1)) \in Nat
    BY <2>1, <2>2, RowsChange
  <2> QED  BY <2>3 DEF Exact
<1>2. ASSUME NEW x \in Accounts PROVE q[x] \in Nat
  <2> DEFINE s == pr[x]
  <2>1. s \in [0 .. Depth - 1 -> Int] /\ \A j \in 0 .. Depth - 1 : s[j] \in Nat
    BY <1>1 DEF Tables
  <2> HIDE DEF s
  <2>2. SumFunction(s) \in Nat
    BY <1>0, <2>1, SumNat
  <2>3. q[x] = D[x] + SumFunction(s) /\ D[x] \in Nat
    BY DEF Power, s
  <2> HIDE DEF q
  <2> QED  BY <2>2, <2>3
<1>3. cn \in [Accounts -> Int] /\ SumFunction(cn) = SumFunction(D)
  BY CountAll
<1>4. \A x \in Accounts : cn[x] \in Nat
  <2>1. Depth - 1 \in 0 .. Depth - 1
    BY <1>0
  <2> HIDE DEF q
  <2> QED  BY <1>1, <1>2, <2>1 DEF Count, q
<1>5. ASSUME NEW S \in SUBSET {x \in Accounts : p[x] = NoProxy}
      PROVE  Rows(q, S) \in Nat /\ Rows(q, S) <= SumFunction(D)
  <2>1. S \subseteq Accounts /\ IsFiniteSet(S) /\ Accounts \subseteq Accounts
    BY <1>0, FS_Subset
  <2>2. [x \in S |-> q[x]] = [x \in S |-> cn[x]]
    BY DEF Count
  <2>3. Rows(q, S) = Rows(cn, S)
    <3> HIDE DEF q, cn
    <3> QED  BY <2>2 DEF Rows
  <2> HIDE DEF cn
  <2>4. Rows(cn, S) \in Nat
    <3>1. \A x \in S : cn[x] \in Nat
      BY <1>4, <2>1
    <3> QED  BY <1>3, <2>1, <3>1, RowsChange
  <2>5. Rows(cn, S) <= Rows(cn, Accounts)
    BY <1>0, <1>3, <1>4, <2>1, RowsMore
  <2>6. Rows(cn, Accounts) = SumFunction(cn)
    <3>1. cn = [x \in Accounts |-> cn[x]]
      BY <1>3
    <3> QED  BY <3>1 DEF Rows
  <2> QED  BY <1>3, <2>3, <2>4, <2>5, <2>6
<1> QED  BY <1>1, <1>2, <1>5

------------------------------------------------------------------------------
(* Delayed votes. *)

Entry == [time : Nat, val : Nat \ {0}]
Spaced(s) == \A i \in 2 .. Len(s) : s[i].time >= s[i - 1].time + DelayInterval

\* What the first k entries hold.
FirstVals(s, k) == SumFunction([i \in 1 .. k |-> s[i].val])

\* It grows entry by entry.
LEMMA FirstValsStep ==
  ASSUME NEW s \in Seq(Entry)
  PROVE  /\ FirstVals(s, 0) = 0
         /\ \A k \in 0 .. Len(s) : FirstVals(s, k) \in Nat
         /\ \A k \in 1 .. Len(s) : FirstVals(s, k) = FirstVals(s, k - 1) + s[k].val
         /\ \A k \in 0 .. Len(s) : SumVal(SubSeq(s, 1, k)) = FirstVals(s, k)
         /\ SumVal(s) = FirstVals(s, Len(s))
<1> DEFINE F(k) == [i \in 1 .. k |-> s[i].val]
<1>0. Len(s) \in Nat /\ \A i \in 1 .. Len(s) : s[i].val \in Nat
  <2>1. \A i \in 1 .. Len(s) : s[i] \in Entry
    OBVIOUS
  <2>2. \A x \in Entry : x.val \in Nat
    BY DEF Entry
  <2> QED  BY <2>1, <2>2
<1>1. ASSUME NEW k \in 0 .. Len(s)
      PROVE  F(k) \in [1 .. k -> Int] /\ IsFiniteSet(1 .. k) /\ \A i \in 1 .. k : F(k)[i] \in Nat
  <2>1. k \in Int /\ \A i \in 1 .. k : i \in 1 .. Len(s)
    BY <1>0
  <2>2. \A i \in 1 .. k : s[i].val \in Nat
    BY <1>0, <2>1
  <2>3. IsFiniteSet(1 .. k)
    BY <2>1, FS_Interval
  <2> QED  BY <2>2, <2>3
<1>2. FirstVals(s, 0) = 0
  <2>1. F(0) \in [1 .. 0 -> Int] /\ IsFiniteSet(1 .. 0)
    BY <1>0, <1>1
  <2>2. \A i \in 1 .. 0 : F(0)[i] = 0
    OBVIOUS
  <2> DEFINE f == F(0)
  <2> HIDE DEF f
  <2>3. SumFunction(f) = 0
    BY <2>1, <2>2, SumZero DEF f
  <2> QED  BY <2>3 DEF f, FirstVals
<1>3. ASSUME NEW k \in 0 .. Len(s) PROVE FirstVals(s, k) \in Nat
  <2> DEFINE f == F(k)
  <2>1. f \in [1 .. k -> Int] /\ IsFiniteSet(1 .. k) /\ \A i \in 1 .. k : f[i] \in Nat
    BY <1>1
  <2> HIDE DEF f
  <2>2. SumFunction(f) \in Nat
    BY <2>1, SumNat
  <2> QED  BY <2>2 DEF f, FirstVals
<1>4. ASSUME NEW k \in 1 .. Len(s) PROVE FirstVals(s, k) = FirstVals(s, k - 1) + s[k].val
  <2> DEFINE U == 1 .. Len(s)
             g == [i \in U |-> s[i].val]
             K == 1 .. k
  <2>1. /\ k \in Int /\ k \in K /\ K \subseteq U /\ K \ {k} = 1 .. k - 1 /\ 1 .. k - 1 \subseteq U
        /\ k - 1 \in 0 .. Len(s)
    BY <1>0
  <2>2. g \in [U -> Int] /\ g[k] = s[k].val /\ IsFiniteSet(K)
    <3>1. IsFiniteSet(K)
      BY <2>1, FS_Interval
    <3>2. g \in [U -> Int]
      BY <1>0
    <3> QED  BY <3>1, <3>2
  <2>3. FirstVals(s, k) = Rows(g, K)
    <3>1. [i \in K |-> s[i].val] = [i \in K |-> g[i]]
      BY <2>1
    <3> QED  BY <3>1 DEF FirstVals, Rows
  <2>4. FirstVals(s, k - 1) = Rows(g, K \ {k})
    <3>1. [i \in 1 .. k - 1 |-> s[i].val] = [i \in 1 .. k - 1 |-> g[i]]
      BY <2>1
    <3> HIDE DEF g
    <3> QED  BY <2>1, <3>1 DEF FirstVals, Rows
  <2>5. Rows(g, K \ {k}) = Rows(g, K) - g[k] /\ Rows(g, K) \in Int
    <3>1. g \in [U -> Int] /\ K \subseteq U /\ IsFiniteSet(K)
      BY <2>1, <2>2
    <3> HIDE DEF g, K, U
    <3>2. Rows(g, K) \in Int /\ \A x \in K : Rows(g, K \ {x}) = Rows(g, K) - g[x]
      BY <3>1, RowsChange
    <3> QED  BY <2>1, <3>2
  <2>6. s[k].val \in Nat
    BY <1>0
  <2> HIDE DEF g, K, U
  <2> QED  BY <2>2, <2>3, <2>4, <2>5, <2>6
<1>5. ASSUME NEW k \in 0 .. Len(s) PROVE SumVal(SubSeq(s, 1, k)) = FirstVals(s, k)
  <2> DEFINE e == SubSeq(s, 1, k)
  <2>1. DOMAIN e = 1 .. k /\ \A i \in 1 .. k : e[i] = s[i]
    BY <1>0
  <2>2. [i \in DOMAIN e |-> e[i].val] = F(k)
    BY <2>1
  <2> QED  BY <2>2 DEF SumVal, FirstVals
<1>6. SumVal(s) = FirstVals(s, Len(s))
  <2>1. DOMAIN s = 1 .. Len(s)
    OBVIOUS
  <2> QED  BY <2>1 DEF SumVal, FirstVals
<1> QED  BY <1>2, <1>3, <1>4, <1>5, <1>6

\* Two lists that begin the same hold the same so far.
LEMMA FirstValsSame ==
  ASSUME NEW s, NEW e, NEW k \in Nat, \A i \in 1 .. k : s[i].val = e[i].val
  PROVE  FirstVals(s, k) = FirstVals(e, k)
<1>1. [i \in 1 .. k |-> s[i].val] = [i \in 1 .. k |-> e[i].val]
  OBVIOUS
<1> QED  BY <1>1 DEF FirstVals

\* What is added counts, keeps the entries apart, and is of now.
LEMMA AddedIs ==
  ASSUME NEW s \in Seq(Entry), NEW n \in Nat, now \in Nat, Spaced(s)
  PROVE  /\ Added(s, n) \in Seq(Entry) /\ Spaced(Added(s, n))
         /\ SumVal(Added(s, n)) = SumVal(s) + n
         /\ \A i \in DOMAIN Added(s, n) :
              Added(s, n)[i].time = now \/ \E j \in DOMAIN s : Added(s, n)[i].time = s[j].time
<1> DEFINE m == Len(s)
<1>0. m \in Nat /\ DelayInterval \in Nat /\ SumVal(s) \in Nat /\ SumVal(s) = FirstVals(s, m)
  BY Constants, FirstValsStep
<1>1. CASE n = 0
  BY <1>0, <1>1 DEF Added
<1>2. CASE n # 0 /\ (m = 0 \/ now >= s[m].time + DelayInterval)
  <2> DEFINE new == [time |-> now, val |-> n]
             e == Append(s, new)
  <2>1. Added(s, n) = e
    BY <1>2 DEF Added
  <2>2. new \in Entry
    BY <1>2 DEF Entry
  <2>3. e \in Seq(Entry) /\ Len(e) = m + 1 /\ (\A i \in 1 .. m : e[i] = s[i]) /\ e[m + 1] = new
    BY <2>2
  <2>4. Spaced(e)
    <3>1. ASSUME NEW i \in 2 .. m + 1 PROVE e[i].time >= e[i - 1].time + DelayInterval
      <4>1. CASE i = m + 1
        <5>1. i - 1 = m /\ m \in 1 .. m /\ m # 0
          BY <1>0, <4>1
        <5> QED  BY <1>2, <2>3, <4>1, <5>1
      <4>2. CASE i # m + 1
        <5>1. i \in 2 .. m /\ i \in 1 .. m /\ i - 1 \in 1 .. m
          BY <1>0, <4>2
        <5>2. e[i] = s[i] /\ e[i - 1] = s[i - 1]
          BY <2>3, <5>1
        <5> QED  BY <5>1, <5>2 DEF Spaced
      <4> QED  BY <4>1, <4>2
    <3> HIDE DEF e
    <3> QED  BY <2>3, <3>1 DEF Spaced
  <2>5. SumVal(e) = SumVal(s) + n
    <3>1. m + 1 \in 1 .. Len(e) /\ (m + 1) - 1 = m
      BY <1>0, <2>3
    <3>2. SumVal(e) = FirstVals(e, m + 1) /\ FirstVals(e, m + 1) = FirstVals(e, m) + e[m + 1].val
      <4> HIDE DEF e
      <4> QED  BY <2>3, <3>1, FirstValsStep
    <3>3. FirstVals(s, m) = FirstVals(e, m)
      <4>1. \A i \in 1 .. m : s[i].val = e[i].val
        BY <2>3
      <4> HIDE DEF e
      <4> QED  BY <1>0, <4>1, FirstValsSame
    <3>4. e[m + 1].val = n
      BY <2>3
    <3> QED  BY <1>0, <3>2, <3>3, <3>4
  <2>6. ASSUME NEW i \in DOMAIN e
        PROVE  e[i].time = now \/ \E j \in DOMAIN s : e[i].time = s[j].time
    <3>1. i \in 1 .. m + 1 /\ DOMAIN s = 1 .. m
      BY <2>3
    <3>2. CASE i = m + 1
      BY <2>3, <3>2
    <3>3. CASE i # m + 1
      <4>1. i \in DOMAIN s /\ e[i] = s[i]
        BY <1>0, <2>3, <3>1, <3>3
      <4> QED  BY <4>1
    <3> QED  BY <3>2, <3>3
  <2> HIDE DEF e
  <2> QED  BY <2>1, <2>3, <2>4, <2>5, <2>6
<1>3. CASE n # 0 /\ ~(m = 0 \/ now >= s[m].time + DelayInterval)
  <2> DEFINE e == [s EXCEPT ![m].val = @ + n]
  <2>1. Added(s, n) = e
    BY <1>3 DEF Added
  <2>2. m \in 1 .. m /\ s[m] \in Entry /\ m >= 1
    BY <1>0, <1>3
  <2>3. /\ e \in Seq(Entry) /\ Len(e) = m /\ \A i \in 1 .. m : e[i].time = s[i].time
        /\ \A i \in 1 .. m - 1 : e[i].val = s[i].val
        /\ e[m].val = s[m].val + n
    <3>1. e = [i \in 1 .. m |-> IF i = m THEN [s[m] EXCEPT !.val = s[m].val + n] ELSE s[i]]
      BY <1>0, <2>2, SMTT(60)
    <3>2. [s[m] EXCEPT !.val = s[m].val + n] \in Entry
      BY <2>2 DEF Entry
    <3> DEFINE x == [s[m] EXCEPT !.val = s[m].val + n]
    <3>3. x.time = s[m].time /\ x.val = s[m].val + n
      BY <2>2 DEF Entry
    <3>4. e = [i \in 1 .. m |-> IF i = m THEN x ELSE s[i]]
      BY <3>1
    <3>5. x \in Entry
      BY <3>2
    <3> HIDE DEF e, x
    <3>6. \A i \in 1 .. m : (IF i = m THEN x ELSE s[i]) \in Entry
      BY <1>0, <3>5
    <3>7. e \in Seq(Entry) /\ Len(e) = m
      BY <1>0, <3>4, <3>6
    <3>8. \A i \in 1 .. m : e[i] = IF i = m THEN x ELSE s[i]
      BY <3>4
    <3>9. \A i \in 1 .. m - 1 : e[i] = s[i]
      BY <1>0, <3>8
    <3>10. e[m] = x
      BY <2>2, <3>8
    <3>11. \A i \in 1 .. m : e[i].time = s[i].time
      BY <3>3, <3>8
    <3> QED  BY <3>3, <3>7, <3>9, <3>10, <3>11
  <2> HIDE DEF e
  <2>4. Spaced(e)
    <3>1. ASSUME NEW i \in 2 .. m PROVE e[i].time = s[i].time /\ e[i - 1].time = s[i - 1].time
      <4>1. i \in 1 .. m /\ i - 1 \in 1 .. m
        BY <1>0
      <4> QED  BY <2>3, <4>1
    <3> QED  BY <2>3, <3>1 DEF Spaced
  <2>5. SumVal(e) = SumVal(s) + n
    <3>1. m \in 1 .. Len(e) /\ m - 1 \in Nat /\ m \in 1 .. Len(s) /\ m - 1 \in 0 .. Len(s)
      BY <1>0, <2>2, <2>3
    <3>2. SumVal(e) = FirstVals(e, m) /\ FirstVals(e, m) = FirstVals(e, m - 1) + e[m].val
      BY <2>3, <3>1, FirstValsStep
    <3>3. FirstVals(s, m) = FirstVals(s, m - 1) + s[m].val /\ FirstVals(s, m - 1) \in Nat
      BY <3>1, FirstValsStep
    <3>4. FirstVals(e, m - 1) = FirstVals(s, m - 1)
      BY <2>3, <3>1, FirstValsSame
    <3>5. s[m].val \in Nat
      BY <2>2 DEF Entry
    <3> QED  BY <1>0, <2>3, <3>2, <3>3, <3>4, <3>5
  <2>6. \A i \in DOMAIN e : \E j \in DOMAIN s : e[i].time = s[j].time
    <3>1. DOMAIN e = 1 .. m /\ DOMAIN s = 1 .. m
      BY <2>3
    <3> QED  BY <2>3, <3>1
  <2> QED  BY <2>1, <2>3, <2>4, <2>5, <2>6
<1> QED  BY <1>1, <1>2, <1>3

\* The lesser of two.
LEMMA MinTwo ==
  ASSUME NEW a \in Int, NEW b \in Int
  PROVE  Min({a, b}) = IF a <= b THEN a ELSE b
<1>1. \E x \in {a, b} : \A y \in {a, b} : x <= y
  OBVIOUS
<1>2. Min({a, b}) \in {a, b} /\ \A y \in {a, b} : Min({a, b}) <= y
  BY <1>1 DEF Min
<1>3. Min({a, b}) <= a /\ Min({a, b}) <= b
  BY <1>2
<1>4. Min({a, b}) = a \/ Min({a, b}) = b
  BY <1>2
<1> QED  BY <1>3, <1>4

\* The least of three.
LEMMA MinThree ==
  ASSUME NEW a \in Int, NEW b \in Int, NEW c \in Int
  PROVE  /\ Min({a, b, c}) \in {a, b, c}
         /\ Min({a, b, c}) <= a /\ Min({a, b, c}) <= b /\ Min({a, b, c}) <= c
<1>1. \E x \in {a, b, c} : \A y \in {a, b, c} : x <= y
  <2>1. CASE a <= b /\ a <= c
    BY <2>1
  <2>2. CASE b <= a /\ b <= c
    BY <2>2
  <2>3. CASE c <= a /\ c <= b
    BY <2>3
  <2> QED  BY <2>1, <2>2, <2>3
<1>2. Min({a, b, c}) \in {a, b, c} /\ \A y \in {a, b, c} : Min({a, b, c}) <= y
  BY <1>1 DEF Min
<1> QED  BY <1>2

\* Which entry is the last to be kept, when left is kept.
LEMMA CutPoint ==
  ASSUME NEW s \in Seq(Entry), NEW left \in Nat, left <= SumVal(s)
  PROVE  \E m \in 0 .. Len(s) :
           /\ left <= FirstVals(s, m)
           /\ \A k \in 0 .. m - 1 : FirstVals(s, k) < left
           /\ Cardinality({i \in DOMAIN s : SumVal(SubSeq(s, 1, i - 1)) < left}) = m
<1> DEFINE P(k) == FirstVals(s, k)
           T == {k \in 0 .. Len(s) : left <= P(k)}
<1>0. /\ Len(s) \in Nat /\ DOMAIN s = 1 .. Len(s)
      /\ \A k \in 0 .. Len(s) : P(k) \in Nat
      /\ \A k \in 0 .. Len(s) : SumVal(SubSeq(s, 1, k)) = P(k)
      /\ SumVal(s) = P(Len(s))
  BY FirstValsStep
<1>1. \A k \in 1 .. Len(s) : P(k) >= P(k - 1)
  <2>1. ASSUME NEW k \in 1 .. Len(s) PROVE P(k) >= P(k - 1)
    <3>1. P(k) = P(k - 1) + s[k].val
      BY FirstValsStep
    <3>2. s[k] \in Entry
      OBVIOUS
    <3>3. s[k].val \in Nat
      BY <3>2 DEF Entry
    <3>4. k - 1 \in 0 .. Len(s)
      BY <1>0
    <3>5. P(k - 1) \in Nat
      BY <1>0, <3>4
    <3> QED  BY <3>1, <3>3, <3>5
  <2> QED  BY <2>1
<1> HIDE DEF P
<1>2. Len(s) \in T /\ T \subseteq Nat
  BY <1>0
<1>3. PICK m \in T : \A k \in T : m <= k
  <2>1. T # {}
    BY <1>2
  <2> HIDE DEF T
  <2> QED  BY <1>2, <2>1, LeastNat
<1>4. m \in 0 .. Len(s) /\ left <= P(m) /\ m \in Nat
  BY <1>0, <1>3
<1>5. ASSUME NEW k \in 0 .. m - 1 PROVE P(k) < left
  <2>1. k \in 0 .. Len(s) /\ ~(m <= k)
    BY <1>0, <1>4
  <2>2. k \notin T
    BY <1>3, <2>1
  <2>3. ~(left <= P(k)) /\ P(k) \in Nat
    BY <1>0, <2>1, <2>2
  <2> QED  BY <2>3
<1>6. \A k \in m .. Len(s) : left <= P(k)
  <2> DEFINE n == Len(s) - m
             S == {l \in 0 .. n : left <= P(m + l)}
  <2>1. n \in Nat
    BY <1>0, <1>4
  <2>2. 0 \in S
    BY <1>4, <2>1
  <2>3. ASSUME NEW l \in 1 .. n, l - 1 \in S PROVE l \in S
    <3>1. m + l \in 1 .. Len(s) /\ (m + l) - 1 = m + (l - 1) /\ m + l \in 0 .. Len(s) /\ m + (l - 1) \in 0 .. Len(s)
      BY <1>0, <1>4, <2>1
    <3>2. P(m + l) >= P(m + (l - 1)) /\ left <= P(m + (l - 1))
      BY <1>1, <2>3, <3>1
    <3>3. P(m + l) \in Nat /\ P(m + (l - 1)) \in Nat
      BY <1>0, <3>1
    <3>4. left <= P(m + l)
      BY <3>2, <3>3
    <3> QED  BY <2>1, <3>4
  <2> HIDE DEF S
  <2>4. \A l \in 0 .. n : l \in S
    BY <2>1, <2>2, <2>3, UpTo
  <2>5. ASSUME NEW k \in m .. Len(s) PROVE left <= P(k)
    <3>1. k - m \in 0 .. n /\ m + (k - m) = k
      BY <1>0, <1>4
    <3>2. k - m \in S
      BY <2>4, <3>1
    <3> QED  BY <3>1, <3>2 DEF S
  <2> QED  BY <2>5
<1>7. {i \in DOMAIN s : SumVal(SubSeq(s, 1, i - 1)) < left} = 1 .. m
  <2>1. ASSUME NEW i \in 1 .. Len(s)
        PROVE  SumVal(SubSeq(s, 1, i - 1)) < left <=> i \in 1 .. m
    <3>1. i - 1 \in 0 .. Len(s)
      BY <1>0
    <3>2. SumVal(SubSeq(s, 1, i - 1)) = P(i - 1) /\ P(i - 1) \in Nat
      BY <1>0, <3>1
    <3>3. CASE i \in 1 .. m
      <4>1. i - 1 \in 0 .. m - 1
        BY <1>4, <3>3
      <4> QED  BY <1>5, <3>2, <3>3, <4>1
    <3>4. CASE i \notin 1 .. m
      <4>1. i - 1 \in m .. Len(s)
        BY <1>0, <1>4, <3>4
      <4>2. left <= P(i - 1)
        BY <1>6, <4>1
      <4> QED  BY <3>2, <3>4, <4>2
    <3> QED  BY <3>3, <3>4
  <2>2. \A i \in 1 .. m : i \in 1 .. Len(s)
    BY <1>0, <1>4
  <2> QED  BY <1>0, <2>1, <2>2
<1>8. Cardinality(1 .. m) = m
  BY <1>4, FS_Interval
<1> QED  BY <1>4, <1>5, <1>7, <1>8 DEF P

\* The youngest entries go first, and what is left adds up.
LEMMA ErasedIs ==
  ASSUME NEW s \in Seq(Entry), NEW count \in Nat, count <= SumVal(s), Spaced(s)
  PROVE  /\ Erased(s, count) \in Seq(Entry) /\ Spaced(Erased(s, count))
         /\ SumVal(Erased(s, count)) = SumVal(s) - count
         /\ \A i \in DOMAIN Erased(s, count) :
              i \in DOMAIN s /\ Erased(s, count)[i].time = s[i].time
<1> DEFINE left == SumVal(s) - count
           P(k) == FirstVals(s, k)
<1>0. /\ Len(s) \in Nat /\ DOMAIN s = 1 .. Len(s) /\ SumVal(s) = P(Len(s)) /\ P(0) = 0
      /\ \A k \in 0 .. Len(s) : P(k) \in Nat
      /\ \A k \in 0 .. Len(s) : SumVal(SubSeq(s, 1, k)) = P(k)
      /\ \A k \in 1 .. Len(s) : P(k) = P(k - 1) + s[k].val
  BY FirstValsStep
<1>1. left \in Nat /\ left <= SumVal(s)
  <2>1. SumVal(s) \in Nat
    BY <1>0
  <2> QED  BY <2>1
<1> DEFINE n == Cardinality({i \in DOMAIN s : SumVal(SubSeq(s, 1, i - 1)) < left})
           V(i) == Min({s[i].val, left - SumVal(SubSeq(s, 1, i - 1))})
           e == [i \in 1 .. n |-> [s[i] EXCEPT !.val = V(i)]]
<1>2. Erased(s, count) = e
  BY DEF Erased
<1>3. /\ n \in 0 .. Len(s) /\ left <= P(n)
      /\ \A k \in 0 .. n - 1 : P(k) < left
  <2> HIDE DEF left, P
  <2>1. PICK m \in 0 .. Len(s) :
           /\ left <= FirstVals(s, m)
           /\ \A k \in 0 .. m - 1 : FirstVals(s, k) < left
           /\ Cardinality({i \in DOMAIN s : SumVal(SubSeq(s, 1, i - 1)) < left}) = m
    BY <1>1, CutPoint
  <2>2. n = m
    BY <2>1
  <2> QED  BY <2>1, <2>2 DEF P
<1> HIDE DEF n, left, P
<1>4. n \in Nat
  BY <1>0, <1>3
<1>5. ASSUME NEW i \in 1 .. n
      PROVE  /\ i \in 1 .. Len(s) /\ s[i].val \in Nat \ {0} /\ P(i - 1) \in Nat /\ P(i - 1) < left
             /\ P(i) = P(i - 1) + s[i].val
             /\ V(i) = IF i = n THEN left - P(i - 1) ELSE s[i].val
             /\ V(i) \in Nat \ {0}
  <2>1. i \in 1 .. Len(s) /\ i - 1 \in 0 .. Len(s) /\ i - 1 \in 0 .. n - 1
    BY <1>0, <1>3, <1>4
  <2>2. s[i] \in Entry
    BY <2>1
  <2>3. s[i].val \in Nat \ {0}
    BY <2>2 DEF Entry
  <2>4. P(i - 1) \in Nat /\ P(i - 1) < left /\ P(i) = P(i - 1) + s[i].val /\ SumVal(SubSeq(s, 1, i - 1)) = P(i - 1)
    BY <1>0, <1>3, <2>1
  <2>5. V(i) = IF s[i].val <= left - P(i - 1) THEN s[i].val ELSE left - P(i - 1)
    <3>1. s[i].val \in Int /\ left - P(i - 1) \in Int
      BY <1>1, <2>3, <2>4
    <3>2. V(i) = Min({s[i].val, left - P(i - 1)})
      BY <2>4
    <3> HIDE DEF V
    <3> QED  BY <3>1, <3>2, MinTwo
  <2> HIDE DEF V
  <2>6. CASE i = n
    <3>1. left <= P(i - 1) + s[i].val
      BY <1>3, <2>4, <2>6
    <3>2. V(i) = left - P(i - 1)
      BY <1>1, <2>3, <2>4, <2>5, <3>1
    <3>3. V(i) \in Nat \ {0}
      BY <1>1, <2>4, <3>2
    <3> QED  BY <2>1, <2>3, <2>4, <2>6, <3>2, <3>3
  <2>7. CASE i # n
    <3>1. i \in 0 .. n - 1
      BY <1>4, <2>7
    <3>2. P(i - 1) + s[i].val < left
      BY <1>3, <2>4, <3>1
    <3>3. V(i) = s[i].val
      BY <1>1, <2>3, <2>4, <2>5, <3>2
    <3> QED  BY <2>1, <2>3, <2>4, <2>7, <3>3
  <2> QED  BY <2>6, <2>7
<1> HIDE DEF V
<1>6. \A i \in 1 .. n : [s[i] EXCEPT !.val = V(i)] \in Entry /\ [s[i] EXCEPT !.val = V(i)].time = s[i].time
                         /\ [s[i] EXCEPT !.val = V(i)].val = V(i)
  <2>1. ASSUME NEW i \in 1 .. n
        PROVE  [s[i] EXCEPT !.val = V(i)] \in Entry /\ [s[i] EXCEPT !.val = V(i)].time = s[i].time
                 /\ [s[i] EXCEPT !.val = V(i)].val = V(i)
    <3>1. s[i] \in Entry /\ V(i) \in Nat \ {0}
      BY <1>5
    <3> QED  BY <3>1 DEF Entry
  <2> QED  BY <2>1
<1>7. e \in Seq(Entry) /\ Len(e) = n /\ DOMAIN e = 1 .. n
  <2>1. e \in [1 .. n -> Entry]
    BY <1>6
  <2> HIDE DEF e
  <2> QED  BY <1>4, <2>1
<1>8. \A i \in 1 .. n : e[i].time = s[i].time /\ e[i].val = V(i)
  BY <1>6
<1> HIDE DEF e
<1>9. Spaced(e)
  <2>1. ASSUME NEW i \in 2 .. n PROVE e[i].time >= e[i - 1].time + DelayInterval
    <3>1. i \in 1 .. n /\ i - 1 \in 1 .. n /\ i \in 2 .. Len(s)
      BY <1>0, <1>3, <1>4
    <3>2. e[i].time = s[i].time /\ e[i - 1].time = s[i - 1].time
      BY <1>8, <3>1
    <3> QED  BY <3>1, <3>2 DEF Spaced
  <2> QED  BY <1>7, <2>1 DEF Spaced
<1>10. SumVal(e) = left
  <2>1. CASE n = 0
    <3>1. left = 0
      BY <1>0, <1>1, <1>3, <2>1
    <3>2. SumVal(e) = FirstVals(e, 0) /\ FirstVals(e, 0) = 0
      BY <1>7, <2>1, FirstValsStep
    <3> QED  BY <3>1, <3>2
  <2>2. CASE n # 0
    <3>1. n \in 1 .. n /\ n \in 1 .. Len(e) /\ n - 1 \in Nat
      BY <1>4, <1>7, <2>2
    <3>2. SumVal(e) = FirstVals(e, n) /\ FirstVals(e, n) = FirstVals(e, n - 1) + e[n].val
      BY <1>7, <3>1, FirstValsStep
    <3>3. FirstVals(e, n - 1) = P(n - 1)
      <4>1. ASSUME NEW i \in 1 .. n - 1 PROVE e[i].val = s[i].val
        <5>1. i \in 1 .. n /\ i # n
          BY <1>4
        <5> QED  BY <1>5, <1>8, <5>1
      <4> QED  BY <3>1, <4>1, FirstValsSame DEF P
    <3>4. e[n].val = left - P(n - 1) /\ P(n - 1) \in Nat
      BY <1>5, <1>8, <3>1
    <3> QED  BY <1>1, <3>2, <3>3, <3>4
  <2> QED  BY <2>1, <2>2
<1>11. \A i \in DOMAIN e : i \in DOMAIN s /\ e[i].time = s[i].time
  BY <1>0, <1>5, <1>7, <1>8
<1> QED  BY <1>2, <1>7, <1>9, <1>10, <1>11 DEF left

\* The oldest entry gone.
LEMMA TailIs ==
  ASSUME NEW s \in Seq(Entry), s # <<>>, Spaced(s)
  PROVE  /\ Tail(s) \in Seq(Entry) /\ Spaced(Tail(s))
         /\ s[1] \in Entry
         /\ SumVal(Tail(s)) = SumVal(s) - s[1].val
         /\ \A i \in DOMAIN Tail(s) : i + 1 \in DOMAIN s /\ Tail(s)[i].time = s[i + 1].time
<1> DEFINE e == Tail(s)
           n == Len(s)
<1>1. n \in Nat /\ n >= 1 /\ DOMAIN s = 1 .. n
  OBVIOUS
<1>2. e \in Seq(Entry) /\ Len(e) = n - 1 /\ \A i \in 1 .. n - 1 : e[i] = s[i + 1]
  OBVIOUS
<1>3. DOMAIN e = 1 .. n - 1
  BY <1>2
<1>4. s[1] \in Entry
  BY <1>1
<1>5. s[1].val \in Nat
  BY <1>4 DEF Entry
<1> HIDE DEF e
<1>6. Spaced(e)
  <2>1. ASSUME NEW i \in 2 .. n - 1 PROVE e[i].time >= e[i - 1].time + DelayInterval
    <3>1. i \in 1 .. n - 1 /\ i - 1 \in 1 .. n - 1 /\ i + 1 \in 2 .. n /\ (i + 1) - 1 = (i - 1) + 1
      BY <1>1
    <3>2. e[i] = s[i + 1] /\ e[i - 1] = s[(i - 1) + 1]
      BY <1>2, <3>1
    <3> QED  BY <3>1, <3>2 DEF Spaced
  <2> QED  BY <1>2, <2>1 DEF Spaced
<1> DEFINE S == {k \in 0 .. n - 1 : FirstVals(e, k) = FirstVals(s, k + 1) - s[1].val}
<1>7. 0 \in S
  <2>1. 1 \in 1 .. Len(s) /\ 1 - 1 = 0
    BY <1>1
  <2>2. FirstVals(s, 1) = FirstVals(s, 1 - 1) + s[1].val /\ FirstVals(s, 0) = 0
    BY <2>1, FirstValsStep
  <2>3. FirstVals(e, 0) = 0
    BY <1>2, FirstValsStep
  <2>4. FirstVals(s, 0 + 1) = s[1].val
    BY <1>5, <2>1, <2>2
  <2> QED  BY <1>1, <1>5, <2>3, <2>4
<1>8. ASSUME NEW k \in 1 .. n - 1, k - 1 \in S PROVE k \in S
  <2>1. k \in 1 .. Len(e) /\ k + 1 \in 1 .. Len(s) /\ (k + 1) - 1 = k /\ (k - 1) + 1 = k /\ k \in 0 .. Len(s)
    BY <1>1, <1>2
  <2>2. FirstVals(e, k) = FirstVals(e, k - 1) + e[k].val
    BY <1>2, <2>1, FirstValsStep
  <2>3. FirstVals(s, k + 1) = FirstVals(s, (k + 1) - 1) + s[k + 1].val /\ FirstVals(s, k) \in Nat
    BY <2>1, FirstValsStep
  <2>4. e[k] = s[k + 1] /\ s[k + 1] \in Entry
    BY <1>1, <1>2, <2>1
  <2>5. s[k + 1].val \in Nat
    BY <2>4 DEF Entry
  <2>6. FirstVals(e, k - 1) = FirstVals(s, k) - s[1].val
    BY <1>8, <2>1
  <2>7. FirstVals(e, k) = FirstVals(s, k + 1) - s[1].val
    BY <1>5, <2>1, <2>2, <2>3, <2>4, <2>5, <2>6
  <2> QED  BY <1>1, <2>7
<1> HIDE DEF S
<1>9. n - 1 \in S
  <2>1. n - 1 \in Nat /\ n - 1 \in 0 .. n - 1
    BY <1>1
  <2> QED  BY <1>7, <1>8, <2>1, UpTo
<1>10. SumVal(e) = SumVal(s) - s[1].val
  <2>1. FirstVals(e, n - 1) = FirstVals(s, (n - 1) + 1) - s[1].val
    BY <1>9 DEF S
  <2>2. SumVal(e) = FirstVals(e, n - 1) /\ SumVal(s) = FirstVals(s, n) /\ (n - 1) + 1 = n
    BY <1>1, <1>2, FirstValsStep
  <2> QED  BY <2>1, <2>2
<1>11. \A i \in DOMAIN e : i + 1 \in DOMAIN s /\ e[i].time = s[i + 1].time
  BY <1>1, <1>2, <1>3
<1> QED  BY <1>2, <1>4, <1>6, <1>10, <1>11 DEF e

\* Entries an interval apart, none of which is due, are not many.
LEMMA FewEntries ==
  ASSUME NEW s \in Seq(Entry), Spaced(s), now \in Nat,
         \A i \in DOMAIN s : s[i].time <= now /\ s[i].time + DelayTotal > now
  PROVE  Len(s) <= (DelayTotal + DelayInterval - 1) \div DelayInterval
<1> DEFINE n == Len(s)
           d == DelayInterval
           S == {k \in 0 .. n - 1 : s[k + 1].time >= s[1].time + k * d}
<1>0. n \in Nat /\ d \in Nat /\ d >= 1 /\ DelayTotal \in Nat /\ DelayTotal >= 1
      /\ DOMAIN s = 1 .. n
  BY Constants
<1>1. \A i \in 1 .. n : s[i].time \in Nat
  <2>1. \A i \in 1 .. n : s[i] \in Entry
    OBVIOUS
  <2>2. \A x \in Entry : x.time \in Nat
    BY DEF Entry
  <2> QED  BY <2>1, <2>2
<1>2. CASE n = 0
  BY <1>0, <1>2, Z3
<1>3. CASE n # 0
  <2>1. 0 \in S
    BY <1>0, <1>1, <1>3
  <2>2. ASSUME NEW k \in 1 .. n - 1, k - 1 \in S PROVE k \in S
    <3>1. k \in 1 .. n /\ k + 1 \in 2 .. n /\ k + 1 \in 1 .. n /\ (k + 1) - 1 = k /\ (k - 1) + 1 = k /\ k \in 0 .. n - 1 /\ 1 \in 1 .. n
      BY <1>0
    <3>2. s[k].time >= s[1].time + (k - 1) * d
      BY <2>2, <3>1
    <3>3. s[k + 1].time >= s[k].time + d
      BY <3>1 DEF Spaced
    <3>4. (k - 1) * d + d = k * d /\ (k - 1) * d \in Int /\ k * d \in Int
      BY <1>0
    <3>5. s[1].time \in Nat /\ s[k].time \in Nat /\ s[k + 1].time \in Nat
      BY <1>1, <3>1
    <3>6. s[k + 1].time >= s[1].time + k * d
      <4> DEFINE u == (k - 1) * d
                 v == k * d
      <4> HIDE DEF u, v
      <4>1. u + d = v /\ u \in Int /\ v \in Int /\ s[k].time >= s[1].time + u
        BY <3>2, <3>4 DEF u, v
      <4>2. s[k + 1].time >= s[1].time + v
        BY <1>0, <3>3, <3>5, <4>1, SMTT(60)
      <4> QED  BY <4>2 DEF v
    <3> QED  BY <3>1, <3>6
  <2> HIDE DEF S
  <2>3. n - 1 \in Nat /\ n - 1 \in 0 .. n - 1 /\ (n - 1) + 1 = n
    BY <1>0, <1>3
  <2>4. n - 1 \in S
    BY <2>1, <2>2, <2>3, UpTo
  <2>5. s[n].time >= s[1].time + (n - 1) * d
    BY <2>3, <2>4 DEF S
  <2>6. s[n].time <= now /\ s[1].time + DelayTotal > now /\ s[n].time \in Nat /\ s[1].time \in Nat
    <3>1. n \in 1 .. n /\ 1 \in 1 .. n
      BY <1>0, <1>3
    <3> QED  BY <1>0, <1>1, <3>1
  <2> DEFINE u == (n - 1) * d
             q == (DelayTotal + d - 1) \div d
  <2>7. u \in Int /\ n * d = u + d
    BY <1>0
  <2>8. u < DelayTotal
    <3>1. s[n].time >= s[1].time + u
      BY <2>5
    <3> HIDE DEF u
    <3> QED  BY <1>0, <2>6, <2>7, <3>1
  <2>9. q \in Int /\ DelayTotal + d - 1 < (q + 1) * d
    BY <1>0, Z3
  <2>10. n <= q
    <3> SUFFICES ASSUME n >= q + 1 PROVE FALSE
      BY <1>0, <2>9
    <3>1. n * d >= (q + 1) * d
      <4> HIDE DEF q, n, d
      <4> QED  BY <1>0, <2>9
    <3>2. n * d < DelayTotal + d
      <4> HIDE DEF u
      <4> QED  BY <1>0, <2>7, <2>8
    <3> DEFINE x == n * d
               y == (q + 1) * d
    <3>3. x >= y /\ x < DelayTotal + d /\ DelayTotal + d - 1 < y
      BY <2>9, <3>1, <3>2
    <3>4. x \in Int /\ y \in Int
      <4> HIDE DEF q
      <4> QED  BY <1>0, <2>9
    <3> HIDE DEF x, y
    <3> QED  BY <1>0, <3>3, <3>4
  <2> QED  BY <2>10
<1> QED  BY <1>2, <1>3

------------------------------------------------------------------------------
(* The invariant. *)

\* What each account votes with itself.
Direct == [x \in Accounts |-> vesting[x] - sumDelayed[x]]

Withdrawal == [rate : Nat, next : Nat, amount : Nat, done : Nat]
Route == [from : Account, to : Accounts, percent : 1 .. Percent100, auto : BOOLEAN]

\* The accounts and the block.
Types ==
  /\ vesting \in [Accounts -> Nat] /\ sumDelayed \in [Accounts -> Nat]
  /\ \A a \in Accounts : sumDelayed[a] <= vesting[a]
  /\ delayed \in [Accounts -> Seq(Entry)]
  /\ votedFor \in [Accounts -> 0 .. MaxWitnessVotes]
  /\ canVote \in [Accounts -> BOOLEAN]
  /\ expiration \in [Accounts -> 0 .. Never]
  /\ powerDown \in [Accounts -> Withdrawal]
  /\ \A a \in Accounts : powerDown[a].done <= powerDown[a].amount
  /\ proposed \subseteq Accounts \X Proposal
  /\ DOMAIN requests \subseteq Account
  /\ now \in 0 .. MaxTime /\ phase \in 0 .. Expiry /\ guard \in Int

\* There is one route from an account to another.
RoutesInv ==
  /\ routes \subseteq Route /\ IsFiniteSet(routes)
  /\ \A r, q \in routes : r.from = q.from /\ r.to = q.to => r = q

\* The tallies are what a recount gives.
TallyInv == Tallied(Direct, proxied, votes, proxy, ballots)
BallotsInv == \A a \in Accounts : votedFor[a] = Cardinality({v \in ballots : v[1] = a})

\* No VEST is lost.
VestsInv == total = SumFunction(vesting)

\* What the null account holds is of now, and does not vote.
NullInv ==
  /\ vesting[Null] = sumDelayed[Null]
  /\ \A i \in DOMAIN delayed[Null] : delayed[Null][i].time = now
  /\ powerDown[Null].next = Never

\* Delayed votes add up and are apart, ...
DelaysInv ==
  \A a \in Accounts :
    /\ sumDelayed[a] = SumVal(delayed[a]) /\ Spaced(delayed[a])
    /\ \A i \in DOMAIN delayed[a] : delayed[a][i].time <= now

\* ... and none is due after a block.
MaturedInv ==
  phase \in {0, Expiry} =>
    \A a \in Accounts : \A i \in DOMAIN delayed[a] : delayed[a][i].time + DelayTotal > now

IInv ==
  /\ Types /\ RoutesInv /\ TallyInv /\ BallotsInv /\ VestsInv /\ NullInv
  /\ DelaysInv /\ MaturedInv /\ GovernanceExpires

------------------------------------------------------------------------------
(* What the invariant says. *)

\* Nobody votes with less than nothing.
LEMMA DirectType ==
  ASSUME Types
  PROVE  /\ Direct \in [Accounts -> Int]
         /\ \A x \in Accounts : Direct[x] = vesting[x] - sumDelayed[x] /\ Direct[x] \in Nat
<1>1. ASSUME NEW x \in Accounts PROVE vesting[x] - sumDelayed[x] \in Nat
  <2>1. vesting[x] \in Nat /\ sumDelayed[x] \in Nat /\ sumDelayed[x] <= vesting[x]
    BY DEF Types
  <2> QED  BY <2>1
<1>2. \A x \in Accounts : Direct[x] = vesting[x] - sumDelayed[x]
  BY DEF Direct
<1>3. Direct = [x \in Accounts |-> vesting[x] - sumDelayed[x]]
  BY DEF Direct
<1>4. \A x \in Accounts : vesting[x] - sumDelayed[x] \in Int
  BY <1>1
<1> QED  BY <1>1, <1>2, <1>3, <1>4

\* The votes a recount gives are natural numbers, and not more than there are.
LEMMA TallyBound ==
  ASSUME Types, TallyInv
  PROVE  /\ proxied \in [Accounts -> [0 .. Depth - 1 -> Nat]]
         /\ votes \in [Witness -> Nat]
         /\ \A w \in Witness : votes[w] <= SumFunction(Direct)
         /\ \A S \in SUBSET {x \in Accounts : proxy[x] = NoProxy} :
              Rows(Power(proxied, Direct), S) <= SumFunction(Direct)
         /\ SumFunction(Count(proxied, proxy, Direct)) = SumFunction(Direct)
<1> DEFINE D == Direct
<1>1. /\ D \in [Accounts -> Int] /\ proxied \in Tables /\ votes \in [Witness -> Int]
      /\ proxy \in ProxyMap /\ Acyclic(proxy) /\ Exact(proxied, proxy, D)
      /\ \A w \in Witness : votes[w] = Rows(Power(proxied, D), Voting(ballots, proxy, w))
  BY DEF TallyInv, Tallied
<1>2. \A x \in Accounts : D[x] \in Nat
  BY DirectType
<1> HIDE DEF D
<1>3. /\ \A x \in Accounts, j \in 0 .. Depth - 1 : proxied[x][j] \in Nat
      /\ \A S \in SUBSET {x \in Accounts : proxy[x] = NoProxy} :
           Rows(Power(proxied, D), S) \in Nat /\ Rows(Power(proxied, D), S) <= SumFunction(D)
  BY <1>1, <1>2, CountBound
<1>4. proxied \in [Accounts -> [0 .. Depth - 1 -> Nat]]
  <2>1. \A x \in Accounts : proxied[x] \in [0 .. Depth - 1 -> Nat]
    BY <1>1, <1>3 DEF Tables
  <2> QED  BY <1>1, <2>1 DEF Tables
<1>5. \A w \in Witness : votes[w] \in Nat /\ votes[w] <= SumFunction(D)
  <2>1. \A w \in Witness : Voting(ballots, proxy, w) \in SUBSET {x \in Accounts : proxy[x] = NoProxy}
    BY DEF Voting
  <2> QED  BY <1>1, <1>3, <2>1
<1>6. SumFunction(Count(proxied, proxy, D)) = SumFunction(D)
  BY <1>1, CountAll
<1> QED  BY <1>1, <1>3, <1>4, <1>5, <1>6 DEF D

\* The state is well formed.
LEMMA TypesFollow ==
  ASSUME IInv
  PROVE  TypeOK
<1>1. Types /\ RoutesInv /\ TallyInv /\ VestsInv /\ DelaysInv
  BY DEF IInv
<1>2. ASSUME NEW a \in Accounts, NEW i \in DOMAIN delayed[a]
      PROVE  delayed[a][i].time \in 0 .. now /\ delayed[a][i].val \in Nat \ {0}
  <2>1. delayed[a] \in Seq(Entry) /\ now \in Nat
    BY <1>1 DEF Types
  <2>2. delayed[a][i] \in Entry
    BY <2>1
  <2>3. delayed[a][i].time \in Nat /\ delayed[a][i].val \in Nat \ {0}
    BY <2>2 DEF Entry
  <2>4. delayed[a][i].time <= now
    BY <1>1 DEF DelaysInv
  <2> QED  BY <2>1, <2>3, <2>4
<1>3. total \in Nat
  <2>1. vesting \in [Accounts -> Int] /\ \A x \in Accounts : vesting[x] \in Nat
    BY <1>1 DEF Types
  <2> QED  BY <1>1, <2>1, Constants, SumNat DEF VestsInv
<1>4. proxy \in [Accounts -> Accounts \cup {NoProxy}] /\ ballots \subseteq Accounts \X Witness
  BY <1>1 DEF TallyInv, Tallied, ProxyMap, Above
<1>5. \A r \in routes : r.from # Null /\ r.percent \in 1 .. Percent100
  <2>1. \A r \in Route : r.from \in Account /\ r.percent \in 1 .. Percent100
    BY DEF Route
  <2> QED  BY <1>1, <2>1, Constants DEF RoutesInv
<1>6. proxied \in [Accounts -> [0 .. Depth - 1 -> Nat]] /\ votes \in [Witness -> Nat]
  BY <1>1, TallyBound
<1> QED  BY <1>1, <1>2, <1>3, <1>4, <1>5, <1>6 DEF TypeOK, Types

\* proxied_vsf_votes is what a recount gives.
LEMMA ProxiedFollows ==
  ASSUME IInv
  PROVE  ProxiedExact
<1>1. Exact(proxied, proxy, Direct)
  BY DEF IInv, TallyInv, Tallied
<1> SUFFICES ASSUME NEW a \in Accounts, NEW i \in 0 .. Depth - 1
             PROVE  proxied[a][i] =
                      SumFunction([b \in {b \in Accounts : Chain(proxy, b)[i + 1] = a}
                                     |-> get_direct_governance_vote_power(b)])
  BY DEF ProxiedExact
<1> DEFINE S == {b \in Accounts : Chain(proxy, b)[i + 1] = a}
<1>2. S = Reach(proxy, a, i + 1)
  BY DEF Reach
<1>3. [b \in S |-> get_direct_governance_vote_power(b)] = [b \in S |-> Direct[b]]
  BY DEF Direct, get_direct_governance_vote_power
<1>4. proxied[a][i] = Rows(Direct, S)
  BY <1>1, <1>2 DEF Exact
<1> HIDE DEF S
<1>5. proxied[a][i] = SumFunction([b \in S |-> get_direct_governance_vote_power(b)])
  BY <1>3, <1>4 DEF Rows
<1> QED  BY <1>5 DEF S

\* What an account votes with.
LEMMA PowerIs ==
  ASSUME NEW x \in Accounts
  PROVE  Power(proxied, Direct)[x] = get_governance_vote_power(x)
BY DEF Power, Direct, get_governance_vote_power, get_direct_governance_vote_power

\* The votes of a witness are what a recount gives.
LEMMA WitnessVotesFollow ==
  ASSUME IInv
  PROVE  WitnessVotesExact
<1>1. /\ ballots \subseteq Accounts \X Witness /\ \A v \in ballots : proxy[v[1]] = NoProxy
      /\ \A w \in Witness :
           votes[w] = Rows(Power(proxied, Direct), Voting(ballots, proxy, w))
  BY DEF IInv, TallyInv, Tallied
<1>2. \A a \in Accounts : votedFor[a] = Cardinality({v \in ballots : v[1] = a})
  BY DEF IInv, BallotsInv
<1>3. ASSUME NEW w \in Witness
      PROVE  votes[w] = SumFunction([a \in {a \in Accounts : <<a, w>> \in ballots}
                                       |-> get_governance_vote_power(a)])
  <2> DEFINE S == {a \in Accounts : <<a, w>> \in ballots}
             q == Power(proxied, Direct)
  <2>1. S = Voting(ballots, proxy, w)
    <3>1. \A a \in S : proxy[a] = NoProxy
      <4>1. \A a \in S : <<a, w>> \in ballots /\ <<a, w>>[1] = a
        OBVIOUS
      <4> QED  BY <1>1, <4>1
    <3> QED  BY <3>1 DEF Voting
  <2>2. [a \in S |-> get_governance_vote_power(a)] = [a \in S |-> q[a]]
    <3> HIDE DEF q
    <3>1. \A a \in S : q[a] = get_governance_vote_power(a)
      BY PowerIs DEF q
    <3> QED  BY <3>1
  <2>3. votes[w] = Rows(q, S)
    BY <1>1, <2>1
  <2> HIDE DEF S, q
  <2>4. votes[w] = SumFunction([a \in S |-> get_governance_vote_power(a)])
    BY <2>2, <2>3 DEF Rows
  <2> QED  BY <2>4 DEF S
<1>4. \A a \in Accounts : proxy[a] # NoProxy => {v \in ballots : v[1] = a} = {}
  BY <1>1
<1> QED  BY <1>2, <1>3, <1>4 DEF WitnessVotesExact

\* Every VEST votes once, or is delayed, or is lost behind too many proxies.
LEMMA VestsFollow ==
  ASSUME IInv
  PROVE  VestsCounted
<1> DEFINE D == Direct
           q == Power(proxied, D)
           cn == Count(proxied, proxy, D)
           Counted(a) == IF proxy[a] = NoProxy THEN get_governance_vote_power(a)
                         ELSE proxied[a][Depth - 1]
<1>1. Types /\ TallyInv /\ total = SumFunction(vesting)
  BY DEF IInv, VestsInv
<1>2. /\ D \in [Accounts -> Int] /\ \A x \in Accounts : D[x] = vesting[x] - sumDelayed[x]
      /\ \A x \in Accounts : D[x] \in Nat
  BY <1>1, DirectType
<1>3. vesting \in [Accounts -> Int] /\ sumDelayed \in [Accounts -> Int] /\ IsFiniteSet(Accounts)
      /\ \A x \in Accounts : vesting[x] \in Nat /\ sumDelayed[x] \in Nat /\ sumDelayed[x] <= vesting[x]
  BY <1>1, Constants DEF Types
<1>4. total = SumFunction(D) + SumFunction(sumDelayed) /\ SumFunction(D) <= total
  <2> HIDE DEF D
  <2>1. \A x \in Accounts : vesting[x] = D[x] + sumDelayed[x]
    BY <1>2, <1>3
  <2>2. SumFunction(vesting) = SumFunction(D) + SumFunction(sumDelayed)
    BY <1>2, <1>3, <2>1, SumPlus
  <2>3. SumFunction(sumDelayed) \in Nat /\ SumFunction(D) \in Nat
    BY <1>2, <1>3, SumNat
  <2> QED  BY <1>1, <2>2, <2>3
<1>5. /\ \A w \in Witness : votes[w] <= SumFunction(D)
      /\ \A S \in SUBSET {x \in Accounts : proxy[x] = NoProxy} : Rows(q, S) <= SumFunction(D)
      /\ SumFunction(cn) = SumFunction(D) /\ votes \in [Witness -> Nat]
  BY <1>1, TallyBound
<1>6. \A x \in Accounts : q[x] = get_governance_vote_power(x)
  BY PowerIs
<1>7. [a \in Accounts |-> Counted(a)] = cn
  <2> HIDE DEF q
  <2> QED  BY <1>6 DEF Count, q
<1>8. SumFunction(D) \in Nat /\ total \in Int
  <2> HIDE DEF D
  <2>1. SumFunction(D) \in Nat /\ SumFunction(vesting) \in Int
    BY <1>2, <1>3, SumNat, SumType
  <2> QED  BY <1>1, <2>1
<1>9. total = SumFunction([a \in Accounts |-> Counted(a)]) + SumFunction(sumDelayed)
  BY <1>4, <1>5, <1>7
<1>10. \A w \in Witness : votes[w] <= total
  <2> HIDE DEF D
  <2>1. \A w \in Witness : votes[w] \in Nat /\ votes[w] <= SumFunction(D)
    BY <1>5
  <2> QED  BY <1>4, <1>8, <2>1
<1>11. ASSUME NEW p \in Proposal
       PROVE  SumFunction([a \in {a \in Accounts : <<a, p>> \in proposed /\ proxy[a] = NoProxy}
                             |-> get_governance_vote_power(a)]) <= total
  <2> DEFINE S == {a \in Accounts : <<a, p>> \in proposed /\ proxy[a] = NoProxy}
  <2>1. S \in SUBSET {x \in Accounts : proxy[x] = NoProxy} /\ S \subseteq Accounts
    OBVIOUS
  <2>2. Rows(q, S) <= SumFunction(D)
    BY <1>5, <2>1
  <2> HIDE DEF D
  <2>3. [a \in S |-> get_governance_vote_power(a)] = [a \in S |-> q[a]]
    <3> HIDE DEF q, S
    <3> QED  BY <1>6, <2>1
  <2>4. Rows(q, S) \in Int
    <3>1. q \in [Accounts -> Int]
      <4>1. proxied \in Tables
        BY <1>1 DEF TallyInv, Tallied
      <4> QED  BY <1>2, <4>1, PowerType
    <3>2. IsFiniteSet(S)
      BY <1>3, <2>1, FS_Subset
    <3> HIDE DEF q, S
    <3> QED  BY <2>1, <3>1, <3>2, RowsChange
  <2> HIDE DEF S, q
  <2>5. SumFunction([a \in S |-> get_governance_vote_power(a)]) = Rows(q, S)
    BY <2>3 DEF Rows
  <2>6. SumFunction([a \in S |-> get_governance_vote_power(a)]) <= total
    BY <1>4, <1>8, <2>2, <2>4, <2>5
  <2> QED  BY <2>6 DEF S
<1>12. \A a \in Accounts : sumDelayed[a] <= vesting[a]
  BY <1>3
<1> QED  BY <1>1, <1>9, <1>10, <1>11, <1>12 DEF VestsCounted

\* Delayed votes are counted exactly and are few.
LEMMA DelayedFollows ==
  ASSUME IInv
  PROVE  DelayedExact
<1> SUFFICES ASSUME NEW a \in Accounts
             PROVE  LET s == delayed[a]
                    IN  /\ sumDelayed[a] = SumVal(s)
                        /\ \A i \in 2 .. Len(s) : s[i].time >= s[i - 1].time + DelayInterval
                        /\ phase \in {0, Expiry} =>
                             /\ \A i \in DOMAIN s : s[i].time + DelayTotal > now
                             /\ Len(s) <= (DelayTotal + DelayInterval - 1) \div DelayInterval
  BY DEF DelayedExact
<1> DEFINE s == delayed[a]
<1>1. s \in Seq(Entry) /\ now \in Nat
  BY DEF IInv, Types
<1>2. sumDelayed[a] = SumVal(s) /\ Spaced(s) /\ \A i \in DOMAIN s : s[i].time <= now
  BY DEF IInv, DelaysInv
<1>3. phase \in {0, Expiry} => \A i \in DOMAIN s : s[i].time + DelayTotal > now
  BY DEF IInv, MaturedInv
<1> HIDE DEF s
<1>4. phase \in {0, Expiry} => Len(s) <= (DelayTotal + DelayInterval - 1) \div DelayInterval
  <2>1. ASSUME phase \in {0, Expiry}
        PROVE  Len(s) <= (DelayTotal + DelayInterval - 1) \div DelayInterval
    <3>1. \A i \in DOMAIN s : s[i].time <= now /\ s[i].time + DelayTotal > now
      BY <1>2, <1>3, <2>1
    <3> QED  BY <1>1, <1>2, <3>1, FewEntries
  <2> QED  BY <2>1
<1> QED  BY <1>2, <1>3, <1>4 DEF s, Spaced

------------------------------------------------------------------------------
(* It holds at first. *)

\* Nobody starts behind more than one proxy.
LEMMA InitChains ==
  /\ Proxies \in ProxyMap /\ Acyclic(Proxies)
  /\ \A b \in Accounts : Chain(Proxies, b)[1] = Proxies[b]
  /\ \A b \in Accounts, k \in 2 .. Depth : Chain(Proxies, b)[k] = NoProxy
<1>0. /\ Depth \in Nat /\ Depth >= 1 /\ NoProxy \notin Accounts
      /\ Proxies \in [Accounts -> Account \cup {NoProxy}]
      /\ \A a \in Account : Proxies[a] # NoProxy => Proxies[Proxies[a]] = NoProxy
      /\ Proxies[Null] = NoProxy
  BY Constants, GovernanceAssumption DEF Accounts
<1>1. \A b \in Accounts : Proxies[b] # NoProxy => Proxies[b] \in Accounts /\ Proxies[Proxies[b]] = NoProxy
  BY <1>0 DEF Accounts
<1>2. Proxies \in ProxyMap
  BY <1>0 DEF ProxyMap, Above, Accounts
<1>3. Acyclic(Proxies)
  <2>1. ASSUME NEW S \in SUBSET Accounts, S # {} PROVE \E x \in S : Proxies[x] \notin S
    <3>1. PICK x \in S : TRUE
      BY <2>1
    <3> QED  BY <1>0, <1>1, <3>1
  <2> QED  BY <2>1 DEF Acyclic
<1>4. ASSUME NEW b \in Accounts PROVE Chain(Proxies, b)[1] = Proxies[b]
  <2>1. b \in Above /\ 0 \in 0 .. Depth - 1 /\ 0 + 1 = 1
    BY <1>0 DEF Above
  <2>2. Chain(Proxies, b)[0] = b /\ Chain(Proxies, b)[0 + 1] = Up(Proxies, Chain(Proxies, b)[0])
    BY <1>2, <2>1, Steps
  <2> QED  BY <1>0, <2>1, <2>2 DEF Up
<1>5. ASSUME NEW b \in Accounts, NEW k \in 2 .. Depth PROVE Chain(Proxies, b)[k] = NoProxy
  <2>1. b \in Above /\ 1 \in 0 .. Depth - 1 /\ 1 + 1 = 2 /\ 2 \in 0 .. Depth /\ k \in 2 .. Depth
    BY <1>0 DEF Above
  <2>2. Chain(Proxies, b)[1 + 1] = Up(Proxies, Proxies[b])
    BY <1>2, <1>4, <2>1, Steps
  <2>3. Chain(Proxies, b)[2] = NoProxy
    BY <1>1, <2>1, <2>2 DEF Up
  <2> QED  BY <1>2, <2>1, <2>3, Ended
<1> QED  BY <1>2, <1>3, <1>4, <1>5

\* The first tallies are what a recount gives.
LEMMA InitTally ==
  ASSUME Init
  PROVE  TallyInv
<1> DEFINE D == Direct
           p == Proxies
<1>0. /\ Depth \in Nat /\ Depth >= 1 /\ NoProxy \notin Accounts /\ IsFiniteSet(Accounts)
      /\ Stake \in Nat /\ Null \notin Account /\ Account \subseteq Accounts
      /\ IsFiniteSet(Account) /\ Elected \subseteq Witness
  BY Constants, GovernanceAssumption
<1>1. /\ p \in ProxyMap /\ Acyclic(p)
      /\ \A b \in Accounts : Chain(p, b)[1] = p[b]
      /\ \A b \in Accounts, k \in 2 .. Depth : Chain(p, b)[k] = NoProxy
  BY InitChains
<1>2. /\ D = [x \in Accounts |-> IF x = Null THEN 0 ELSE Stake]
      /\ proxied = [a \in Accounts |-> [i \in 0 .. Depth - 1 |-> IF i = 0 THEN Behind(a) ELSE 0]]
      /\ votes = [w \in Witness |-> IF w \in Elected
                                    THEN SumFunction([a \in Voters |-> Stake + Behind(a)]) ELSE 0]
      /\ ballots = Voters \X Elected /\ proxy = p
  <2>1. \A x \in Accounts : (IF x = Null THEN 0 ELSE Stake) - 0 = IF x = Null THEN 0 ELSE Stake
    BY <1>0
  <2> QED  BY <2>1 DEF Init, Direct
<1>3. D \in [Accounts -> Int] /\ \A x \in Account : D[x] = Stake
  BY <1>0, <1>2
<1> HIDE DEF D
<1>4. ASSUME NEW x \in Accounts PROVE Reach(p, x, 1) = {b \in Account : p[b] = x}
  <2>1. p[Null] = NoProxy
    BY GovernanceAssumption
  <2> QED  BY <1>0, <1>1, <2>1 DEF Reach, Accounts
<1>5. ASSUME NEW x \in Accounts
      PROVE  Behind(x) \in Nat /\ Rows(D, Reach(p, x, 1)) = Behind(x)
  <2> DEFINE S == {b \in Account : p[b] = x}
             f == [b \in S |-> D[b]]
  <2>1. IsFiniteSet(S) /\ S \subseteq Account
    BY <1>0, FS_Subset
  <2>2. f \in [S -> Int] /\ \A b \in S : f[b] = Stake
    BY <1>0, <1>3
  <2>3. Cardinality(S) \in Nat
    BY <2>1, FS_CardinalityType
  <2>4. Behind(x) = Stake * Cardinality(S)
    BY DEF Behind
  <2>5. Rows(D, Reach(p, x, 1)) = SumFunction(f)
    BY <1>4 DEF Rows
  <2> HIDE DEF S, f
  <2>6. SumFunction(f) = Cardinality(S) * Stake
    BY <1>0, <2>1, <2>2, SumConst
  <2>7. Stake * Cardinality(S) \in Nat /\ Stake * Cardinality(S) = Cardinality(S) * Stake
    BY <1>0, <2>3
  <2> QED  BY <2>4, <2>5, <2>6, <2>7
<1>6. proxied \in Tables
  <2>1. \A a \in Accounts, i \in 0 .. Depth - 1 : (IF i = 0 THEN Behind(a) ELSE 0) \in Int
    BY <1>5
  <2> QED  BY <1>2, <2>1 DEF Tables
<1>7. Exact(proxied, p, D)
  <2> SUFFICES ASSUME NEW x \in Accounts, NEW j \in 0 .. Depth - 1
               PROVE  proxied[x][j] = Rows(D, Reach(p, x, j + 1))
    BY DEF Exact
  <2>1. proxied[x][j] = IF j = 0 THEN Behind(x) ELSE 0
    BY <1>2
  <2>2. CASE j = 0
    <3>1. j + 1 = 1
      BY <2>2
    <3> QED  BY <1>5, <2>1, <2>2, <3>1
  <2>3. CASE j # 0
    <3>1. j + 1 \in 2 .. Depth
      BY <1>0, <2>3
    <3>2. Reach(p, x, j + 1) = {}
      BY <1>0, <1>1, <3>1 DEF Reach
    <3> DEFINE z == [b \in {} |-> D[b]]
    <3>3. z \in [{} -> Int]
      OBVIOUS
    <3>4. SumFunction(z) = 0
      <4> HIDE DEF z
      <4> QED  BY <3>3, SumEmpty
    <3>5. Rows(D, Reach(p, x, j + 1)) = SumFunction(z)
      BY <3>2 DEF Rows
    <3> QED  BY <2>1, <2>3, <3>4, <3>5
  <2> QED  BY <2>2, <2>3
<1>8. Voters \subseteq Account /\ \A a \in Voters : p[a] = NoProxy
  BY GovernanceAssumption
<1>9. ASSUME NEW x \in Voters PROVE Power(proxied, D)[x] = Stake + Behind(x)
  <2> DEFINE s == proxied[x]
             J == 0 .. Depth - 1
  <2>1. x \in Accounts /\ x \in Account
    BY <1>0, <1>8
  <2>2. s \in [J -> Int] /\ IsFiniteSet(J) /\ 0 \in J
    BY <1>0, <1>6, <2>1, FS_Interval DEF Tables
  <2>3. s[0] = Behind(x) /\ \A j \in J \ {0} : s[j] = 0
    BY <1>0, <1>2, <2>1
  <2> HIDE DEF s, J
  <2>4. SumFunction(s) = s[0]
    BY <2>2, <2>3, SumAt
  <2> QED  BY <1>3, <2>1, <2>3, <2>4 DEF Power, s
<1>10. ASSUME NEW w \in Witness
       PROVE  votes[w] = Rows(Power(proxied, D), Voting(ballots, p, w))
  <2>1. CASE w \in Elected
    <3>1. Voting(ballots, p, w) = Voters
      BY <1>0, <1>2, <1>8, <2>1 DEF Voting
    <3>2. [a \in Voters |-> Stake + Behind(a)] = [a \in Voters |-> Power(proxied, D)[a]]
      BY <1>9
    <3>3. votes[w] = SumFunction([a \in Voters |-> Stake + Behind(a)])
      BY <1>2, <2>1
    <3> QED  BY <3>1, <3>2, <3>3 DEF Rows
  <2>2. CASE w \notin Elected
    <3>1. Voting(ballots, p, w) = {}
      BY <1>2, <2>2 DEF Voting
    <3> DEFINE z == [b \in {} |-> Power(proxied, D)[b]]
    <3>2. z \in [{} -> Int]
      OBVIOUS
    <3>3. SumFunction(z) = 0
      <4> HIDE DEF z
      <4> QED  BY <3>2, SumEmpty
    <3>4. Rows(Power(proxied, D), Voting(ballots, p, w)) = SumFunction(z)
      BY <3>1 DEF Rows
    <3>5. votes[w] = 0
      BY <1>2, <2>2
    <3> QED  BY <3>3, <3>4, <3>5
  <2> QED  BY <2>1, <2>2
<1>11. votes \in [Witness -> Int]
  <2> DEFINE f == [a \in Voters |-> Stake + Behind(a)]
  <2>1. f \in [Voters -> Int] /\ IsFiniteSet(Voters)
    <3>1. \A a \in Voters : Stake + Behind(a) \in Int
      BY <1>0, <1>5, <1>8
    <3> QED  BY <1>0, <1>8, <3>1, FS_Subset
  <2>2. votes = [w \in Witness |-> IF w \in Elected THEN SumFunction(f) ELSE 0]
    BY <1>2
  <2> HIDE DEF f
  <2>3. SumFunction(f) \in Int
    BY <2>1, SumType
  <2> QED  BY <2>2, <2>3
<1>12. ballots \subseteq Accounts \X Witness /\ \A v \in ballots : p[v[1]] = NoProxy
  BY <1>0, <1>2, <1>8
<1> QED  BY <1>1, <1>2, <1>3, <1>6, <1>7, <1>10, <1>11, <1>12 DEF TallyInv, Tallied, D

\* The invariant holds at first.
LEMMA InitInv ==
  ASSUME Init
  PROVE  IInv
<1> USE DEF Init
<1>0. /\ Stake \in Nat /\ MaxTime \in Nat /\ ExpirationPeriod \in Nat /\ ExpirationPeriod >= 1
      /\ DeclinePeriod \in Nat /\ WithdrawInterval \in Nat /\ MaxWitnessVotes \in Nat
      /\ RemoveThreshold \in Nat /\ Null \in Accounts
      /\ IsFiniteSet(Elected) /\ IsFiniteSet(Accounts) /\ NoProxy \notin Accounts
  BY Constants, FS_Subset
<1>1. Never \in Nat /\ Never > ExpirationPeriod /\ Never > 0 /\ Never > MaxTime
  BY <1>0 DEF Never
<1>2. Cardinality(Elected) \in 0 .. MaxWitnessVotes
  <2>1. Cardinality(Elected) \in Nat
    BY <1>0, FS_CardinalityType
  <2> QED  BY <1>0, <2>1, GovernanceAssumption
<1>3. <<>> \in Seq(Entry) /\ Len(<<>>) = 0 /\ DOMAIN <<>> = {}
  OBVIOUS
<1>4. Types
  <2>1. vesting \in [Accounts -> Nat] /\ sumDelayed \in [Accounts -> Nat]
        /\ \A a \in Accounts : sumDelayed[a] <= vesting[a]
    BY <1>0
  <2>2. delayed \in [Accounts -> Seq(Entry)]
    BY <1>3
  <2>3. votedFor \in [Accounts -> 0 .. MaxWitnessVotes]
    <3>1. \A a \in Accounts : (IF a \in Voters THEN Cardinality(Elected) ELSE 0) \in 0 .. MaxWitnessVotes
      BY <1>0, <1>2
    <3> QED  BY <3>1
  <2>4. canVote \in [Accounts -> BOOLEAN]
    OBVIOUS
  <2>5. expiration \in [Accounts -> 0 .. Never]
    <3>1. ExpirationPeriod \in 0 .. Never /\ Never \in 0 .. Never
      BY <1>0, <1>1
    <3> QED  BY <3>1
  <2>6. powerDown \in [Accounts -> Withdrawal] /\ \A a \in Accounts : powerDown[a].done <= powerDown[a].amount
    BY <1>1 DEF Idle, Withdrawal
  <2>7. proposed \subseteq Accounts \X Proposal /\ DOMAIN requests \subseteq Account
    BY <1>3
  <2>8. now \in 0 .. MaxTime /\ phase \in 0 .. Expiry /\ guard \in Int
    BY <1>0 DEF Expiry
  <2> HIDE DEF Init
  <2> QED  BY <2>1, <2>2, <2>3, <2>4, <2>5, <2>6, <2>7, <2>8 DEF Types
<1>5. RoutesInv
  BY FS_EmptySet DEF RoutesInv
<1>6. TallyInv
  BY InitTally
<1>7. BallotsInv
  <2>1. ASSUME NEW a \in Accounts PROVE votedFor[a] = Cardinality({v \in ballots : v[1] = a})
    <3>1. CASE a \in Voters
      <4>1. {v \in ballots : v[1] = a} = {a} \X Elected
        BY <3>1
      <4>2. Cardinality({a} \X Elected) = Cardinality({a}) * Cardinality(Elected)
        BY <1>0, FS_Singleton, FS_Product
      <4>3. Cardinality({a}) = 1 /\ Cardinality(Elected) \in Nat
        BY <1>0, FS_Singleton, FS_CardinalityType
      <4>4. votedFor[a] = Cardinality(Elected)
        BY <3>1
      <4>5. 1 * Cardinality(Elected) = Cardinality(Elected)
        BY <4>3
      <4> QED  BY <4>1, <4>2, <4>3, <4>4, <4>5
    <3>2. CASE a \notin Voters
      <4>1. {v \in ballots : v[1] = a} = {}
        BY <3>2
      <4>2. votedFor[a] = 0
        BY <3>2
      <4> QED  BY <4>1, <4>2, FS_EmptySet
    <3> QED  BY <3>1, <3>2
  <2> QED  BY <2>1 DEF BallotsInv
<1>8. VestsInv
  <2> DEFINE f == [a \in Account |-> Stake]
  <2>1. f \in [Account -> Int] /\ IsFiniteSet(Account) /\ Null \notin Account /\ \A a \in Account : f[a] = Stake
    BY <1>0, GovernanceAssumption
  <2>2. vesting \in [Account \cup {Null} -> Int] /\ \A a \in Account : f[a] = vesting[a]
    BY <1>0, <2>1 DEF Accounts
  <2>3. vesting[Null] = 0
    BY <1>0
  <2> HIDE DEF f, Init
  <2>4. SumFunction(vesting) = vesting[Null] + SumFunction(f)
    BY <2>1, <2>2, SumInsert
  <2>5. SumFunction(f) = Cardinality(Account) * Stake
    BY <1>0, <2>1, SumConst
  <2>6. Cardinality(Account) \in Nat
    BY <2>1, FS_CardinalityType
  <2>7. total = Stake * Cardinality(Account)
    BY DEF Init
  <2>8. Stake * Cardinality(Account) = Cardinality(Account) * Stake /\ Cardinality(Account) * Stake \in Int
    BY <1>0, <2>6
  <2> QED  BY <2>3, <2>4, <2>5, <2>7, <2>8 DEF VestsInv
<1>9. NullInv
  BY <1>0, <1>3 DEF NullInv, Idle
<1>10. DelaysInv
  <2>1. SumVal(<<>>) = 0
    <3>1. SumVal(<<>>) = FirstVals(<<>>, Len(<<>>)) /\ FirstVals(<<>>, 0) = 0
      BY <1>3, FirstValsStep
    <3> QED  BY <1>3, <3>1
  <2>2. Spaced(<<>>)
    BY <1>3 DEF Spaced
  <2> QED  BY <1>3, <2>1, <2>2 DEF DelaysInv
<1>11. MaturedInv
  BY <1>3 DEF MaturedInv
<1>12. GovernanceExpires
  <2>1. ASSUME NEW a \in Accounts, proxy[a] # NoProxy \/ \E v \in ballots \cup proposed : v[1] = a
        PROVE  expiration[a] # Never /\ canVote[a]
    <3>1. a \in Voters \/ Proxies[a] # NoProxy
      BY <2>1
    <3> QED  BY <1>0, <1>1, <3>1
  <2>2. \A a \in Accounts : expiration[a] > now
    BY <1>0, <1>1
  <2> HIDE DEF Init
  <2> QED  BY <2>1, <2>2 DEF GovernanceExpires
<1> HIDE DEF Init
<1> QED  BY <1>4, <1>5, <1>6, <1>7, <1>8, <1>9, <1>10, <1>11, <1>12 DEF IInv

------------------------------------------------------------------------------
(* What a process takes next. *)

\* When nobody is due, every date is ahead.
LEMMA NobodyDue ==
  ASSUME NEW S, NEW f \in [S -> Nat], now \in Nat, DueFirst(f) = {}
  PROVE  \A a \in S : f[a] > now
<1> SUFFICES ASSUME NEW a \in S, f[a] <= now PROVE FALSE
  <2>1. \A x \in S : f[x] \in Nat
    OBVIOUS
  <2> QED  BY <2>1
<1> DEFINE T == {f[x] : x \in S}
<1>1. T \subseteq Nat /\ T # {}
  OBVIOUS
<1> HIDE DEF T
<1>2. PICK n \in T : \A m \in T : n <= m
  BY <1>1, LeastNat
<1>3. PICK b \in S : n = f[b]
  BY DEF T
<1>4. \A x \in S : f[b] <= f[x]
  BY <1>2, <1>3 DEF T
<1>5. f[b] \in Nat /\ f[a] \in Nat /\ f[b] <= f[a]
  BY <1>4
<1>6. f[b] <= now
  BY <1>5
<1>7. DOMAIN f = S
  OBVIOUS
<1> QED  BY <1>4, <1>6, <1>7 DEF DueFirst

\* What each process looks at.
LEMMA DueIs ==
  /\ Due(Withdrawals) = DueFirst([a \in Accounts |-> NextWithdrawal(a)])
  /\ Due(Declines) = DueFirst(requests)
  /\ Due(Maturing) = DueFirst([a \in Accounts |-> Maturity(a)])
  /\ Due(Expiry) = DueFirst(expiration)
BY DEF Due, Withdrawals, Declines, Maturing, Expiry

\* The first entry is the oldest.
LEMMA OldestFirst ==
  ASSUME NEW s \in Seq(Entry), Spaced(s)
  PROVE  \A i \in DOMAIN s : s[i].time >= s[1].time
<1> DEFINE n == Len(s)
           S == {k \in 0 .. n - 1 : s[k + 1].time >= s[1].time}
<1>0. n \in Nat /\ DelayInterval \in Nat /\ DOMAIN s = 1 .. n
  BY Constants
<1>1. \A i \in 1 .. n : s[i].time \in Nat
  <2>1. \A i \in 1 .. n : s[i] \in Entry
    OBVIOUS
  <2>2. \A x \in Entry : x.time \in Nat
    BY DEF Entry
  <2> QED  BY <2>1, <2>2
<1> SUFFICES ASSUME NEW i \in 1 .. n PROVE s[i].time >= s[1].time
  BY <1>0
<1>2. n - 1 \in Nat /\ 0 \in S
  BY <1>0, <1>1
<1>3. ASSUME NEW k \in 1 .. n - 1, k - 1 \in S PROVE k \in S
  <2>1. k + 1 \in 2 .. n /\ (k + 1) - 1 = k /\ k \in 1 .. n /\ k + 1 \in 1 .. n /\ 1 \in 1 .. n
        /\ (k - 1) + 1 = k
    BY <1>0
  <2>2. s[k + 1].time >= s[k].time + DelayInterval
    BY <2>1 DEF Spaced
  <2>3. s[k].time >= s[1].time
    BY <1>3, <2>1
  <2>4. s[k + 1].time \in Nat /\ s[k].time \in Nat /\ s[1].time \in Nat
    BY <1>1, <2>1
  <2> QED  BY <1>0, <2>1, <2>2, <2>3, <2>4
<1> HIDE DEF S
<1>4. \A k \in 0 .. n - 1 : k \in S
  BY <1>2, <1>3, UpTo
<1>5. i - 1 \in 0 .. n - 1 /\ (i - 1) + 1 = i
  BY <1>0
<1> QED  BY <1>4, <1>5 DEF S

\* When the votes that expire are looked at, no delayed vote is due.
LEMMA MaturedBy ==
  ASSUME IInv, Reached(Expiry)
  PROVE  \A a \in Accounts : \A i \in DOMAIN delayed[a] : delayed[a][i].time + DelayTotal > now
<1>1. Types /\ DelaysInv /\ MaturedInv
  BY DEF IInv
<1>2. CASE phase = Expiry
  BY <1>1, <1>2 DEF MaturedInv
<1>3. CASE phase # Expiry
  <2>0. /\ now \in Nat /\ delayed \in [Accounts -> Seq(Entry)] /\ Never \in Nat
        /\ DelayTotal \in Nat
    BY <1>1, Constants DEF Types, Never
  <2>1. Maturing \in phase .. Expiry - 1
    BY <1>1, <1>3 DEF Reached, Types, Maturing, Expiry
  <2> DEFINE f == [a \in Accounts |-> Maturity(a)]
  <2>2. DueFirst(f) = {}
    BY <2>1, DueIs DEF Reached
  <2>3. ASSUME NEW a \in Accounts PROVE Maturity(a) \in Nat
    <3>1. CASE delayed[a] = <<>>
      BY <2>0, <3>1 DEF Maturity
    <3>2. CASE delayed[a] # <<>>
      <4>1. delayed[a] \in Seq(Entry)
        BY <2>0
      <4>2. delayed[a][1] \in Entry
        BY <3>2, <4>1
      <4>3. delayed[a][1].time \in Nat
        BY <4>2 DEF Entry
      <4> QED  BY <2>0, <3>2, <4>3 DEF Maturity
    <3> QED  BY <3>1, <3>2
  <2>4. f \in [Accounts -> Nat]
    BY <2>3
  <2> HIDE DEF f
  <2>5. \A a \in Accounts : f[a] > now
    BY <2>0, <2>2, <2>4, NobodyDue
  <2> SUFFICES ASSUME NEW a \in Accounts, NEW i \in DOMAIN delayed[a]
               PROVE  delayed[a][i].time + DelayTotal > now
    OBVIOUS
  <2> DEFINE s == delayed[a]
  <2>6. s \in Seq(Entry) /\ Spaced(s)
    BY <1>1, <2>0 DEF DelaysInv
  <2>7. s # <<>> /\ s[i] \in Entry /\ s[1] \in Entry
    BY <2>6
  <2>8. s[i].time \in Nat /\ s[1].time \in Nat
    BY <2>7 DEF Entry
  <2>9. Maturity(a) > now
    BY <2>5 DEF f
  <2>10. s[1].time + DelayTotal > now
    BY <2>7, <2>9 DEF Maturity
  <2>11. s[i].time >= s[1].time
    BY <2>6, OldestFirst
  <2> HIDE DEF s
  <2>12. s[i].time + DelayTotal > now
    BY <2>0, <2>8, <2>10, <2>11
  <2> QED  BY <2>12 DEF s
<1> QED  BY <1>2, <1>3

------------------------------------------------------------------------------
(* It is kept by every operation. *)

\* The entries e are of now, or as old as one of s.
Aged(e, s, n) ==
  \A i \in DOMAIN e : e[i].time = n \/ \E j \in DOMAIN s : e[i].time = s[j].time

\* Delayed votes that are changed one account at a time.
LEMMA DelaysKept ==
  ASSUME Types, DelaysInv, NullInv, MaturedInv, now' = now,
         phase' \in {0, Expiry} => phase \in {0, Expiry},
         \A x \in Accounts : /\ delayed'[x] \in Seq(Entry) /\ Spaced(delayed'[x])
                             /\ sumDelayed'[x] = SumVal(delayed'[x])
                             /\ Aged(delayed'[x], delayed[x], now)
  PROVE  /\ DelaysInv' /\ MaturedInv'
         /\ \A i \in DOMAIN delayed'[Null] : delayed'[Null][i].time = now'
<1>0. now \in Nat /\ DelayTotal \in Nat /\ DelayTotal >= 1 /\ Null \in Accounts
  BY Constants DEF Types
<1>1. ASSUME NEW x \in Accounts, NEW i \in DOMAIN delayed'[x]
      PROVE  /\ delayed'[x][i].time <= now
             /\ phase \in {0, Expiry} => delayed'[x][i].time + DelayTotal > now
  <2>1. CASE delayed'[x][i].time = now
    BY <1>0, <2>1
  <2>2. CASE \E j \in DOMAIN delayed[x] : delayed'[x][i].time = delayed[x][j].time
    BY <2>2 DEF DelaysInv, MaturedInv
  <2> QED  BY <2>1, <2>2 DEF Aged
<1>2. DelaysInv'
  <2>1. \A x \in Accounts : \A i \in DOMAIN delayed'[x] : delayed'[x][i].time <= now'
    BY <1>1
  <2>2. \A x \in Accounts : sumDelayed'[x] = SumVal(delayed'[x]) /\ Spaced(delayed'[x])
    OBVIOUS
  <2> QED  BY <2>1, <2>2 DEF DelaysInv
<1>3. MaturedInv'
  <2>1. ASSUME phase' \in {0, Expiry}
        PROVE  \A x \in Accounts : \A i \in DOMAIN delayed'[x] : delayed'[x][i].time + DelayTotal > now'
    BY <1>1, <2>1
  <2> QED  BY <2>1 DEF MaturedInv
<1>4. ASSUME NEW i \in DOMAIN delayed'[Null] PROVE delayed'[Null][i].time = now
  BY <1>0 DEF Aged, NullInv
<1> QED  BY <1>2, <1>3, <1>4

\* An account that gets n more of its own, and whose proxies are told.
LEMMA TallyTold ==
  ASSUME TallyInv, NEW a \in Accounts, NEW n \in Int,
         SetTally(adjust_proxied_witness_votes(Tally, proxy, a, Single(n))),
         proxy' = proxy, ballots' = ballots,
         Direct' \in [Accounts -> Int], Direct'[a] = Direct[a] + n,
         \A x \in Accounts \ {a} : Direct'[x] = Direct[x]
  PROVE  TallyInv'
<1> DEFINE r == adjust_proxied_witness_votes(Tally, proxy, a, Single(n))
           D == Direct
           E == Direct'
<1>1. proxied' = r.proxied /\ votes' = r.votes
  BY DEF SetTally
<1>2. Tallied(D, Tally.proxied, Tally.votes, proxy, ballots)
  BY DEF TallyInv, Tally
<1>3. E \in [Accounts -> Int] /\ E[a] = D[a] + n /\ \A x \in Accounts \ {a} : E[x] = D[x]
  OBVIOUS
<1> HIDE DEF D, E, r
<1>4. Tallied(E, r.proxied, r.votes, proxy, ballots)
  BY <1>2, <1>3, TallyGain DEF r
<1> QED  BY <1>1, <1>4 DEF TallyInv, E

\* transfer_to_vesting keeps the invariant: what comes is delayed.
LEMMA transfer_to_vesting_keeps ==
  ASSUME IInv, NEW a \in Accounts, NEW n \in Nat, transfer_to_vesting(a, n)
  PROVE  IInv'
<1>0. /\ Types /\ RoutesInv /\ TallyInv /\ BallotsInv /\ VestsInv /\ NullInv
      /\ DelaysInv /\ MaturedInv /\ GovernanceExpires
  BY DEF IInv
<1>1. /\ vesting' = [vesting EXCEPT ![a] = vesting[a] + n] /\ total' = total + n
      /\ delayed' = [delayed EXCEPT ![a] = Added(delayed[a], n)]
      /\ sumDelayed' = [sumDelayed EXCEPT ![a] = sumDelayed[a] + n]
  BY DEF transfer_to_vesting
<1>2. /\ proxied' = proxied /\ votes' = votes /\ ballots' = ballots /\ proposed' = proposed
      /\ routes' = routes /\ requests' = requests /\ proxy' = proxy /\ votedFor' = votedFor
      /\ canVote' = canVote /\ expiration' = expiration /\ powerDown' = powerDown
      /\ now' = now /\ phase' = phase /\ guard' = guard
  BY DEF transfer_to_vesting, Operation, tallies, objects, block
<1>3. /\ vesting \in [Accounts -> Nat] /\ sumDelayed \in [Accounts -> Nat]
      /\ delayed \in [Accounts -> Seq(Entry)] /\ now \in Nat
      /\ \A x \in Accounts : sumDelayed[x] <= vesting[x]
  BY <1>0 DEF Types
<1>4. ASSUME NEW x \in Accounts
      PROVE  /\ delayed'[x] \in Seq(Entry) /\ Spaced(delayed'[x])
             /\ sumDelayed'[x] = SumVal(delayed'[x])
             /\ Aged(delayed'[x], delayed[x], now)
  <2>1. delayed[x] \in Seq(Entry) /\ Spaced(delayed[x]) /\ sumDelayed[x] = SumVal(delayed[x])
    BY <1>0, <1>3 DEF DelaysInv
  <2>2. CASE x = a
    <3>1. delayed'[x] = Added(delayed[x], n) /\ sumDelayed'[x] = sumDelayed[x] + n
      BY <1>1, <1>3, <2>2
    <3> DEFINE s == delayed[x]
    <3> HIDE DEF s
    <3>2. s \in Seq(Entry) /\ Spaced(s)
      BY <2>1 DEF s
    <3>3. /\ Added(s, n) \in Seq(Entry) /\ Spaced(Added(s, n))
          /\ SumVal(Added(s, n)) = SumVal(s) + n
          /\ Aged(Added(s, n), s, now)
      BY <1>3, <3>2, AddedIs DEF Aged
    <3> QED  BY <2>1, <3>1, <3>3 DEF s
  <2>3. CASE x # a
    <3>1. delayed'[x] = delayed[x] /\ sumDelayed'[x] = sumDelayed[x]
      BY <1>1, <1>3, <2>3
    <3> QED  BY <2>1, <3>1 DEF Aged
  <2> QED  BY <2>2, <2>3
<1>5. /\ DelaysInv' /\ MaturedInv'
      /\ \A i \in DOMAIN delayed'[Null] : delayed'[Null][i].time = now'
  BY <1>0, <1>2, <1>4, DelaysKept
<1>6. ASSUME NEW x \in Accounts
      PROVE  /\ vesting'[x] \in Nat /\ sumDelayed'[x] \in Nat /\ sumDelayed'[x] <= vesting'[x]
             /\ vesting'[x] - sumDelayed'[x] = vesting[x] - sumDelayed[x]
  <2>1. vesting[x] \in Nat /\ sumDelayed[x] \in Nat /\ sumDelayed[x] <= vesting[x]
    BY <1>3
  <2>2. CASE x = a
    <3>1. vesting'[x] = vesting[x] + n /\ sumDelayed'[x] = sumDelayed[x] + n
      BY <1>1, <1>3, <2>2
    <3> QED  BY <2>1, <3>1
  <2>3. CASE x # a
    <3>1. vesting'[x] = vesting[x] /\ sumDelayed'[x] = sumDelayed[x]
      BY <1>1, <1>3, <2>3
    <3> QED  BY <2>1, <3>1
  <2> QED  BY <2>2, <2>3
<1>7. Types'
  <2>1. vesting' \in [Accounts -> Nat] /\ sumDelayed' \in [Accounts -> Nat]
    BY <1>1, <1>3
  <2>2. delayed' \in [Accounts -> Seq(Entry)]
    <3>1. Added(delayed[a], n) \in Seq(Entry)
      BY <1>1, <1>3, <1>4
    <3> QED  BY <1>1, <1>3, <3>1
  <2> QED  BY <1>0, <1>2, <1>6, <2>1, <2>2 DEF Types
<1>8. TallyInv'
  <2>1. Direct' = Direct
    BY <1>6 DEF Direct
  <2> QED  BY <1>0, <1>2, <2>1 DEF TallyInv
<1>9. VestsInv'
  <2>1. vesting \in [Accounts -> Int] /\ vesting' \in [Accounts -> Int] /\ IsFiniteSet(Accounts)
        /\ vesting'[a] = vesting[a] + n /\ vesting[a] \in Int
        /\ \A x \in Accounts \ {a} : vesting[x] = vesting'[x]
    BY <1>1, <1>3, Constants
  <2>2. SumFunction(vesting') = SumFunction(vesting) + vesting'[a] - vesting[a]
    BY <2>1, SumChange
  <2>3. SumFunction(vesting) \in Int
    BY <2>1, SumType
  <2> QED  BY <1>0, <1>1, <2>1, <2>2, <2>3 DEF VestsInv
<1>10. NullInv'
  <2>1. Null \in Accounts /\ vesting[Null] = sumDelayed[Null] /\ powerDown[Null].next = Never
    BY <1>0, Constants DEF NullInv
  <2>2. vesting'[Null] = sumDelayed'[Null]
    BY <1>1, <1>3, <2>1
  <2> QED  BY <1>2, <1>5, <2>1, <2>2 DEF NullInv
<1>11. RoutesInv' /\ BallotsInv'
  BY <1>0, <1>2 DEF RoutesInv, BallotsInv
<1>12. GovernanceExpires'
  BY <1>0, <1>2 DEF GovernanceExpires
<1> QED  BY <1>5, <1>7, <1>8, <1>9, <1>10, <1>11, <1>12 DEF IInv

\* claim_reward_balance keeps it: what comes votes at once.
LEMMA claim_reward_balance_keeps ==
  ASSUME IInv, NEW a \in Account, NEW n \in Nat, claim_reward_balance(a, n)
  PROVE  IInv'
<1>0. /\ Types /\ RoutesInv /\ TallyInv /\ BallotsInv /\ VestsInv /\ NullInv
      /\ DelaysInv /\ MaturedInv /\ GovernanceExpires
  BY DEF IInv
<1>1. /\ vesting' = [vesting EXCEPT ![a] = vesting[a] + n] /\ total' = total + n
      /\ SetTally(adjust_proxied_witness_votes(Tally, proxy, a, Single(n)))
  BY DEF claim_reward_balance
<1>2. /\ delayed' = delayed /\ sumDelayed' = sumDelayed
      /\ ballots' = ballots /\ proposed' = proposed
      /\ routes' = routes /\ requests' = requests /\ proxy' = proxy /\ votedFor' = votedFor
      /\ canVote' = canVote /\ expiration' = expiration /\ powerDown' = powerDown
      /\ now' = now /\ phase' = phase /\ guard' = guard
  BY DEF claim_reward_balance, Operation, objects, block
<1>3. /\ vesting \in [Accounts -> Nat] /\ sumDelayed \in [Accounts -> Nat]
      /\ \A x \in Accounts : sumDelayed[x] <= vesting[x]
      /\ a \in Accounts /\ a # Null /\ Null \in Accounts
  BY <1>0, Constants DEF Types
<1>4. ASSUME NEW x \in Accounts
      PROVE  /\ vesting'[x] \in Nat /\ sumDelayed'[x] \in Nat /\ sumDelayed'[x] <= vesting'[x]
             /\ vesting'[x] - sumDelayed'[x] \in Int
             /\ x = a => vesting'[x] - sumDelayed'[x] = vesting[x] - sumDelayed[x] + n
             /\ x # a => vesting'[x] = vesting[x] /\ sumDelayed'[x] = sumDelayed[x]
  <2>1. vesting[x] \in Nat /\ sumDelayed[x] \in Nat /\ sumDelayed[x] <= vesting[x]
    BY <1>3
  <2>2. CASE x = a
    <3>1. vesting'[x] = vesting[x] + n /\ sumDelayed'[x] = sumDelayed[x]
      BY <1>1, <1>2, <1>3, <2>2
    <3> QED  BY <2>1, <2>2, <3>1
  <2>3. CASE x # a
    <3>1. vesting'[x] = vesting[x] /\ sumDelayed'[x] = sumDelayed[x]
      BY <1>1, <1>2, <1>3, <2>3
    <3> QED  BY <2>1, <2>3, <3>1
  <2> QED  BY <2>2, <2>3
<1>5. Types'
  <2>1. vesting' \in [Accounts -> Nat] /\ sumDelayed' \in [Accounts -> Nat]
    BY <1>1, <1>2, <1>3
  <2> QED  BY <1>0, <1>2, <1>4, <2>1 DEF Types
<1>6. TallyInv'
  <2>1. Direct' \in [Accounts -> Int] /\ Direct'[a] = Direct[a] + n
        /\ \A x \in Accounts \ {a} : Direct'[x] = Direct[x]
    BY <1>3, <1>4 DEF Direct
  <2> QED  BY <1>0, <1>1, <1>2, <1>3, <2>1, TallyTold
<1>7. VestsInv'
  <2>1. vesting \in [Accounts -> Int] /\ vesting' \in [Accounts -> Int] /\ IsFiniteSet(Accounts)
        /\ vesting'[a] = vesting[a] + n /\ vesting[a] \in Int
        /\ \A x \in Accounts \ {a} : vesting[x] = vesting'[x]
    BY <1>1, <1>3, Constants
  <2>2. SumFunction(vesting') = SumFunction(vesting) + vesting'[a] - vesting[a]
    BY <1>3, <2>1, SumChange
  <2>3. SumFunction(vesting) \in Int
    BY <2>1, SumType
  <2> QED  BY <1>0, <1>1, <2>1, <2>2, <2>3 DEF VestsInv
<1>8. NullInv'
  BY <1>0, <1>2, <1>3, <1>4 DEF NullInv
<1>9. RoutesInv' /\ BallotsInv' /\ DelaysInv' /\ MaturedInv'
  BY <1>0, <1>2 DEF RoutesInv, BallotsInv, DelaysInv, MaturedInv
<1>10. GovernanceExpires'
  BY <1>0, <1>2 DEF GovernanceExpires
<1> QED  BY <1>5, <1>6, <1>7, <1>8, <1>9, <1>10 DEF IInv

\* Who takes part has a date of expiry again.
LEMMA Renewed ==
  ASSUME Types, GovernanceExpires, NEW a \in Accounts, canVote[a],
         update_governance_vote_expiration_ts(a), canVote' = canVote,
         now' = now, phase' = phase, guard' = guard,
         \A x \in Accounts \ {a} : proxy'[x] = proxy[x],
         \A v \in ballots' \cup proposed' : v[1] # a => v \in ballots \cup proposed
  PROVE  GovernanceExpires' /\ expiration' \in [Accounts -> 0 .. Never]
<1>0. /\ now \in 0 .. MaxTime /\ MaxTime \in Nat /\ ExpirationPeriod \in Nat
      /\ ExpirationPeriod >= 1 /\ DeclinePeriod \in Nat /\ WithdrawInterval \in Nat
      /\ expiration \in [Accounts -> 0 .. Never]
  BY Constants DEF Types
<1>1. expiration' = [expiration EXCEPT ![a] = now + ExpirationPeriod]
  BY DEF update_governance_vote_expiration_ts
<1>2. now + ExpirationPeriod \in 0 .. Never /\ now + ExpirationPeriod # Never
      /\ now + ExpirationPeriod > now
  BY <1>0 DEF Never
<1>3. expiration'[a] = now + ExpirationPeriod /\ \A x \in Accounts \ {a} : expiration'[x] = expiration[x]
  BY <1>0, <1>1
<1>4. ASSUME NEW x \in Accounts, proxy'[x] # NoProxy \/ \E v \in ballots' \cup proposed' : v[1] = x
      PROVE  expiration'[x] # Never /\ canVote'[x]
  <2>1. CASE x = a
    BY <1>2, <1>3, <2>1
  <2>2. CASE x # a
    <3>1. proxy[x] # NoProxy \/ \E v \in ballots \cup proposed : v[1] = x
      BY <1>4, <2>2
    <3>2. expiration[x] # Never /\ canVote[x]
      BY <3>1 DEF GovernanceExpires
    <3> QED  BY <1>3, <2>2, <3>2
  <2> QED  BY <2>1, <2>2
<1>5. ASSUME phase' = 0, guard' > 0, NEW x \in Accounts PROVE expiration'[x] > now'
  <2>1. CASE x = a
    BY <1>2, <1>3, <2>1
  <2>2. CASE x # a
    <3>1. expiration[x] > now
      BY <1>5 DEF GovernanceExpires
    <3> QED  BY <1>3, <2>2, <3>1
  <2> QED  BY <2>1, <2>2
<1>6. expiration' \in [Accounts -> 0 .. Never]
  BY <1>0, <1>1, <1>2
<1>7. GovernanceExpires'
  BY <1>4, <1>5 DEF GovernanceExpires
<1> QED  BY <1>6, <1>7

\* withdraw_vesting keeps it.
LEMMA withdraw_vesting_keeps ==
  ASSUME IInv, NEW a \in Account, NEW n \in Nat, withdraw_vesting(a, n)
  PROVE  IInv'
<1>0. /\ Types /\ RoutesInv /\ TallyInv /\ BallotsInv /\ VestsInv /\ NullInv
      /\ DelaysInv /\ MaturedInv /\ GovernanceExpires
  BY DEF IInv
<1> DEFINE rate == (n + WithdrawIntervals - 1) \div WithdrawIntervals
           started == [rate |-> rate, next |-> now + WithdrawInterval, amount |-> n, done |-> 0]
<1>1. powerDown' = [powerDown EXCEPT ![a] = Idle] \/ powerDown' = [powerDown EXCEPT ![a] = started]
  BY DEF withdraw_vesting
<1>2. /\ vesting' = vesting /\ delayed' = delayed /\ sumDelayed' = sumDelayed
      /\ proxied' = proxied /\ votes' = votes /\ total' = total
      /\ ballots' = ballots /\ proposed' = proposed
      /\ routes' = routes /\ requests' = requests /\ proxy' = proxy /\ votedFor' = votedFor
      /\ canVote' = canVote /\ expiration' = expiration
      /\ now' = now /\ phase' = phase /\ guard' = guard
  BY DEF withdraw_vesting, Operation, objects, block, tallies
<1>3. /\ a \in Accounts /\ a # Null /\ Null \in Accounts /\ now \in Nat
      /\ powerDown \in [Accounts -> Withdrawal] /\ WithdrawInterval \in Nat
      /\ WithdrawIntervals \in Nat /\ WithdrawIntervals >= 1
      /\ \A x \in Accounts : powerDown[x].done <= powerDown[x].amount
  BY <1>0, Constants DEF Types
<1>4. Never \in Nat
  BY Constants DEF Never
<1>5. rate \in Nat
  <2>1. n + WithdrawIntervals - 1 \in Nat
    BY <1>3
  <2> QED  BY <1>3, <2>1
<1> HIDE DEF rate
<1>6. started \in Withdrawal /\ started.done <= started.amount
  BY <1>3, <1>5 DEF Withdrawal
<1>7. Idle \in Withdrawal /\ Idle.done <= Idle.amount
  BY <1>4 DEF Idle, Withdrawal
<1> HIDE DEF started
<1>8. PICK w \in Withdrawal : powerDown' = [powerDown EXCEPT ![a] = w] /\ w.done <= w.amount
  BY <1>1, <1>6, <1>7
<1>9. Types'
  <2>1. powerDown' \in [Accounts -> Withdrawal]
    BY <1>3, <1>8
  <2>2. \A x \in Accounts : powerDown'[x].done <= powerDown'[x].amount
    BY <1>3, <1>8
  <2> QED  BY <1>0, <1>2, <2>1, <2>2 DEF Types
<1>10. TallyInv'
  <2>1. Direct' = Direct
    BY <1>2 DEF Direct
  <2> QED  BY <1>0, <1>2, <2>1 DEF TallyInv
<1>11. NullInv'
  <2>1. powerDown'[Null] = powerDown[Null]
    BY <1>3, <1>8
  <2> QED  BY <1>0, <1>2, <2>1 DEF NullInv
<1>12. RoutesInv' /\ BallotsInv' /\ VestsInv' /\ DelaysInv' /\ MaturedInv'
  BY <1>0, <1>2 DEF RoutesInv, BallotsInv, VestsInv, DelaysInv, MaturedInv
<1>13. GovernanceExpires'
  BY <1>0, <1>2 DEF GovernanceExpires
<1> QED  BY <1>9, <1>10, <1>11, <1>12, <1>13 DEF IInv

\* set_withdraw_vesting_route keeps it: a route replaces the one there was.
LEMMA set_withdraw_vesting_route_keeps ==
  ASSUME IInv, NEW a \in Account, NEW to \in Destinations, NEW percent \in 0 .. Percent100,
         NEW auto \in BOOLEAN, set_withdraw_vesting_route(a, to, percent, auto)
  PROVE  IInv'
<1>0. /\ Types /\ RoutesInv /\ TallyInv /\ BallotsInv /\ VestsInv /\ NullInv
      /\ DelaysInv /\ MaturedInv /\ GovernanceExpires
  BY DEF IInv
<1> DEFINE old == {r \in routes : r.from = a /\ r.to = to}
           new == [from |-> a, to |-> to, percent |-> percent, auto |-> auto]
<1>1. \/ percent # 0 /\ old = {} /\ routes' = routes \cup {new}
      \/ percent # 0 /\ routes' = (routes \ old) \cup {new}
      \/ routes' = routes \ old
  BY DEF set_withdraw_vesting_route
<1>2. /\ vesting' = vesting /\ delayed' = delayed /\ sumDelayed' = sumDelayed
      /\ proxied' = proxied /\ votes' = votes /\ total' = total
      /\ ballots' = ballots /\ proposed' = proposed /\ powerDown' = powerDown
      /\ requests' = requests /\ proxy' = proxy /\ votedFor' = votedFor
      /\ canVote' = canVote /\ expiration' = expiration
      /\ now' = now /\ phase' = phase /\ guard' = guard
  BY DEF set_withdraw_vesting_route, Operation, account, block, tallies
<1>3. /\ routes \subseteq Route /\ IsFiniteSet(routes)
      /\ \A r, q \in routes : r.from = q.from /\ r.to = q.to => r = q
      /\ to \in Accounts /\ Percent100 \in Nat
  BY <1>0, Constants, GovernanceAssumption DEF RoutesInv, Accounts
<1>4. percent # 0 => new \in Route
  BY <1>3 DEF Route
<1>5. new.from = a /\ new.to = to
  OBVIOUS
<1> DEFINE rest == routes \ old
<1>6. rest \subseteq routes /\ IsFiniteSet(rest) /\ \A r \in rest : ~(r.from = a /\ r.to = to)
  <2>1. rest \subseteq routes /\ \A r \in rest : ~(r.from = a /\ r.to = to)
    OBVIOUS
  <2> QED  BY <1>3, <2>1, FS_Subset
<1>7. routes' = rest \/ (percent # 0 /\ routes' = rest \cup {new})
  BY <1>1
<1> HIDE DEF rest, new, old
<1>8. routes' \subseteq Route /\ IsFiniteSet(routes')
  BY <1>3, <1>4, <1>6, <1>7, FS_AddElement
<1>9. \A r, q \in routes' : r.from = q.from /\ r.to = q.to => r = q
  BY <1>3, <1>5, <1>6, <1>7
<1>10. RoutesInv'
  BY <1>8, <1>9 DEF RoutesInv
<1>11. Types' /\ NullInv'
  BY <1>0, <1>2 DEF Types, NullInv
<1>12. TallyInv'
  <2>1. Direct' = Direct
    BY <1>2 DEF Direct
  <2> QED  BY <1>0, <1>2, <2>1 DEF TallyInv
<1>13. BallotsInv' /\ VestsInv' /\ DelaysInv' /\ MaturedInv'
  BY <1>0, <1>2 DEF BallotsInv, VestsInv, DelaysInv, MaturedInv
<1>14. GovernanceExpires'
  BY <1>0, <1>2 DEF GovernanceExpires
<1> QED  BY <1>10, <1>11, <1>12, <1>13, <1>14 DEF IInv

\* update_proposal_votes keeps it.
LEMMA update_proposal_votes_keeps ==
  ASSUME IInv, NEW a \in Account, NEW ids \in SUBSET Proposal, NEW approve \in BOOLEAN,
         update_proposal_votes(a, ids, approve)
  PROVE  IInv'
<1>0. /\ Types /\ RoutesInv /\ TallyInv /\ BallotsInv /\ VestsInv /\ NullInv
      /\ DelaysInv /\ MaturedInv /\ GovernanceExpires
  BY DEF IInv
<1>1. /\ canVote[a] /\ update_governance_vote_expiration_ts(a)
      /\ proposed' = IF approve THEN proposed \cup ({a} \X ids) ELSE proposed \ ({a} \X ids)
  BY DEF update_proposal_votes
<1>2. /\ vesting' = vesting /\ delayed' = delayed /\ sumDelayed' = sumDelayed
      /\ proxied' = proxied /\ votes' = votes /\ total' = total
      /\ ballots' = ballots /\ routes' = routes /\ powerDown' = powerDown
      /\ requests' = requests /\ proxy' = proxy /\ votedFor' = votedFor
      /\ canVote' = canVote
      /\ now' = now /\ phase' = phase /\ guard' = guard
  BY DEF update_proposal_votes, Operation, block, tallies
<1>3. a \in Accounts /\ proposed \subseteq Accounts \X Proposal
  BY <1>0, Constants DEF Types
<1>4. proposed' \subseteq Accounts \X Proposal
  BY <1>1, <1>3
<1>5. \A v \in ballots' \cup proposed' : v[1] # a => v \in ballots \cup proposed
  BY <1>1, <1>2
<1>6. GovernanceExpires' /\ expiration' \in [Accounts -> 0 .. Never]
  BY <1>0, <1>1, <1>2, <1>3, <1>5, Renewed
<1>7. Types'
  BY <1>0, <1>2, <1>4, <1>6 DEF Types
<1>8. TallyInv'
  <2>1. Direct' = Direct
    BY <1>2 DEF Direct
  <2> QED  BY <1>0, <1>2, <2>1 DEF TallyInv
<1>9. RoutesInv' /\ BallotsInv' /\ VestsInv' /\ NullInv' /\ DelaysInv' /\ MaturedInv'
  BY <1>0, <1>2 DEF RoutesInv, BallotsInv, VestsInv, NullInv, DelaysInv, MaturedInv
<1> QED  BY <1>6, <1>7, <1>8, <1>9 DEF IInv

\* decline_voting_rights keeps it: the request is only noted.
LEMMA decline_voting_rights_keeps ==
  ASSUME IInv, NEW a \in Account, NEW decline \in BOOLEAN, decline_voting_rights(a, decline)
  PROVE  IInv'
<1>0. /\ Types /\ RoutesInv /\ TallyInv /\ BallotsInv /\ VestsInv /\ NullInv
      /\ DelaysInv /\ MaturedInv /\ GovernanceExpires
  BY DEF IInv
<1>1. requests' = IF decline
                  THEN [x \in DOMAIN requests \cup {a} |->
                          IF x = a THEN now + DeclinePeriod ELSE requests[x]]
                  ELSE Restrict(requests, DOMAIN requests \ {a})
  BY DEF decline_voting_rights
<1>2. /\ vesting' = vesting /\ delayed' = delayed /\ sumDelayed' = sumDelayed
      /\ proxied' = proxied /\ votes' = votes /\ total' = total
      /\ ballots' = ballots /\ proposed' = proposed /\ routes' = routes
      /\ powerDown' = powerDown /\ proxy' = proxy /\ votedFor' = votedFor
      /\ canVote' = canVote /\ expiration' = expiration
      /\ now' = now /\ phase' = phase /\ guard' = guard
  BY DEF decline_voting_rights, Operation, account, block, tallies
<1>3. DOMAIN requests' \subseteq Account
  <2>1. DOMAIN requests \subseteq Account
    BY <1>0 DEF Types
  <2>2. CASE decline
    <3>1. DOMAIN requests' = DOMAIN requests \cup {a}
      BY <1>1, <2>2
    <3> QED  BY <2>1, <3>1
  <2>3. CASE ~decline
    BY <1>1, <2>1, <2>3 DEF Restrict
  <2> QED  BY <2>2, <2>3
<1>4. Types'
  BY <1>0, <1>2, <1>3 DEF Types
<1>5. TallyInv'
  <2>1. Direct' = Direct
    BY <1>2 DEF Direct
  <2> QED  BY <1>0, <1>2, <2>1 DEF TallyInv
<1>6. RoutesInv' /\ BallotsInv' /\ VestsInv' /\ NullInv' /\ DelaysInv' /\ MaturedInv'
  BY <1>0, <1>2 DEF RoutesInv, BallotsInv, VestsInv, NullInv, DelaysInv, MaturedInv
<1>7. GovernanceExpires'
  BY <1>0, <1>2 DEF GovernanceExpires
<1> QED  BY <1>4, <1>5, <1>6, <1>7 DEF IInv

\* An account without proxy that votes for a witness, or no longer.
LEMMA TallyBallot ==
  ASSUME NEW D, NEW pr, NEW vt, NEW p, NEW bal, Tallied(D, pr, vt, p, bal),
         NEW a \in Accounts, NEW w \in Witness, p[a] = NoProxy
  PROVE  /\ <<a, w>> \notin bal =>
              Tallied(D, pr, [vt EXCEPT ![w] = vt[w] + Power(pr, D)[a]], p, bal \cup {<<a, w>>})
         /\ <<a, w>> \in bal =>
              Tallied(D, pr, [vt EXCEPT ![w] = vt[w] - Power(pr, D)[a]], p, bal \ {<<a, w>>})
<1> DEFINE q == Power(pr, D)
           S(b, u) == Voting(b, p, u)
           more == bal \cup {<<a, w>>}
           less == bal \ {<<a, w>>}
<1>0. /\ D \in [Accounts -> Int] /\ pr \in Tables /\ vt \in [Witness -> Int]
      /\ p \in ProxyMap /\ Acyclic(p) /\ Exact(pr, p, D)
      /\ bal \subseteq Accounts \X Witness /\ \A v \in bal : p[v[1]] = NoProxy
      /\ \A u \in Witness : vt[u] = Rows(q, S(bal, u))
  BY DEF Tallied
<1>1. q \in [Accounts -> Int]
  BY <1>0, PowerType
<1>2. \A b, u : S(b, u) \subseteq Accounts /\ IsFiniteSet(S(b, u))
  BY Constants, FS_Subset DEF Voting
<1>3. \A u \in Witness : u # w => S(more, u) = S(bal, u) /\ S(less, u) = S(bal, u)
  BY DEF Voting
<1>4. S(more, w) = S(bal, w) \cup {a} /\ S(less, w) = S(bal, w) \ {a}
      /\ (a \in S(bal, w) <=> <<a, w>> \in bal)
  BY DEF Voting
<1>5. /\ more \subseteq Accounts \X Witness /\ \A v \in more : p[v[1]] = NoProxy
      /\ less \subseteq Accounts \X Witness /\ \A v \in less : p[v[1]] = NoProxy
  BY <1>0
<1>6. q[a] \in Int /\ vt[w] \in Int
  BY <1>0, <1>1
<1>7. /\ a \in S(bal, w) => Rows(q, S(bal, w) \ {a}) = Rows(q, S(bal, w)) - q[a]
      /\ a \notin S(bal, w) => Rows(q, S(bal, w) \cup {a}) = Rows(q, S(bal, w)) + q[a]
  <2> DEFINE T == S(bal, w)
  <2>1. T \subseteq Accounts /\ IsFiniteSet(T)
    BY <1>2
  <2> HIDE DEF T, q
  <2>2. /\ \A x \in T : Rows(q, T \ {x}) = Rows(q, T) - q[x]
        /\ \A x \in Accounts : x \notin T => Rows(q, T \cup {x}) = Rows(q, T) + q[x]
    BY <1>1, <2>1, RowsChange
  <2> QED  BY <2>2 DEF T
<1> HIDE DEF q, S, more, less
<1>8. ASSUME <<a, w>> \notin bal
      PROVE  Tallied(D, pr, [vt EXCEPT ![w] = vt[w] + q[a]], p, more)
  <2> DEFINE vn == [vt EXCEPT ![w] = vt[w] + q[a]]
  <2>1. vn \in [Witness -> Int] /\ vn[w] = vt[w] + q[a] /\ \A u \in Witness : u # w => vn[u] = vt[u]
    BY <1>0, <1>6
  <2> HIDE DEF vn
  <2>2. ASSUME NEW u \in Witness PROVE vn[u] = Rows(q, S(more, u))
    <3>1. CASE u = w
      BY <1>0, <1>4, <1>7, <1>8, <2>1, <3>1
    <3>2. CASE u # w
      BY <1>0, <1>3, <2>1, <3>2
    <3> QED  BY <3>1, <3>2
  <2>3. \A u \in Witness : vn[u] = Rows(Power(pr, D), Voting(more, p, u))
    BY <2>2 DEF q, S
  <2> QED  BY <1>0, <1>5, <2>1, <2>3 DEF Tallied, vn
<1>9. ASSUME <<a, w>> \in bal
      PROVE  Tallied(D, pr, [vt EXCEPT ![w] = vt[w] - q[a]], p, less)
  <2> DEFINE vn == [vt EXCEPT ![w] = vt[w] - q[a]]
  <2>1. vn \in [Witness -> Int] /\ vn[w] = vt[w] - q[a] /\ \A u \in Witness : u # w => vn[u] = vt[u]
    BY <1>0, <1>6
  <2> HIDE DEF vn
  <2>2. ASSUME NEW u \in Witness PROVE vn[u] = Rows(q, S(less, u))
    <3>1. CASE u = w
      BY <1>0, <1>4, <1>7, <1>9, <2>1, <3>1
    <3>2. CASE u # w
      BY <1>0, <1>3, <2>1, <3>2
    <3> QED  BY <3>1, <3>2
  <2>3. \A u \in Witness : vn[u] = Rows(Power(pr, D), Voting(less, p, u))
    BY <2>2 DEF q, S
  <2> QED  BY <1>0, <1>5, <2>1, <2>3 DEF Tallied, vn
<1> QED  BY <1>8, <1>9 DEF q, more, less

\* Ballots are finitely many.
LEMMA BallotsFinite ==
  ASSUME TallyInv
  PROVE  /\ IsFiniteSet(ballots)
         /\ \A a : IsFiniteSet({v \in ballots : v[1] = a})
<1>1. IsFiniteSet(Accounts \X Witness) /\ ballots \subseteq Accounts \X Witness
  BY Constants, FS_Product DEF TallyInv, Tallied
<1>2. IsFiniteSet(ballots)
  BY <1>1, FS_Subset
<1>3. \A a : {v \in ballots : v[1] = a} \in SUBSET ballots
  OBVIOUS
<1> QED  BY <1>2, <1>3, FS_Subset

\* account_witness_vote keeps it: the witness gets all the votes of the voter.
LEMMA account_witness_vote_keeps ==
  ASSUME IInv, NEW a \in Account, NEW w \in Witness, NEW approve \in BOOLEAN,
         account_witness_vote(a, w, approve)
  PROVE  IInv'
<1>0. /\ Types /\ RoutesInv /\ TallyInv /\ BallotsInv /\ VestsInv /\ NullInv
      /\ DelaysInv /\ MaturedInv /\ GovernanceExpires
  BY DEF IInv
<1> DEFINE power == Power(proxied, Direct)[a]
           mine == {v \in ballots : v[1] = a}
           v == <<a, w>>
<1>1. a \in Accounts /\ NoProxy \notin Accounts /\ MaxWitnessVotes \in Nat
  BY Constants
<1>2. /\ proxy[a] = NoProxy /\ canVote[a] /\ update_governance_vote_expiration_ts(a)
      /\ \/ /\ v \notin ballots /\ votedFor[a] < MaxWitnessVotes
            /\ ballots' = ballots \cup {v}
            /\ votes' = [votes EXCEPT ![w] = votes[w] + power]
            /\ votedFor' = [votedFor EXCEPT ![a] = votedFor[a] + 1]
         \/ /\ v \in ballots
            /\ ballots' = ballots \ {v}
            /\ votes' = [votes EXCEPT ![w] = votes[w] - power]
            /\ votedFor' = [votedFor EXCEPT ![a] = votedFor[a] - 1]
  BY <1>1, PowerIs DEF account_witness_vote
<1>3. /\ vesting' = vesting /\ delayed' = delayed /\ sumDelayed' = sumDelayed
      /\ proxied' = proxied /\ total' = total /\ proposed' = proposed
      /\ routes' = routes /\ powerDown' = powerDown
      /\ requests' = requests /\ proxy' = proxy /\ canVote' = canVote
      /\ now' = now /\ phase' = phase /\ guard' = guard
  BY DEF account_witness_vote, Operation, block
<1>4. TallyInv'
  <2>1. Direct' = Direct
    BY <1>3 DEF Direct
  <2>2. Tallied(Direct, proxied, votes', proxy, ballots')
    <3> DEFINE D == Direct
    <3> HIDE DEF D
    <3>1. Tallied(D, proxied, votes, proxy, ballots)
      BY <1>0 DEF TallyInv, D
    <3>2. /\ v \notin ballots =>
               Tallied(D, proxied, [votes EXCEPT ![w] = votes[w] + Power(proxied, D)[a]], proxy, ballots \cup {v})
          /\ v \in ballots =>
               Tallied(D, proxied, [votes EXCEPT ![w] = votes[w] - Power(proxied, D)[a]], proxy, ballots \ {v})
      BY <1>1, <1>2, <3>1, TallyBallot
    <3> QED  BY <1>2, <3>2 DEF D
  <2> QED  BY <1>3, <2>1, <2>2 DEF TallyInv
<1> HIDE DEF power
<1>5. /\ IsFiniteSet(mine) /\ votedFor[a] = Cardinality(mine) /\ Cardinality(mine) \in Nat
      /\ votedFor \in [Accounts -> 0 .. MaxWitnessVotes]
  BY <1>0, <1>1, BallotsFinite, FS_CardinalityType DEF BallotsInv, Types
<1>6. /\ \A x \in Accounts : x # a => {u \in ballots' : u[1] = x} = {u \in ballots : u[1] = x}
      /\ \A x \in Accounts : x # a => votedFor'[x] = votedFor[x]
  BY <1>2, <1>5
<1>7. /\ votedFor'[a] = Cardinality({u \in ballots' : u[1] = a})
      /\ votedFor' \in [Accounts -> 0 .. MaxWitnessVotes]
  <2>1. CASE v \notin ballots
    <3>1. /\ ballots' = ballots \cup {v} /\ votedFor[a] < MaxWitnessVotes
          /\ votedFor' = [votedFor EXCEPT ![a] = votedFor[a] + 1]
      BY <1>2, <2>1
    <3>2. {u \in ballots' : u[1] = a} = mine \cup {v} /\ v \notin mine
      BY <2>1, <3>1
    <3> HIDE DEF mine, v
    <3>3. Cardinality(mine \cup {v}) = Cardinality(mine) + 1
      BY <1>5, <3>2, FS_AddElement
    <3>4. votedFor[a] + 1 \in 0 .. MaxWitnessVotes
      BY <1>1, <1>5, <3>1
    <3>5. votedFor'[a] = votedFor[a] + 1
      BY <1>1, <1>5, <3>1
    <3> QED  BY <1>5, <3>1, <3>2, <3>3, <3>4, <3>5
  <2>2. CASE v \in ballots
    <3>1. /\ ballots' = ballots \ {v}
          /\ votedFor' = [votedFor EXCEPT ![a] = votedFor[a] - 1]
      BY <1>2, <2>2
    <3>2. {u \in ballots' : u[1] = a} = mine \ {v} /\ v \in mine
      BY <2>2, <3>1
    <3> HIDE DEF mine, v
    <3>3. Cardinality(mine \ {v}) = Cardinality(mine) - 1 /\ IsFiniteSet(mine \ {v})
      BY <1>5, <3>2, FS_RemoveElement
    <3>4. Cardinality(mine \ {v}) \in Nat
      BY <3>3, FS_CardinalityType
    <3>5. votedFor[a] - 1 \in 0 .. MaxWitnessVotes
      <4>1. votedFor[a] \in 0 .. MaxWitnessVotes
        BY <1>1, <1>5
      <4> QED  BY <1>1, <1>5, <3>3, <3>4, <4>1
    <3>6. votedFor'[a] = votedFor[a] - 1
      BY <1>1, <1>5, <3>1
    <3> QED  BY <1>5, <3>1, <3>2, <3>3, <3>5, <3>6
  <2> QED  BY <2>1, <2>2
<1>8. BallotsInv'
  <2>1. ASSUME NEW x \in Accounts PROVE votedFor'[x] = Cardinality({u \in ballots' : u[1] = x})
    <3>1. CASE x = a
      BY <1>7, <3>1
    <3>2. CASE x # a
      <4>1. votedFor[x] = Cardinality({u \in ballots : u[1] = x})
        BY <1>0 DEF BallotsInv
      <4> QED  BY <1>6, <3>2, <4>1
    <3> QED  BY <3>1, <3>2
  <2> QED  BY <2>1 DEF BallotsInv
<1>9. \A u \in ballots' \cup proposed' : u[1] # a => u \in ballots \cup proposed
  BY <1>2, <1>3
<1>10. GovernanceExpires' /\ expiration' \in [Accounts -> 0 .. Never]
  BY <1>0, <1>1, <1>2, <1>3, <1>9, Renewed
<1>11. Types'
  BY <1>0, <1>3, <1>7, <1>10 DEF Types
<1>12. RoutesInv' /\ VestsInv' /\ NullInv' /\ DelaysInv' /\ MaturedInv'
  BY <1>0, <1>3 DEF RoutesInv, VestsInv, NullInv, DelaysInv, MaturedInv
<1> QED  BY <1>4, <1>8, <1>10, <1>11, <1>12 DEF IInv

------------------------------------------------------------------------------
(* It is kept by the processes of a block. *)

\* Nothing is delayed in an empty list.
LEMMA NoEntries ==
  <<>> \in Seq(Entry) /\ SumVal(<<>>) = 0 /\ Spaced(<<>>) /\ DOMAIN <<>> = {}
<1>1. <<>> \in Seq(Entry) /\ Len(<<>>) = 0 /\ DOMAIN <<>> = {}
  OBVIOUS
<1>2. SumVal(<<>>) = FirstVals(<<>>, Len(<<>>)) /\ FirstVals(<<>>, 0) = 0
  BY <1>1, FirstValsStep
<1>3. Spaced(<<>>)
  BY <1>1 DEF Spaced
<1> QED  BY <1>1, <1>2, <1>3

\* clear_null_account_balance keeps it: what is burned did not vote.
LEMMA clear_null_account_balance_keeps ==
  ASSUME IInv, clear_null_account_balance
  PROVE  IInv'
<1>0. /\ Types /\ RoutesInv /\ TallyInv /\ BallotsInv /\ VestsInv /\ NullInv
      /\ DelaysInv /\ MaturedInv /\ GovernanceExpires
  BY DEF IInv
<1>1. /\ now < MaxTime /\ phase' = Withdrawals /\ now' = now + 1 /\ guard' = RemoveThreshold
      /\ total' = total - vesting[Null]
      /\ vesting' = [vesting EXCEPT ![Null] = 0]
      /\ sumDelayed' = [sumDelayed EXCEPT ![Null] = 0]
      /\ delayed' = [delayed EXCEPT ![Null] = <<>>]
  BY DEF clear_null_account_balance
<1>2. /\ proxied' = proxied /\ votes' = votes /\ ballots' = ballots /\ proposed' = proposed
      /\ routes' = routes /\ powerDown' = powerDown /\ votedFor' = votedFor
      /\ requests' = requests /\ proxy' = proxy /\ canVote' = canVote
      /\ expiration' = expiration
  BY DEF clear_null_account_balance, tallies, objects
<1>3. /\ vesting \in [Accounts -> Nat] /\ sumDelayed \in [Accounts -> Nat]
      /\ delayed \in [Accounts -> Seq(Entry)] /\ now \in 0 .. MaxTime
      /\ \A x \in Accounts : sumDelayed[x] <= vesting[x]
      /\ Null \in Accounts /\ MaxTime \in Nat /\ RemoveThreshold \in Nat
      /\ vesting[Null] = sumDelayed[Null]
  BY <1>0, Constants DEF Types, NullInv
<1>4. ASSUME NEW x \in Accounts
      PROVE  /\ sumDelayed'[x] <= vesting'[x]
             /\ vesting'[x] - sumDelayed'[x] = vesting[x] - sumDelayed[x]
             /\ x # Null => delayed'[x] = delayed[x] /\ sumDelayed'[x] = sumDelayed[x]
  <2>1. CASE x = Null
    <3>1. vesting'[x] = 0 /\ sumDelayed'[x] = 0
      BY <1>1, <1>3, <2>1
    <3>2. vesting[x] - sumDelayed[x] = 0
      BY <1>3, <2>1
    <3> QED  BY <2>1, <3>1, <3>2
  <2>2. CASE x # Null
    <3>1. vesting'[x] = vesting[x] /\ sumDelayed'[x] = sumDelayed[x] /\ delayed'[x] = delayed[x]
      BY <1>1, <1>3, <2>2
    <3> QED  BY <1>3, <3>1
  <2> QED  BY <2>1, <2>2
<1>5. vesting'[Null] = 0 /\ sumDelayed'[Null] = 0 /\ delayed'[Null] = <<>>
  BY <1>1, <1>3
<1>6. Types'
  <2>1. vesting' \in [Accounts -> Nat] /\ sumDelayed' \in [Accounts -> Nat]
    BY <1>1, <1>3
  <2>2. delayed' \in [Accounts -> Seq(Entry)]
    BY <1>1, <1>3, NoEntries
  <2>3. now' \in 0 .. MaxTime /\ phase' \in 0 .. Expiry /\ guard' \in Int
    BY <1>1, <1>3 DEF Withdrawals, Expiry
  <2> QED  BY <1>0, <1>2, <1>4, <2>1, <2>2, <2>3 DEF Types
<1>7. TallyInv'
  <2>1. Direct' = Direct
    BY <1>4 DEF Direct
  <2> QED  BY <1>0, <1>2, <2>1 DEF TallyInv
<1>8. VestsInv'
  <2>1. vesting \in [Accounts -> Int] /\ vesting' \in [Accounts -> Int] /\ IsFiniteSet(Accounts)
        /\ vesting'[Null] = 0 /\ vesting[Null] \in Int
        /\ \A x \in Accounts \ {Null} : vesting[x] = vesting'[x]
    BY <1>1, <1>3, Constants
  <2>2. SumFunction(vesting') = SumFunction(vesting) + vesting'[Null] - vesting[Null]
    BY <1>3, <2>1, SumChange
  <2>3. SumFunction(vesting) \in Int
    BY <2>1, SumType
  <2> QED  BY <1>0, <1>1, <2>1, <2>2, <2>3 DEF VestsInv
<1>9. NullInv'
  BY <1>0, <1>2, <1>5, NoEntries DEF NullInv
<1>10. DelaysInv'
  <2>1. ASSUME NEW x \in Accounts
        PROVE  /\ sumDelayed'[x] = SumVal(delayed'[x]) /\ Spaced(delayed'[x])
               /\ \A i \in DOMAIN delayed'[x] : delayed'[x][i].time <= now'
    <3>1. CASE x = Null
      BY <1>5, <3>1, NoEntries
    <3>2. CASE x # Null
      <4>1. delayed'[x] = delayed[x] /\ sumDelayed'[x] = sumDelayed[x]
        BY <1>4, <3>2
      <4>2. sumDelayed[x] = SumVal(delayed[x]) /\ Spaced(delayed[x])
        BY <1>0 DEF DelaysInv
      <4>3. ASSUME NEW i \in DOMAIN delayed[x] PROVE delayed[x][i].time <= now + 1
        <5>1. delayed[x] \in Seq(Entry)
          BY <1>3
        <5>2. delayed[x][i] \in Entry
          BY <5>1
        <5>3. delayed[x][i].time \in Nat
          BY <5>2 DEF Entry
        <5>4. delayed[x][i].time <= now
          BY <1>0 DEF DelaysInv
        <5> QED  BY <1>3, <5>3, <5>4
      <4> QED  BY <1>1, <4>1, <4>2, <4>3
    <3> QED  BY <3>1, <3>2
  <2> QED  BY <2>1 DEF DelaysInv
<1>11. MaturedInv'
  BY <1>1 DEF MaturedInv, Withdrawals, Expiry
<1>12. GovernanceExpires'
  BY <1>0, <1>1, <1>2 DEF GovernanceExpires, Withdrawals
<1>13. RoutesInv' /\ BallotsInv'
  BY <1>0, <1>2 DEF RoutesInv, BallotsInv
<1> QED  BY <1>6, <1>7, <1>8, <1>9, <1>10, <1>11, <1>12, <1>13 DEF IInv

\* EndBlock keeps it: nothing is due any more.
LEMMA EndBlock_keeps ==
  ASSUME IInv, EndBlock
  PROVE  IInv'
<1>0. /\ Types /\ RoutesInv /\ TallyInv /\ BallotsInv /\ VestsInv /\ NullInv
      /\ DelaysInv /\ MaturedInv /\ GovernanceExpires
  BY DEF IInv
<1>1. Reached(Expiry) /\ Due(Expiry) = {} /\ phase' = 0 /\ guard' = RemoveThreshold
  BY DEF EndBlock
<1>2. /\ vesting' = vesting /\ delayed' = delayed /\ sumDelayed' = sumDelayed
      /\ proxied' = proxied /\ votes' = votes /\ total' = total
      /\ ballots' = ballots /\ proposed' = proposed /\ routes' = routes
      /\ powerDown' = powerDown /\ proxy' = proxy /\ votedFor' = votedFor
      /\ requests' = requests /\ canVote' = canVote /\ expiration' = expiration
      /\ now' = now
  BY DEF EndBlock, account, tallies, objects
<1>3. expiration \in [Accounts -> Nat] /\ now \in Nat
  BY <1>0, Constants DEF Types, Never
<1>4. DueFirst(expiration) = {}
  BY <1>1, DueIs
<1>5. \A x \in Accounts : expiration[x] > now
  BY <1>3, <1>4, NobodyDue
<1>6. GovernanceExpires'
  BY <1>0, <1>2, <1>5 DEF GovernanceExpires
<1>7. MaturedInv'
  <2>1. \A a \in Accounts : \A i \in DOMAIN delayed[a] : delayed[a][i].time + DelayTotal > now
    BY <1>1, MaturedBy
  <2> QED  BY <1>2, <2>1 DEF MaturedInv
<1>8. Types'
  <2>1. phase' \in 0 .. Expiry /\ guard' \in Int
    BY <1>1, Constants DEF Expiry
  <2> QED  BY <1>0, <1>2, <2>1 DEF Types
<1>9. TallyInv'
  <2>1. Direct' = Direct
    BY <1>2 DEF Direct
  <2> QED  BY <1>0, <1>2, <2>1 DEF TallyInv
<1>10. RoutesInv' /\ BallotsInv' /\ VestsInv' /\ NullInv' /\ DelaysInv'
  BY <1>0, <1>2 DEF RoutesInv, BallotsInv, VestsInv, NullInv, DelaysInv
<1> QED  BY <1>6, <1>7, <1>8, <1>9, <1>10 DEF IInv

\* process_delayed_voting keeps it: what leaves the delayed votes votes.
LEMMA process_delayed_voting_keeps ==
  ASSUME IInv, NEW a \in Accounts, process_delayed_voting(a)
  PROVE  IInv'
<1>0. /\ Types /\ RoutesInv /\ TallyInv /\ BallotsInv /\ VestsInv /\ NullInv
      /\ DelaysInv /\ MaturedInv /\ GovernanceExpires
  BY DEF IInv
<1> DEFINE s == delayed[a]
           val == s[1].val
<1>1. /\ a \in Due(Maturing) /\ phase' = Maturing
      /\ SetTally(adjust_proxied_witness_votes(Tally, proxy, a, Single(val)))
      /\ delayed' = [delayed EXCEPT ![a] = Tail(s)]
      /\ sumDelayed' = [sumDelayed EXCEPT ![a] = sumDelayed[a] - val]
  BY DEF process_delayed_voting, Run
<1>2. /\ vesting' = vesting /\ total' = total
      /\ ballots' = ballots /\ proposed' = proposed /\ routes' = routes
      /\ powerDown' = powerDown /\ proxy' = proxy /\ votedFor' = votedFor
      /\ requests' = requests /\ canVote' = canVote /\ expiration' = expiration
      /\ now' = now /\ guard' = guard
  BY DEF process_delayed_voting, objects
<1>3. /\ vesting \in [Accounts -> Nat] /\ sumDelayed \in [Accounts -> Nat]
      /\ delayed \in [Accounts -> Seq(Entry)] /\ now \in 0 .. MaxTime
      /\ \A x \in Accounts : sumDelayed[x] <= vesting[x]
      /\ Null \in Accounts /\ MaxTime \in Nat /\ guard \in Int
      /\ DelayTotal \in Nat /\ DelayTotal >= 1 /\ Never \in Nat /\ Never > MaxTime
  BY <1>0, Constants DEF Types, Never
<1>4. Maturity(a) <= now
  BY <1>1, DueIs DEF DueFirst
<1>5. s \in Seq(Entry) /\ s # <<>> /\ Spaced(s) /\ sumDelayed[a] = SumVal(s)
  <2>1. s # <<>>
    BY <1>3, <1>4 DEF Maturity
  <2> QED  BY <1>0, <1>3, <2>1 DEF DelaysInv
<1>6. s[1].time + DelayTotal <= now
  BY <1>4, <1>5 DEF Maturity
<1>7. a # Null
  <2>1. 1 \in DOMAIN s
    BY <1>5
  <2>2. a = Null => s[1].time = now
    BY <1>0, <2>1 DEF NullInv
  <2> QED  BY <1>3, <1>6, <2>2
<1> DEFINE e == Tail(s)
<1>8. /\ e \in Seq(Entry) /\ Spaced(e) /\ s[1] \in Entry /\ SumVal(e) = SumVal(s) - val
      /\ Aged(e, s, now)
  <2> HIDE DEF s
  <2>1. /\ e \in Seq(Entry) /\ Spaced(e) /\ s[1] \in Entry /\ SumVal(e) = SumVal(s) - val
        /\ \A i \in DOMAIN e : i + 1 \in DOMAIN s /\ e[i].time = s[i + 1].time
    BY <1>5, TailIs
  <2> HIDE DEF e, val
  <2> QED  BY <2>1 DEF Aged
<1>9. val \in Nat /\ SumVal(e) \in Nat /\ SumVal(s) \in Nat
  <2>1. val \in Nat
    BY <1>8 DEF Entry
  <2> HIDE DEF e, s
  <2>2. \A q \in Seq(Entry) : SumVal(q) \in Nat
    <3>1. ASSUME NEW q \in Seq(Entry) PROVE SumVal(q) \in Nat
      <4>1. Len(q) \in 0 .. Len(q)
        OBVIOUS
      <4> QED  BY <4>1, FirstValsStep
    <3> QED  BY <3>1
  <2> QED  BY <1>5, <1>8, <2>1, <2>2
<1> HIDE DEF val, e, s
<1>10. /\ delayed'[a] = e /\ sumDelayed'[a] = sumDelayed[a] - val
       /\ \A x \in Accounts : x # a => delayed'[x] = delayed[x] /\ sumDelayed'[x] = sumDelayed[x]
  BY <1>1, <1>3 DEF e
<1>11. ASSUME NEW x \in Accounts
       PROVE  /\ delayed'[x] \in Seq(Entry) /\ Spaced(delayed'[x])
              /\ sumDelayed'[x] = SumVal(delayed'[x])
              /\ Aged(delayed'[x], delayed[x], now)
  <2>1. CASE x = a
    BY <1>5, <1>8, <1>10, <2>1 DEF s
  <2>2. CASE x # a
    <3>1. delayed[x] \in Seq(Entry) /\ Spaced(delayed[x]) /\ sumDelayed[x] = SumVal(delayed[x])
      BY <1>0, <1>3 DEF DelaysInv
    <3>2. Aged(delayed[x], delayed[x], now)
      BY DEF Aged
    <3> QED  BY <1>10, <2>2, <3>1, <3>2
  <2> QED  BY <2>1, <2>2
<1>12. phase' \notin {0, Expiry} /\ phase' \in 0 .. Expiry
  BY <1>1 DEF Maturing, Expiry
<1>13. /\ DelaysInv' /\ MaturedInv'
       /\ \A i \in DOMAIN delayed'[Null] : delayed'[Null][i].time = now'
  BY <1>0, <1>2, <1>11, <1>12, DelaysKept
<1>14. sumDelayed'[a] \in Nat /\ sumDelayed'[a] <= vesting[a]
       /\ vesting[a] - sumDelayed'[a] = vesting[a] - sumDelayed[a] + val
       /\ vesting[a] - sumDelayed'[a] \in Int
  <2>1. vesting[a] \in Nat /\ sumDelayed[a] \in Nat /\ sumDelayed[a] <= vesting[a]
    BY <1>3
  <2> QED  BY <1>5, <1>8, <1>9, <1>10, <2>1, SMTT(60)
<1>15. Types'
  <2>1. sumDelayed' \in [Accounts -> Nat]
    <3>1. sumDelayed[a] - val \in Nat
      BY <1>10, <1>14
    <3> QED  BY <1>1, <1>3, <3>1
  <2>2. delayed' \in [Accounts -> Seq(Entry)]
    <3>1. delayed' = [delayed EXCEPT ![a] = e]
      BY <1>1 DEF e
    <3> QED  BY <1>3, <1>8, <3>1
  <2>3. \A x \in Accounts : sumDelayed'[x] <= vesting'[x]
    BY <1>2, <1>3, <1>10, <1>14
  <2> QED  BY <1>0, <1>2, <1>12, <2>1, <2>2, <2>3 DEF Types
<1>16. TallyInv'
  <2>1. \A x \in Accounts : vesting'[x] - sumDelayed'[x] \in Int
    <3>1. vesting' \in [Accounts -> Nat] /\ sumDelayed' \in [Accounts -> Nat]
      BY <1>15 DEF Types
    <3>2. \A x \in Accounts : vesting'[x] \in Int /\ sumDelayed'[x] \in Int
      BY <3>1
    <3> QED  BY <3>2
  <2>2. Direct' \in [Accounts -> Int] /\ Direct'[a] = Direct[a] + val
        /\ \A x \in Accounts \ {a} : Direct'[x] = Direct[x]
    BY <1>2, <1>10, <1>14, <2>1 DEF Direct
  <2>3. val \in Int
    BY <1>9
  <2> QED  BY <1>0, <1>1, <1>2, <2>2, <2>3, TallyTold
<1>17. NullInv'
  <2>1. sumDelayed'[Null] = sumDelayed[Null]
    BY <1>3, <1>7, <1>10
  <2> QED  BY <1>0, <1>2, <1>13, <2>1 DEF NullInv
<1>18. RoutesInv' /\ BallotsInv' /\ VestsInv'
  BY <1>0, <1>2 DEF RoutesInv, BallotsInv, VestsInv
<1>19. GovernanceExpires'
  BY <1>0, <1>2, <1>12 DEF GovernanceExpires
<1> QED  BY <1>13, <1>15, <1>16, <1>17, <1>18, <1>19 DEF IInv

\* What the code subtracts and adds is all that is under an account.
LEMMA PowerOfIs ==
  ASSUME TallyInv, NEW a \in Accounts
  PROVE  /\ PowerOf(a, -1) = Neg(Under(Direct, proxy, a))
         /\ PowerOf(a, 1) = Under(Direct, proxy, a)
<1> DEFINE D == Direct
           u == Under(D, proxy, a)
<1>1. D \in [Accounts -> Int] /\ proxied \in Tables /\ proxy \in ProxyMap /\ Exact(proxied, proxy, D)
  BY DEF TallyInv, Tallied
<1>2. D[a] = get_direct_governance_vote_power(a)
  BY DEF Direct, get_direct_governance_vote_power
<1> HIDE DEF D
<1>3. /\ u \in Counts /\ u[0] = D[a] /\ \A i \in 1 .. Depth : u[i] = proxied[a][i - 1]
  BY <1>1, PowerSum
<1> DEFINE v(i) == IF i = 0 THEN get_direct_governance_vote_power(a) ELSE proxied[a][i - 1]
<1>4. ASSUME NEW i \in 0 .. Depth PROVE v(i) = u[i] /\ u[i] \in Int
  <2>1. u[i] \in Int
    BY <1>3 DEF Counts
  <2>2. i # 0 => i \in 1 .. Depth
    BY Constants
  <2> HIDE DEF u
  <2> QED  BY <1>2, <1>3, <2>1, <2>2
<1> HIDE DEF u, v
<1>5. \A i \in 0 .. Depth : (-1) * v(i) = -u[i] /\ 1 * v(i) = u[i]
  BY <1>4
<1>6. PowerOf(a, -1) = [i \in 0 .. Depth |-> (-1) * v(i)] /\ PowerOf(a, 1) = [i \in 0 .. Depth |-> 1 * v(i)]
  BY DEF PowerOf, v
<1>7. PowerOf(a, -1) = Neg(u)
  BY <1>5, <1>6 DEF Neg
<1>8. u = [i \in 0 .. Depth |-> u[i]]
  BY <1>3 DEF Counts
<1>9. PowerOf(a, 1) = u
  BY <1>5, <1>6, <1>8
<1> QED  BY <1>7, <1>9 DEF u, D

\* nullify_proxied_witness_votes takes away what an account has passed on.
LEMMA Nullified ==
  ASSUME TallyInv, NEW a \in Accounts
  PROVE  LET r == nullify_proxied_witness_votes(a)
         IN  Tallied(Direct, r.proxied, r.votes, Cut(proxy, a), {v \in ballots : v[1] # a})
<1> DEFINE r == nullify_proxied_witness_votes(a)
           D == Direct
<1>1. Tallied(D, Tally.proxied, Tally.votes, proxy, ballots)
  BY DEF TallyInv, Tally
<1>2. r = adjust_proxied_witness_votes(Tally, proxy, a, Neg(Under(D, proxy, a)))
  BY PowerOfIs DEF nullify_proxied_witness_votes
<1> HIDE DEF D, r
<1>3. Tallied(D, r.proxied, r.votes, Cut(proxy, a), {v \in ballots : v[1] # a})
  BY <1>1, <1>2, TallyCut
<1> QED  BY <1>3 DEF D, r

\* An account that loses its ballots.
LEMMA BallotsCleared ==
  ASSUME Types, BallotsInv, NEW a \in Accounts, clear_witness_votes(a)
  PROVE  BallotsInv' /\ votedFor' \in [Accounts -> 0 .. MaxWitnessVotes]
<1>1. /\ ballots' = {v \in ballots : v[1] # a} /\ votedFor' = [votedFor EXCEPT ![a] = 0]
      /\ votedFor \in [Accounts -> 0 .. MaxWitnessVotes]
  BY DEF clear_witness_votes, Types
<1>2. votedFor' \in [Accounts -> 0 .. MaxWitnessVotes]
  BY <1>1, Constants
<1>3. ASSUME NEW x \in Accounts PROVE votedFor'[x] = Cardinality({v \in ballots' : v[1] = x})
  <2>1. CASE x = a
    <3>1. {v \in ballots' : v[1] = x} = {} /\ votedFor'[x] = 0
      BY <1>1, <2>1
    <3> QED  BY <3>1, FS_EmptySet
  <2>2. CASE x # a
    <3>1. {v \in ballots' : v[1] = x} = {v \in ballots : v[1] = x} /\ votedFor'[x] = votedFor[x]
      BY <1>1, <2>2
    <3> QED  BY <3>1 DEF BallotsInv
  <2> QED  BY <2>1, <2>2
<1>4. BallotsInv'
  BY <1>3 DEF BallotsInv
<1> QED  BY <1>2, <1>4

\* ClearVotes leaves an account without proxy and ballots, and the tallies exact.
LEMMA VotesCleared ==
  ASSUME Types, TallyInv, BallotsInv, NEW a \in Accounts, ClearVotes(a),
         vesting' = vesting, sumDelayed' = sumDelayed
  PROVE  /\ TallyInv' /\ BallotsInv' /\ votedFor' \in [Accounts -> 0 .. MaxWitnessVotes]
         /\ proxy'[a] = NoProxy /\ \A x \in Accounts : x # a => proxy'[x] = proxy[x]
         /\ ballots' = {v \in ballots : v[1] # a}
<1> DEFINE r == nullify_proxied_witness_votes(a)
<1>1. /\ proxied' = r.proxied /\ votes' = r.votes /\ ballots' = {v \in ballots : v[1] # a}
      /\ proxy' = Cut(proxy, a) /\ clear_witness_votes(a)
  BY DEF ClearVotes, SetTally, clear_witness_votes, Cut
<1>2. Tallied(Direct, r.proxied, r.votes, Cut(proxy, a), {v \in ballots : v[1] # a})
  BY Nullified
<1>3. Direct' = Direct
  BY DEF Direct
<1> HIDE DEF r
<1>4. TallyInv'
  BY <1>1, <1>2, <1>3 DEF TallyInv
<1>5. BallotsInv' /\ votedFor' \in [Accounts -> 0 .. MaxWitnessVotes]
  BY <1>1, BallotsCleared
<1>6. proxy \in [Accounts -> Above]
  BY DEF TallyInv, Tallied, ProxyMap
<1>7. proxy'[a] = NoProxy /\ \A x \in Accounts : x # a => proxy'[x] = proxy[x]
  BY <1>1, <1>6 DEF Cut
<1> QED  BY <1>1, <1>4, <1>5, <1>7

\* Proposal votes taken away up to a limit: if not all are, the limit is used up.
LEMMA GuardSpent ==
  ASSUME NEW a, NEW mine, mine \subseteq {a} \X Proposal, NEW g \in Int,
         NEW removed,
         removed = {v \in mine : Cardinality({u \in mine : u[2] < v[2]}) < g}
  PROVE  /\ removed \subseteq mine /\ g - Cardinality(removed) \in Int
         /\ removed # mine => g - Cardinality(removed) <= 0
<1>1. IsFiniteSet(mine)
  <2>1. IsFiniteSet({a} \X Proposal)
    BY Constants, FS_Singleton, FS_Product
  <2> QED  BY <2>1, FS_Subset
<1>2. removed \subseteq mine /\ IsFiniteSet(removed) /\ Cardinality(removed) \in Nat
  <2>1. removed \subseteq mine
    OBVIOUS
  <2>2. IsFiniteSet(removed)
    BY <1>1, <2>1, FS_Subset
  <2> QED  BY <2>1, <2>2, FS_CardinalityType
<1>3. ASSUME removed # mine PROVE g <= Cardinality(removed)
  <2> DEFINE T == {v[2] : v \in mine \ removed}
  <2>1. \A v \in mine : v[2] \in Nat
    BY Constants
  <2>2. T \subseteq Nat /\ T # {}
    BY <1>2, <1>3, <2>1
  <2> HIDE DEF T
  <2>3. PICK n \in T : \A m \in T : n <= m
    BY <2>2, LeastNat
  <2>4. PICK v \in mine \ removed : v[2] = n
    BY DEF T
  <2> DEFINE L == {u \in mine : u[2] < v[2]}
  <2>5. IsFiniteSet(L) /\ L \subseteq mine
    BY <1>1, FS_Subset
  <2>6. Cardinality(L) \in Nat
    BY <2>5, FS_CardinalityType
  <2>7. ~(Cardinality(L) < g)
    BY <2>4
  <2>8. L \subseteq removed
    <3>1. ASSUME NEW u \in L, u \notin removed PROVE FALSE
      <4>1. u[2] \in T /\ u[2] < v[2] /\ u[2] \in Nat
        BY <2>1, <3>1 DEF T
      <4>2. n <= u[2] /\ n \in Nat
        BY <2>2, <2>3, <4>1
      <4> QED  BY <2>4, <4>1, <4>2
    <3> QED  BY <3>1
  <2> HIDE DEF L
  <2>9. Cardinality(L) <= Cardinality(removed)
    BY <1>2, <2>8, FS_Subset
  <2> QED  BY <1>2, <2>6, <2>7, <2>9
<1> QED  BY <1>2, <1>3

\* process_decline_voting_rights keeps it: who has declined votes no more.
LEMMA process_decline_voting_rights_keeps ==
  ASSUME IInv, NEW a \in Accounts, process_decline_voting_rights(a)
  PROVE  IInv'
<1>0. /\ Types /\ RoutesInv /\ TallyInv /\ BallotsInv /\ VestsInv /\ NullInv
      /\ DelaysInv /\ MaturedInv /\ GovernanceExpires
  BY DEF IInv
<1> DEFINE mine == {v \in proposed : v[1] = a}
           removed == {v \in mine : Cardinality({u \in mine : u[2] < v[2]}) < Guard(Declines)}
<1>1. /\ proposed' = proposed \ removed
      /\ guard' = Guard(Declines) - Cardinality(removed)
      /\ \/ /\ removed = mine /\ phase' = Declines /\ ClearVotes(a)
            /\ canVote' = [canVote EXCEPT ![a] = FALSE]
            /\ requests' = Restrict(requests, DOMAIN requests \ {a})
         \/ /\ phase' = Maturing
            /\ UNCHANGED <<tallies, ballots, votedFor, proxy, canVote, requests>>
  BY DEF process_decline_voting_rights, remove_proposal_votes
<1>2. /\ vesting' = vesting /\ delayed' = delayed /\ sumDelayed' = sumDelayed
      /\ total' = total /\ routes' = routes /\ powerDown' = powerDown
      /\ expiration' = expiration /\ now' = now
  BY DEF process_decline_voting_rights
<1>3. proposed \subseteq Accounts \X Proposal /\ Guard(Declines) \in Int
  BY <1>0, Constants DEF Types, Guard
<1>4. guard' \in Int
  <2>1. mine \subseteq {a} \X Proposal
    BY <1>3
  <2> HIDE DEF mine
  <2> QED  BY <1>1, <1>3, <2>1, GuardSpent
<1>5. proposed' \subseteq proposed
  BY <1>1
<1>6. phase' \notin {0, Expiry} /\ phase' \in 0 .. Expiry
  BY <1>1 DEF Declines, Maturing, Expiry
<1>7. NullInv' /\ DelaysInv' /\ MaturedInv' /\ VestsInv' /\ RoutesInv'
  BY <1>0, <1>2, <1>6 DEF NullInv, DelaysInv, MaturedInv, VestsInv, RoutesInv
<1>8. ASSUME canVote' \in [Accounts -> BOOLEAN], DOMAIN requests' \subseteq Account,
             votedFor' \in [Accounts -> 0 .. MaxWitnessVotes]
      PROVE  Types'
  BY <1>0, <1>2, <1>3, <1>4, <1>5, <1>6, <1>8 DEF Types
<1>9. ASSUME removed = mine, ClearVotes(a), canVote' = [canVote EXCEPT ![a] = FALSE],
             requests' = Restrict(requests, DOMAIN requests \ {a})
      PROVE  IInv'
  <2>1. /\ TallyInv' /\ BallotsInv' /\ votedFor' \in [Accounts -> 0 .. MaxWitnessVotes]
        /\ proxy'[a] = NoProxy /\ \A x \in Accounts : x # a => proxy'[x] = proxy[x]
        /\ ballots' = {v \in ballots : v[1] # a}
    BY <1>0, <1>2, <1>9, VotesCleared
  <2>2. canVote \in [Accounts -> BOOLEAN] /\ DOMAIN requests \subseteq Account
    BY <1>0 DEF Types
  <2>3. canVote' \in [Accounts -> BOOLEAN] /\ DOMAIN requests' \subseteq Account
        /\ \A x \in Accounts : x # a => canVote'[x] = canVote[x]
    BY <1>9, <2>2 DEF Restrict
  <2>4. \A v \in ballots' \cup proposed' : v[1] # a /\ v \in ballots \cup proposed
    BY <1>1, <1>9, <2>1
  <2>5. ASSUME NEW x \in Accounts, proxy'[x] # NoProxy \/ \E v \in ballots' \cup proposed' : v[1] = x
        PROVE  expiration'[x] # Never /\ canVote'[x]
    <3>1. x # a
      BY <2>1, <2>4, <2>5
    <3>2. proxy[x] # NoProxy \/ \E v \in ballots \cup proposed : v[1] = x
      BY <2>1, <2>4, <2>5, <3>1
    <3>3. expiration[x] # Never /\ canVote[x]
      BY <1>0, <3>2 DEF GovernanceExpires
    <3> QED  BY <1>2, <2>3, <3>1, <3>3
  <2>6. GovernanceExpires'
    BY <1>6, <2>5 DEF GovernanceExpires
  <2>7. Types'
    BY <1>8, <2>1, <2>3
  <2> QED  BY <1>7, <2>1, <2>6, <2>7 DEF IInv
<1>10. ASSUME UNCHANGED <<tallies, ballots, votedFor, proxy, canVote, requests>>
       PROVE  IInv'
  <2>1. /\ proxied' = proxied /\ votes' = votes /\ ballots' = ballots /\ votedFor' = votedFor
        /\ proxy' = proxy /\ canVote' = canVote /\ requests' = requests
    BY <1>10 DEF tallies
  <2>2. Direct' = Direct
    BY <1>2 DEF Direct
  <2>3. TallyInv' /\ BallotsInv'
    BY <1>0, <2>1, <2>2 DEF TallyInv, BallotsInv
  <2>4. ballots' \cup proposed' \subseteq ballots \cup proposed
    BY <1>5, <2>1
  <2>5. GovernanceExpires'
    BY <1>0, <1>2, <1>6, <2>1, <2>4 DEF GovernanceExpires
  <2>6. Types'
    BY <1>0, <1>8, <2>1 DEF Types
  <2> QED  BY <1>7, <2>3, <2>5, <2>6 DEF IInv
<1> QED  BY <1>1, <1>9, <1>10

\* remove_expired_governance_votes keeps it: who is done has nothing left, and who
\* is not has used up the limit.
LEMMA remove_expired_governance_votes_keeps ==
  ASSUME IInv, NEW a \in Accounts, remove_expired_governance_votes(a)
  PROVE  IInv'
<1>0. /\ Types /\ RoutesInv /\ TallyInv /\ BallotsInv /\ VestsInv /\ NullInv
      /\ DelaysInv /\ MaturedInv /\ GovernanceExpires
  BY DEF IInv
<1> DEFINE mine == {v \in proposed : v[1] = a}
           removed == {v \in mine : Cardinality({u \in mine : u[2] < v[2]}) < Guard(Expiry)}
<1>1. /\ proposed' = proposed \ removed
      /\ guard' = Guard(Expiry) - Cardinality(removed)
      /\ \/ /\ removed = mine /\ phase' = Expiry /\ ClearVotes(a)
            /\ expiration' = [expiration EXCEPT ![a] = Never]
         \/ /\ removed # mine /\ phase' = 0
            /\ UNCHANGED <<tallies, ballots, votedFor, proxy, expiration>>
  BY DEF remove_expired_governance_votes, remove_proposal_votes
<1>2. /\ vesting' = vesting /\ delayed' = delayed /\ sumDelayed' = sumDelayed
      /\ total' = total /\ routes' = routes /\ powerDown' = powerDown
      /\ canVote' = canVote /\ requests' = requests /\ now' = now
  BY DEF remove_expired_governance_votes
<1>3. proposed \subseteq Accounts \X Proposal /\ Guard(Expiry) \in Int
  BY <1>0, Constants DEF Types, Guard
<1>4. guard' \in Int /\ (removed # mine => guard' <= 0)
  <2>1. mine \subseteq {a} \X Proposal
    BY <1>3
  <2> HIDE DEF mine
  <2> QED  BY <1>1, <1>3, <2>1, GuardSpent
<1>5. proposed' \subseteq proposed
  BY <1>1
<1>6. phase' \in 0 .. Expiry
  BY <1>1 DEF Expiry
<1>7. NullInv' /\ DelaysInv' /\ VestsInv' /\ RoutesInv'
  BY <1>0, <1>2 DEF NullInv, DelaysInv, VestsInv, RoutesInv
<1>8. MaturedInv'
  <2>1. Reached(Expiry)
    BY DEF remove_expired_governance_votes, Run
  <2>2. \A x \in Accounts : \A i \in DOMAIN delayed[x] : delayed[x][i].time + DelayTotal > now
    BY <2>1, MaturedBy
  <2> QED  BY <1>2, <2>2 DEF MaturedInv
<1>9. ASSUME expiration' \in [Accounts -> 0 .. Never],
             votedFor' \in [Accounts -> 0 .. MaxWitnessVotes]
      PROVE  Types'
  BY <1>0, <1>2, <1>3, <1>4, <1>5, <1>6, <1>9 DEF Types
<1>10. ASSUME removed = mine, phase' = Expiry, ClearVotes(a),
              expiration' = [expiration EXCEPT ![a] = Never]
       PROVE  IInv'
  <2>1. /\ TallyInv' /\ BallotsInv' /\ votedFor' \in [Accounts -> 0 .. MaxWitnessVotes]
        /\ proxy'[a] = NoProxy /\ \A x \in Accounts : x # a => proxy'[x] = proxy[x]
        /\ ballots' = {v \in ballots : v[1] # a}
    BY <1>0, <1>2, <1>10, VotesCleared
  <2>2. expiration \in [Accounts -> 0 .. Never] /\ Never \in 0 .. Never
    BY <1>0, Constants DEF Types, Never
  <2>3. expiration' \in [Accounts -> 0 .. Never]
        /\ \A x \in Accounts : x # a => expiration'[x] = expiration[x]
    BY <1>10, <2>2
  <2>4. \A v \in ballots' \cup proposed' : v[1] # a /\ v \in ballots \cup proposed
    BY <1>1, <1>10, <2>1
  <2>5. ASSUME NEW x \in Accounts, proxy'[x] # NoProxy \/ \E v \in ballots' \cup proposed' : v[1] = x
        PROVE  expiration'[x] # Never /\ canVote'[x]
    <3>1. x # a
      BY <2>1, <2>4, <2>5
    <3>2. proxy[x] # NoProxy \/ \E v \in ballots \cup proposed : v[1] = x
      BY <2>1, <2>4, <2>5, <3>1
    <3>3. expiration[x] # Never /\ canVote[x]
      BY <1>0, <3>2 DEF GovernanceExpires
    <3> QED  BY <1>2, <2>3, <3>1, <3>3
  <2>6. phase' # 0
    BY <1>10 DEF Expiry
  <2>7. GovernanceExpires'
    BY <2>5, <2>6 DEF GovernanceExpires
  <2>8. Types'
    BY <1>9, <2>1, <2>3
  <2> QED  BY <1>7, <1>8, <2>1, <2>7, <2>8 DEF IInv
<1>11. ASSUME removed # mine, UNCHANGED <<tallies, ballots, votedFor, proxy, expiration>>
       PROVE  IInv'
  <2>1. /\ proxied' = proxied /\ votes' = votes /\ ballots' = ballots /\ votedFor' = votedFor
        /\ proxy' = proxy /\ expiration' = expiration
    BY <1>11 DEF tallies
  <2>2. Direct' = Direct
    BY <1>2 DEF Direct
  <2>3. TallyInv' /\ BallotsInv'
    BY <1>0, <2>1, <2>2 DEF TallyInv, BallotsInv
  <2>4. ballots' \cup proposed' \subseteq ballots \cup proposed
    BY <1>5, <2>1
  <2>5. ~(guard' > 0)
    BY <1>4, <1>11
  <2>6. GovernanceExpires'
    BY <1>0, <1>2, <2>1, <2>4, <2>5 DEF GovernanceExpires
  <2>7. Types'
    BY <1>0, <1>9, <2>1 DEF Types
  <2> QED  BY <1>7, <1>8, <2>3, <2>6, <2>7 DEF IInv
<1> QED  BY <1>1, <1>10, <1>11

------------------------------------------------------------------------------
(* A new proxy. *)

\* A proxy whose chain ends without meeting the account makes no cycle.
LEMMA GraftAcyclic ==
  ASSUME NEW p \in ProxyMap, Acyclic(p), NEW a \in Accounts, NEW to \in Accounts, to # a,
         NEW h \in 0 .. Depth, \A k \in 0 .. h : Chain(p, to)[k] # a,
         Chain(p, to)[h] # NoProxy, p[Chain(p, to)[h]] = NoProxy
  PROVE  Acyclic([p EXCEPT ![a] = to])
<1> DEFINE q == [p EXCEPT ![a] = to]
           up == Chain(p, to)
<1>0. Depth \in Nat /\ NoProxy \notin Accounts /\ h \in Nat /\ h <= Depth
  BY Constants
<1>1. q[a] = to /\ \A x \in Accounts : x # a => q[x] = p[x]
  BY DEF ProxyMap
<1>2. up[0] = to /\ \A k \in 0 .. Depth - 1 : up[k + 1] = Up(p, up[k])
  <2>1. to \in Above
    BY DEF Above
  <2> QED  BY <2>1, Steps
<1>3. \A k \in 0 .. h : up[k] # a
  OBVIOUS
<1>4. up[h] # NoProxy /\ p[up[h]] = NoProxy
  OBVIOUS
<1> HIDE DEF q, up
<1>5. ASSUME NEW S \in SUBSET Accounts, S # {}, \A x \in S : q[x] \in S PROVE FALSE
  <2>1. PICK x \in S : p[x] \notin S
    BY <1>5 DEF Acyclic
  <2>2. x = a
    BY <1>1, <1>5, <2>1
  <2>3. to \in S
    BY <1>1, <1>5, <2>2
  <2> DEFINE K == {k \in 0 .. h : up[k] \in S}
  <2>4. 0 \in K
    BY <1>0, <1>2, <2>3
  <2>5. ASSUME NEW k \in 1 .. h, k - 1 \in K PROVE k \in K
    <3>1. k - 1 \in 0 .. h /\ k - 1 \in 0 .. Depth - 1 /\ (k - 1) + 1 = k /\ k \in 0 .. h
      BY <1>0
    <3>2. up[k - 1] \in S /\ up[k - 1] # a
      BY <1>3, <2>5, <3>1
    <3>3. up[k] = p[up[k - 1]]
      BY <1>0, <1>2, <3>1, <3>2 DEF Up
    <3>4. q[up[k - 1]] = p[up[k - 1]]
      BY <1>1, <3>2
    <3>5. up[k] \in S
      BY <1>5, <3>2, <3>3, <3>4
    <3> QED  BY <3>1, <3>5
  <2> HIDE DEF K
  <2>6. \A k \in 0 .. h : k \in K
    BY <1>0, <2>4, <2>5, UpTo
  <2>7. up[h] \in S /\ up[h] # a
    BY <1>0, <1>3, <2>6 DEF K
  <2> QED  BY <1>0, <1>1, <1>4, <1>5, <2>7
<1> QED  BY <1>5 DEF Acyclic, q

\* The walk of account_witness_proxy sees to that.
LEMMA AllowedAcyclic ==
  ASSUME TallyInv, NEW a \in Accounts, NEW to \in Accounts, to # a, ProxyAllowed(a, to)
  PROVE  Acyclic([proxy EXCEPT ![a] = to])
<1> DEFINE up == Chain(proxy, to)
<1>0. Depth \in Nat /\ NoProxy \notin Accounts /\ proxy \in ProxyMap /\ Acyclic(proxy)
  BY Constants DEF TallyInv, Tallied
<1>1. up[0] = to
  <2>1. to \in Above
    BY DEF Above
  <2> QED  BY <1>0, <2>1, Steps
<1>2. \E h \in 0 .. Depth : /\ \A k \in 0 .. h : up[k] # a
                            /\ up[h] # NoProxy /\ proxy[up[h]] = NoProxy
  <2>1. CASE proxy[to] = NoProxy
    <3>1. 0 \in 0 .. Depth /\ \A k \in 0 .. 0 : k = 0
      BY <1>0
    <3>2. \A k \in 0 .. 0 : up[k] # a
      BY <1>1, <3>1
    <3> QED  BY <1>0, <1>1, <2>1, <3>1, <3>2
  <2>2. CASE \E h \in 1 .. Depth - 2 : /\ up[h] # NoProxy /\ proxy[up[h]] = NoProxy
                                       /\ \A k \in 1 .. h : up[k] # a
    <3>1. PICK h \in 1 .. Depth - 2 : /\ up[h] # NoProxy /\ proxy[up[h]] = NoProxy
                                      /\ \A k \in 1 .. h : up[k] # a
      BY <2>2
    <3>2. h \in 0 .. Depth /\ \A k \in 0 .. h : k = 0 \/ k \in 1 .. h
      BY <1>0
    <3>3. \A k \in 0 .. h : up[k] # a
      BY <1>1, <3>1, <3>2
    <3> QED  BY <3>1, <3>2, <3>3
  <2> QED  BY <2>1, <2>2 DEF ProxyAllowed
<1>3. PICK h \in 0 .. Depth : /\ \A k \in 0 .. h : up[k] # a
                              /\ up[h] # NoProxy /\ proxy[up[h]] = NoProxy
  BY <1>2
<1> QED  BY <1>0, <1>3, GraftAcyclic

\* Votes taken from the old proxies and given to the new ones.
LEMMA Regrafted ==
  ASSUME TallyInv, NEW a \in Accounts, NEW to \in Accounts, to # a, ProxyAllowed(a, to),
         NEW p, p = [proxy EXCEPT ![a] = to]
  PROVE  LET none == nullify_proxied_witness_votes(a)
             r == adjust_proxied_witness_votes(none, p, a, PowerOf(a, 1))
         IN  Tallied(Direct, r.proxied, r.votes, p, {v \in ballots : v[1] # a})
<1> DEFINE none == nullify_proxied_witness_votes(a)
           r == adjust_proxied_witness_votes(none, p, a, PowerOf(a, 1))
           D == Direct
           o == Cut(p, a)
           bal == {v \in ballots : v[1] # a}
<1>0. proxy \in ProxyMap /\ Acyclic(proxy) /\ NoProxy \notin Accounts
  BY Constants DEF TallyInv, Tallied
<1>1. p \in ProxyMap /\ p[a] = to /\ Acyclic(p)
  BY <1>0, AllowedAcyclic DEF ProxyMap, Above
<1>2. o = Cut(proxy, a)
  BY <1>0 DEF Cut, ProxyMap
<1>3. Tallied(D, none.proxied, none.votes, o, bal)
  BY <1>2, Nullified
<1>4. PowerOf(a, 1) = Under(D, proxy, a)
  BY PowerOfIs
<1> HIDE DEF D, none, o, r
<1>5. Under(D, proxy, a) = Under(D, o, a)
  <2>1. \A k \in 0 .. Depth : Reach(o, a, k) = Reach(proxy, a, k)
    BY <1>0, <1>2, CutOwn
  <2> QED  BY <2>1 DEF Under
<1>6. r = adjust_proxied_witness_votes(none, p, a, Under(D, o, a))
  BY <1>4, <1>5 DEF r
<1>7. p[a] # NoProxy /\ o = Cut(p, a)
  BY <1>0, <1>1 DEF o
<1>8. Tallied(D, r.proxied, r.votes, p, bal)
  BY <1>1, <1>3, <1>6, <1>7, TallyGraft
<1> QED  BY <1>8 DEF D, r, none

\* account_witness_proxy keeps it.
LEMMA account_witness_proxy_keeps ==
  ASSUME IInv, NEW a \in Account, NEW to \in Accounts \cup {NoProxy}, account_witness_proxy(a, to)
  PROVE  IInv'
<1>0. /\ Types /\ RoutesInv /\ TallyInv /\ BallotsInv /\ VestsInv /\ NullInv
      /\ DelaysInv /\ MaturedInv /\ GovernanceExpires
  BY DEF IInv
<1> DEFINE none == nullify_proxied_witness_votes(a)
           p == [proxy EXCEPT ![a] = to]
<1>1. /\ canVote[a] /\ proxy[a] # to /\ to # a /\ update_governance_vote_expiration_ts(a)
      /\ proxy' = p
      /\ \/ to = NoProxy /\ SetTally(none) /\ ballots' = ballots /\ votedFor' = votedFor
         \/ /\ to # NoProxy /\ ProxyAllowed(a, to) /\ clear_witness_votes(a)
            /\ SetTally(adjust_proxied_witness_votes(none, p, a, PowerOf(a, 1)))
  BY DEF account_witness_proxy
<1>2. /\ vesting' = vesting /\ delayed' = delayed /\ sumDelayed' = sumDelayed
      /\ total' = total /\ proposed' = proposed /\ routes' = routes
      /\ powerDown' = powerDown /\ requests' = requests /\ canVote' = canVote
      /\ now' = now /\ phase' = phase /\ guard' = guard
  BY DEF account_witness_proxy, Operation, block
<1>3. a \in Accounts /\ NoProxy \notin Accounts /\ proxy \in [Accounts -> Above]
  BY <1>0, Constants DEF TallyInv, Tallied, ProxyMap
<1>4. Direct' = Direct
  BY <1>2 DEF Direct
<1>5. TallyInv' /\ BallotsInv' /\ votedFor' \in [Accounts -> 0 .. MaxWitnessVotes]
      /\ ballots' \subseteq ballots
  <2>1. CASE to = NoProxy
    <3>1. SetTally(none) /\ ballots' = ballots /\ votedFor' = votedFor
      BY <1>1, <2>1
    <3>2. proxy' = Cut(proxy, a)
      BY <1>1, <2>1 DEF Cut
    <3>3. {v \in ballots : v[1] # a} = ballots
      BY <1>0, <1>1, <2>1 DEF TallyInv, Tallied
    <3>4. Tallied(Direct, none.proxied, none.votes, Cut(proxy, a), ballots)
      BY <1>0, <1>3, <3>3, Nullified
    <3> HIDE DEF none
    <3>5. TallyInv'
      BY <1>4, <3>1, <3>2, <3>4 DEF TallyInv, SetTally
    <3> QED  BY <1>0, <3>1, <3>5 DEF BallotsInv, Types
  <2>2. CASE to # NoProxy
    <3> DEFINE r == adjust_proxied_witness_votes(none, p, a, PowerOf(a, 1))
    <3>1. to \in Accounts /\ ProxyAllowed(a, to) /\ clear_witness_votes(a) /\ SetTally(r)
      BY <1>1, <2>2
    <3>2. Tallied(Direct, r.proxied, r.votes, p, {v \in ballots : v[1] # a})
      BY <1>0, <1>1, <1>3, <3>1, Regrafted
    <3>3. ballots' = {v \in ballots : v[1] # a}
      BY <3>1 DEF clear_witness_votes
    <3> HIDE DEF r, p
    <3>4. TallyInv'
      BY <1>1, <1>4, <3>1, <3>2, <3>3 DEF TallyInv, SetTally
    <3>5. BallotsInv' /\ votedFor' \in [Accounts -> 0 .. MaxWitnessVotes]
      BY <1>0, <1>3, <3>1, BallotsCleared
    <3> QED  BY <3>3, <3>4, <3>5
  <2> QED  BY <2>1, <2>2
<1>6. \A v \in ballots' \cup proposed' : v[1] # a => v \in ballots \cup proposed
  BY <1>2, <1>5
<1>7. \A x \in Accounts \ {a} : proxy'[x] = proxy[x]
  BY <1>1, <1>3
<1>8. GovernanceExpires' /\ expiration' \in [Accounts -> 0 .. Never]
  BY <1>0, <1>1, <1>2, <1>3, <1>6, <1>7, Renewed
<1>9. Types'
  BY <1>0, <1>2, <1>5, <1>8 DEF Types
<1>10. RoutesInv' /\ VestsInv' /\ NullInv' /\ DelaysInv' /\ MaturedInv'
  BY <1>0, <1>2 DEF RoutesInv, VestsInv, NullInv, DelaysInv, MaturedInv
<1> QED  BY <1>5, <1>8, <1>9, <1>10 DEF IInv

------------------------------------------------------------------------------
(* Power down. *)

\* A share of n, rounded down, is not more than n.
LEMMA ShareBound ==
  ASSUME NEW n \in Nat, NEW d \in Nat, d >= 1, NEW c \in 1 .. d
  PROVE  (n * c) \div d \in Nat /\ (n * c) \div d <= n
<1> DEFINE x == n * c
           q == x \div d
<1>1. x \in Nat /\ x <= n * d
  BY Z3
<1> HIDE DEF x
<1>2. q \in Int /\ d * q <= x /\ x < d * q + d
  BY <1>1, Z3
<1> HIDE DEF q
<1>3. q >= 0
  <2>1. ASSUME q <= -1 PROVE FALSE
    <3>1. d * q + d <= 0
      BY <1>2, <2>1, Z3
    <3> QED  BY <1>1, <1>2, <3>1, Z3
  <2> QED  BY <1>2, <2>1
<1>4. q <= n
  <2>1. ASSUME q >= n + 1 PROVE FALSE
    <3>1. d * q >= n * d + d
      BY <1>2, <2>1, Z3
    <3> QED  BY <1>1, <1>2, <3>1, Z3
  <2> QED  BY <1>2, <2>1
<1> QED  BY <1>2, <1>3, <1>4 DEF q, x

\* What is routed to x of a withdrawal of tw by a.
RoutesTo(a, x) == {r \in routes : r.from = a /\ r.auto /\ r.to = x}
Routed(a, tw, x) ==
  SumFunction([r \in {r \in routes : r.from = a /\ r.auto /\ r.to = x}
                 |-> (tw * r.percent) \div Percent100])

\* That is not more than tw, as there is at most one route to x.
LEMMA RoutedBound ==
  ASSUME RoutesInv, NEW a, NEW tw \in Nat, NEW x
  PROVE  Routed(a, tw, x) \in Nat /\ Routed(a, tw, x) <= tw
<1> DEFINE S == RoutesTo(a, x)
           f == [r \in S |-> (tw * r.percent) \div Percent100]
<1>0. /\ routes \subseteq Route /\ IsFiniteSet(routes) /\ Percent100 \in Nat /\ Percent100 >= 1
      /\ \A r, q \in routes : r.from = q.from /\ r.to = q.to => r = q
  BY Constants DEF RoutesInv
<1>1. S \subseteq routes /\ IsFiniteSet(S) /\ \A r, q \in S : r = q
  <2>1. S \subseteq routes /\ \A r, q \in S : r = q
    BY <1>0 DEF RoutesTo
  <2> QED  BY <1>0, <2>1, FS_Subset
<1>2. Routed(a, tw, x) = SumFunction(f)
  BY DEF Routed, RoutesTo
<1> HIDE DEF S
<1>3. ASSUME NEW r \in S PROVE f[r] \in Nat /\ f[r] <= tw
  <2>1. r \in Route
    BY <1>0, <1>1
  <2>2. r.percent \in 1 .. Percent100
    BY <2>1 DEF Route
  <2> DEFINE c == r.percent
  <2>3. f[r] = (tw * c) \div Percent100
    OBVIOUS
  <2> HIDE DEF c, f
  <2>4. (tw * c) \div Percent100 \in Nat /\ (tw * c) \div Percent100 <= tw
    BY <1>0, <2>2, ShareBound DEF c
  <2> QED  BY <2>3, <2>4
<1>4. f \in [S -> Int] /\ \A r \in S : f[r] \in Nat
  <2>1. \A r \in S : (tw * r.percent) \div Percent100 \in Int
    BY <1>3
  <2> QED  BY <1>3, <2>1
<1> HIDE DEF f
<1>5. SumFunction(f) \in Nat
  BY <1>1, <1>4, SumNat
<1>6. SumFunction(f) <= tw
  <2>1. CASE S = {}
    <3>1. SumFunction(f) = 0
      BY <1>1, <1>4, <2>1, SumZero
    <3> QED  BY <3>1
  <2>2. CASE S # {}
    <3>1. PICK r \in S : TRUE
      BY <2>2
    <3>2. \A y \in S \ {r} : f[y] = 0
      BY <1>1
    <3>3. SumFunction(f) = f[r]
      BY <1>1, <1>4, <3>2, SumAt
    <3> QED  BY <1>3, <3>3
  <2> QED  BY <2>1, <2>2
<1> QED  BY <1>2, <1>5, <1>6

\* What the process does, with names for the amounts: tw is withdrawn, V[x] of it
\* goes to x, spent leaves a, fd of which had not voted yet.
Withdraws(a, tw, V, spent, fd) ==
  /\ a \in Accounts /\ tw \in Nat /\ V \in [Accounts -> Nat]
  /\ tw <= powerDown[a].amount - powerDown[a].done /\ tw <= vesting[a]
  /\ V[a] <= tw /\ spent = tw - V[a]
  /\ fd = (IF spent <= sumDelayed[a] THEN spent ELSE sumDelayed[a])
  /\ vesting' = [x \in Accounts |-> IF x = a THEN vesting[a] - spent ELSE vesting[x] + V[x]]
  /\ total' = total - (tw - SumFunction(V))
  /\ delayed' = [x \in Accounts |-> IF x = a THEN Erased(delayed[x], fd) ELSE Added(delayed[x], V[x])]
  /\ sumDelayed' = [x \in Accounts |-> IF x = a THEN sumDelayed[x] - fd ELSE sumDelayed[x] + V[x]]
  /\ SetTally(adjust_proxied_witness_votes(Tally, proxy, a, Single(fd - spent)))
  /\ LET pd == powerDown[a]
     IN  powerDown' = [powerDown EXCEPT ![a] =
           IF pd.done + tw >= pd.amount \/ vesting[a] - spent = 0 THEN Idle
           ELSE [pd EXCEPT !.done = pd.done + tw, !.next = pd.next + WithdrawInterval]]
  /\ powerDown[a].next <= now
  /\ UNCHANGED <<objects, block, proxy, votedFor, canVote, expiration>>

\* It does that.
LEMMA WithdrawsIs ==
  ASSUME IInv, NEW a \in Accounts, process_vesting_withdrawals(a)
  PROVE  \E tw, V, spent, fd : Withdraws(a, tw, V, spent, fd)
<1>0. Types /\ RoutesInv
  BY DEF IInv
<1> DEFINE pd == powerDown[a]
           tw == Min({pd.rate, pd.amount - pd.done, vesting[a]})
           V == [x \in Accounts |-> Routed(a, tw, x)]
           spent == tw - Routed(a, tw, a)
           fd == Min({spent, sumDelayed[a]})
<1>1. vesting[a] \in Nat /\ sumDelayed[a] \in Nat /\ pd \in Withdrawal /\ pd.done <= pd.amount
  BY <1>0 DEF Types
<1>2. pd.rate \in Nat /\ pd.amount \in Nat /\ pd.done \in Nat
  BY <1>1 DEF Withdrawal
<1>3. tw \in Nat /\ tw <= pd.amount - pd.done /\ tw <= vesting[a]
  <2> DEFINE r == pd.rate
             m == pd.amount - pd.done
             v == vesting[a]
  <2>1. r \in Int /\ m \in Int /\ v \in Int /\ r >= 0 /\ m >= 0 /\ v >= 0
    BY <1>1, <1>2
  <2> HIDE DEF r, m, v
  <2>2. Min({r, m, v}) \in {r, m, v} /\ Min({r, m, v}) <= m /\ Min({r, m, v}) <= v
    BY <2>1, MinThree
  <2>3. Min({r, m, v}) \in Nat
    BY <2>1, <2>2
  <2> QED  BY <2>2, <2>3 DEF r, m, v
<1>4. /\ vesting' = [x \in Accounts |->
                       IF x = a THEN vesting[a] - spent ELSE vesting[x] + Routed(a, tw, x)]
      /\ total' = total - (tw - SumFunction(V))
      /\ delayed' = [x \in Accounts |-> IF x = a THEN Erased(delayed[x], fd)
                                        ELSE Added(delayed[x], Routed(a, tw, x))]
      /\ sumDelayed' = [x \in Accounts |-> IF x = a THEN sumDelayed[x] - fd
                                           ELSE sumDelayed[x] + Routed(a, tw, x)]
      /\ SetTally(adjust_proxied_witness_votes(Tally, proxy, a, Single(fd - spent)))
      /\ powerDown' = [powerDown EXCEPT ![a] =
           IF pd.done + tw >= pd.amount \/ vesting[a] - spent = 0 THEN Idle
           ELSE [pd EXCEPT !.done = pd.done + tw, !.next = pd.next + WithdrawInterval]]
  <2>1. vesting' = [x \in Accounts |->
                       IF x = a THEN vesting[a] - spent ELSE vesting[x] + Routed(a, tw, x)]
    BY DEF process_vesting_withdrawals, Routed
  <2>2. total' = total - (tw - SumFunction(V))
    BY DEF process_vesting_withdrawals, Routed
  <2>3. delayed' = [x \in Accounts |-> IF x = a THEN Erased(delayed[x], fd)
                                       ELSE Added(delayed[x], Routed(a, tw, x))]
    BY DEF process_vesting_withdrawals, Routed, FromDelayed
  <2>4. sumDelayed' = [x \in Accounts |-> IF x = a THEN sumDelayed[x] - fd
                                          ELSE sumDelayed[x] + Routed(a, tw, x)]
    BY DEF process_vesting_withdrawals, Routed, FromDelayed
  <2>5. SetTally(adjust_proxied_witness_votes(Tally, proxy, a, Single(fd - spent)))
    BY DEF process_vesting_withdrawals, Routed, FromDelayed
  <2>6. powerDown' = [powerDown EXCEPT ![a] =
           IF pd.done + tw >= pd.amount \/ vesting[a] - spent = 0 THEN Idle
           ELSE [pd EXCEPT !.done = pd.done + tw, !.next = pd.next + WithdrawInterval]]
    BY DEF process_vesting_withdrawals, Routed
  <2> QED  BY <2>1, <2>2, <2>3, <2>4, <2>5, <2>6
<1>5. a \in Due(Withdrawals) /\ UNCHANGED <<objects, block, proxy, votedFor, canVote, expiration>>
  BY DEF process_vesting_withdrawals, Run
<1>6. pd.next <= now
  BY <1>5, DueIs DEF DueFirst, NextWithdrawal
<1> HIDE DEF tw
<1>7. \A x : Routed(a, tw, x) \in Nat /\ Routed(a, tw, x) <= tw
  BY <1>0, <1>3, RoutedBound
<1>8. V \in [Accounts -> Nat] /\ \A x \in Accounts : V[x] = Routed(a, tw, x)
  BY <1>7
<1>9. V[a] <= tw /\ spent = tw - V[a] /\ spent \in Nat
  BY <1>3, <1>7, <1>8
<1> HIDE DEF V, spent
<1>10. fd = IF spent <= sumDelayed[a] THEN spent ELSE sumDelayed[a]
  BY <1>1, <1>9, MinTwo
<1> HIDE DEF fd
<1>11. /\ vesting' = [x \in Accounts |-> IF x = a THEN vesting[a] - spent ELSE vesting[x] + V[x]]
       /\ delayed' = [x \in Accounts |-> IF x = a THEN Erased(delayed[x], fd) ELSE Added(delayed[x], V[x])]
       /\ sumDelayed' = [x \in Accounts |-> IF x = a THEN sumDelayed[x] - fd ELSE sumDelayed[x] + V[x]]
  BY <1>4, <1>8
<1>12. Withdraws(a, tw, V, spent, fd)
  BY <1>3, <1>4, <1>5, <1>6, <1>8, <1>9, <1>10, <1>11 DEF Withdraws
<1> QED  BY <1>12

\* process_vesting_withdrawals keeps it: what leaves an account is taken from its
\* delayed votes first, and only the rest from those who vote with it.
LEMMA process_vesting_withdrawals_keeps ==
  ASSUME IInv, NEW a \in Accounts, process_vesting_withdrawals(a)
  PROVE  IInv'
<1>0. /\ Types /\ RoutesInv /\ TallyInv /\ BallotsInv /\ VestsInv /\ NullInv
      /\ DelaysInv /\ MaturedInv /\ GovernanceExpires
  BY DEF IInv
<1>1. PICK tw, V, spent, fd : Withdraws(a, tw, V, spent, fd)
  BY WithdrawsIs
<1> DEFINE pd == powerDown[a]
           moved == IF pd.done + tw >= pd.amount \/ vesting[a] - spent = 0 THEN Idle
                    ELSE [pd EXCEPT !.done = pd.done + tw, !.next = pd.next + WithdrawInterval]
<1>2. /\ tw \in Nat /\ V \in [Accounts -> Nat]
      /\ tw <= pd.amount - pd.done /\ tw <= vesting[a]
      /\ V[a] <= tw /\ spent = tw - V[a]
      /\ fd = (IF spent <= sumDelayed[a] THEN spent ELSE sumDelayed[a])
      /\ total' = total - (tw - SumFunction(V))
      /\ SetTally(adjust_proxied_witness_votes(Tally, proxy, a, Single(fd - spent)))
      /\ powerDown' = [powerDown EXCEPT ![a] = moved]
      /\ pd.next <= now
  BY <1>1 DEF Withdraws
<1>3. /\ vesting' = [x \in Accounts |-> IF x = a THEN vesting[a] - spent ELSE vesting[x] + V[x]]
      /\ delayed' = [x \in Accounts |-> IF x = a THEN Erased(delayed[x], fd) ELSE Added(delayed[x], V[x])]
      /\ sumDelayed' = [x \in Accounts |-> IF x = a THEN sumDelayed[x] - fd ELSE sumDelayed[x] + V[x]]
  BY <1>1 DEF Withdraws
<1>4. /\ ballots' = ballots /\ proposed' = proposed /\ routes' = routes /\ requests' = requests
      /\ proxy' = proxy /\ votedFor' = votedFor /\ canVote' = canVote
      /\ expiration' = expiration /\ now' = now /\ phase' = phase /\ guard' = guard
  BY <1>1 DEF Withdraws, objects, block
<1>5. /\ vesting \in [Accounts -> Nat] /\ sumDelayed \in [Accounts -> Nat]
      /\ delayed \in [Accounts -> Seq(Entry)] /\ now \in 0 .. MaxTime
      /\ \A x \in Accounts : sumDelayed[x] <= vesting[x]
      /\ powerDown \in [Accounts -> Withdrawal]
      /\ \A x \in Accounts : powerDown[x].done <= powerDown[x].amount
      /\ Null \in Accounts /\ MaxTime \in Nat /\ WithdrawInterval \in Nat
      /\ Never \in Nat /\ Never > MaxTime
  BY <1>0, Constants DEF Types, Never
<1>6. a # Null
  <2>1. powerDown[Null].next = Never
    BY <1>0 DEF NullInv
  <2> QED  BY <1>2, <1>5, <2>1
<1>7. spent \in Nat /\ spent <= vesting[a] /\ fd \in Nat /\ fd <= sumDelayed[a] /\ fd <= spent
      /\ fd - spent \in Int
      /\ vesting[a] - spent \in Nat /\ sumDelayed[a] - fd \in Nat
      /\ sumDelayed[a] - fd <= vesting[a] - spent
      /\ (vesting[a] - spent) - (sumDelayed[a] - fd) = (vesting[a] - sumDelayed[a]) + (fd - spent)
  <2>1. vesting[a] \in Nat /\ sumDelayed[a] \in Nat /\ V[a] \in Nat /\ sumDelayed[a] <= vesting[a]
    BY <1>2, <1>5
  <2> QED  BY <1>2, <2>1
<1>8. /\ vesting'[a] = vesting[a] - spent /\ sumDelayed'[a] = sumDelayed[a] - fd
      /\ delayed'[a] = Erased(delayed[a], fd)
      /\ \A x \in Accounts : x # a => /\ vesting'[x] = vesting[x] + V[x]
                                      /\ sumDelayed'[x] = sumDelayed[x] + V[x]
                                      /\ delayed'[x] = Added(delayed[x], V[x])
  BY <1>3
<1> HIDE DEF moved
<1>9. ASSUME NEW x \in Accounts
      PROVE  /\ delayed'[x] \in Seq(Entry) /\ Spaced(delayed'[x])
             /\ sumDelayed'[x] = SumVal(delayed'[x])
             /\ Aged(delayed'[x], delayed[x], now)
  <2> DEFINE s == delayed[x]
  <2>1. s \in Seq(Entry) /\ Spaced(s) /\ sumDelayed[x] = SumVal(s) /\ now \in Nat
    BY <1>0, <1>5 DEF DelaysInv
  <2> HIDE DEF s
  <2>2. CASE x = a
    <3>1. fd <= SumVal(s)
      BY <1>7, <2>1, <2>2
    <3> DEFINE e == Erased(s, fd)
    <3>2. /\ e \in Seq(Entry) /\ Spaced(e) /\ SumVal(e) = SumVal(s) - fd
          /\ \A i \in DOMAIN e : i \in DOMAIN s /\ e[i].time = s[i].time
      BY <1>7, <2>1, <3>1, ErasedIs
    <3> HIDE DEF e
    <3>3. Aged(e, s, now)
      BY <3>2 DEF Aged
    <3>4. delayed'[x] = e /\ sumDelayed'[x] = sumDelayed[x] - fd
      BY <1>8, <2>2 DEF e, s
    <3> QED  BY <2>1, <3>2, <3>3, <3>4 DEF s
  <2>3. CASE x # a
    <3> DEFINE n == V[x]
               e == Added(s, n)
    <3>1. n \in Nat
      BY <1>2
    <3> HIDE DEF n
    <3>2. /\ e \in Seq(Entry) /\ Spaced(e) /\ SumVal(e) = SumVal(s) + n
          /\ \A i \in DOMAIN e : e[i].time = now \/ \E j \in DOMAIN s : e[i].time = s[j].time
      BY <2>1, <3>1, AddedIs
    <3>3. delayed'[x] = e /\ sumDelayed'[x] = sumDelayed[x] + n
      BY <1>8, <2>3 DEF s, n
    <3> HIDE DEF e
    <3>4. Aged(e, s, now)
      BY <3>2 DEF Aged
    <3> QED  BY <2>1, <3>2, <3>3, <3>4 DEF s
  <2> QED  BY <2>2, <2>3
<1>10. /\ DelaysInv' /\ MaturedInv'
       /\ \A i \in DOMAIN delayed'[Null] : delayed'[Null][i].time = now'
  BY <1>0, <1>4, <1>9, DelaysKept
<1>11. ASSUME NEW x \in Accounts
       PROVE  /\ vesting'[x] \in Nat /\ sumDelayed'[x] \in Nat /\ sumDelayed'[x] <= vesting'[x]
              /\ vesting'[x] - sumDelayed'[x] \in Int
              /\ x = a => vesting'[x] - sumDelayed'[x] = (vesting[x] - sumDelayed[x]) + (fd - spent)
              /\ x # a => vesting'[x] - sumDelayed'[x] = vesting[x] - sumDelayed[x]
  <2>1. vesting[x] \in Nat /\ sumDelayed[x] \in Nat /\ V[x] \in Nat /\ sumDelayed[x] <= vesting[x]
    BY <1>2, <1>5
  <2>2. CASE x = a
    BY <1>7, <1>8, <2>2
  <2>3. CASE x # a
    <3>1. vesting'[x] = vesting[x] + V[x] /\ sumDelayed'[x] = sumDelayed[x] + V[x]
      BY <1>8, <2>3
    <3> QED  BY <2>1, <2>3, <3>1
  <2> QED  BY <2>2, <2>3
<1>12. vesting' \in [Accounts -> Nat] /\ sumDelayed' \in [Accounts -> Nat]
  <2>1. DOMAIN vesting' = Accounts /\ DOMAIN sumDelayed' = Accounts
    BY <1>3
  <2>2. vesting' = [x \in Accounts |-> vesting'[x]] /\ sumDelayed' = [x \in Accounts |-> sumDelayed'[x]]
    BY <1>3
  <2> QED  BY <1>11, <2>2
<1>13. moved \in Withdrawal /\ moved.done <= moved.amount
  <2>1. pd \in Withdrawal /\ pd.done \in Nat /\ pd.amount \in Nat /\ pd.next \in Nat /\ pd.rate \in Nat
        /\ pd.done <= pd.amount
    <3>1. pd \in Withdrawal /\ pd.done <= pd.amount
      BY <1>5
    <3> QED  BY <3>1 DEF Withdrawal
  <2> DEFINE going == [pd EXCEPT !.done = pd.done + tw, !.next = pd.next + WithdrawInterval]
  <2>2. CASE moved = Idle
    BY <1>5, <2>2 DEF Idle, Withdrawal
  <2>3. CASE moved = going /\ ~(pd.done + tw >= pd.amount)
    <3>1. pd.done + tw \in Nat /\ pd.next + WithdrawInterval \in Nat /\ pd.done + tw <= pd.amount
      <4>1. tw \in Nat /\ WithdrawInterval \in Nat
        BY <1>2, <1>5
      <4>2. ~(pd.done + tw >= pd.amount)
        BY <2>3
      <4> QED  BY <2>1, <4>1, <4>2
    <3>2. going \in Withdrawal
      BY <2>1, <3>1 DEF Withdrawal
    <3>3. going.done = pd.done + tw /\ going.amount = pd.amount
      BY <2>1 DEF Withdrawal
    <3> HIDE DEF going
    <3> QED  BY <2>3, <3>1, <3>2, <3>3
  <2> QED  BY <2>2, <2>3 DEF moved
<1>14. Types'
  <2>1. delayed' \in [Accounts -> Seq(Entry)]
    <3>1. delayed' = [x \in Accounts |-> delayed'[x]]
      BY <1>3
    <3> QED  BY <1>9, <3>1
  <2>2. powerDown' \in [Accounts -> Withdrawal] /\ powerDown'[a] = moved
        /\ \A x \in Accounts : x # a => powerDown'[x] = powerDown[x]
    BY <1>2, <1>5, <1>13
  <2>3. \A x \in Accounts : powerDown'[x].done <= powerDown'[x].amount
    BY <1>5, <1>13, <2>2
  <2> QED  BY <1>0, <1>4, <1>11, <1>12, <2>1, <2>2, <2>3 DEF Types
<1>15. TallyInv'
  <2>1. Direct' \in [Accounts -> Int] /\ Direct'[a] = Direct[a] + (fd - spent)
        /\ \A x \in Accounts \ {a} : Direct'[x] = Direct[x]
    BY <1>11 DEF Direct
  <2> QED  BY <1>0, <1>2, <1>4, <1>7, <2>1, TallyTold
<1>16. VestsInv'
  <2> DEFINE g == [x \in Accounts |-> vesting[x] + V[x]]
  <2>1. vesting \in [Accounts -> Int] /\ V \in [Accounts -> Int] /\ vesting' \in [Accounts -> Int]
        /\ IsFiniteSet(Accounts)
    <3>1. V \in [Accounts -> Nat]
      BY <1>2
    <3>2. V \in [Accounts -> Int]
      BY <3>1
    <3>3. vesting \in [Accounts -> Int]
      BY <1>5
    <3>4. vesting' \in [Accounts -> Int]
      BY <1>12
    <3> QED  BY <3>2, <3>3, <3>4, Constants
  <2>2. g \in [Accounts -> Int] /\ \A x \in Accounts : g[x] = vesting[x] + V[x]
    <3>1. \A x \in Accounts : vesting[x] + V[x] \in Int
      BY <1>2, <1>5
    <3> QED  BY <3>1
  <2> HIDE DEF g
  <2>3. SumFunction(g) = SumFunction(vesting) + SumFunction(V)
    BY <2>1, <2>2, SumPlus
  <2>4. \A x \in Accounts \ {a} : g[x] = vesting'[x]
    BY <1>8, <2>2
  <2>5. SumFunction(vesting') = SumFunction(g) + vesting'[a] - g[a]
    BY <2>1, <2>2, <2>4, SumChange
  <2>6. SumFunction(vesting) \in Int /\ SumFunction(V) \in Int
    BY <2>1, SumType
  <2>7. vesting[a] \in Int /\ V[a] \in Int /\ g[a] = vesting[a] + V[a]
        /\ vesting'[a] = vesting[a] - (tw - V[a])
    BY <1>2, <1>8, <2>1, <2>2
  <2>8. total = SumFunction(vesting)
    BY <1>0 DEF VestsInv
  <2>9. total' = SumFunction(vesting')
    BY <1>2, <2>3, <2>5, <2>6, <2>7, <2>8
  <2> QED  BY <2>9 DEF VestsInv
<1>17. NullInv'
  <2>1. vesting'[Null] = vesting[Null] + V[Null] /\ sumDelayed'[Null] = sumDelayed[Null] + V[Null]
    BY <1>5, <1>6, <1>8
  <2>2. vesting[Null] = sumDelayed[Null] /\ powerDown[Null].next = Never
    BY <1>0 DEF NullInv
  <2>3. powerDown'[Null] = powerDown[Null]
    BY <1>2, <1>5, <1>6
  <2> QED  BY <1>10, <2>1, <2>2, <2>3 DEF NullInv
<1>18. RoutesInv' /\ BallotsInv'
  BY <1>0, <1>4 DEF RoutesInv, BallotsInv
<1>19. GovernanceExpires'
  BY <1>0, <1>4 DEF GovernanceExpires
<1> QED  BY <1>10, <1>14, <1>15, <1>16, <1>17, <1>18, <1>19 DEF IInv

------------------------------------------------------------------------------
(* The theorems. *)

\* A step that changes nothing keeps it.
LEMMA StutterKeeps ==
  ASSUME IInv, UNCHANGED vars
  PROVE  IInv'
<1>1. /\ vesting' = vesting /\ delayed' = delayed /\ sumDelayed' = sumDelayed
      /\ proxied' = proxied /\ votes' = votes /\ total' = total
      /\ ballots' = ballots /\ proposed' = proposed /\ routes' = routes
      /\ powerDown' = powerDown /\ proxy' = proxy /\ votedFor' = votedFor
      /\ requests' = requests /\ canVote' = canVote /\ expiration' = expiration
      /\ now' = now /\ phase' = phase /\ guard' = guard
  BY DEF vars, account, tallies, objects, block
<1>2. Direct' = Direct
  BY <1>1 DEF Direct
<1>3. TallyInv' /\ Types'
  BY <1>1, <1>2 DEF IInv, TallyInv, Types
<1>4. RoutesInv' /\ BallotsInv' /\ VestsInv' /\ NullInv' /\ DelaysInv' /\ MaturedInv'
  BY <1>1 DEF IInv, RoutesInv, BallotsInv, VestsInv, NullInv, DelaysInv, MaturedInv
<1>5. GovernanceExpires'
  BY <1>1 DEF IInv, GovernanceExpires
<1> QED  BY <1>3, <1>4, <1>5 DEF IInv

\* Every step keeps it.
LEMMA NextKeeps ==
  ASSUME IInv, [Next]_vars
  PROVE  IInv'
<1>0. MaxAmount \in Nat
  BY GovernanceAssumption
<1>1. CASE Process
  <2>1. CASE clear_null_account_balance
    BY <2>1, clear_null_account_balance_keeps
  <2>2. CASE EndBlock
    BY <2>2, EndBlock_keeps
  <2>3. ASSUME NEW a \in Accounts,
               \/ process_vesting_withdrawals(a) \/ process_decline_voting_rights(a)
               \/ process_delayed_voting(a) \/ remove_expired_governance_votes(a)
        PROVE  IInv'
    <3>1. CASE process_vesting_withdrawals(a)
      BY <3>1, process_vesting_withdrawals_keeps
    <3>2. CASE process_decline_voting_rights(a)
      BY <3>2, process_decline_voting_rights_keeps
    <3>3. CASE process_delayed_voting(a)
      BY <3>3, process_delayed_voting_keeps
    <3>4. CASE remove_expired_governance_votes(a)
      BY <3>4, remove_expired_governance_votes_keeps
    <3> QED  BY <2>3, <3>1, <3>2, <3>3, <3>4
  <2> QED  BY <1>1, <2>1, <2>2, <2>3 DEF Process
<1>2. ASSUME NEW a \in Accounts, NEW n \in 1 .. MaxAmount, transfer_to_vesting(a, n)
      PROVE  IInv'
  <2>1. n \in Nat
    BY <1>0
  <2> QED  BY <1>2, <2>1, transfer_to_vesting_keeps
<1>3. ASSUME NEW a \in Account, NEW n \in 1 .. MaxAmount, claim_reward_balance(a, n)
      PROVE  IInv'
  <2>1. n \in Nat
    BY <1>0
  <2> QED  BY <1>3, <2>1, claim_reward_balance_keeps
<1>4. ASSUME NEW a \in Account, NEW n \in 0 .. vesting[a], withdraw_vesting(a, n)
      PROVE  IInv'
  <2>1. vesting[a] \in Nat
    BY Constants DEF IInv, Types
  <2>2. n \in Nat
    BY <2>1
  <2> QED  BY <1>4, <2>2, withdraw_vesting_keeps
<1>5. ASSUME NEW a \in Account, NEW to \in Destinations, NEW percent \in 0 .. Percent100,
             NEW auto \in BOOLEAN, set_withdraw_vesting_route(a, to, percent, auto)
      PROVE  IInv'
  BY <1>5, set_withdraw_vesting_route_keeps
<1>6. ASSUME NEW a \in Account, NEW to \in Accounts \cup {NoProxy}, account_witness_proxy(a, to)
      PROVE  IInv'
  BY <1>6, account_witness_proxy_keeps
<1>7. ASSUME NEW a \in Account, NEW w \in Witness, NEW approve \in BOOLEAN,
             account_witness_vote(a, w, approve)
      PROVE  IInv'
  BY <1>7, account_witness_vote_keeps
<1>8. ASSUME NEW a \in Account, NEW ids \in SUBSET Proposal, NEW approve \in BOOLEAN,
             update_proposal_votes(a, ids, approve)
      PROVE  IInv'
  BY <1>8, update_proposal_votes_keeps
<1>9. ASSUME NEW a \in Account, NEW decline \in BOOLEAN, decline_voting_rights(a, decline)
      PROVE  IInv'
  BY <1>9, decline_voting_rights_keeps
<1>10. CASE UNCHANGED vars
  BY <1>10, StutterKeeps
<1> QED  BY <1>1, <1>2, <1>3, <1>4, <1>5, <1>6, <1>7, <1>8, <1>9, <1>10 DEF Next

\* The invariant holds in every state.
THEOREM GovernanceInvariant == Spec => []IInv
<1>1. Init => IInv
  BY InitInv
<1>2. IInv /\ [Next]_vars => IInv'
  BY NextKeeps
<1> QED  BY <1>1, <1>2, PTL DEF Spec

\* The accounts and the objects of governance are well formed at all times.
THEOREM GovernanceTypes == Spec => []TypeOK
<1>1. IInv => TypeOK
  BY TypesFollow
<1> QED  BY <1>1, GovernanceInvariant, PTL

\* What adjust_proxied_witness_votes has added up in proxied_vsf_votes is always
\* what counting the accounts below anew would give.
THEOREM ProxiedVotesExact == Spec => []ProxiedExact
<1>1. IInv => ProxiedExact
  BY ProxiedFollows
<1> QED  BY <1>1, GovernanceInvariant, PTL

\* The votes of every witness, and the number of ballots of every account, are
\* always what counting the ballots anew would give.
THEOREM WitnessVotesCounted == Spec => []WitnessVotesExact
<1>1. IInv => WitnessVotesExact
  BY WitnessVotesFollow
<1> QED  BY <1>1, GovernanceInvariant, PTL

\* Every VEST votes once, or is delayed, or is lost behind too many proxies, and
\* no witness or proposal gets more votes than there are VESTS.
THEOREM EveryVestCounted == Spec => []VestsCounted
<1>1. IInv => VestsCounted
  BY VestsFollow
<1> QED  BY <1>1, GovernanceInvariant, PTL

\* Delayed votes add up, are an interval apart, and after a block none is due and
\* there are not more than the total delay has intervals.
THEOREM DelayedVotesExact == Spec => []DelayedExact
<1>1. IInv => DelayedExact
  BY DelayedFollows
<1> QED  BY <1>1, GovernanceInvariant, PTL

\* Whoever takes part in governance has a date of expiry, which is ahead after a
\* block that the removal limit did not cut short.
THEOREM VotesExpire == Spec => []GovernanceExpires
<1>1. IInv => GovernanceExpires
  BY DEF IInv
<1> QED  BY <1>1, GovernanceInvariant, PTL
=============================================================================
