-------------------------- MODULE BlockFlowProofs --------------------------
(***************************************************************************)
(* For any tree of blocks, any witnesses, any blocks that fail and any     *)
(* approvals: the block log is what the state was made from and only       *)
(* grows, every block in it had its quorum of votes, irreversible blocks   *)
(* are announced without gaps, and a running process may be ended between  *)
(* any two steps.  And as long as no block is refused for lack of undo     *)
(* history: the head of the state stays anchored in the fork database, a   *)
(* push applies the block pushed, a failed fork switch goes back, and      *)
(* wherever the process ends it can be started again.                      *)
(***************************************************************************)
EXTENDS BlockFlow, FoldTheorems, SequenceTheorems

------------------------------------------------------------------------------
(* The tree of blocks. *)

\* s lists the blocks from Root to b.
IsPath(b, s) ==
  /\ s \in Seq(Block)
  /\ Len(s) = Num[b]
  /\ s[Num[b]] = b
  /\ s[1] = Root
  /\ \A n \in 1 .. Num[b] : Num[s[n]] = n
  /\ \A n \in 2 .. Num[b] : s[n] # Root /\ Prev[s[n]] = s[n - 1]

\* Numbers start at 1, which only Root has.
LEMMA Numbers ==
  ASSUME NEW b \in Block
  PROVE  /\ Num[b] \in Nat /\ Num[b] >= 1
         /\ b # Root => /\ Prev[b] \in Block
                        /\ Num[b] = Num[Prev[b]] + 1
                        /\ Num[b] >= 2
<1>1. \A c \in Block : Num[c] \in Nat
  BY TreeAssumption
<1>2. \A c \in Block \ {Root} : Prev[c] \in Block /\ Num[c] = Num[Prev[c]] + 1
  BY TreeAssumption
<1>3. Num[Root] = 1
  BY TreeAssumption
<1>4. \A c \in Block : Num[c] >= 1
  BY <1>1, <1>2, <1>3
<1> QED  BY <1>1, <1>2, <1>4

\* There is only one way back to Root.
LEMMA PathUnique ==
  ASSUME NEW b \in Block, NEW s, NEW t, IsPath(b, s), IsPath(b, t)
  PROVE  s = t
<1> DEFINE m == Num[b] - 1
           S == {k \in 0 .. m : s[Num[b] - k] = t[Num[b] - k]}
<1>1. m \in Nat /\ Num[b] = m + 1
  BY Numbers
<1> HIDE DEF m
<1>2. 0 \in S
  BY <1>1 DEF IsPath
<1>3. ASSUME NEW k \in 1 .. m, k - 1 \in S PROVE k \in S
  <2> DEFINE n == Num[b] - (k - 1)
  <2>1. n \in 2 .. Num[b] /\ n - 1 = Num[b] - k /\ k \in 0 .. m
    BY <1>1
  <2>2. s[n] = t[n]
    BY <1>3
  <2> HIDE DEF n
  <2>3. s[n - 1] = t[n - 1]
    BY <2>1, <2>2 DEF IsPath
  <2> QED  BY <2>1, <2>3
<1>4. \A k \in 0 .. m : k \in S
  <2> HIDE DEF S
  <2>1. \A k \in 1 .. m : k - 1 \in S => k \in S
    BY <1>3
  <2> QED  BY <1>1, <1>2, <2>1, UpTo
<1>5. ASSUME NEW n \in 1 .. Num[b] PROVE s[n] = t[n]
  <2>1. Num[b] - n \in 0 .. m /\ Num[b] - (Num[b] - n) = n
    BY <1>1
  <2>2. Num[b] - n \in S
    BY <1>4, <2>1
  <2> QED  BY <2>1, <2>2
<1>6. s \in Seq(Block) /\ t \in Seq(Block) /\ Len(s) = Num[b] /\ Len(t) = Num[b]
  BY DEF IsPath
<1> QED  BY <1>5, <1>6

\* A path goes on with a child.
LEMMA PathAppend ==
  ASSUME NEW b \in Block \ {Root}, NEW s, IsPath(Prev[b], s)
  PROVE  IsPath(b, Append(s, b))
<1> DEFINE t == Append(s, b)
<1>1. /\ Prev[b] \in Block /\ Num[b] = Num[Prev[b]] + 1
      /\ Num[Prev[b]] \in Nat /\ Num[Prev[b]] >= 1
  BY Numbers
<1>2. s \in Seq(Block) /\ Len(s) = Num[Prev[b]]
  BY DEF IsPath
<1>3. /\ t \in Seq(Block) /\ Len(t) = Num[b] /\ t[Num[b]] = b
      /\ \A n \in 1 .. Num[Prev[b]] : t[n] = s[n]
  BY <1>1, <1>2
<1> HIDE DEF t
<1>4. t[1] = Root
  BY <1>1, <1>3 DEF IsPath
<1>5. ASSUME NEW n \in 1 .. Num[b] PROVE Num[t[n]] = n
  <2>1. CASE n = Num[b]
    BY <1>3, <2>1
  <2>2. CASE n # Num[b]
    <3>1. n \in 1 .. Num[Prev[b]]
      BY <1>1, <2>2
    <3> QED  BY <1>3, <3>1 DEF IsPath
  <2> QED  BY <2>1, <2>2
<1>6. ASSUME NEW n \in 2 .. Num[b] PROVE t[n] # Root /\ Prev[t[n]] = t[n - 1]
  <2>1. CASE n = Num[b]
    <3>1. n - 1 = Num[Prev[b]] /\ n - 1 \in 1 .. Num[Prev[b]]
      BY <1>1, <2>1
    <3>2. t[n - 1] = Prev[b]
      BY <1>3, <3>1 DEF IsPath
    <3> QED  BY <1>3, <2>1, <3>2
  <2>2. CASE n # Num[b]
    <3>1. n \in 2 .. Num[Prev[b]] /\ n \in 1 .. Num[Prev[b]] /\ n - 1 \in 1 .. Num[Prev[b]]
      BY <1>1, <2>2
    <3> QED  BY <1>3, <3>1 DEF IsPath
  <2> QED  BY <2>1, <2>2
<1>7. IsPath(b, t)
  BY <1>3, <1>4, <1>5, <1>6 DEF IsPath
<1> QED  BY <1>7 DEF t

\* The path of Root.
LEMMA PathRoot == IsPath(Root, <<Root>>)
<1>1. Root \in Block /\ Num[Root] = 1
  BY TreeAssumption
<1>2. /\ <<Root>> \in Seq(Block) /\ Len(<<Root>>) = 1 /\ <<Root>>[1] = Root
  BY <1>1
<1>3. \A n \in 1 .. Num[Root] : n = 1
  BY <1>1
<1>4. 2 .. Num[Root] = {}
  BY <1>1
<1> QED  BY <1>1, <1>2, <1>3, <1>4 DEF IsPath

\* Every block of a set closed under children that holds Root.
LEMMA BlockInduction ==
  ASSUME NEW G, Root \in G,
         \A b \in Block \ {Root} : Prev[b] \in G => b \in G
  PROVE  \A b \in Block : b \in G
<1> SUFFICES ASSUME NEW b \in Block PROVE b \in G
  OBVIOUS
<1> DEFINE m == Num[b]
           S == {k \in 0 .. m : \A c \in Block : Num[c] <= k => c \in G}
<1>1. m \in Nat
  BY Numbers
<1> HIDE DEF m
<1>2. 0 \in S
  <2>1. \A c \in Block : ~(Num[c] <= 0)
    BY Numbers
  <2> QED  BY <1>1, <2>1
<1>3. ASSUME NEW k \in 1 .. m, k - 1 \in S PROVE k \in S
  <2>1. ASSUME NEW c \in Block, Num[c] <= k PROVE c \in G
    <3>1. CASE c = Root
      BY <3>1
    <3>2. CASE c # Root
      <4>1. Prev[c] \in Block /\ Num[Prev[c]] \in Nat /\ Num[c] = Num[Prev[c]] + 1
        BY <3>2, Numbers
      <4>2. Num[Prev[c]] <= k - 1
        BY <1>1, <2>1, <4>1
      <4>3. Prev[c] \in G
        BY <1>3, <4>1, <4>2
      <4> QED  BY <3>2, <4>3
    <3> QED  BY <3>1, <3>2
  <2>2. k \in 0 .. m
    BY <1>1
  <2> QED  BY <2>1, <2>2
<1>4. \A k \in 0 .. m : k \in S
  <2> HIDE DEF S
  <2>1. \A k \in 1 .. m : k - 1 \in S => k \in S
    BY <1>3
  <2> QED  BY <1>1, <1>2, <2>1, UpTo
<1>5. m \in S /\ Num[b] <= m
  BY <1>1, <1>4 DEF m
<1> QED  BY <1>5

\* Path is the path.
LEMMA PathIsPath ==
  ASSUME NEW b \in Block
  PROVE  IsPath(b, Path[b])
<1> DEFINE G == {c \in Block : \E s : IsPath(c, s)}
<1>1. Root \in G
  BY PathRoot, TreeAssumption
<1>2. \A c \in Block \ {Root} : Prev[c] \in G => c \in G
  BY PathAppend
<1>3. \A c \in Block : c \in G
  <2> HIDE DEF G
  <2> QED  BY <1>1, <1>2, BlockInduction
<1> DEFINE p(c) == CHOOSE s : IsPath(c, s)
           P == [c \in Block |-> p(c)]
<1>4. \A c \in Block : IsPath(c, p(c))
  BY <1>3
<1> HIDE DEF p
<1>5. \A c \in Block : P[c] = p(c)
  OBVIOUS
<1>6. ASSUME NEW c \in Block
      PROVE  P[c] = IF c = Root THEN <<Root>> ELSE Append(P[Prev[c]], c)
  <2>1. CASE c = Root
    <3>1. IsPath(c, <<Root>>)
      BY <2>1, PathRoot
    <3>2. p(c) = <<Root>>
      BY <1>4, <3>1, PathUnique
    <3> QED  BY <1>5, <2>1, <3>2
  <2>2. CASE c # Root
    <3>1. Prev[c] \in Block
      BY <2>2, Numbers
    <3>2. IsPath(c, Append(p(Prev[c]), c))
      BY <1>4, <2>2, <3>1, PathAppend
    <3>3. p(c) = Append(p(Prev[c]), c)
      BY <1>4, <3>2, PathUnique
    <3> QED  BY <1>5, <2>2, <3>1, <3>3
  <2> QED  BY <2>1, <2>2
<1> DEFINE E(f) == f = [c \in Block |-> IF c = Root THEN <<Root>> ELSE Append(f[Prev[c]], c)]
<1>7. E(P)
  <2>1. P = [c \in Block |-> P[c]]
    OBVIOUS
  <2> HIDE DEF P
  <2> QED  BY <1>6, <2>1
<1>8. E(Path)
  <2> HIDE DEF P
  <2>1. \E f : E(f)
    BY <1>7
  <2>2. Path = CHOOSE f : E(f)
    BY DEF Path
  <2> HIDE DEF E
  <2>3. E(CHOOSE f : E(f))
    BY <2>1
  <2> QED  BY <2>2, <2>3
<1>9. \A c \in Block : Path[c] = IF c = Root THEN <<Root>> ELSE Append(Path[Prev[c]], c)
  <2> HIDE DEF P
  <2> DEFINE Q == Path
  <2>1. E(Q)
    BY <1>8
  <2> HIDE DEF Q
  <2>2. \A c \in Block : Q[c] = IF c = Root THEN <<Root>> ELSE Append(Q[Prev[c]], c)
    BY <2>1
  <2> QED  BY <2>2 DEF Q
<1> DEFINE H == {c \in Block : IsPath(c, Path[c])}
<1>10. Root \in H
  BY <1>9, PathRoot, TreeAssumption
<1>11. ASSUME NEW c \in Block \ {Root}, Prev[c] \in H PROVE c \in H
  <2>1. IsPath(c, Append(Path[Prev[c]], c))
    BY <1>11, PathAppend
  <2>2. Path[c] = Append(Path[Prev[c]], c)
    BY <1>9
  <2> QED  BY <2>1, <2>2
<1>12. \A c \in Block : c \in H
  <2> HIDE DEF H
  <2>1. \A c \in Block \ {Root} : Prev[c] \in H => c \in H
    BY <1>11
  <2> QED  BY <1>10, <2>1, BlockInduction
<1> QED  BY <1>12

\* The path of a block on the way is what comes before it.
LEMMA PathOn ==
  ASSUME NEW b \in Block, NEW n \in 1 .. Num[b]
  PROVE  /\ Path[b][n] \in Block
         /\ Num[Path[b][n]] = n
         /\ \A k \in 1 .. n : Path[Path[b][n]][k] = Path[b][k]
<1>1. IsPath(b, Path[b]) /\ Num[b] \in Nat
  BY PathIsPath, Numbers
<1>2. Path[b][n] \in Block /\ Num[Path[b][n]] = n
  BY <1>1 DEF IsPath
<1> DEFINE c == Path[b][n]
           s == SubSeq(Path[b], 1, n)
<1>3. /\ s \in Seq(Block) /\ Len(s) = n /\ n \in Nat
      /\ \A k \in 1 .. n : s[k] = Path[b][k] /\ k \in 1 .. Num[b]
  <2>1. Path[b] \in Seq(Block) /\ Len(Path[b]) = Num[b]
    BY <1>1 DEF IsPath
  <2> QED  BY <1>1, <2>1
<1>4. IsPath(c, s)
  <2> HIDE DEF s, c
  <2>1. Num[c] = n /\ n \in 1 .. n /\ 1 \in 1 .. n /\ 1 \in 1 .. Num[b]
    BY <1>1, <1>2 DEF c
  <2>2. s[n] = c /\ s[1] = Root
    BY <1>1, <1>3, <2>1 DEF IsPath, c
  <2>3. \A k \in 1 .. n : Num[s[k]] = k
    BY <1>1, <1>3 DEF IsPath
  <2>4. ASSUME NEW k \in 2 .. n PROVE s[k] # Root /\ Prev[s[k]] = s[k - 1]
    <3>1. k \in 1 .. n /\ k - 1 \in 1 .. n /\ k \in 2 .. Num[b]
      BY <1>1
    <3>2. s[k] = Path[b][k] /\ s[k - 1] = Path[b][k - 1]
      BY <1>3, <3>1
    <3> QED  BY <1>1, <3>1, <3>2 DEF IsPath
  <2> QED  BY <1>3, <2>1, <2>2, <2>3, <2>4 DEF IsPath
<1>5. Path[c] = s
  <2>1. IsPath(c, Path[c])
    BY <1>2, PathIsPath
  <2> HIDE DEF s, c
  <2>2. c \in Block
    BY <1>2 DEF c
  <2> QED  BY <1>4, <2>1, <2>2, PathUnique
<1> HIDE DEF s
<1> QED  BY <1>2, <1>3, <1>5

\* The path of a child.
LEMMA PathOfChild ==
  ASSUME NEW b \in Block \ {Root}
  PROVE  \A k \in 1 .. Num[Prev[b]] : Path[b][k] = Path[Prev[b]][k]
<1>1. Prev[b] \in Block /\ Num[b] = Num[Prev[b]] + 1 /\ Num[Prev[b]] \in Nat
  BY Numbers
<1>2. IsPath(Prev[b], Path[Prev[b]]) /\ IsPath(b, Path[b])
  BY <1>1, PathIsPath
<1>3. IsPath(b, Append(Path[Prev[b]], b))
  BY <1>2, PathAppend
<1>4. Path[b] = Append(Path[Prev[b]], b)
  BY <1>2, <1>3, PathUnique
<1>5. Path[Prev[b]] \in Seq(Block) /\ Len(Path[Prev[b]]) = Num[Prev[b]]
  BY <1>2 DEF IsPath
<1> QED  BY <1>1, <1>4, <1>5

\* Where two paths part: the last number they have in common.
LEMMA CommonIs ==
  ASSUME NEW b \in Block, NEW c \in Block
  PROVE  /\ Common(b, c) \in 1 .. Num[b]
         /\ Common(b, c) <= Num[c]
         /\ Path[b][Common(b, c)] = Path[c][Common(b, c)]
         /\ \A m \in (Common(b, c) + 1) .. Num[b] : m <= Num[c] => Path[b][m] # Path[c][m]
<1> DEFINE T == {n \in 1 .. Num[b] : n <= Num[c] /\ Path[b][n] = Path[c][n]}
<1>1. Num[b] \in Nat /\ Num[c] \in Nat /\ Num[b] >= 1 /\ Num[c] >= 1
  BY Numbers
<1>2. Path[b][1] = Path[c][1]
  BY PathIsPath DEF IsPath
<1>3. 1 \in T /\ T \subseteq 1 .. Num[b] /\ T # {}
  BY <1>1, <1>2
<1> HIDE DEF T
<1>4. Max(T) \in T /\ \A x \in T : x <= Max(T)
  BY <1>1, <1>3, MaxIndex, Zenon
<1> DEFINE M == Max(T)
<1>5. M \in T /\ \A x \in T : x <= M
  BY <1>4
<1> HIDE DEF M
<1>6. \A m \in (M + 1) .. Num[b] : m <= Num[c] => Path[b][m] # Path[c][m]
  BY <1>1, <1>5 DEF T
<1>7. \E n \in 1 .. Num[b] :
        /\ n <= Num[c]
        /\ Path[b][n] = Path[c][n]
        /\ \A m \in (n + 1) .. Num[b] : m <= Num[c] => Path[b][m] # Path[c][m]
  BY <1>5, <1>6 DEF T
<1> QED  BY <1>7 DEF Common

\* It is the same seen from either block.
LEMMA CommonSymmetric ==
  ASSUME NEW b \in Block, NEW c \in Block
  PROVE  Common(b, c) = Common(c, b)
<1>1. Num[b] \in Nat /\ Num[c] \in Nat
  BY Numbers
<1> DEFINE m == Common(b, c)
           n == Common(c, b)
<1>2. /\ m \in 1 .. Num[b] /\ m <= Num[c] /\ Path[b][m] = Path[c][m]
      /\ \A k \in (m + 1) .. Num[b] : k <= Num[c] => Path[b][k] # Path[c][k]
  BY CommonIs
<1>3. /\ n \in 1 .. Num[c] /\ n <= Num[b] /\ Path[c][n] = Path[b][n]
      /\ \A k \in (n + 1) .. Num[c] : k <= Num[b] => Path[c][k] # Path[b][k]
  BY CommonIs
<1> HIDE DEF m, n
<1>4. ~ (m < n)
  BY <1>1, <1>2, <1>3
<1>5. ~ (n < m)
  BY <1>1, <1>2, <1>3
<1>6. m = n
  BY <1>1, <1>2, <1>3, <1>4, <1>5
<1> QED  BY <1>6 DEF m, n

\* A sequence of blocks each of which is a child of the one before it, the
\* first a child of base.
Chain(s, base) ==
  \A i \in 1 .. Len(s) :
    /\ s[i] \in Block \ {Root}
    /\ Num[s[i]] = Num[base] + i
    /\ Prev[s[i]] = IF i = 1 THEN base ELSE s[i - 1]

\* The end of a path is a chain.
LEMMA PathChain ==
  ASSUME NEW b \in Block, NEW n \in 1 .. Num[b]
  PROVE  LET s == SubSeq(Path[b], n + 1, Num[b])
         IN  /\ s \in Seq(Block)
             /\ Len(s) = Num[b] - n
             /\ \A i \in 1 .. Len(s) : s[i] = Path[b][n + i]
             /\ Chain(s, Path[b][n])
<1> DEFINE s == SubSeq(Path[b], n + 1, Num[b])
<1>1. IsPath(b, Path[b]) /\ Num[b] \in Nat
  BY PathIsPath, Numbers
<1>2. Path[b] \in Seq(Block) /\ Len(Path[b]) = Num[b]
  BY <1>1 DEF IsPath
<1>3. /\ s \in Seq(Block) /\ Len(s) = Num[b] - n
      /\ \A i \in 1 .. Len(s) : s[i] = Path[b][n + i]
  BY <1>1, <1>2, SMTT(60)
<1> HIDE DEF s
<1>4. Num[Path[b][n]] = n
  BY PathOn
<1>5. ASSUME NEW i \in 1 .. Len(s)
      PROVE  /\ s[i] \in Block \ {Root} /\ Num[s[i]] = n + i
             /\ Prev[s[i]] = IF i = 1 THEN Path[b][n] ELSE s[i - 1]
  <2>1. n + i \in 2 .. Num[b] /\ n + i \in 1 .. Num[b] /\ s[i] = Path[b][n + i]
    BY <1>1, <1>3
  <2>2. Path[b][n + i] \in Block /\ Num[Path[b][n + i]] = n + i
    BY <2>1, PathOn
  <2>3. Path[b][n + i] # Root /\ Prev[Path[b][n + i]] = Path[b][n + i - 1]
    BY <1>1, <2>1 DEF IsPath
  <2>4. i # 1 => i - 1 \in 1 .. Len(s) /\ s[i - 1] = Path[b][n + (i - 1)]
    BY <1>1, <1>3
  <2>5. n + i - 1 = n + (i - 1) /\ (i = 1 => n + i - 1 = n)
    OBVIOUS
  <2> QED  BY <2>1, <2>2, <2>3, <2>4, <2>5
<1>6. Chain(s, Path[b][n])
  BY <1>4, <1>5 DEF Chain
<1> QED  BY <1>3, <1>6 DEF s

\* The branches of a fork: two chains from the common block without a block in
\* common.
LEMMA Branches ==
  ASSUME NEW b \in Block, NEW c \in Block
  PROVE  LET m == Common(b, c)
         IN  /\ m \in 1 .. Num[b] /\ m <= Num[c]
             /\ Path[b][m] \in Block /\ Num[Path[b][m]] = m
             /\ Branch(b, c) \in Seq(Block) /\ Branch(c, b) \in Seq(Block)
             /\ Chain(Branch(b, c), Path[b][m])
             /\ Chain(Branch(c, b), Path[b][m])
             /\ Len(Branch(b, c)) = Num[b] - m
             /\ Len(Branch(c, b)) = Num[c] - m
             /\ \A i \in 1 .. Len(Branch(b, c)) : Branch(b, c)[i] = Path[b][m + i]
             /\ \A i \in 1 .. Len(Branch(c, b)) : Branch(c, b)[i] = Path[c][m + i]
             /\ Range(Branch(c, b)) \cap Range(Branch(b, c)) = {}
             /\ Num[b] >= Num[c] /\ b # c => Branch(b, c) # <<>>
<1> DEFINE m == Common(b, c)
           s == Branch(b, c)
           t == Branch(c, b)
<1>1. Num[b] \in Nat /\ Num[c] \in Nat
  BY Numbers
<1>2. /\ m \in 1 .. Num[b] /\ m <= Num[c] /\ Path[b][m] = Path[c][m]
      /\ \A k \in (m + 1) .. Num[b] : k <= Num[c] => Path[b][k] # Path[c][k]
  BY CommonIs
<1>3. m = Common(c, b)
  BY CommonSymmetric
<1> HIDE DEF m
<1>4. m \in 1 .. Num[c]
  BY <1>1, <1>2
<1>5. Path[b][m] \in Block /\ Num[Path[b][m]] = m
  BY <1>2, PathOn
<1>6. /\ s \in Seq(Block) /\ Len(s) = Num[b] - m /\ Chain(s, Path[b][m])
      /\ \A i \in 1 .. Len(s) : s[i] = Path[b][m + i]
  BY <1>2, PathChain DEF Branch, m
<1>7. /\ t \in Seq(Block) /\ Len(t) = Num[c] - m /\ Chain(t, Path[c][m])
      /\ \A i \in 1 .. Len(t) : t[i] = Path[c][m + i]
  BY <1>3, <1>4, PathChain DEF Branch
<1> HIDE DEF s, t
<1>8. Range(t) \cap Range(s) = {}
  <2> SUFFICES ASSUME NEW i \in 1 .. Len(t), NEW j \in 1 .. Len(s), t[i] = s[j]
               PROVE  FALSE
    BY <1>6, <1>7 DEF Range
  <2>1. t[i] = Path[c][m + i] /\ s[j] = Path[b][m + j]
    BY <1>6, <1>7
  <2>2. m + i \in 1 .. Num[c] /\ m + j \in 1 .. Num[b]
    BY <1>1, <1>2, <1>6, <1>7, SMTT(60)
  <2>3. Num[Path[c][m + i]] = m + i /\ Num[Path[b][m + j]] = m + j
    BY <2>2, PathOn
  <2>4. i = j
    <3>1. m + i = m + j
      BY <2>1, <2>3
    <3>2. m \in Int /\ i \in Int /\ j \in Int
      BY <1>2
    <3> QED  BY <3>1, <3>2
  <2>5. m + i \in (m + 1) .. Num[b] /\ m + i <= Num[c]
    BY <1>1, <1>2, <2>2, <2>4
  <2> QED  BY <1>2, <2>1, <2>4, <2>5
<1>9. ASSUME Num[b] >= Num[c], b # c PROVE s # <<>>
  <2>1. CASE m = Num[b]
    <3>1. Num[b] = Num[c]
      BY <1>1, <1>2, <1>9, <2>1
    <3>2. Path[b][Num[b]] = b /\ Path[c][Num[c]] = c
      BY PathIsPath DEF IsPath
    <3> QED  BY <1>2, <1>9, <2>1, <3>1, <3>2
  <2>2. CASE m # Num[b]
    <3>1. Len(s) # 0
      BY <1>1, <1>2, <1>6, <2>2
    <3> QED  BY <3>1
  <2> QED  BY <2>1, <2>2
<1> QED  BY <1>2, <1>5, <1>6, <1>7, <1>8, <1>9 DEF m, s, t

------------------------------------------------------------------------------
(* The fork database. *)

\* A fork database.
ForkDB == [linked : SUBSET Block, unlinked : SUBSET Block, orphan : SUBSET Block,
           head : Block \cup {NoBlock}, max_size : Nat]

\* The parents of linked blocks are linked, but for those whose prev expired.
Tidy(f) == \A b \in f.linked \ f.orphan : b # Root => Prev[b] \in f.linked

\* Where no prev has expired on the way back, the whole way is linked.
LEMMA BackLinked ==
  ASSUME NEW f \in ForkDB, Tidy(f), NEW b \in f.linked, NEW n \in 1 .. Num[b],
         \A k \in (n + 1) .. Num[b] : Path[b][k] \notin f.orphan
  PROVE  \A k \in n .. Num[b] : Path[b][k] \in f.linked
<1> DEFINE m == Num[b] - n
           S == {k \in 0 .. m : Path[b][Num[b] - k] \in f.linked}
<1>1. b \in Block
  BY DEF ForkDB
<1>2. Num[b] \in Nat /\ m \in Nat /\ Num[b] = m + n
  BY <1>1, Numbers
<1> HIDE DEF m
<1>3. IsPath(b, Path[b])
  BY <1>1, PathIsPath
<1>4. 0 \in S
  BY <1>2, <1>3 DEF IsPath
<1>5. ASSUME NEW k \in 1 .. m, k - 1 \in S PROVE k \in S
  <2> DEFINE i == Num[b] - (k - 1)
  <2>1. i \in 2 .. Num[b] /\ i \in (n + 1) .. Num[b] /\ i - 1 = Num[b] - k /\ k \in 0 .. m
    BY <1>2
  <2>2. Path[b][i] \in f.linked
    BY <1>5
  <2> HIDE DEF i
  <2>3. Path[b][i] # Root /\ Prev[Path[b][i]] = Path[b][i - 1]
    BY <1>3, <2>1 DEF IsPath
  <2>4. Path[b][i - 1] \in f.linked
    BY <2>1, <2>2, <2>3 DEF Tidy
  <2> QED  BY <2>1, <2>4
<1>6. \A k \in 0 .. m : k \in S
  <2> HIDE DEF S
  <2>1. \A k \in 1 .. m : k - 1 \in S => k \in S
    BY <1>5
  <2> QED  BY <1>2, <1>4, <2>1, UpTo
<1>7. ASSUME NEW k \in n .. Num[b] PROVE Path[b][k] \in f.linked
  <2>1. Num[b] - k \in 0 .. m /\ Num[b] - (Num[b] - k) = k
    BY <1>2
  <2>2. Num[b] - k \in S
    BY <1>6, <2>1
  <2> QED  BY <2>1, <2>2
<1> QED  BY <1>7

\* A block of the head's branch is found, or none is.
LEMMA FetchOnBranch ==
  ASSUME NEW f \in ForkDB, IsFiniteSet(f.linked), f.head # NoBlock,
         NEW k \in 1 .. Num[f.head], Path[f.head][k] \in f.linked
  PROVE  fetch_block_on_main_branch_by_number(f, k) \in {NoBlock, Path[f.head][k]}
<1> DEFINE p == Path[f.head][k]
           found == {b \in f.linked : Num[b] = k}
<1>1. f.head \in Block
  BY DEF ForkDB
<1>2. p \in found
  BY <1>1, PathOn
<1>3. IsFiniteSet(found)
  BY FS_Subset
<1>4. ASSUME Cardinality(found) = 1 PROVE (CHOOSE b \in found : TRUE) = p
  <2> HIDE DEF found, p
  <2>1. PICK x : found = {x}
    BY <1>3, <1>4, FS_Singleton
  <2> QED  BY <1>2, <2>1
<1> HIDE DEF p, found
<1>5. fetch_block_on_main_branch_by_number(f, k)
        = IF k > HeadNum(f) \/ found = {} THEN NoBlock
          ELSE IF Cardinality(found) = 1 THEN CHOOSE b \in found : TRUE
          ELSE IF p \in Back(f, f.head) THEN p ELSE NoBlock
  BY DEF fetch_block_on_main_branch_by_number, found, p
<1>6. fetch_block_on_main_branch_by_number(f, k) \in {NoBlock, p}
  BY <1>4, <1>5
<1> QED  BY <1>6 DEF p

\* Without a head none is.
LEMMA FetchWithoutHead ==
  ASSUME NEW f \in ForkDB, f.head = NoBlock, NEW k \in Nat, k > 0
  PROVE  fetch_block_on_main_branch_by_number(f, k) = NoBlock
  BY DEF fetch_block_on_main_branch_by_number, HeadNum

------------------------------------------------------------------------------
(* Irreversibility. *)

\* A candidate for the last irreversible block, with the head of its fork.
Found == [head : Block \cup {NoBlock}, block : Block \cup {NoBlock}]

\* What the search may find: a block above the old LIB on a fork that gives it
\* enough votes.
Candidates(f, ap, old) ==
  {r \in Found : r.block # NoBlock =>
     /\ r.head \in Block
     /\ r.block \in Back(f, r.head)
     /\ Num[r.block] > old
     /\ Enough(Support(f, ap, r.head, r.block))}

\* A fork looked at leaves a candidate.
LEMMA ConsiderType ==
  ASSUME NEW f, NEW ap, NEW old, NEW found \in Candidates(f, ap, old),
         NEW h \in Block
  PROVE  Consider(f, ap, old, found, h) \in Candidates(f, ap, old)
<1> DEFINE ok == {x \in Back(f, h) :
                    /\ Num[x] > old
                    /\ \/ found.block = NoBlock
                       \/ x = found.block
                       \/ Num[x] > Num[found.block]
                    /\ Enough(Support(f, ap, h, x))}
           c == CHOOSE x \in ok : \A y \in ok : Num[y] <= Num[x]
<1>1. Num[h] \in Nat
  BY Numbers
<1>2. ok \subseteq Back(f, h)
  OBVIOUS
<1>3. Consider(f, ap, old, found, h)
        = IF ok # {} /\ (found.block = NoBlock \/ Num[h] > Num[found.head])
          THEN [head |-> h, block |-> c] ELSE found
  BY DEF Consider
<1> HIDE DEF ok
<1>4. \A x \in ok : \E n \in 1 .. Num[h] : x = Path[h][n]
  BY <1>2 DEF Back
<1>5. \A x \in ok : x \in Block /\ Num[x] \in 1 .. Num[h]
  BY <1>4, PathOn
<1>6. ASSUME ok # {} PROVE c \in ok
  <2> DEFINE T == {Num[x] : x \in ok}
  <2>1. T \subseteq 1 .. Num[h] /\ T # {}
    BY <1>5, <1>6
  <2>2. \A x \in ok : Num[x] \in T
    OBVIOUS
  <2>3. \A n \in T : \E x \in ok : n = Num[x]
    OBVIOUS
  <2> HIDE DEF T
  <2>4. Max(T) \in T /\ \A n \in T : n <= Max(T)
    BY <1>1, <2>1, MaxIndex, Zenon
  <2>5. PICK x \in ok : Max(T) = Num[x]
    BY <2>3, <2>4
  <2>6. \A y \in ok : Num[y] <= Num[x]
    BY <2>2, <2>4, <2>5
  <2> QED  BY <2>6
<1> HIDE DEF c
<1>7. ASSUME ok # {} PROVE [head |-> h, block |-> c] \in Candidates(f, ap, old)
  <2>1. c \in Back(f, h) /\ Num[c] > old /\ Enough(Support(f, ap, h, c)) /\ c \in Block
    BY <1>5, <1>6, <1>7 DEF ok
  <2> QED  BY <2>1 DEF Candidates, Found
<1> QED  BY <1>3, <1>7

\* So does a look at all of them, in any order.
LEMMA FindType ==
  ASSUME NEW f \in ForkDB, IsFiniteSet(f.linked), NEW ap, NEW old,
         NEW r \in find_new_last_irreversible_block(f, ap, old)
  PROVE  r \in Candidates(f, ap, old)
<1> DEFINE C == Candidates(f, ap, old)
<1> DEFINE base == [head |-> NoBlock, block |-> NoBlock]
<1>1. PICK q \in SetToSeqs(fetch_heads(f)) :
        r = FoldLeft(LAMBDA found, h : Consider(f, ap, old, found, h), base, q)
  BY DEF find_new_last_irreversible_block
<1>2. fetch_heads(f) \subseteq f.linked /\ f.linked \subseteq Block
  BY DEF fetch_heads, ForkDB
<1>3. IsFiniteSet(fetch_heads(f))
  BY <1>2, FS_Subset
<1>4. q \in Seq(fetch_heads(f))
  BY <1>3, ListedAll
<1> DEFINE n == Len(q)
           F == [i \in 1 .. n |-> [s \in C |-> Consider(f, ap, old, s, q[i])]]
           Eq(g) == g = [t \in SUBSET (1 .. n) |->
                           IF t = {} THEN base
                           ELSE Consider(f, ap, old, g[t \ {Max(t)}], q[Max(t)])]
           it == CHOOSE g : Eq(g)
<1>5. n \in Nat /\ DOMAIN q = 1 .. n /\ \A i \in 1 .. n : q[i] \in Block
  BY <1>2, <1>4
<1>6. base \in C
  BY DEF Candidates, Found
<1> HIDE DEF C
<1>7. F \in [1 .. n -> [C -> C]]
  <2>1. \A i \in 1 .. n : [s \in C |-> Consider(f, ap, old, s, q[i])] \in [C -> C]
    BY <1>5, ConsiderType DEF C
  <2> QED  BY <2>1
<1>8. \A i \in 1 .. n, s \in C : F[i][s] = Consider(f, ap, old, s, q[i])
  OBVIOUS
<1>9. r = it[1 .. n]
  <2>1. r = it[DOMAIN q]
    BY <1>1, <1>5 DEF FoldLeft, MapThenFoldSet
  <2> QED  BY <1>5, <2>1
<1>10. \A t \in SUBSET (1 .. n) : t # {} => Max(t) \in 1 .. n
  BY <1>5, MaxIndex
<1> HIDE DEF F, n, base
<1>11. \E g : Eq(g)
  <2>1. PICK g : Folds(g, n, C, base, F)
    <3>1. n \in Nat
      BY <1>5
    <3> QED  BY <1>6, <1>7, <3>1, FoldExists, Zenon
  <2>2. g \in [SUBSET (1 .. n) -> C]
    BY <2>1 DEF Folds
  <2>3. ASSUME NEW t \in SUBSET (1 .. n)
        PROVE  g[t] = IF t = {} THEN base
                      ELSE Consider(f, ap, old, g[t \ {Max(t)}], q[Max(t)])
    <3>1. g[t] = IF t = {} THEN base ELSE F[Max(t)][g[t \ {Max(t)}]]
      BY <2>1 DEF Folds
    <3>2. g[t \ {Max(t)}] \in C
      BY <2>2
    <3> QED  BY <1>8, <1>10, <3>1, <3>2
  <2>4. g = [t \in SUBSET (1 .. n) |-> g[t]]
    BY <2>2
  <2> QED  BY <2>3, <2>4
<1>12. Eq(it)
  <2> HIDE DEF Eq
  <2> QED  BY <1>11
<1> HIDE DEF it
<1>13. Computes(it, n, C, base, F)
  <2>1. it[{}] = base
    BY <1>12
  <2>2. ASSUME NEW t \in SUBSET (1 .. n), t # {}, it[t \ {Max(t)}] \in C
        PROVE  it[t] = F[Max(t)][it[t \ {Max(t)}]]
    <3>1. it[t] = Consider(f, ap, old, it[t \ {Max(t)}], q[Max(t)])
      BY <1>12, <2>2
    <3> QED  BY <1>8, <1>10, <2>2, <3>1
  <2> QED  BY <2>1, <2>2 DEF Computes
<1> HIDE DEF Eq
<1>14. PICK h : States(h, n, C, base, F, it[1 .. n])
  <2>1. n \in Nat
    BY <1>5
  <2> QED  BY <1>6, <1>7, <1>13, <2>1, FoldSteps, Zenon
<1>15. n \in 0 .. n
  BY <1>5
<1> QED  BY <1>9, <1>14, <1>15 DEF States, C

\* The approvals a node may hold.
Approvals == [Scheduled -> Block \cup {NoBlock}]

\* Re-evaluating irreversibility never lowers the LIB nor lifts it above the
\* head, and throws without a change; a fork to switch to is not shorter.
LEMMA UpdateResult ==
  ASSUME NEW f \in ForkDB, IsFiniteSet(f.linked), NEW ap \in Approvals, NEW hd \in Block,
         lib \in Nat, lib <= Num[hd],
         NEW r \in update_last_irreversible_block(f, ap, hd)
  PROVE  /\ r.lib \in Nat /\ lib <= r.lib /\ r.lib <= Num[hd]
         /\ r.ap \in Approvals
         /\ r.throws => r.lib = lib
         /\ r.cand \in Nat
         /\ r.to # NoBlock => r.to \in Block /\ Num[r.to] >= Num[hd] /\ ~ r.throws /\ r.lib = lib
<1> DEFINE same == [lib |-> lib, ap |-> ap, throws |-> FALSE, to |-> NoBlock, cand |-> 0]
           set(n) == IF n < lib THEN [same EXCEPT !.throws = TRUE]
                     ELSE [same EXCEPT !.lib = n, !.ap = Relevant(ap, n)]
           outcome(x) ==
             IF x.block = NoBlock THEN same
             ELSE IF x.block = fetch_block_on_main_branch_by_number(f, Num[x.block])
             THEN set(Lower(Num[x.block], Num[hd]))
             ELSE IF Num[x.head] < Num[hd] THEN same
             ELSE [same EXCEPT !.to = x.head, !.cand = Num[x.block]]
           Good(x) ==
             /\ x.lib \in Nat /\ lib <= x.lib /\ x.lib <= Num[hd]
             /\ x.ap \in Approvals
             /\ x.throws => x.lib = lib
             /\ x.cand \in Nat
             /\ x.to # NoBlock => x.to \in Block /\ Num[x.to] >= Num[hd] /\ ~ x.throws /\ x.lib = lib
<1>1. Num[hd] \in Nat
  BY Numbers
<1>2. Good(same)
  BY <1>1
<1>3. ASSUME NEW n \in Nat, n <= Num[hd] PROVE Good(set(n))
  <2>1. CASE n < lib
    BY <1>1, <2>1
  <2>2. CASE ~ (n < lib)
    <3>1. Relevant(ap, n) \in Approvals
      BY DEF Relevant, Approvals
    <3>2. set(n) = [lib |-> n, ap |-> Relevant(ap, n), throws |-> FALSE, to |-> NoBlock, cand |-> 0]
      BY <2>2
    <3> HIDE DEF set
    <3> QED  BY <1>1, <1>3, <2>2, <3>1, <3>2
  <2> QED  BY <2>1, <2>2
<1>4. ASSUME NEW x \in Found PROVE Good(outcome(x))
  <2>1. CASE x.block = NoBlock
    BY <1>2, <2>1
  <2>2. CASE x.block # NoBlock
    <3>1. x.block \in Block /\ Num[x.block] \in Nat
      BY <2>2, Numbers DEF Found
    <3>2. x.head \in Block \cup {NoBlock}
      BY DEF Found
    <3> DEFINE n == Lower(Num[x.block], Num[hd])
    <3>3. n \in Nat /\ n <= Num[hd]
      BY <1>1, <3>1 DEF Lower
    <3>4. CASE x.block = fetch_block_on_main_branch_by_number(f, Num[x.block])
      <4>1. outcome(x) = set(n)
        BY <2>2, <3>4
      <4>2. Good(set(n))
        <5> HIDE DEF n, Good, set
        <5> QED  BY <1>3, <3>3
      <4> HIDE DEF Good, outcome, set
      <4> QED  BY <4>1, <4>2
    <3>5. CASE x.block # fetch_block_on_main_branch_by_number(f, Num[x.block])
      <4>1. CASE Num[x.head] < Num[hd]
        BY <1>2, <2>2, <3>5, <4>1
      <4>2. CASE ~ (Num[x.head] < Num[hd])
        <5>1. outcome(x) = [lib |-> lib, ap |-> ap, throws |-> FALSE,
                            to |-> x.head, cand |-> Num[x.block]]
          BY <2>2, <3>5, <4>2
        <5>2. x.head # NoBlock => Num[x.head] \in Nat /\ Num[x.head] >= Num[hd]
          BY <1>1, <3>2, <4>2, Numbers
        <5> HIDE DEF outcome
        <5> QED  BY <1>1, <3>1, <3>2, <5>1, <5>2
      <4> QED  BY <4>1, <4>2
    <3> QED  BY <3>4, <3>5
  <2> QED  BY <2>1, <2>2
<1>5. CASE Num[hd] < StartMinerVotingBlock
  <2> DEFINE n == IF Num[hd] > MaxWitnesses THEN Higher(lib, Num[hd] - MaxWitnesses) ELSE lib
  <2>1. r = [same EXCEPT !.lib = n]
    BY <1>5 DEF update_last_irreversible_block
  <2>2. n \in Nat /\ lib <= n /\ n <= Num[hd]
    BY <1>1, FlowAssumption DEF Higher
  <2> HIDE DEF n
  <2> QED  BY <1>1, <2>1, <2>2
<1>6. CASE ~ (Num[hd] < StartMinerVotingBlock) /\ lib = Num[hd]
  <2>1. r = same
    BY <1>6 DEF update_last_irreversible_block
  <2> QED  BY <1>2, <2>1
<1>7. CASE ~ (Num[hd] < StartMinerVotingBlock) /\ lib # Num[hd]
  <2>1. PICK x \in find_new_last_irreversible_block(f, ap, lib) : r = outcome(x)
    BY <1>7 DEF update_last_irreversible_block
  <2>2. x \in Found
    BY FindType DEF Candidates
  <2>3. Good(outcome(x))
    <3> HIDE DEF Good, outcome
    <3> QED  BY <1>4, <2>2
  <2>4. Good(r)
    <3> HIDE DEF Good, outcome
    <3> QED  BY <2>1, <2>3
  <2> HIDE DEF outcome
  <2> QED  BY <2>4
<1> QED  BY <1>5, <1>6, <1>7

------------------------------------------------------------------------------
(* The inductive invariant. *)

\* What a request keeps in job.
JobType ==
  job \in [phase  : {"idle", "link", "decide", "pop", "apply", "unpop",
                     "restore", "approved", "confirmed"},
           stack  : Seq(Block),
           todo   : Seq(Block),
           old    : Seq(Block),
           target : Block \cup {NoBlock},
           mode   : {"extend", "switch"},
           orig   : Nat,
           common : Nat,
           from   : {<<>>} \cup (Nat \X Nat),
           block  : Block \cup {NoBlock}]

Types ==
  /\ fdb \in ForkDB
  /\ fdb.orphan \subseteq fdb.linked
  /\ IsFiniteSet(fdb.linked)
  /\ head \in Block
  /\ committed \in Nat
  /\ lib \in Nat
  /\ log \in Seq(Block)
  /\ approvals \in Approvals
  /\ notes \in Seq(Nat)
  /\ up \in BOOLEAN
  /\ JobType

\* The block log holds the path of the state's head up to the newest block
\* without undo session, which was the last to be announced.
Logged ==
  /\ 1 <= committed
  /\ committed <= Num[head]
  /\ committed <= lib
  /\ Len(log) = committed
  /\ \A k \in 1 .. committed : log[k] = Path[head][k]
  /\ Len(notes) > 0
  /\ notes[Len(notes)] = committed

\* The blocks of the state that may have to be undone are linked.
Anchored == \A k \in committed .. Num[head] : Path[head][k] \in fdb.linked

\* The fork database is at the state's head, or above it, or nothing of the
\* state can be undone.
HeadsAgree ==
  /\ \/ fdb.head = head
     \/ Num[head] = committed
     \/ fdb.head # NoBlock /\ Num[fdb.head] > Num[head]
  /\ fdb.head # NoBlock /\ Num[fdb.head] > Num[head] => fdb.head \in fdb.linked

Modes ==
  /\ job.phase \notin {"pop", "apply", "unpop", "restore"} => job.mode = "extend"
  /\ job.phase \in {"pop", "unpop", "restore"} => job.mode = "switch"
  /\ job.phase = "confirmed" => job.from # <<>>
  /\ job.from # <<>> => job.from[1] <= lib

\* A push being linked.
Linking ==
  /\ job.phase = "link" => job.stack # <<>> /\ Range(job.stack) \subseteq fdb.linked
  /\ job.phase \in {"link", "decide"} => fdb.head # NoBlock

\* The blocks to apply are the next ones on top of the state.
Applying ==
  job.phase \in {"apply", "restore"} =>
    /\ job.todo # <<>>
    /\ Chain(job.todo, head)
    /\ Range(job.todo) \subseteq fdb.linked

\* The prev of a block to apply has not expired, unless it is the first of a
\* fork.
Reaching ==
  /\ job.phase = "pop" =>
       /\ job.todo # <<>>
       /\ Chain(job.todo, job.target)
       /\ Range(job.todo) \subseteq fdb.linked
  /\ job.phase \in {"pop", "apply"} =>
       \A i \in 1 .. Len(job.todo) : job.todo[i] \in fdb.orphan =>
         i = 1 /\ job.mode = "switch" /\ (job.phase = "apply" => Num[head] = job.common)

\* The branch a fork switch leaves can be restored.
Leaving ==
  (job.phase \in {"pop", "apply", "unpop"} /\ job.mode = "switch") =>
    /\ job.target \in Block
    /\ job.common = Num[job.target]
    /\ Chain(job.old, job.target)
    /\ \A i \in 1 .. Len(job.old) : Num[job.old[i]] >= lib => job.old[i] \in fdb.linked
    /\ Range(job.old) \cap Range(job.todo) = {}

\* On the way back to it the fork database is not above the state.
Returning ==
  job.phase = "unpop" => fdb.head # NoBlock /\ Num[fdb.head] <= Num[head]

Running ==
  /\ lib = committed
  /\ Anchored
  /\ HeadsAgree
  /\ job.mode = "extend" \/ job.phase = "pop" => Tidy(fdb)
  /\ Modes
  /\ Linking
  /\ Applying
  /\ Reaching
  /\ Leaving
  /\ Returning

IInv ==
  /\ Types
  /\ Logged
  /\ NoNotificationGap
  /\ up => Running
  /\ ~ up => job = Idle

------------------------------------------------------------------------------
(* What the operations of the fork database keep. *)

\* A fork database that has just been started holds one block.
LEMMA StartBlock ==
  ASSUME NEW b \in Block
  PROVE  /\ start_block(b) \in ForkDB
         /\ start_block(b).orphan \subseteq start_block(b).linked
         /\ IsFiniteSet(start_block(b).linked)
         /\ start_block(b).linked = {b}
         /\ start_block(b).head = b
         /\ Tidy(start_block(b))
<1>1. IsFiniteSet({b})
  BY FS_Singleton
<1> QED  BY <1>1, TreeAssumption DEF start_block, ForkDB, Tidy

\* Linking adds one block, and a head once there is one is never lost.
LEMMA LinkBlock ==
  ASSUME NEW f \in ForkDB, f.orphan \subseteq f.linked, IsFiniteSet(f.linked), Tidy(f),
         NEW b \in Block, f.head = NoBlock \/ b = Root \/ Prev[b] \in f.linked
  PROVE  LET g == link_block(f, b)
         IN  /\ g \in ForkDB /\ g.orphan \subseteq g.linked /\ IsFiniteSet(g.linked)
             /\ Tidy(g)
             /\ g.linked = f.linked \cup {b}
             /\ g.head = IF Num[b] > HeadNum(f) THEN b ELSE f.head
             /\ g.head # NoBlock
<1> DEFINE g == link_block(f, b)
<1>1. IsFiniteSet(f.linked \cup {b})
  BY FS_AddElement
<1> DEFINE l == f.linked \cup {b}
           o == IF f.head = NoBlock THEN f.orphan \cup {b} ELSE f.orphan
           h == IF Num[b] > HeadNum(f) THEN b ELSE f.head
<1>a. l \in SUBSET Block /\ o \in SUBSET Block /\ h \in Block \cup {NoBlock}
  BY DEF ForkDB
<1>b. g = [f EXCEPT !.linked = l, !.orphan = o, !.head = h]
  BY DEF link_block
<1> HIDE DEF g
<1>c. g \in ForkDB /\ g.linked = l /\ g.orphan = o /\ g.head = h
  <2> HIDE DEF l, o, h
  <2> QED  BY <1>a, <1>b DEF ForkDB
<1>2. /\ g.linked = f.linked \cup {b}
      /\ g.orphan = IF f.head = NoBlock THEN f.orphan \cup {b} ELSE f.orphan
      /\ g.head = IF Num[b] > HeadNum(f) THEN b ELSE f.head
  BY <1>c
<1>3. g \in ForkDB /\ g.orphan \subseteq g.linked
  BY <1>c
<1>4. Tidy(g)
  BY <1>2 DEF Tidy
<1>5. g.head # NoBlock
  BY <1>2, Numbers, TreeAssumption DEF HeadNum
<1> QED  BY <1>1, <1>2, <1>3, <1>4, <1>5 DEF g

\* What is freed changes no block, only which prev has expired.
LEMMA FreeKeeps ==
  ASSUME NEW f \in ForkDB, IsFiniteSet(f.linked)
  PROVE  LET g == Free(f)
         IN  /\ g \in ForkDB /\ g.orphan \subseteq g.linked /\ IsFiniteSet(g.linked)
             /\ Tidy(g)
             /\ g.linked = f.linked /\ g.head = f.head
             /\ \A b \in g.orphan : b \in f.orphan \/ (b # Root /\ Prev[b] \notin f.linked)
<1> DEFINE g == Free(f)
           o == {b \in f.linked : b \in f.orphan \/ (b # Root /\ Prev[b] \notin f.linked)}
<1>1. g = [linked |-> f.linked, unlinked |-> f.unlinked, orphan |-> o,
           head |-> f.head, max_size |-> f.max_size]
  BY DEF Free, ForkDB
<1>2. o \subseteq f.linked /\ o \subseteq Block
  BY DEF ForkDB
<1> HIDE DEF g
<1>3. g \in ForkDB
  BY <1>1, <1>2 DEF ForkDB
<1>4. Tidy(g)
  BY <1>1 DEF Tidy
<1> QED  BY <1>1, <1>2, <1>3, <1>4 DEF g

\* A removed branch takes no other block with it.
LEMMA RemoveKeeps ==
  ASSUME NEW f \in ForkDB, f.orphan \subseteq f.linked, IsFiniteSet(f.linked),
         f.head # NoBlock, NEW S
  PROVE  LET g == remove(f, S)
         IN  /\ g \in ForkDB /\ g.orphan \subseteq g.linked /\ IsFiniteSet(g.linked)
             /\ g.linked = f.linked \ S /\ g.orphan = f.orphan \ S
             /\ g.head = IF f.head \in S THEN prev(f, f.head) ELSE f.head
<1> DEFINE g == remove(f, S)
<1> DEFINE l == f.linked \ S
           o == f.orphan \ S
           h == IF f.head \in S THEN prev(f, f.head) ELSE f.head
<1>1. g = [f EXCEPT !.linked = l, !.orphan = o, !.head = h]
  BY DEF remove
<1>2. IsFiniteSet(l)
  BY FS_Subset
<1>3. f.head \in Block /\ prev(f, f.head) \in Block \cup {NoBlock}
  BY Numbers DEF prev, ForkDB
<1>4. l \in SUBSET Block /\ o \in SUBSET Block /\ h \in Block \cup {NoBlock}
  BY <1>3 DEF ForkDB
<1> HIDE DEF g
<1>5. g \in ForkDB /\ g.linked = l /\ g.orphan = o /\ g.head = h
  <2> HIDE DEF l, o, h
  <2> QED  BY <1>1, <1>4 DEF ForkDB
<1> QED  BY <1>2, <1>5 DEF g

\* The last s blocks below the head stay, on every fork.
LEMMA SetMaxSizeKeeps ==
  ASSUME NEW f \in ForkDB, f.orphan \subseteq f.linked, IsFiniteSet(f.linked), NEW s \in Nat
  PROVE  LET g == set_max_size(f, s)
         IN  /\ g \in ForkDB /\ g.orphan \subseteq g.linked /\ IsFiniteSet(g.linked)
             /\ g.linked = {b \in f.linked : Num[b] > Max0(HeadNum(f) - s)}
             /\ g.orphan \subseteq f.orphan
             /\ g.head = f.head
<1> DEFINE g == set_max_size(f, s)
           kept == {b \in Block : Num[b] > Max0(HeadNum(f) - s)}
           l == f.linked \cap kept
           u == f.unlinked \cap kept
           o == f.orphan \cap kept
<1>1. g = [f EXCEPT !.max_size = s, !.linked = l, !.orphan = o, !.unlinked = u]
  BY DEF set_max_size
<1>2. IsFiniteSet(f.linked \cap kept)
  BY FS_Subset
<1>3. f.linked \cap kept = {b \in f.linked : Num[b] > Max0(HeadNum(f) - s)}
  BY DEF ForkDB
<1> HIDE DEF kept, g
<1>4. l \in SUBSET Block /\ u \in SUBSET Block /\ o \in SUBSET Block
  BY DEF ForkDB
<1>5. g \in ForkDB /\ g.linked = l /\ g.orphan = o /\ g.head = f.head
  <2> HIDE DEF l, u, o
  <2> QED  BY <1>1, <1>4 DEF ForkDB
<1> QED  BY <1>2, <1>3, <1>5 DEF g

\* Only the head moves.
LEMMA SetHeadKeeps ==
  ASSUME NEW f \in ForkDB, NEW b \in Block
  PROVE  LET g == set_head(f, b)
         IN  /\ g \in ForkDB
             /\ g.linked = f.linked /\ g.orphan = f.orphan /\ g.head = b
  BY DEF set_head, ForkDB

\* No request is being served.
LEMMA IdleType ==
  /\ Idle.phase = "idle" /\ Idle.stack = <<>> /\ Idle.todo = <<>> /\ Idle.old = <<>>
  /\ Idle.target = NoBlock /\ Idle.mode = "extend" /\ Idle.orig = 0 /\ Idle.common = 0
  /\ Idle.from = <<>> /\ Idle.block = NoBlock
  BY DEF Idle

------------------------------------------------------------------------------
(* Steps shared by several actions. *)

\* An entry behind the end of a list is an entry of what is put behind it.
LEMMA ConcatAt ==
  ASSUME NEW s \in Seq(Nat), NEW t \in Seq(Nat), NEW k \in (Len(s) + 1) .. (Len(s) + Len(t))
  PROVE  (s \o t)[k] = t[k - Len(s)]
OBVIOUS

\* Moving what became irreversible to the block log: the log follows the path
\* of the head h, and what is announced leaves no gap.
LEMMA Migrate ==
  ASSUME Types, Logged, NoNotificationGap,
         NEW f \in ForkDB, IsFiniteSet(f.linked), NEW h \in Block,
         NEW n \in Nat, committed <= n, n <= Num[h],
         NEW old \in Nat, old <= committed,
         \A k \in 1 .. committed : Path[h][k] = Path[head][k],
         n > committed => f.head = h /\ \A k \in committed .. Num[h] : Path[h][k] \in f.linked,
         Storable(f, h, n),
         migrate_irreversible_state(f, old, n)
  PROVE  /\ log' \in Seq(Block) /\ Len(log') = n
         /\ \A k \in 1 .. n : log'[k] = Path[h][k]
         /\ committed' = n
         /\ notes' \in Seq(Nat) /\ Len(notes') > 0 /\ notes'[Len(notes')] = n
         /\ NoNotificationGap'
<1>1. /\ committed \in Nat /\ log \in Seq(Block) /\ Len(log) = committed
      /\ notes \in Seq(Nat) /\ Len(notes) > 0 /\ notes[Len(notes)] = committed
      /\ \A k \in 1 .. committed : log[k] = Path[head][k]
  BY DEF Types, Logged
<1>2. Num[h] \in Nat
  BY Numbers
<1> DEFINE add == [k \in 1 .. (n - Len(log)) |->
                     fetch_block_on_main_branch_by_number(f, Len(log) + k)]
           ann == [k \in 1 .. (n - old) |-> old + k]
<1>3. log' = log \o add /\ committed' = Higher(committed, n) /\ notes' = notes \o ann
  BY DEF migrate_irreversible_state, Stored
<1>4. ASSUME NEW k \in 1 .. (n - committed)
      PROVE  fetch_block_on_main_branch_by_number(f, committed + k) = Path[h][committed + k]
  <2>1. n > committed /\ committed + k \in (Len(log) + 1) .. n
        /\ committed + k \in 1 .. Num[h] /\ committed + k \in committed .. Num[h]
    BY <1>1, <1>2
  <2>2. fetch_block_on_main_branch_by_number(f, committed + k) # NoBlock
    BY <2>1 DEF Storable
  <2>3. f.head = h /\ Path[f.head][committed + k] \in f.linked
        /\ f.head # NoBlock /\ committed + k \in 1 .. Num[f.head]
    BY <2>1, TreeAssumption
  <2>4. fetch_block_on_main_branch_by_number(f, committed + k)
          \in {NoBlock, Path[f.head][committed + k]}
    BY <2>3, FetchOnBranch
  <2> QED  BY <2>2, <2>3, <2>4
<1>5. add = [k \in 1 .. (n - committed) |-> Path[h][committed + k]]
  BY <1>1, <1>4
<1> HIDE DEF add
<1>6. add \in Seq(Block) /\ Len(add) = n - committed
      /\ \A k \in 1 .. (n - committed) : add[k] = Path[h][committed + k]
  <2>1. \A k \in 1 .. (n - committed) : Path[h][committed + k] \in Block
    <3> TAKE k \in 1 .. (n - committed)
    <3>1. committed + k \in 1 .. Num[h]
      BY <1>1, <1>2
    <3> QED  BY <3>1, PathOn
  <2>2. n - committed \in Nat
    BY <1>1
  <2> QED  BY <1>5, <2>1, <2>2
<1>7. log' \in Seq(Block) /\ Len(log') = n
  <2>1. log \o add \in Seq(Block) /\ Len(log \o add) = Len(log) + Len(add)
    BY <1>1, <1>6, ConcatProperties
  <2> QED  BY <1>1, <1>3, <1>6, <2>1
<1>8. ASSUME NEW k \in 1 .. n PROVE log'[k] = Path[h][k]
  <2>1. CASE k <= committed
    <3>1. k \in 1 .. committed
      BY <1>1, <2>1
    <3>2. log'[k] = log[k]
      BY <1>1, <1>3, <1>6, <3>1
    <3> QED  BY <1>1, <3>1, <3>2
  <2>2. CASE k > committed
    <3>1. k - committed \in 1 .. (n - committed) /\ committed + (k - committed) = k
      BY <1>1, <2>2
    <3>2. log'[k] = add[k - committed]
      BY <1>1, <1>3, <1>6, <2>2, SMTT(60)
    <3> QED  BY <1>6, <3>1, <3>2
  <2> QED  BY <1>1, <2>1, <2>2
<1>9. committed' = n
  BY <1>1, <1>3 DEF Higher
<1>10. ann \in Seq(Nat) /\ Len(ann) = n - old /\ \A k \in 1 .. (n - old) : ann[k] = old + k
  <2>1. n - old \in Nat
    BY <1>1
  <2> QED  BY <2>1
<1> HIDE DEF ann
<1> DEFINE m == Len(notes)
           p == notes'
<1>11. /\ m \in Nat /\ m > 0
       /\ p \in Seq(Nat) /\ Len(p) = m + (n - old)
       /\ \A k \in 1 .. m : p[k] = notes[k]
       /\ \A k \in (m + 1) .. (m + (n - old)) : p[k] = old + (k - m)
  <2>1. p \in Seq(Nat) /\ Len(p) = m + (n - old)
    <3>1. notes \o ann \in Seq(Nat) /\ Len(notes \o ann) = Len(notes) + Len(ann)
      BY <1>1, <1>10, ConcatProperties
    <3> QED  BY <1>1, <1>3, <1>10, <3>1
  <2>2. \A k \in 1 .. m : p[k] = notes[k]
    BY <1>1, <1>3, <1>10
  <2>3. ASSUME NEW k \in (m + 1) .. (m + (n - old)) PROVE p[k] = old + (k - m)
    <3>1. k - m \in 1 .. (n - old)
      BY <1>1
    <3>2. k \in (Len(notes) + 1) .. (Len(notes) + Len(ann))
      BY <1>10, <2>3
    <3>3. (notes \o ann)[k] = ann[k - Len(notes)]
      BY <1>1, <1>10, <3>2, ConcatAt
    <3>4. p[k] = ann[k - m]
      BY <1>3, <3>3
    <3> QED  BY <1>10, <3>1, <3>4
  <2> QED  BY <1>1, <2>1, <2>2, <2>3
<1>12. p[Len(p)] = n
  <2>1. CASE n = old
    BY <1>1, <1>11, <2>1
  <2>2. CASE n # old
    <3>1. Len(p) \in (m + 1) .. (m + (n - old)) /\ old + (Len(p) - m) = n
      BY <1>1, <1>11, <2>2
    <3> QED  BY <1>11, <3>1
  <2> QED  BY <2>1, <2>2
<1>13. NoNotificationGap'
  <2> SUFFICES ASSUME NEW k \in 1 .. (Len(p) - 1) PROVE p[k + 1] <= p[k] + 1
    BY DEF NoNotificationGap
  <2> HIDE DEF p
  <2>1. CASE k < m
    <3>1. p[k + 1] = notes[k + 1] /\ p[k] = notes[k] /\ k \in 1 .. (Len(notes) - 1)
      BY <1>11, <2>1 DEF m
    <3> QED  BY <3>1 DEF NoNotificationGap
  <2>2. CASE k = m
    <3>1. p[k] = committed
      BY <1>1, <1>11, <2>2 DEF m
    <3>2. p[k + 1] = old + 1
      BY <1>1, <1>11, <2>2
    <3> QED  BY <1>1, <3>1, <3>2
  <2>3. CASE k > m
    <3>1. k \in (m + 1) .. (m + (n - old)) /\ k + 1 \in (m + 1) .. (m + (n - old))
      BY <1>1, <1>11, <2>3, SMTT(60)
    <3>2. p[k] = old + (k - m) /\ p[k + 1] = old + ((k + 1) - m)
      BY <1>11, <3>1
    <3> QED  BY <1>11, <3>2
  <2> QED  BY <1>11, <2>1, <2>2, <2>3
<1>14. notes' \in Seq(Nat) /\ Len(notes') > 0 /\ notes'[Len(notes')] = n
  <2>1. p \in Seq(Nat) /\ Len(p) > 0 /\ p[Len(p)] = n
    <3> HIDE DEF p, m
    <3>1. Len(p) = m + (n - old) /\ n - old >= 0 /\ m \in Nat /\ n - old \in Nat
      BY <1>1, <1>11
    <3> QED  BY <1>11, <1>12, <3>1
  <2> QED  BY <2>1
<1> HIDE DEF p, m
<1> QED  BY <1>7, <1>8, <1>9, <1>13, <1>14

\* The process ends; only the LIB may have moved.
LEMMA DownKeeps ==
  ASSUME IInv, Down, UNCHANGED <<head, committed, log, notes>>, lib' \in Nat, lib' >= lib
  PROVE  IInv'
<1>1. Root \in Block
  BY TreeAssumption
<1>2. /\ up' = FALSE /\ job' = Idle /\ fdb' = start_block(Root) /\ approvals' = NoApprovals
  BY DEF Down
<1>3. JobType'
  BY <1>2 DEF JobType, Idle
<1>4. NoApprovals \in Approvals
  BY DEF NoApprovals, Approvals
<1>5. Types'
  BY <1>1, <1>2, <1>3, <1>4, StartBlock DEF IInv, Types
<1>6. Logged'
  <2>1. lib \in Nat /\ committed \in Nat
    BY DEF IInv, Types
  <2> QED  BY <2>1 DEF IInv, Logged
<1>7. NoNotificationGap'
  BY DEF IInv, NoNotificationGap
<1> QED  BY <1>2, <1>5, <1>6, <1>7 DEF IInv

\* A request that applies and undoes nothing at the moment.
LEMMA Quiet ==
  ASSUME Types', Logged', NoNotificationGap', up',
         lib' = committed', Anchored', HeadsAgree', Tidy(fdb'), Linking',
         job'.phase \in {"idle", "link", "decide", "approved", "confirmed"},
         job'.mode = "extend",
         job'.phase = "confirmed" => job'.from # <<>>,
         job'.from # <<>> => job'.from[1] <= lib'
  PROVE  IInv'
<1>1. Modes'
  BY DEF Modes
<1>2. Applying'
  BY DEF Applying
<1>3. Reaching'
  BY DEF Reaching
<1>4. Leaving'
  BY DEF Leaving
<1>5. Returning'
  BY DEF Returning
<1>6. Running'
  BY <1>1, <1>2, <1>3, <1>4, <1>5 DEF Running
<1> QED  BY <1>6 DEF IInv

\* A request rests between two of its parts or is over.
LEMMA Resting ==
  ASSUME Types', Logged', NoNotificationGap', up',
         lib' = committed', Anchored', HeadsAgree', Tidy(fdb'),
         job'.phase \in {"idle", "approved", "confirmed"}, job'.mode = "extend",
         job'.phase = "confirmed" => job'.from # <<>>,
         job'.from # <<>> => job'.from[1] <= lib'
  PROVE  IInv'
<1>1. Linking'
  BY DEF Linking
<1> QED  BY <1>1, Quiet

\* What a step that leaves the state alone keeps.
LEMMA KeptState ==
  ASSUME IInv, StateKept
  PROVE  /\ head' = head /\ committed' = committed /\ lib' = lib /\ log' = log /\ notes' = notes
         /\ Logged' /\ NoNotificationGap'
  BY DEF IInv, StateKept, Logged, NoNotificationGap

\* What the job is after its last step.
LEMMA EndedType ==
  ASSUME JobType, Modes, NEW thrown \in BOOLEAN, lib \in Nat,
         job' = Ended(thrown), lib' \in Nat, lib <= lib'
  PROVE  /\ JobType'
         /\ job'.phase \in {"idle", "confirmed"} /\ job'.mode = "extend"
         /\ job'.phase = "confirmed" => job'.from # <<>>
         /\ job'.from # <<>> => job'.from[1] <= lib'
<1>1. CASE job.from = <<>>
  <2>1. job' = Idle
    BY <1>1 DEF Ended
  <2> QED  BY <2>1 DEF JobType, Idle
<1>2. CASE job.from # <<>>
  <2> DEFINE t == <<job.from[1], IF thrown THEN 0 ELSE job.from[2]>>
  <2>1. job.from \in Nat \X Nat
    BY <1>2 DEF JobType
  <2>2. t \in Nat \X Nat /\ t[1] = job.from[1] /\ t # <<>>
    BY <2>1
  <2>3. job' = [Idle EXCEPT !.phase = "confirmed", !.from = t]
    BY <1>2 DEF Ended
  <2> HIDE DEF t
  <2>4. job' = [phase |-> "confirmed", stack |-> <<>>, todo |-> <<>>, old |-> <<>>,
                target |-> NoBlock, mode |-> "extend", orig |-> 0, common |-> 0,
                from |-> t, block |-> NoBlock]
    BY <2>3 DEF Idle
  <2>5. JobType' /\ job'.phase = "confirmed" /\ job'.mode = "extend" /\ job'.from = t
    <3>1. <<>> \in Seq(Block)
      OBVIOUS
    <3> QED  BY <2>2, <2>4, <3>1 DEF JobType
  <2>6. t[1] <= lib /\ t[1] \in Nat
    BY <1>2, <2>1, <2>2 DEF Modes
  <2>7. t[1] <= lib'
    BY <2>6
  <2> QED  BY <2>2, <2>5, <2>7
<1> QED  BY <1>1, <1>2

------------------------------------------------------------------------------
(* The steps of a push. *)

\* A node that holds nothing but the first block.
LEMMA InitInv == Init => IInv
<1> SUFFICES ASSUME Init PROVE IInv
  OBVIOUS
<1>1. Root \in Block /\ Num[Root] = 1
  BY TreeAssumption
<1>2. Path[Root] \in Seq(Block) /\ Path[Root][1] = Root
  BY <1>1, PathIsPath DEF IsPath
<1>3. JobType
  BY DEF Init, JobType, Idle
<1>4. NoApprovals \in Approvals
  BY DEF NoApprovals, Approvals
<1>5. Types
  BY <1>1, <1>3, <1>4, StartBlock DEF Init, Types
<1>6. Logged
  <2>1. \A k \in 1 .. 1 : k = 1
    OBVIOUS
  <2> QED  BY <1>1, <1>2, <2>1 DEF Init, Logged
<1>7. NoNotificationGap
  BY DEF Init, NoNotificationGap
<1>8. Anchored
  <2>1. fdb.linked = {Root}
    BY <1>1, StartBlock DEF Init
  <2>2. \A k \in 1 .. 1 : k = 1
    OBVIOUS
  <2> QED  BY <1>1, <1>2, <2>1, <2>2 DEF Init, Anchored
<1>9. HeadsAgree
  BY <1>1, StartBlock DEF Init, HeadsAgree
<1>10. Tidy(fdb)
  BY <1>1, StartBlock DEF Init
<1>11. job.phase = "idle" /\ job.mode = "extend" /\ job.from = <<>>
  BY IdleType DEF Init
<1>12. Modes /\ Linking /\ Applying /\ Reaching /\ Leaving /\ Returning
  BY <1>11 DEF Modes, Linking, Applying, Reaching, Leaving, Returning
<1>13. Running
  BY <1>8, <1>9, <1>10, <1>12 DEF Init, Running
<1> QED  BY <1>5, <1>6, <1>7, <1>13 DEF Init, IInv

\* A block is linked.
LEMMA LinkStep ==
  ASSUME IInv, up, Tidy(fdb), StateKept, UNCHANGED <<approvals, up>>,
         NEW f \in ForkDB, f.linked = fdb.linked, f.orphan = fdb.orphan, f.head = fdb.head,
         NEW b \in Block, f.head = NoBlock \/ b = Root \/ Prev[b] \in f.linked,
         fdb' = link_block(f, b),
         JobType', job'.phase = "link", job'.mode = "extend",
         job'.from # <<>> => job'.from[1] <= lib,
         job'.stack # <<>>, Range(job'.stack) \subseteq fdb.linked \cup {b}
  PROVE  IInv'
<1>1. Types /\ Running
  BY DEF IInv
<1>2. /\ fdb.orphan \subseteq fdb.linked /\ IsFiniteSet(fdb.linked) /\ fdb \in ForkDB
      /\ head \in Block /\ Num[head] \in Nat /\ committed \in Nat
  BY <1>1, Numbers DEF Types
<1>3. Tidy(f)
  BY DEF Tidy
<1>4. /\ fdb' \in ForkDB /\ (fdb.orphan \subseteq fdb.linked)' /\ IsFiniteSet(fdb'.linked)
      /\ Tidy(fdb')
      /\ fdb'.linked = fdb.linked \cup {b}
      /\ fdb'.head = IF Num[b] > HeadNum(f) THEN b ELSE fdb.head
      /\ fdb'.head # NoBlock
  BY <1>2, <1>3, LinkBlock
<1>5. /\ head' = head /\ committed' = committed /\ lib' = lib /\ log' = log /\ notes' = notes
      /\ Logged' /\ NoNotificationGap'
  BY KeptState
<1>6. Types'
  BY <1>1, <1>4, <1>5 DEF Types
<1>7. Anchored'
  BY <1>1, <1>4, <1>5 DEF Running, Anchored
<1>8. HeadsAgree'
  <2>1. Num[b] \in Nat /\ Num[b] >= 1
    BY Numbers
  <2>2. fdb.head # NoBlock => fdb.head \in Block /\ Num[fdb.head] \in Nat
    BY <1>2, Numbers DEF ForkDB
  <2>3. HeadsAgree
    BY <1>1 DEF Running
  <2>4. HeadNum(f) = IF fdb.head = NoBlock THEN 0 ELSE Num[fdb.head]
    BY DEF HeadNum
  <2>5. CASE Num[b] > HeadNum(f)
    <3>1. fdb'.head = b /\ b \in fdb'.linked /\ b # NoBlock
      BY <1>4, <2>5, TreeAssumption
    <3>2. Num[b] > Num[head] \/ Num[head] = committed
      <4>1. CASE fdb.head = head
        BY <1>2, <2>4, <2>5, <4>1, TreeAssumption
      <4>2. CASE fdb.head # NoBlock /\ Num[fdb.head] > Num[head]
        BY <1>2, <2>1, <2>2, <2>4, <2>5, <4>2
      <4> QED  BY <2>3, <4>1, <4>2 DEF HeadsAgree
    <3> QED  BY <1>5, <3>1, <3>2 DEF HeadsAgree
  <2>6. CASE ~ (Num[b] > HeadNum(f))
    BY <1>4, <1>5, <2>3, <2>6 DEF HeadsAgree
  <2> QED  BY <2>5, <2>6
<1>9. Linking'
  BY <1>4 DEF Linking
<1>10. lib' = committed' /\ up'
  BY <1>1, <1>5 DEF Running
<1> QED  BY <1>4, <1>5, <1>6, <1>7, <1>8, <1>9, <1>10, Quiet

\* A block from the network is refused, waits or is linked.
LEMMA PushBlock ==
  ASSUME IInv, NEW b \in Block \ {Root}, push_block(b)
  PROVE  IInv'
<1>1. up /\ job.phase = "idle" /\ StateKept /\ UNCHANGED <<approvals, up>>
  BY DEF push_block
<1>2. Types /\ Running
  BY <1>1 DEF IInv
<1>3. Tidy(fdb)
  BY <1>1, <1>2 DEF Running, Modes
<1>4. fdb \in ForkDB
  BY <1>2 DEF Types
<1>5. CASE Links(fdb, b)
  <2>1. fdb' = link_block(fdb, b)
    BY <1>5 DEF push_block
  <2>2. job' = [Idle EXCEPT !.phase = "link", !.stack = <<b>>, !.block = b]
    BY <1>5 DEF push_block
  <2>3. job' = [phase |-> "link", stack |-> <<b>>, todo |-> <<>>, old |-> <<>>,
                target |-> NoBlock, mode |-> "extend", orig |-> 0, common |-> 0,
                from |-> <<>>, block |-> b]
    BY <2>2 DEF Idle
  <2>4. <<b>> \in Seq(Block) /\ <<b>> # <<>> /\ Range(<<b>>) \subseteq fdb.linked \cup {b}
    BY DEF Range
  <2>5. /\ JobType' /\ job'.phase = "link" /\ job'.mode = "extend" /\ job'.from = <<>>
        /\ job'.stack = <<b>>
    BY <2>3, <2>4 DEF JobType
  <2>6. fdb.head = NoBlock \/ b = Root \/ Prev[b] \in fdb.linked
    BY <1>5 DEF Links
  <2> QED  BY <1>1, <1>3, <1>4, <2>1, <2>4, <2>5, <2>6, LinkStep
<1>6. CASE ~ Links(fdb, b)
  <2>1. fdb' = [fdb EXCEPT !.unlinked = fdb.unlinked \cup {b}] /\ job' = Idle
    BY <1>6 DEF push_block
  <2>2. /\ fdb' \in ForkDB /\ fdb'.linked = fdb.linked /\ fdb'.orphan = fdb.orphan
        /\ fdb'.head = fdb.head
    BY <1>4, <2>1 DEF ForkDB
  <2>3. /\ head' = head /\ committed' = committed /\ lib' = lib /\ log' = log /\ notes' = notes
        /\ Logged' /\ NoNotificationGap'
    BY <1>1, KeptState
  <2>4. JobType'
    BY <2>1 DEF JobType, Idle
  <2>5. Types'
    BY <1>1, <1>2, <2>2, <2>3, <2>4 DEF Types
  <2>6. Anchored' /\ HeadsAgree'
    BY <1>2, <2>2, <2>3 DEF Running, Anchored, HeadsAgree
  <2>7. Tidy(fdb')
    BY <1>3, <2>2 DEF Tidy
  <2>8. lib' = committed' /\ up'
    BY <1>1, <1>2, <2>3 DEF Running
  <2> QED  BY <2>1, <2>3, <2>5, <2>6, <2>7, <2>8, IdleType, Resting
<1> QED  BY <1>5, <1>6

\* The blocks that waited for it are linked or dropped.
LEMMA PushNext ==
  ASSUME IInv, push_next
  PROVE  IInv'
<1>1. up /\ job.phase = "link" /\ StateKept /\ UNCHANGED <<approvals, up>>
  BY DEF push_next
<1>2. Types /\ Running /\ JobType /\ job.mode = "extend"
  BY <1>1 DEF IInv, Types, Running, Modes
<1>3. Tidy(fdb) /\ fdb \in ForkDB
  BY <1>2 DEF Running, Types
<1>4. /\ job.stack \in Seq(Block) /\ job.stack # <<>> /\ Range(job.stack) \subseteq fdb.linked
      /\ fdb.head # NoBlock
  BY <1>1, <1>2 DEF JobType, Running, Linking
<1>5. job.from # <<>> => job.from[1] <= lib
  BY <1>2 DEF Running, Modes
<1>6. /\ head' = head /\ committed' = committed /\ lib' = lib /\ log' = log /\ notes' = notes
      /\ Logged' /\ NoNotificationGap'
  BY <1>1, KeptState
<1> DEFINE s == job.stack
<1>7. /\ Len(s) \in Nat /\ Len(s) >= 1 /\ Last(s) = s[Len(s)]
      /\ Last(s) \in Block /\ Last(s) \in fdb.linked
  <2>1. Len(s) \in 1 .. Len(s)
    BY <1>4
  <2>2. s[Len(s)] \in Range(s) /\ s[Len(s)] \in Block
    BY <1>4, <2>1 DEF Range
  <2> QED  BY <1>4, <2>1, <2>2 DEF Last
<1>8. ASSUME fdb' \in ForkDB, fdb'.linked = fdb.linked, fdb'.orphan = fdb.orphan,
             fdb'.head = fdb.head, JobType', job'.mode = "extend", job'.from = job.from,
             job'.phase \in {"link", "decide"}, Linking'
      PROVE  IInv'
  <2>1. Types'
    BY <1>1, <1>2, <1>6, <1>8 DEF Types
  <2>2. Anchored' /\ HeadsAgree'
    BY <1>2, <1>6, <1>8 DEF Running, Anchored, HeadsAgree
  <2>3. Tidy(fdb')
    BY <1>3, <1>8 DEF Tidy
  <2>4. lib' = committed' /\ up'
    BY <1>1, <1>2, <1>6 DEF Running
  <2> QED  BY <1>5, <1>6, <1>8, <2>1, <2>2, <2>3, <2>4, Quiet
<1>9. CASE fdb' = fdb /\ job' = IF Len(s) = 1
                      THEN [job EXCEPT !.phase = "decide", !.stack = <<>>]
                      ELSE [job EXCEPT !.stack = Front(job.stack)]
  <2>1. CASE Len(s) = 1
    <3>1. job' = [job EXCEPT !.phase = "decide", !.stack = <<>>]
      BY <1>9, <2>1
    <3>2. <<>> \in Seq(Block)
      OBVIOUS
    <3>3. JobType' /\ job'.phase = "decide" /\ job'.mode = "extend" /\ job'.from = job.from
      BY <1>2, <3>1, <3>2 DEF JobType
    <3>4. Linking'
      BY <1>4, <1>9, <3>3 DEF Linking
    <3> QED  BY <1>3, <1>8, <1>9, <3>3, <3>4
  <2>2. CASE Len(s) # 1
    <3> DEFINE t == Front(s)
    <3>1. /\ t \in Seq(Block) /\ Len(t) = Len(s) - 1 /\ t # <<>>
          /\ \A i \in 1 .. Len(t) : t[i] = s[i]
      <4> DEFINE n == Len(s) - 1
      <4> DEFINE l == Len(s)
      <4>0. l \in Nat /\ l >= 1 /\ l # 1 /\ n = l - 1
        BY <1>7, <2>2
      <4>1. n \in Nat /\ n >= 1 /\ n <= Len(s) /\ s \in Seq(Block)
        <5> HIDE DEF l, n
        <5>1. n \in Nat /\ n >= 1 /\ n <= l
          BY <4>0
        <5> QED  BY <1>4, <5>1 DEF l
      <4>2. t = SubSeq(s, 1, n)
        BY DEF Front
      <4> HIDE DEF n, t, s
      <4>3. t \in Seq(Block) /\ Len(t) = n /\ \A i \in 1 .. n : t[i] = s[i]
        BY <4>1, <4>2
      <4>4. t # <<>>
        BY <4>1, <4>3
      <4> QED  BY <4>3, <4>4 DEF n
    <3>2. job' = [job EXCEPT !.stack = t]
      BY <1>9, <2>2
    <3> HIDE DEF t
    <3>3. /\ JobType' /\ job'.phase = "link" /\ job'.mode = "extend" /\ job'.from = job.from
          /\ job'.stack = t
      BY <1>1, <1>2, <3>1, <3>2 DEF JobType
    <3>4. Range(t) \subseteq fdb.linked
      <4> SUFFICES ASSUME NEW i \in 1 .. Len(t) PROVE t[i] \in fdb.linked
        BY <3>1 DEF Range
      <4>1. i \in 1 .. Len(s)
        BY <1>7, <3>1
      <4>2. s[i] \in Range(s)
        BY <1>4, <4>1 DEF Range
      <4> QED  BY <1>4, <3>1, <4>2
    <3>5. Linking'
      BY <1>4, <1>9, <3>1, <3>3, <3>4 DEF Linking
    <3> QED  BY <1>3, <1>8, <1>9, <3>3, <3>5
  <2> QED  BY <2>1, <2>2
<1>10. ASSUME NEW u \in Waiting(fdb, Last(s)),
              LET f == [fdb EXCEPT !.unlinked = fdb.unlinked \ {u}]
              IN  IF TooOld(f, u) THEN fdb' = f /\ job' = job
                  ELSE /\ fdb' = link_block(f, u)
                       /\ job' = [job EXCEPT !.stack = Append(job.stack, u)]
       PROVE  IInv'
  <2> DEFINE f == [fdb EXCEPT !.unlinked = fdb.unlinked \ {u}]
  <2>1. /\ f \in ForkDB /\ f.linked = fdb.linked /\ f.orphan = fdb.orphan
        /\ f.head = fdb.head
    BY <1>3 DEF ForkDB
  <2>2. u \in Block /\ u # Root /\ Prev[u] \in fdb.linked
    BY <1>3, <1>7 DEF Waiting, ForkDB
  <2>3. IF TooOld(f, u) THEN fdb' = f /\ job' = job
        ELSE fdb' = link_block(f, u) /\ job' = [job EXCEPT !.stack = Append(job.stack, u)]
    BY <1>10
  <2> HIDE DEF f
  <2>4. CASE TooOld(f, u)
    <3>1. fdb' = f /\ job' = job
      BY <2>3, <2>4
    <3>2. Linking'
      BY <1>1, <1>4, <2>1, <3>1 DEF Linking
    <3>3. JobType'
      BY <1>2, <3>1 DEF JobType
    <3> QED  BY <1>1, <1>2, <1>8, <2>1, <3>1, <3>2, <3>3
  <2>5. CASE ~ TooOld(f, u)
    <3> DEFINE t == Append(s, u)
    <3>1. fdb' = link_block(f, u) /\ job' = [job EXCEPT !.stack = t]
      BY <2>3, <2>5
    <3>2. /\ t \in Seq(Block) /\ t # <<>> /\ Len(t) = Len(s) + 1
          /\ \A i \in 1 .. Len(s) : t[i] = s[i]
          /\ t[Len(s) + 1] = u
      BY <1>4, <2>2, AppendProperties
    <3> HIDE DEF t
    <3>3. /\ JobType' /\ job'.phase = "link" /\ job'.mode = "extend" /\ job'.from = job.from
          /\ job'.stack = t
      BY <1>1, <1>2, <3>1, <3>2 DEF JobType
    <3>4. Range(t) \subseteq fdb.linked \cup {u}
      <4> SUFFICES ASSUME NEW i \in 1 .. Len(t) PROVE t[i] \in fdb.linked \cup {u}
        BY <3>2 DEF Range
      <4>1. CASE i \in 1 .. Len(s)
        <5>1. s[i] \in Range(s)
          BY <1>4, <4>1 DEF Range
        <5> QED  BY <1>4, <3>2, <4>1, <5>1
      <4>2. CASE i \notin 1 .. Len(s)
        <5>1. i = Len(s) + 1
          BY <1>7, <3>2, <4>2
        <5> QED  BY <3>2, <5>1
      <4> QED  BY <4>1, <4>2
    <3> QED  BY <1>1, <1>3, <1>5, <2>1, <2>2, <3>1, <3>2, <3>3, <3>4, LinkStep
  <2> QED  BY <2>4, <2>5
<1> QED  BY <1>9, <1>10 DEF push_next

\* A fork switch starts, or cannot.
LEMMA SwitchForks ==
  ASSUME IInv, up, Tidy(fdb), StateKept,
         NEW to \in Block, Num[to] >= Num[head],
         NEW from \in {<<>>} \cup (Nat \X Nat), from # <<>> => from[1] <= lib,
         switch_forks(to, from)
  PROVE  IInv'
<1>1. Types /\ Running /\ JobType
  BY DEF IInv, Types
<1>2. /\ fdb \in ForkDB /\ head \in Block /\ Num[head] \in Nat /\ Num[to] \in Nat
      /\ committed \in Nat /\ lib \in Nat /\ lib = committed
  BY <1>1, Numbers DEF Types, Running
<1>3. /\ head' = head /\ committed' = committed /\ lib' = lib /\ log' = log /\ notes' = notes
      /\ Logged' /\ NoNotificationGap'
  BY KeptState
<1>4. CASE to = head
  <2>1. Down
    BY <1>4 DEF switch_forks
  <2> QED  BY <1>2, <1>3, <2>1, DownKeeps
<1>5. ASSUME to # head, fdb' = fdb, approvals' = approvals, up' = up
      PROVE  /\ JobType' => Types'
             /\ Anchored' /\ HeadsAgree' /\ Tidy(fdb') /\ up' /\ lib' = committed'
  BY <1>1, <1>2, <1>3, <1>5 DEF Types, Running, Anchored, HeadsAgree
<1>6. CASE to # head /\ ~ BranchesExist(fdb, to, head)
  <2>1. /\ fdb' = fdb /\ approvals' = approvals /\ up' = up
        /\ job' = IF from = <<>> THEN Idle
                  ELSE [Idle EXCEPT !.phase = "confirmed", !.from = <<from[1], 0>>]
    BY <1>6 DEF switch_forks
  <2>2. /\ JobType' /\ job'.phase \in {"idle", "confirmed"} /\ job'.mode = "extend"
        /\ job'.phase = "confirmed" => job'.from # <<>>
        /\ job'.from # <<>> => job'.from[1] <= lib
    <3>1. CASE from = <<>>
      BY <2>1, <3>1 DEF JobType, Idle
    <3>2. CASE from # <<>>
      <4> DEFINE t == <<from[1], 0>>
      <4>1. t \in Nat \X Nat /\ t # <<>> /\ t[1] = from[1]
        BY <3>2
      <4>2. job' = [Idle EXCEPT !.phase = "confirmed", !.from = t]
        BY <2>1, <3>2
      <4> HIDE DEF t
      <4>3. job' = [phase |-> "confirmed", stack |-> <<>>, todo |-> <<>>, old |-> <<>>,
                    target |-> NoBlock, mode |-> "extend", orig |-> 0, common |-> 0,
                    from |-> t, block |-> NoBlock]
        BY <4>2 DEF Idle
      <4>4. <<>> \in Seq(Block)
        OBVIOUS
      <4>5. JobType' /\ job'.phase = "confirmed" /\ job'.mode = "extend" /\ job'.from = t
        BY <4>1, <4>3, <4>4 DEF JobType
      <4> QED  BY <3>2, <4>1, <4>5
    <3> QED  BY <3>1, <3>2
  <2> QED  BY <1>3, <1>5, <1>6, <2>1, <2>2, Resting
<1>7. CASE to # head /\ BranchesExist(fdb, to, head)
  <2> DEFINE m == Common(to, head)
             s == Branch(to, head)
             o == Branch(head, to)
             t == Path[to][m]
  <2>1. /\ m \in 1 .. Num[to] /\ m <= Num[head]
        /\ t \in Block /\ Num[t] = m
        /\ s \in Seq(Block) /\ o \in Seq(Block)
        /\ Chain(s, t) /\ Chain(o, t)
        /\ Len(s) = Num[to] - m /\ Len(o) = Num[head] - m
        /\ \A i \in 1 .. Len(s) : s[i] = Path[to][m + i]
        /\ \A i \in 1 .. Len(o) : o[i] = Path[head][m + i]
        /\ Range(o) \cap Range(s) = {}
        /\ s # <<>>
    BY <1>2, <1>7, Branches
  <2>2. /\ fdb' = fdb /\ approvals' = approvals /\ up' = up
        /\ job' = [phase |-> "pop", stack |-> <<>>, todo |-> s, old |-> o, target |-> t,
                   mode |-> "switch", orig |-> Num[head], common |-> m,
                   from |-> from, block |-> job.block]
    BY <1>7 DEF switch_forks
  <2>3. \A n \in 1 .. Num[to] : n > m + 1 => Path[to][n] \notin fdb.orphan
    BY <1>7 DEF BranchesExist, Followed
  <2>4. to \in fdb.linked
    BY <1>7 DEF BranchesExist
  <2> HIDE DEF m, s, o, t
  <2>5. JobType'
    <3>1. <<>> \in Seq(Block) /\ job.block \in Block \cup {NoBlock} /\ m \in Nat
      BY <1>1, <2>1 DEF JobType
    <3> QED  BY <1>2, <2>1, <2>2, <3>1 DEF JobType
  <2>6. /\ job'.phase = "pop" /\ job'.todo = s /\ job'.old = o /\ job'.target = t
        /\ job'.mode = "switch" /\ job'.common = m /\ job'.from = from
    BY <2>2
  <2>7. Len(s) \in Nat /\ Len(s) >= 1 /\ m + 1 \in 1 .. Num[to] /\ m \in Nat
    BY <1>2, <2>1
  <2>8. \A k \in (m + 1) .. Num[to] : Path[to][k] \in fdb.linked
    <3>1. \A k \in ((m + 1) + 1) .. Num[to] : Path[to][k] \notin fdb.orphan
      BY <1>2, <2>3, <2>7
    <3> QED  BY <1>2, <2>4, <2>7, <3>1, BackLinked
  <2>9. Range(s) \subseteq fdb.linked
    <3> SUFFICES ASSUME NEW i \in 1 .. Len(s) PROVE s[i] \in fdb.linked
      BY <2>1 DEF Range
    <3>1. m + i \in (m + 1) .. Num[to]
      BY <1>2, <2>1, <2>7
    <3> QED  BY <2>1, <2>8, <3>1
  <2>10. ASSUME NEW i \in 1 .. Len(s), s[i] \in fdb.orphan PROVE i = 1
    <3>1. m + i \in 1 .. Num[to]
      BY <1>2, <2>1, <2>7
    <3>2. ~ (m + i > m + 1)
      BY <2>1, <2>3, <2>10, <3>1
    <3> QED  BY <2>7, <3>2
  <2>11. ASSUME NEW i \in 1 .. Len(o), Num[o[i]] >= lib PROVE o[i] \in fdb.linked
    <3>1. Num[o[i]] = m + i
      BY <2>1, <2>11 DEF Chain
    <3>2. m + i \in committed .. Num[head]
      BY <1>2, <2>1, <2>7, <2>11, <3>1, SMTT(60)
    <3> QED  BY <1>1, <2>1, <3>2 DEF Running, Anchored
  <2>12. Modes'
    BY <1>3, <2>6 DEF Modes
  <2>13. Linking' /\ Applying' /\ Returning'
    BY <2>6 DEF Linking, Applying, Returning
  <2>14. Reaching'
    BY <2>1, <2>2, <2>6, <2>9, <2>10 DEF Reaching
  <2>15. Leaving'
    BY <1>3, <2>1, <2>2, <2>6, <2>11 DEF Leaving
  <2>16. Running'
    BY <1>5, <1>7, <2>2, <2>12, <2>13, <2>14, <2>15 DEF Running
  <2> QED  BY <1>3, <1>5, <1>7, <2>2, <2>5, <2>16 DEF IInv
<1> QED  BY <1>4, <1>6, <1>7

\* The end of a push: nothing, blocks on top of the state, or another fork.
LEMMA ExtendOrSwitch ==
  ASSUME IInv, extend_or_switch
  PROVE  IInv'
<1> DEFINE new == fdb.head
           above == SubSeq(Path[new], Num[head] + 1, Num[new])
<1>1. /\ up /\ job.phase = "decide" /\ StateKept
      /\ IF above = <<>>
         THEN job' = Idle /\ UNCHANGED <<fdb, approvals, up>>
         ELSE IF Range(above) \cap fdb.orphan # {} THEN Down
         ELSE IF Prev[above[1]] = head
         THEN /\ job' = [job EXCEPT !.phase  = "apply",
                                    !.todo   = above,
                                    !.orig   = Num[head],
                                    !.common = Num[head]]
              /\ UNCHANGED <<fdb, approvals, up>>
         ELSE switch_forks(new, <<>>)
  BY DEF extend_or_switch
<1>2. Types /\ Running /\ JobType /\ job.mode = "extend"
  BY <1>1 DEF IInv, Types, Running, Modes
<1>3. /\ fdb \in ForkDB /\ head \in Block /\ Num[head] \in Nat /\ Num[head] >= 1
      /\ committed \in Nat /\ lib \in Nat /\ lib = committed /\ Tidy(fdb)
  BY <1>2, Numbers DEF Types, Running
<1>4. new \in Block /\ Num[new] \in Nat
  <2>1. new # NoBlock
    BY <1>1, <1>2 DEF Running, Linking
  <2>2. new \in Block
    BY <1>3, <2>1 DEF ForkDB
  <2> QED  BY <2>2, Numbers
<1>5. /\ head' = head /\ committed' = committed /\ lib' = lib /\ log' = log /\ notes' = notes
      /\ Logged' /\ NoNotificationGap'
  BY <1>1, KeptState
<1>6. ASSUME fdb' = fdb, approvals' = approvals, up' = up
      PROVE  /\ JobType' => Types'
             /\ Anchored' /\ HeadsAgree' /\ Tidy(fdb') /\ up' /\ lib' = committed'
  BY <1>1, <1>2, <1>3, <1>5, <1>6 DEF Types, Running, Anchored, HeadsAgree
<1>7. CASE above = <<>>
  <2>1. fdb' = fdb /\ approvals' = approvals /\ up' = up /\ job' = Idle
    BY <1>1, <1>7
  <2>2. JobType'
    BY <2>1 DEF JobType, Idle
  <2> QED  BY <1>5, <1>6, <2>1, <2>2, IdleType, Resting
<1>8. CASE above # <<>>
  <2>1. Num[new] > Num[head]
    <3>1. Path[new] \in Seq(Block) /\ Len(Path[new]) = Num[new]
      BY <1>4, PathIsPath DEF IsPath
    <3>2. ASSUME Num[new] <= Num[head] PROVE above = <<>>
      BY <1>3, <1>4, <3>1, <3>2
    <3> QED  BY <1>3, <1>4, <1>8, <3>2
  <2>2. Num[head] \in 1 .. Num[new]
    BY <1>3, <1>4, <2>1
  <2>3. /\ above \in Seq(Block) /\ Len(above) = Num[new] - Num[head]
        /\ \A i \in 1 .. Len(above) : above[i] = Path[new][Num[head] + i]
        /\ Chain(above, Path[new][Num[head]])
    BY <1>4, <2>2, PathChain
  <2> HIDE DEF above
  <2>4. CASE Range(above) \cap fdb.orphan # {}
    <3>1. Down
      BY <1>1, <1>8, <2>4
    <3> QED  BY <1>3, <1>5, <3>1, DownKeeps
  <2>5. CASE Range(above) \cap fdb.orphan = {} /\ Prev[above[1]] = head
    <3>1. /\ fdb' = fdb /\ approvals' = approvals /\ up' = up
          /\ job' = [job EXCEPT !.phase  = "apply", !.todo   = above,
                                !.orig   = Num[head], !.common = Num[head]]
      BY <1>1, <1>8, <2>5
    <3>2. /\ JobType' /\ job'.phase = "apply" /\ job'.todo = above /\ job'.mode = "extend"
          /\ job'.from = job.from
      BY <1>2, <1>3, <2>3, <3>1 DEF JobType
    <3>3. 1 \in 1 .. Len(above) /\ Len(above) \in Nat
      BY <1>3, <1>4, <2>1, <2>3
    <3>4. Chain(above, head)
      <4>1. Prev[above[1]] = Path[new][Num[head]]
        BY <2>3, <3>3 DEF Chain
      <4> QED  BY <2>3, <2>5, <4>1
    <3>5. \A i \in 1 .. Len(above) : above[i] \notin fdb.orphan
      BY <2>3, <2>5 DEF Range
    <3>6. Range(above) \subseteq fdb.linked
      <4> DEFINE n == Num[head] + 1
      <4>1. n \in 1 .. Num[new] /\ n \in Nat
        BY <1>3, <1>4, <2>1
      <4>2. new \in fdb.linked
        BY <1>2, <1>4, <2>1, TreeAssumption DEF Running, HeadsAgree
      <4>3. ASSUME NEW k \in (n + 1) .. Num[new] PROVE Path[new][k] \notin fdb.orphan
        <5>1. k - Num[head] \in 1 .. Len(above) /\ Num[head] + (k - Num[head]) = k
          BY <1>3, <1>4, <2>3
        <5> QED  BY <2>3, <3>5, <5>1
      <4> HIDE DEF n
      <4>4. \A k \in n .. Num[new] : Path[new][k] \in fdb.linked
        BY <1>3, <4>1, <4>2, <4>3, BackLinked
      <4> SUFFICES ASSUME NEW i \in 1 .. Len(above) PROVE above[i] \in fdb.linked
        BY <2>3 DEF Range
      <4>5. Num[head] + i \in n .. Num[new]
        BY <1>3, <1>4, <2>3 DEF n
      <4> QED  BY <2>3, <4>4, <4>5
    <3>7. Modes'
      BY <1>2, <1>5, <3>2 DEF Running, Modes
    <3>8. Linking' /\ Returning' /\ Leaving'
      BY <3>2 DEF Linking, Returning, Leaving
    <3>9. Applying'
      BY <1>5, <1>8, <3>1, <3>2, <3>4, <3>6 DEF Applying
    <3>10. Reaching'
      BY <3>1, <3>2, <3>5 DEF Reaching
    <3>11. Running'
      BY <1>6, <3>1, <3>7, <3>8, <3>9, <3>10 DEF Running
    <3> QED  BY <1>5, <1>6, <3>1, <3>2, <3>11 DEF IInv
  <2>6. CASE Range(above) \cap fdb.orphan = {} /\ Prev[above[1]] # head
    <3>1. switch_forks(new, <<>>)
      BY <1>1, <1>8, <2>6
    <3>2. Num[new] >= Num[head] /\ <<>> \in {<<>>} \cup (Nat \X Nat)
      BY <1>3, <1>4, <2>1
    <3> HIDE DEF new
    <3> QED  BY <1>1, <1>3, <1>4, <3>1, <3>2, SwitchForks
  <2> QED  BY <2>4, <2>5, <2>6
<1> QED  BY <1>7, <1>8

------------------------------------------------------------------------------
(* Blocks popped and applied. *)

\* One pop, or the end of a series of pops.
LEMMA PopBlock ==
  ASSUME IInv, pop_block_extended
  PROVE  IInv'
<1>1. /\ up /\ job.phase \in {"pop", "unpop"}
      /\ UNCHANGED <<committed, lib, log, approvals, notes, up>>
  BY DEF pop_block_extended, undo
<1>2. Types /\ Running /\ JobType /\ job.mode = "switch"
  BY <1>1 DEF IInv, Types, Running, Modes
<1>3. /\ fdb \in ForkDB /\ head \in Block /\ Num[head] \in Nat /\ Num[head] >= 1
      /\ committed \in Nat /\ lib \in Nat /\ lib = committed
  BY <1>2, Numbers DEF Types, Running
<1>4. NoNotificationGap'
  BY <1>1 DEF IInv, NoNotificationGap
<1>5. /\ job.target \in Block /\ job.common = Num[job.target] /\ Chain(job.old, job.target)
      /\ \A i \in 1 .. Len(job.old) : Num[job.old[i]] >= lib => job.old[i] \in fdb.linked
      /\ Range(job.old) \cap Range(job.todo) = {}
  BY <1>1, <1>2 DEF Running, Leaving
<1>6. Logged
  BY DEF IInv
<1>7. ASSUME fdb' = fdb, head' = head
      PROVE  /\ JobType' => Types'
             /\ Logged' /\ Anchored' /\ HeadsAgree' /\ up' /\ lib' = committed'
  BY <1>1, <1>2, <1>3, <1>6, <1>7 DEF Types, Running, Anchored, HeadsAgree, Logged
<1>8. CASE head = job.target /\ job.phase = "pop"
  <2>1. fdb' = fdb /\ head' = head /\ job' = [job EXCEPT !.phase = "apply"]
    BY <1>8 DEF pop_block_extended, undo
  <2>2. /\ JobType' /\ job'.phase = "apply" /\ job'.todo = job.todo /\ job'.old = job.old
        /\ job'.target = job.target /\ job'.mode = "switch" /\ job'.common = job.common
        /\ job'.from = job.from
    BY <1>2, <2>1 DEF JobType
  <2>3. Modes'
    BY <1>1, <1>2, <2>2 DEF Running, Modes
  <2>4. Linking' /\ Returning'
    BY <2>2 DEF Linking, Returning
  <2>5. Applying'
    BY <1>2, <1>8, <2>1, <2>2 DEF Running, Reaching, Applying
  <2>6. Reaching'
    BY <1>2, <1>5, <1>8, <2>1, <2>2 DEF Running, Reaching
  <2>7. Leaving'
    BY <1>1, <1>5, <2>1, <2>2 DEF Leaving
  <2>8. Running'
    BY <1>7, <2>1, <2>2, <2>3, <2>4, <2>5, <2>6, <2>7 DEF Running
  <2> QED  BY <1>4, <1>7, <2>1, <2>2, <2>8 DEF IInv
<1>9. CASE head = job.target /\ job.phase = "unpop" /\ job.old # <<>>
  <2>1. /\ fdb' = fdb /\ head' = head
        /\ job' = [job EXCEPT !.phase = "restore", !.todo = job.old]
    BY <1>9 DEF pop_block_extended, undo
  <2>2. /\ JobType' /\ job'.phase = "restore" /\ job'.todo = job.old
        /\ job'.mode = "switch" /\ job'.from = job.from
    BY <1>2, <2>1 DEF JobType
  <2>3. Range(job.old) \subseteq fdb.linked
    <3> SUFFICES ASSUME NEW i \in 1 .. Len(job.old) PROVE job.old[i] \in fdb.linked
      BY <1>2, SMTT(60) DEF JobType, Range
    <3>1. Num[job.old[i]] = Num[head] + i
      BY <1>5, <1>9 DEF Chain
    <3>2. Num[job.old[i]] >= lib
      BY <1>3, <1>6, <3>1 DEF Logged
    <3> QED  BY <1>5, <3>2
  <2>4. Modes'
    BY <1>1, <1>2, <2>2 DEF Running, Modes
  <2>5. Linking' /\ Returning' /\ Reaching' /\ Leaving'
    BY <2>2 DEF Linking, Returning, Reaching, Leaving
  <2>6. Applying'
    BY <1>5, <1>9, <2>1, <2>2, <2>3 DEF Applying
  <2>7. Running'
    BY <1>7, <2>1, <2>2, <2>4, <2>5, <2>6 DEF Running
  <2> QED  BY <1>4, <1>7, <2>1, <2>2, <2>7 DEF IInv
<1>10. CASE fdb' = Free(fdb) /\ job' = Ended(TRUE) /\ head' = head
  <2>1. /\ fdb' \in ForkDB /\ (fdb.orphan \subseteq fdb.linked)' /\ IsFiniteSet(fdb'.linked)
        /\ Tidy(fdb') /\ fdb'.linked = fdb.linked /\ fdb'.head = fdb.head
    BY <1>2, <1>3, <1>10, FreeKeeps DEF Types
  <2>2. /\ JobType' /\ job'.phase \in {"idle", "confirmed"} /\ job'.mode = "extend"
        /\ job'.phase = "confirmed" => job'.from # <<>>
        /\ job'.from # <<>> => job'.from[1] <= lib'
    <3>1. Modes /\ lib' \in Nat /\ lib <= lib' /\ TRUE \in BOOLEAN
      BY <1>1, <1>2, <1>3 DEF Running
    <3> QED  BY <1>2, <1>3, <1>10, <3>1, EndedType, Zenon
  <2>3. Types'
    BY <1>1, <1>2, <1>10, <2>1, <2>2 DEF Types
  <2>4. Logged'
    BY <1>1, <1>6, <1>10 DEF Logged
  <2>5. Anchored' /\ HeadsAgree'
    BY <1>1, <1>2, <1>10, <2>1 DEF Running, Anchored, HeadsAgree
  <2>6. up' /\ lib' = committed'
    BY <1>1, <1>3
  <2> QED  BY <1>4, <2>1, <2>2, <2>3, <2>4, <2>5, <2>6, Resting
<1>11. CASE /\ CanPop(fdb) /\ head # job.target
            /\ fdb' = pop_block(fdb) /\ job' = job
            /\ head' = IF Num[head] > committed THEN Prev[head] ELSE head
  <2> DEFINE h == fdb.head
  <2>1. h \in Block /\ h # NoBlock /\ h # Root /\ h \notin fdb.orphan /\ prev(fdb, h) = Prev[h]
    BY <1>3, <1>11 DEF CanPop, prev, ForkDB
  <2>2. Prev[h] \in Block /\ Prev[h] # NoBlock /\ Num[h] \in Nat /\ Num[Prev[h]] \in Nat
        /\ Num[h] = Num[Prev[h]] + 1
    BY <2>1, Numbers, TreeAssumption
  <2>3. /\ fdb' \in ForkDB /\ fdb'.linked = fdb.linked /\ fdb'.orphan = fdb.orphan
        /\ fdb'.head = Prev[h]
    BY <1>3, <1>11, <2>1, <2>2 DEF pop_block, ForkDB
  <2>4. committed <= Num[head]
    BY <1>6 DEF Logged
  <2>5. ASSUME Num[head] > committed
        PROVE  /\ head # Root /\ head' = Prev[head] /\ head' \in Block /\ Num[head'] \in Nat
               /\ Num[head] = Num[head'] + 1
               /\ \A k \in 1 .. Num[head'] : Path[head'][k] = Path[head][k]
    <3>1. head # Root
      BY <1>3, <1>6, <2>5, TreeAssumption DEF Logged
    <3>2. head' = Prev[head]
      BY <1>11, <2>5
    <3> QED  BY <1>3, <3>1, <3>2, Numbers, PathOfChild
  <2>6. ASSUME ~ (Num[head] > committed) PROVE head' = head /\ Num[head] = committed
    BY <1>3, <1>11, <2>4, <2>6
  <2>7. /\ head' \in Block /\ Num[head'] \in Nat /\ committed <= Num[head']
        /\ Num[head'] <= Num[head] /\ Num[head] <= Num[head'] + 1
        /\ \A k \in 1 .. Num[head'] : Path[head'][k] = Path[head][k]
    BY <1>3, <2>4, <2>5, <2>6
  <2>8. Logged'
    BY <1>1, <1>3, <1>6, <2>7 DEF Logged
  <2>9. Anchored'
    <3> SUFFICES ASSUME NEW k \in committed .. Num[head'] PROVE Path[head'][k] \in fdb.linked
      BY <1>1, <2>3 DEF Anchored
    <3>1. k \in 1 .. Num[head'] /\ k \in committed .. Num[head]
      BY <1>3, <1>6, <2>7 DEF Logged
    <3> QED  BY <1>2, <2>7, <3>1 DEF Running, Anchored
  <2>10. HeadsAgree
    BY <1>2 DEF Running
  <2>11. ASSUME Num[h] > Num[head] PROVE Prev[h] \in fdb.linked /\ job.phase = "pop"
    <3>1. job.phase = "pop"
      BY <1>1, <1>2, <1>3, <2>2, <2>11 DEF Running, Returning
    <3>2. h \in fdb.linked /\ Tidy(fdb)
      BY <1>2, <2>1, <2>10, <2>11, <3>1 DEF HeadsAgree, Running
    <3> QED  BY <2>1, <3>1, <3>2 DEF Tidy
  <2>12. HeadsAgree'
    <3>1. CASE h = head
      <4>1. CASE Num[head] > committed
        BY <2>3, <2>5, <3>1, <4>1 DEF HeadsAgree
      <4>2. CASE ~ (Num[head] > committed)
        BY <1>1, <1>3, <2>2, <2>3, <2>6, <3>1, <4>2 DEF HeadsAgree
      <4> QED  BY <4>1, <4>2
    <3>2. CASE h # head /\ Num[head] = committed
      <4>1. head' = head
        BY <1>3, <2>6, <3>2
      <4>2. Num[Prev[h]] > Num[head] => Prev[h] \in fdb.linked
        BY <1>3, <2>2, <2>11
      <4> QED  BY <1>1, <2>3, <3>2, <4>1, <4>2 DEF HeadsAgree
    <3>3. CASE h # head /\ Num[head] # committed
      <4>1. Num[h] > Num[head] /\ Num[head] > committed
        BY <1>3, <2>4, <2>10, <3>3 DEF HeadsAgree
      <4>2. Num[Prev[h]] > Num[head'] /\ Prev[h] \in fdb.linked
        BY <1>3, <2>2, <2>5, <2>11, <4>1
      <4> QED  BY <2>2, <2>3, <4>2 DEF HeadsAgree
    <3> QED  BY <3>1, <3>2, <3>3
  <2>13. Types'
    BY <1>1, <1>2, <1>11, <2>3, <2>7 DEF Types, JobType
  <2>14. Modes' /\ Linking' /\ Applying'
    BY <1>1, <1>2, <1>11 DEF Running, Modes, Linking, Applying
  <2>15. Reaching'
    BY <1>1, <1>2, <1>11, <2>3 DEF Running, Reaching
  <2>16. Leaving'
    BY <1>1, <1>2, <1>11, <2>3 DEF Running, Leaving
  <2>17. Returning'
    <3>1. ASSUME job.phase = "unpop" PROVE Num[Prev[h]] <= Num[head']
      <4>1. Num[h] <= Num[head]
        BY <1>2, <3>1 DEF Running, Returning
      <4> QED  BY <1>3, <2>2, <2>7, <4>1
    <3> QED  BY <1>11, <2>2, <2>3, <3>1 DEF Returning
  <2>18. job'.mode = "extend" \/ job'.phase = "pop" => Tidy(fdb')
    <3>1. job.mode = "extend" \/ job.phase = "pop" => Tidy(fdb)
      BY <1>2 DEF Running
    <3> QED  BY <1>11, <2>3, <3>1 DEF Tidy
  <2>19. Running'
    BY <1>1, <1>3, <2>9, <2>12, <2>14, <2>15, <2>16, <2>17, <2>18 DEF Running
  <2> QED  BY <1>1, <1>4, <2>8, <2>13, <2>19 DEF IInv
<1>12. \/ head = job.target /\ job.phase = "pop"
       \/ head = job.target /\ job.phase = "unpop" /\ job.old # <<>>
       \/ fdb' = Free(fdb) /\ job' = Ended(TRUE) /\ head' = head
       \/ /\ CanPop(fdb) /\ head # job.target
          /\ fdb' = pop_block(fdb) /\ job' = job
          /\ head' = IF Num[head] > committed THEN Prev[head] ELSE head
  BY <1>1 DEF pop_block_extended, undo
<1> QED  BY <1>8, <1>9, <1>10, <1>11, <1>12

\* What is known when a block is to be applied: the block b is the next one on
\* top of the state, and f has it as its head.
LEMMA NextBlock ==
  ASSUME IInv, up, job.phase \in {"apply", "restore"}
  PROVE  LET b == Head(job.todo)
             f == set_head(fdb, b)
         IN  /\ job.todo \in Seq(Block) /\ Len(job.todo) \in Nat /\ Len(job.todo) >= 1
             /\ b = job.todo[1]
             /\ b \in Block \ {Root} /\ b # NoBlock /\ Prev[b] = head /\ Num[b] = Num[head] + 1
             /\ Num[head] \in Nat /\ Num[b] \in Nat /\ head # NoBlock
             /\ b \in fdb.linked
             /\ \A i \in 1 .. Len(job.todo) : /\ job.todo[i] \in Block \ {Root}
                                              /\ Num[job.todo[i]] = Num[head] + i
                                              /\ job.todo[i] \in fdb.linked
             /\ f \in ForkDB /\ f.linked = fdb.linked /\ f.orphan = fdb.orphan /\ f.head = b
             /\ f.orphan \subseteq f.linked /\ IsFiniteSet(f.linked)
             /\ \A k \in 1 .. Num[head] : Path[b][k] = Path[head][k]
             /\ \A k \in committed .. Num[b] : Path[b][k] \in f.linked
<1> DEFINE s == job.todo
           b == Head(s)
           f == set_head(fdb, b)
<1>1. /\ Types /\ JobType /\ s \in Seq(Block) /\ s # <<>> /\ Chain(s, head)
      /\ Range(s) \subseteq fdb.linked /\ Anchored /\ Logged
  BY DEF IInv, Types, JobType, Running, Applying
<1>2. Len(s) \in Nat /\ Len(s) >= 1 /\ b = s[1] /\ 1 \in 1 .. Len(s)
  BY <1>1
<1>3. ASSUME NEW i \in 1 .. Len(s)
      PROVE  s[i] \in Block \ {Root} /\ Num[s[i]] = Num[head] + i /\ s[i] \in fdb.linked
  <2>1. s[i] \in Range(s)
    BY <1>1 DEF Range
  <2> QED  BY <1>1, <2>1 DEF Chain
<1>4. head \in Block /\ Num[head] \in Nat /\ committed \in Nat /\ committed >= 1 /\ fdb \in ForkDB
      /\ fdb.orphan \subseteq fdb.linked /\ IsFiniteSet(fdb.linked)
  BY <1>1, Numbers DEF Types, Logged
<1>5. Prev[b] = head
  BY <1>1, <1>2 DEF Chain
<1>6. /\ b \in Block \ {Root} /\ Num[b] = Num[head] + 1 /\ b \in fdb.linked
      /\ Num[b] \in Nat /\ b # NoBlock /\ head # NoBlock
  BY <1>2, <1>3, <1>4, TreeAssumption
<1> HIDE DEF b
<1>7. f \in ForkDB /\ f.linked = fdb.linked /\ f.orphan = fdb.orphan /\ f.head = b
  BY <1>4, <1>6, SetHeadKeeps
<1> HIDE DEF f
<1>8. \A k \in 1 .. Num[head] : Path[b][k] = Path[head][k]
  BY <1>5, <1>6, PathOfChild
<1>9. ASSUME NEW k \in committed .. Num[b] PROVE Path[b][k] \in f.linked
  <2>1. CASE k = Num[b]
    <3>1. Path[b][Num[b]] = b
      BY <1>6, PathIsPath DEF IsPath
    <3> QED  BY <1>6, <1>7, <2>1, <3>1
  <2>2. CASE k # Num[b]
    <3>1. k \in 1 .. Num[head] /\ k \in committed .. Num[head]
      BY <1>4, <1>6, <2>2
    <3> QED  BY <1>1, <1>7, <1>8, <3>1 DEF Anchored
  <2> QED  BY <2>1, <2>2
<1>10. /\ s \in Seq(Block) /\ Len(s) \in Nat /\ Len(s) >= 1
       /\ b = s[1]
       /\ b \in Block \ {Root} /\ b # NoBlock /\ Prev[b] = head /\ Num[b] = Num[head] + 1
       /\ Num[head] \in Nat /\ Num[b] \in Nat /\ head # NoBlock
       /\ b \in fdb.linked
       /\ f \in ForkDB /\ f.linked = fdb.linked /\ f.orphan = fdb.orphan /\ f.head = b
       /\ f.orphan \subseteq f.linked /\ IsFiniteSet(f.linked)
  BY <1>1, <1>2, <1>4, <1>5, <1>6, <1>7
<1> QED  BY <1>3, <1>8, <1>9, <1>10 DEF f, b

\* The oldest block of a fork database.
LEMMA OldestBlock ==
  ASSUME NEW f \in ForkDB, NEW b \in f.linked
  PROVE  /\ get_last_irreversible_block_num(f) \in Nat
         /\ get_last_irreversible_block_num(f) <= Num[b]
         /\ \E c \in f.linked : get_last_irreversible_block_num(f) = Num[c]
<1> DEFINE T == {Num[c] : c \in f.linked}
<1>1. T \subseteq Nat /\ T # {}
  BY Numbers DEF ForkDB
<1>2. PICK n \in T : \A m \in T : n <= m
  <2> HIDE DEF T
  <2> QED  BY <1>1, LeastNat
<1>3. \A c \in f.linked : n <= Num[c]
  BY <1>2
<1> DEFINE g == get_last_irreversible_block_num(f)
<1>4. g \in T /\ \A c \in f.linked : g <= Num[c]
  BY <1>3 DEF get_last_irreversible_block_num
<1> HIDE DEF g
<1>5. g \in Nat /\ g <= Num[b] /\ \E c \in f.linked : g = Num[c]
  BY <1>1, <1>4
<1> QED  BY <1>5 DEF g

\* A block could not be applied.
LEMMA Fail ==
  ASSUME IInv, up, job.phase \in {"apply", "restore"}, StateKept,
         fail(set_head(fdb, Head(job.todo)))
  PROVE  IInv'
<1> DEFINE b == Head(job.todo)
           f == set_head(fdb, b)
           S == Range(job.todo)
           g == remove(f, S)
<1>1. Types /\ Running /\ JobType /\ Logged
  BY DEF IInv, Types
<1>2. /\ job.todo \in Seq(Block) /\ Len(job.todo) \in Nat /\ Len(job.todo) >= 1
      /\ b = job.todo[1]
      /\ b \in Block \ {Root} /\ b # NoBlock /\ Prev[b] = head /\ Num[b] = Num[head] + 1
      /\ Num[head] \in Nat /\ Num[b] \in Nat /\ head # NoBlock
      /\ b \in fdb.linked
      /\ \A i \in 1 .. Len(job.todo) : Num[job.todo[i]] = Num[head] + i
      /\ f \in ForkDB /\ f.linked = fdb.linked /\ f.orphan = fdb.orphan /\ f.head = b
      /\ f.orphan \subseteq f.linked /\ IsFiniteSet(f.linked)
  BY NextBlock
<1>3. /\ head' = head /\ committed' = committed /\ lib' = lib /\ log' = log /\ notes' = notes
      /\ Logged' /\ NoNotificationGap'
  BY KeptState
<1>4. head \in Block /\ committed \in Nat /\ lib \in Nat /\ lib = committed
      /\ committed >= 1 /\ committed <= Num[head]
  BY <1>1 DEF Types, Running, Logged
<1>5. ASSUME NEW x \in ForkDB, IsFiniteSet(x.linked), fdb' = Free(x),
             \A k \in committed .. Num[head] : Path[head][k] \in x.linked,
             \/ x.head = head
             \/ x.head = b /\ b \in x.linked
             \/ x.head = NoBlock /\ Num[head] = committed,
             job' = Ended(TRUE), approvals' = approvals, up' = up
      PROVE  IInv'
  <2>1. /\ fdb' \in ForkDB /\ (fdb.orphan \subseteq fdb.linked)' /\ IsFiniteSet(fdb'.linked)
        /\ Tidy(fdb') /\ fdb'.linked = x.linked /\ fdb'.head = x.head
    BY <1>5, FreeKeeps
  <2>2. /\ JobType' /\ job'.phase \in {"idle", "confirmed"} /\ job'.mode = "extend"
        /\ job'.phase = "confirmed" => job'.from # <<>>
        /\ job'.from # <<>> => job'.from[1] <= lib'
    <3>1. Modes /\ lib' \in Nat /\ lib <= lib' /\ TRUE \in BOOLEAN
      BY <1>1, <1>3, <1>4 DEF Running
    <3> QED  BY <1>1, <1>4, <1>5, <3>1, EndedType, Zenon
  <2>3. Types'
    BY <1>1, <1>3, <1>5, <2>1, <2>2 DEF Types
  <2>4. Anchored'
    BY <1>3, <1>5, <2>1 DEF Anchored
  <2>5. HeadsAgree'
    <3> HIDE DEF b
    <3>1. Num[b] > Num[head]
      BY <1>2
    <3>2. ~ (Num[head] > Num[head])
      BY <1>2
    <3> QED  BY <1>2, <1>3, <1>5, <2>1, <3>1, <3>2 DEF HeadsAgree
  <2>6. up' /\ lib' = committed'
    BY <1>3, <1>4, <1>5
  <2> QED  BY <1>3, <2>1, <2>2, <2>3, <2>4, <2>5, <2>6, Resting
<1>6. \A k \in committed .. Num[head] : Path[head][k] \in fdb.linked
  BY <1>1 DEF Running, Anchored
<1>7. CASE job.phase = "restore"
  <2>1. fdb' = Free(f) /\ job' = Ended(TRUE) /\ approvals' = approvals /\ up' = up
    BY <1>7 DEF fail
  <2> HIDE DEF f, b
  <2> QED  BY <1>2, <1>5, <1>6, <2>1
<1>8. CASE job.phase = "apply"
  <2> DEFINE above == /\ job.mode = "switch"
                      /\ get_last_irreversible_block_num(g) < job.common
  <2>1. \/ above /\ g.head = NoBlock /\ Down
        \/ /\ above /\ g.head # NoBlock
           /\ fdb' = g /\ job' = [job EXCEPT !.phase = "unpop", !.todo = <<>>]
           /\ approvals' = approvals /\ up' = up
        \/ /\ above => g.head # NoBlock
           /\ fdb' = Free(g) /\ job' = Ended(TRUE) /\ approvals' = approvals /\ up' = up
    BY <1>8 DEF fail
  <2>2. /\ g \in ForkDB /\ g.orphan \subseteq g.linked /\ IsFiniteSet(g.linked)
        /\ g.linked = f.linked \ S /\ g.orphan = f.orphan \ S
        /\ g.head = IF f.head \in S THEN prev(f, f.head) ELSE f.head
    BY <1>2, RemoveKeeps
  <2>3. b \in S
    BY <1>2 DEF Range
  <2>4. g.head = IF b \in fdb.orphan THEN NoBlock ELSE head
    BY <1>2, <2>2, <2>3 DEF prev
  <2>5. \A k \in committed .. Num[head] : Path[head][k] \in g.linked
    <3> SUFFICES ASSUME NEW k \in committed .. Num[head], Path[head][k] \in S
                 PROVE  FALSE
      BY <1>2, <1>6, <2>2
    <3>1. k \in 1 .. Num[head]
      BY <1>2, <1>4
    <3>2. Num[Path[head][k]] = k
      BY <1>4, <3>1, PathOn
    <3>3. PICK i \in 1 .. Len(job.todo) : Path[head][k] = job.todo[i]
      BY <1>2, SMTT(60) DEF Range
    <3>4. k = Num[head] + i
      BY <1>2, <3>2, <3>3
    <3> QED  BY <1>2, <3>4
  <2> HIDE DEF g, f, b
  <2>6. CASE Down
    <3>1. lib' \in Nat /\ lib' >= lib
      BY <1>3, <1>4
    <3> QED  BY <1>3, <2>6, <3>1, DownKeeps
  <2>7. CASE /\ above /\ g.head # NoBlock
             /\ fdb' = g /\ job' = [job EXCEPT !.phase = "unpop", !.todo = <<>>]
             /\ approvals' = approvals /\ up' = up
    <3>1. g.head = head /\ job.mode = "switch"
      BY <2>4, <2>7
    <3>2. <<>> \in Seq(Block)
      OBVIOUS
    <3>3. /\ JobType' /\ job'.phase = "unpop" /\ job'.todo = <<>> /\ job'.old = job.old
          /\ job'.target = job.target /\ job'.mode = "switch" /\ job'.common = job.common
          /\ job'.from = job.from
      BY <1>1, <2>7, <3>1, <3>2 DEF JobType
    <3>4. Types'
      BY <1>1, <1>3, <2>2, <2>7, <3>3 DEF Types
    <3>5. Anchored'
      BY <1>3, <2>5, <2>7 DEF Anchored
    <3>6. HeadsAgree'
      BY <1>2, <1>3, <2>7, <3>1 DEF HeadsAgree
    <3>7. Modes'
      BY <1>1, <1>3, <3>3 DEF Running, Modes
    <3>8. Linking' /\ Applying' /\ Reaching'
      BY <3>3 DEF Linking, Applying, Reaching
    <3>9. Leaving'
      <4>1. /\ job.target \in Block /\ job.common = Num[job.target] /\ Chain(job.old, job.target)
            /\ \A i \in 1 .. Len(job.old) : Num[job.old[i]] >= lib => job.old[i] \in fdb.linked
            /\ Range(job.old) \cap S = {}
        BY <1>1, <1>8, <3>1 DEF Running, Leaving
      <4>2. \A i \in 1 .. Len(job.old) : job.old[i] \notin S
        <5>1. job.old \in Seq(Block)
          BY <1>1 DEF JobType
        <5>2. \A i \in 1 .. Len(job.old) : job.old[i] \in Range(job.old)
          BY <5>1 DEF Range
        <5> HIDE DEF S
        <5> QED  BY <4>1, <5>2
      <4>3. \A i \in 1 .. Len(job.old) : Num[job.old[i]] >= lib => job.old[i] \in g.linked
        BY <1>2, <2>2, <4>1, <4>2
      <4>4. Range(<<>>) = {}
        BY DEF Range
      <4> HIDE DEF S
      <4> QED  BY <1>3, <2>7, <3>3, <4>1, <4>3, <4>4 DEF Leaving
    <3>10. Returning'
      BY <1>2, <1>3, <2>7, <3>1 DEF Returning
    <3>11. Running'
      BY <1>3, <1>4, <3>3, <3>5, <3>6, <3>7, <3>8, <3>9, <3>10 DEF Running
    <3> QED  BY <1>3, <2>7, <3>4, <3>11 DEF IInv
  <2>8. CASE /\ above => g.head # NoBlock
             /\ fdb' = Free(g) /\ job' = Ended(TRUE) /\ approvals' = approvals /\ up' = up
    <3>1. ASSUME g.head = NoBlock PROVE Num[head] = committed
      <4>1. b \in fdb.orphan
        BY <1>2, <2>4, <3>1
      <4>2. job.mode = "switch" /\ Num[head] = job.common
        <5>1. 1 \in 1 .. Len(job.todo) /\ job.todo[1] \in fdb.orphan
          BY <1>2, <4>1
        <5> QED  BY <1>1, <1>8, <5>1 DEF Running, Reaching
      <4> DEFINE n == get_last_irreversible_block_num(g)
      <4>3. ~ (n < Num[head])
        BY <2>8, <3>1, <4>2
      <4>4. committed \in committed .. Num[head] /\ committed \in 1 .. Num[head]
        BY <1>2, <1>4
      <4>5. Path[head][committed] \in g.linked /\ Num[Path[head][committed]] = committed
        BY <1>4, <2>5, <4>4, PathOn
      <4>6. n \in Nat /\ n <= committed
        BY <2>2, <4>5, OldestBlock
      <4> HIDE DEF n
      <4> QED  BY <1>2, <1>4, <4>3, <4>6
    <3> HIDE DEF above
    <3>2. \/ g.head = head
          \/ g.head = b /\ b \in g.linked
          \/ g.head = NoBlock /\ Num[head] = committed
      BY <2>4, <3>1
    <3> QED  BY <1>5, <2>2, <2>5, <2>8, <3>2
  <2> QED  BY <2>1, <2>6, <2>7, <2>8
<1> QED  BY <1>7, <1>8

\* The rest of apply_block_extended when irreversibility came out as r.
AppliedWith(r) ==
  LET b == Head(job.todo)
      f == set_head(fdb, b)
      g == set_max_size(f, Num[b] - r.lib + 1)
      last == Len(job.todo) = 1
  IN  /\ lib' = r.lib
      /\ Storable(f, b, r.lib)
      /\ head' = b
      /\ approvals' = r.ap
      /\ migrate_irreversible_state(f, lib, r.lib)
      /\ fdb' = IF job.mode = "switch" /\ ~ last THEN g ELSE Free(g)
      /\ job' = IF ~ last THEN [job EXCEPT !.todo = Tail(job.todo)]
                ELSE Ended(job.phase = "restore")
      /\ up' = up

\* What it leaves: the log up to the new LIB, and the blocks from there on.
LEMMA AppliedState ==
  ASSUME IInv, up, job.phase \in {"apply", "restore"},
         NEW r \in update_last_irreversible_block(set_head(fdb, Head(job.todo)), approvals,
                                                  Head(job.todo)),
         AppliedWith(r)
  PROVE  LET b == Head(job.todo)
             n == r.lib
         IN  /\ n \in Nat /\ lib <= n /\ n <= Num[b] /\ r.ap \in Approvals
             /\ log' \in Seq(Block) /\ Len(log') = n
             /\ \A k \in 1 .. n : log'[k] = Path[b][k]
             /\ committed' = n
             /\ notes' \in Seq(Nat) /\ Len(notes') > 0 /\ notes'[Len(notes')] = n
             /\ NoNotificationGap'
             /\ fdb' \in ForkDB /\ (fdb.orphan \subseteq fdb.linked)' /\ IsFiniteSet(fdb'.linked)
             /\ fdb'.linked = {c \in fdb.linked : Num[c] >= n} /\ fdb'.head = b
             /\ job.mode # "switch" \/ Len(job.todo) = 1 => Tidy(fdb')
             /\ \A c \in fdb'.orphan : c \in fdb.orphan \/ (c # Root /\ Prev[c] \notin fdb'.linked)
<1> DEFINE s == job.todo
           b == Head(s)
           f == set_head(fdb, b)
           g == set_max_size(f, Num[b] - r.lib + 1)
           n == r.lib
<1>1. /\ lib' = n
      /\ Storable(f, b, n)
      /\ head' = b
      /\ approvals' = r.ap
      /\ migrate_irreversible_state(f, lib, n)
      /\ fdb' = IF job.mode = "switch" /\ ~ (Len(s) = 1) THEN g ELSE Free(g)
      /\ job' = IF ~ (Len(s) = 1) THEN [job EXCEPT !.todo = Tail(job.todo)]
                ELSE Ended(job.phase = "restore")
      /\ up' = up
  BY DEF AppliedWith
<1>2. /\ s \in Seq(Block) /\ Len(s) \in Nat /\ Len(s) >= 1
      /\ b = s[1]
      /\ b \in Block \ {Root} /\ b # NoBlock /\ Prev[b] = head /\ Num[b] = Num[head] + 1
      /\ Num[head] \in Nat /\ Num[b] \in Nat
      /\ b \in fdb.linked
      /\ \A i \in 1 .. Len(s) : s[i] \in Block \ {Root} /\ Num[s[i]] = Num[head] + i
                                /\ s[i] \in fdb.linked
      /\ f \in ForkDB /\ f.linked = fdb.linked /\ f.orphan = fdb.orphan /\ f.head = b
      /\ f.orphan \subseteq f.linked /\ IsFiniteSet(f.linked)
      /\ \A k \in 1 .. Num[head] : Path[b][k] = Path[head][k]
      /\ \A k \in committed .. Num[b] : Path[b][k] \in f.linked
  BY NextBlock
<1>3. Types /\ Running /\ JobType /\ Logged /\ NoNotificationGap /\ Modes
  BY DEF IInv, Types, Running
<1>4. /\ committed \in Nat /\ lib \in Nat /\ lib = committed /\ approvals \in Approvals
      /\ committed >= 1 /\ committed <= Num[head]
  BY <1>3 DEF Types, Running, Logged
<1>5. r \in update_last_irreversible_block(f, approvals, b)
  OBVIOUS
<1> HIDE DEF f, b
<1>6. n \in Nat /\ lib <= n /\ n <= Num[b] /\ r.ap \in Approvals
  <2>1. lib <= Num[b]
    BY <1>2, <1>4
  <2> QED  BY <1>2, <1>4, <1>5, <2>1, UpdateResult
<1>7. /\ log' \in Seq(Block) /\ Len(log') = n
      /\ \A k \in 1 .. n : log'[k] = Path[b][k]
      /\ committed' = n
      /\ notes' \in Seq(Nat) /\ Len(notes') > 0 /\ notes'[Len(notes')] = n
      /\ NoNotificationGap'
  <2>1. \A k \in 1 .. committed : Path[b][k] = Path[head][k]
    BY <1>2, <1>4
  <2>2. committed <= n /\ lib <= committed
    BY <1>4, <1>6
  <2> HIDE DEF n
  <2> QED  BY <1>1, <1>2, <1>3, <1>4, <1>6, <2>1, <2>2, Migrate
<1>8. /\ g \in ForkDB /\ g.orphan \subseteq g.linked /\ IsFiniteSet(g.linked)
      /\ g.linked = {c \in f.linked : Num[c] >= n}
      /\ g.orphan \subseteq f.orphan
      /\ g.head = b
  <2> DEFINE z == Num[b] - n + 1
  <2>1. z \in Nat /\ HeadNum(f) = Num[b] /\ Num[b] - z = n - 1 /\ n >= 1
    BY <1>2, <1>4, <1>6, SMTT(60) DEF HeadNum
  <2>2. g = set_max_size(f, z)
    OBVIOUS
  <2> HIDE DEF g, z
  <2>3. /\ g \in ForkDB /\ g.orphan \subseteq g.linked /\ IsFiniteSet(g.linked)
        /\ g.linked = {c \in f.linked : Num[c] > Max0(HeadNum(f) - z)}
        /\ g.orphan \subseteq f.orphan
        /\ g.head = f.head
    BY <1>2, <2>1, <2>2, SetMaxSizeKeeps
  <2>4. Max0(HeadNum(f) - z) = n - 1
    BY <1>6, <2>1 DEF Max0
  <2>5. \A c \in f.linked : Num[c] > n - 1 <=> Num[c] >= n
    BY <1>2, <1>6, Numbers DEF ForkDB
  <2> QED  BY <1>2, <2>3, <2>4, <2>5
<1> HIDE DEF g
<1>9. /\ fdb' \in ForkDB /\ (fdb.orphan \subseteq fdb.linked)' /\ IsFiniteSet(fdb'.linked)
      /\ fdb'.linked = g.linked /\ fdb'.head = b
      /\ job.mode # "switch" \/ Len(s) = 1 => Tidy(fdb')
      /\ \A c \in fdb'.orphan : c \in fdb.orphan \/ (c # Root /\ Prev[c] \notin g.linked)
  <2>1. CASE job.mode = "switch" /\ ~ (Len(s) = 1)
    <3>1. fdb' = g
      BY <1>1, <2>1
    <3> QED  BY <1>2, <1>8, <2>1, <3>1
  <2>2. CASE ~ (job.mode = "switch" /\ ~ (Len(s) = 1))
    <3>1. fdb' = Free(g)
      BY <1>1, <2>2
    <3>2. /\ fdb' \in ForkDB /\ (fdb.orphan \subseteq fdb.linked)' /\ IsFiniteSet(fdb'.linked)
          /\ Tidy(fdb') /\ fdb'.linked = g.linked /\ fdb'.head = g.head
          /\ \A c \in fdb'.orphan : c \in g.orphan \/ (c # Root /\ Prev[c] \notin g.linked)
      <4> DEFINE h == Free(g)
      <4>1. /\ h \in ForkDB /\ h.orphan \subseteq h.linked /\ IsFiniteSet(h.linked)
            /\ Tidy(h) /\ h.linked = g.linked /\ h.head = g.head
            /\ \A c \in h.orphan : c \in g.orphan \/ (c # Root /\ Prev[c] \notin g.linked)
        BY <1>8, FreeKeeps
      <4>2. fdb' = h
        BY <3>1
      <4> HIDE DEF h
      <4> QED  BY <4>1, <4>2
    <3> QED  BY <1>2, <1>8, <3>2
  <2> QED  BY <2>1, <2>2
<1> QED  BY <1>2, <1>6, <1>7, <1>8, <1>9 DEF b

\* A block was applied.
LEMMA Applied ==
  ASSUME IInv, up, job.phase \in {"apply", "restore"},
         NEW r \in update_last_irreversible_block(set_head(fdb, Head(job.todo)), approvals,
                                                  Head(job.todo)),
         AppliedWith(r)
  PROVE  IInv'
<1> DEFINE s == job.todo
           b == Head(s)
           g == fdb'
           n == r.lib
<1>1. /\ lib' = n
      /\ head' = b
      /\ approvals' = r.ap
      /\ job' = IF ~ (Len(s) = 1) THEN [job EXCEPT !.todo = Tail(job.todo)]
                ELSE Ended(job.phase = "restore")
      /\ up' = up
  BY DEF AppliedWith
<1>2. /\ s \in Seq(Block) /\ Len(s) \in Nat /\ Len(s) >= 1
      /\ b = s[1]
      /\ b \in Block \ {Root} /\ b # NoBlock /\ Prev[b] = head /\ Num[b] = Num[head] + 1
      /\ Num[head] \in Nat /\ Num[b] \in Nat
      /\ b \in fdb.linked
      /\ \A i \in 1 .. Len(s) : s[i] \in Block \ {Root} /\ Num[s[i]] = Num[head] + i
                                /\ s[i] \in fdb.linked
      /\ \A k \in committed .. Num[b] : Path[b][k] \in fdb.linked
  BY NextBlock
<1>3. Types /\ Running /\ JobType /\ Logged /\ NoNotificationGap /\ Modes
  BY DEF IInv, Types, Running
<1>4. /\ committed \in Nat /\ lib \in Nat /\ lib = committed /\ approvals \in Approvals
      /\ committed >= 1 /\ committed <= Num[head]
  BY <1>3 DEF Types, Running, Logged
<1>5. /\ n \in Nat /\ lib <= n /\ n <= Num[b] /\ r.ap \in Approvals
      /\ log' \in Seq(Block) /\ Len(log') = n
      /\ \A k \in 1 .. n : log'[k] = Path[b][k]
      /\ committed' = n
      /\ notes' \in Seq(Nat) /\ Len(notes') > 0 /\ notes'[Len(notes')] = n
      /\ NoNotificationGap'
      /\ fdb' \in ForkDB /\ (fdb.orphan \subseteq fdb.linked)' /\ IsFiniteSet(fdb'.linked)
      /\ g.linked = {c \in fdb.linked : Num[c] >= n} /\ fdb'.head = b
      /\ job.mode # "switch" \/ Len(s) = 1 => Tidy(fdb')
      /\ \A c \in fdb'.orphan : c \in fdb.orphan \/ (c # Root /\ Prev[c] \notin g.linked)
  BY AppliedState
<1> HIDE DEF b
<1>6. n \in Nat /\ lib <= n /\ n <= Num[b] /\ r.ap \in Approvals
  BY <1>5
<1>7. /\ log' \in Seq(Block) /\ Len(log') = n
      /\ \A k \in 1 .. n : log'[k] = Path[b][k]
      /\ committed' = n
      /\ notes' \in Seq(Nat) /\ Len(notes') > 0 /\ notes'[Len(notes')] = n
      /\ NoNotificationGap'
  BY <1>5
<1>8. g.linked = {c \in fdb.linked : Num[c] >= n}
  BY <1>5
<1>9. /\ fdb' \in ForkDB /\ (fdb.orphan \subseteq fdb.linked)' /\ IsFiniteSet(fdb'.linked)
      /\ fdb'.linked = g.linked /\ fdb'.head = b
      /\ job.mode # "switch" \/ Len(s) = 1 => Tidy(fdb')
      /\ \A c \in fdb'.orphan : c \in fdb.orphan \/ (c # Root /\ Prev[c] \notin g.linked)
  BY <1>5
<1> HIDE DEF g
<1>10. JobType' => Types'
  BY <1>1, <1>2, <1>3, <1>6, <1>7, <1>9 DEF Types
<1>11. Logged'
  BY <1>1, <1>2, <1>4, <1>6, <1>7 DEF Logged
<1>12. Anchored'
  <2> SUFFICES ASSUME NEW k \in n .. Num[b] PROVE Path[b][k] \in fdb'.linked
    BY <1>1, <1>7 DEF Anchored
  <2>1. k \in committed .. Num[b] /\ k \in 1 .. Num[b] /\ k >= n
    BY <1>2, <1>4, <1>6
  <2>2. Path[b][k] \in fdb.linked /\ Num[Path[b][k]] = k
    BY <1>2, <2>1, PathOn
  <2> QED  BY <1>8, <1>9, <2>1, <2>2
<1>13. HeadsAgree'
  BY <1>1, <1>2, <1>9 DEF HeadsAgree
<1>14. lib' = committed' /\ up' /\ lib' \in Nat /\ lib <= lib'
  BY <1>1, <1>6, <1>7
<1>15. CASE Len(s) = 1
  <2>1. /\ JobType' /\ job'.phase \in {"idle", "confirmed"} /\ job'.mode = "extend"
        /\ job'.phase = "confirmed" => job'.from # <<>>
        /\ job'.from # <<>> => job'.from[1] <= lib'
    <3> DEFINE x == job.phase = "restore"
    <3>1. job' = Ended(x) /\ x \in BOOLEAN
      BY <1>1, <1>15
    <3> HIDE DEF x
    <3> QED  BY <1>3, <1>4, <1>14, <3>1, EndedType
  <2> QED  BY <1>7, <1>9, <1>10, <1>11, <1>12, <1>13, <1>14, <1>15, <2>1, Resting
<1>16. CASE Len(s) # 1
  <2> DEFINE t == Tail(s)
  <2>1. job' = [job EXCEPT !.todo = t]
    BY <1>1, <1>16
  <2>2. s # <<>>
    BY <1>2
  <2>3. /\ t \in Seq(Block) /\ Len(t) = Len(s) - 1
        /\ \A i \in 1 .. Len(t) : t[i] = s[i + 1]
    BY <1>2, <2>2, HeadTailProperties
  <2> HIDE DEF t
  <2>4. /\ JobType' /\ job'.phase = job.phase /\ job'.todo = t /\ job'.old = job.old
        /\ job'.target = job.target /\ job'.mode = job.mode /\ job'.common = job.common
        /\ job'.from = job.from
    BY <1>3, <2>1, <2>3 DEF JobType
  <2>5. Len(t) \in Nat /\ Len(t) >= 1
    <3> DEFINE l == Len(s)
    <3>1. l \in Nat /\ l >= 1 /\ l # 1 /\ Len(t) = l - 1
      BY <1>2, <1>16, <2>3
    <3> HIDE DEF l
    <3> QED  BY <3>1
  <2>6. ASSUME NEW i \in 1 .. Len(t)
        PROVE  /\ i + 1 \in 1 .. Len(s) /\ i \in 1 .. Len(s) /\ t[i] = s[i + 1]
               /\ t[i] \in Block \ {Root} /\ Num[t[i]] = Num[b] + i
               /\ Prev[t[i]] = s[i]
               /\ Num[s[i]] = Num[head] + i
               /\ t[i] \in g.linked /\ s[i] \in g.linked
    <3>1. i + 1 \in 1 .. Len(s) /\ i \in 1 .. Len(s) /\ t[i] = s[i + 1] /\ i + 1 # 1
          /\ (i + 1) - 1 = i
      <4> DEFINE l == Len(s)
      <4>1. l \in Nat /\ Len(t) = l - 1 /\ i \in 1 .. Len(t) /\ t[i] = s[i + 1]
        BY <1>2, <2>3
      <4> HIDE DEF l
      <4>2. i + 1 \in 1 .. l /\ i \in 1 .. l /\ i + 1 # 1 /\ (i + 1) - 1 = i
        BY <4>1
      <4> QED  BY <4>1, <4>2 DEF l
    <3>2. /\ s[i + 1] \in Block \ {Root} /\ Num[s[i + 1]] = Num[head] + (i + 1)
          /\ s[i + 1] \in fdb.linked /\ s[i] \in fdb.linked /\ Num[s[i]] = Num[head] + i
      BY <1>2, <3>1
    <3>3. Prev[s[i + 1]] = s[i]
      BY <1>3, <3>1 DEF Running, Applying, Chain
    <3>4. Num[s[i + 1]] = Num[b] + i /\ Num[s[i + 1]] >= n /\ Num[s[i]] >= n
      <4>1. Num[b] = Num[head] + 1 /\ Num[head] \in Nat /\ n \in Nat /\ n <= Num[b]
            /\ i \in Nat /\ i >= 1
        BY <1>2, <1>6
      <4> DEFINE h == Num[head]
                 x == Num[s[i + 1]]
                 y == Num[s[i]]
                 z == Num[b]
      <4>2. /\ z = h + 1 /\ h \in Nat /\ n \in Nat /\ n <= z /\ i \in Nat /\ i >= 1
            /\ x = h + (i + 1) /\ y = h + i
        BY <3>2, <4>1
      <4> HIDE DEF h, x, y, z, n
      <4>3. x = z + i /\ x >= n /\ y >= n
        BY <4>2
      <4> QED  BY <4>3 DEF x, y, z
    <3> QED  BY <1>8, <3>1, <3>2, <3>3, <3>4
  <2>7. Range(t) \subseteq g.linked
    BY <2>3, <2>6 DEF Range
  <2>8. Chain(t, b)
    <3> SUFFICES ASSUME NEW i \in 1 .. Len(t)
                 PROVE  Prev[t[i]] = IF i = 1 THEN b ELSE t[i - 1]
      BY <2>6 DEF Chain
    <3>1. Prev[t[i]] = s[i]
      BY <2>6
    <3>2. CASE i = 1
      BY <1>2, <3>1, <3>2
    <3>3. CASE i # 1
      <4>1. i - 1 \in 1 .. Len(t) /\ (i - 1) + 1 = i
        BY <2>5, <3>3
      <4>2. t[i - 1] = s[i]
        BY <2>3, <4>1
      <4> QED  BY <3>1, <3>3, <4>2
    <3> QED  BY <3>2, <3>3
  <2>9. Modes'
    <3>1. job.from # <<>> => job.from[1] <= lib'
      <4>1. job.from # <<>> => job.from[1] \in Nat /\ job.from[1] <= lib
        BY <1>3 DEF Modes, JobType
      <4> QED  BY <1>4, <1>14, <4>1
    <3> QED  BY <1>3, <2>4, <3>1 DEF Modes
  <2>10. Linking' /\ Returning'
    BY <2>4 DEF Linking, Returning
  <2>11. Applying'
    <3>1. t # <<>>
      BY <2>5
    <3> QED  BY <1>1, <1>9, <2>4, <2>7, <2>8, <3>1 DEF Applying
  <2>12. ASSUME job.phase = "apply", NEW i \in 1 .. Len(t) PROVE t[i] \notin fdb'.orphan
    <3>1. i + 1 \in 1 .. Len(s) /\ i + 1 # 1 /\ t[i] = s[i + 1]
      BY <2>5, <2>6
    <3>2. s[i + 1] \notin fdb.orphan
      BY <1>3, <2>12, <3>1 DEF Running, Reaching
    <3>3. Prev[t[i]] \in g.linked
      BY <2>6
    <3> QED  BY <1>9, <3>1, <3>2, <3>3
  <2>13. Reaching'
    BY <2>4, <2>12 DEF Reaching
  <2>14. Leaving'
    <3> SUFFICES ASSUME job.phase = "apply", job.mode = "switch"
                 PROVE  /\ job.target \in Block
                        /\ job.common = Num[job.target]
                        /\ Chain(job.old, job.target)
                        /\ \A i \in 1 .. Len(job.old) :
                             Num[job.old[i]] >= lib' => job.old[i] \in fdb'.linked
                        /\ Range(job.old) \cap Range(t) = {}
      BY <2>4 DEF Leaving
    <3>1. /\ job.target \in Block /\ job.common = Num[job.target] /\ Chain(job.old, job.target)
          /\ \A i \in 1 .. Len(job.old) : Num[job.old[i]] >= lib => job.old[i] \in fdb.linked
          /\ Range(job.old) \cap Range(s) = {}
      BY <1>3 DEF Running, Leaving
    <3>2. Range(t) \subseteq Range(s)
      <4> SUFFICES ASSUME NEW i \in 1 .. Len(t) PROVE t[i] \in Range(s)
        BY <2>3 DEF Range
      <4>1. i + 1 \in 1 .. Len(s) /\ t[i] = s[i + 1]
        BY <2>6
      <4> QED  BY <1>2, <4>1 DEF Range
    <3>3. ASSUME NEW i \in 1 .. Len(job.old), Num[job.old[i]] >= lib'
          PROVE  job.old[i] \in fdb'.linked
      <4>1. Num[job.old[i]] \in Nat
        BY <3>1, Numbers DEF Chain
      <4>2. Num[job.old[i]] >= n /\ Num[job.old[i]] >= lib
        BY <1>1, <1>4, <1>6, <3>3, <4>1
      <4> QED  BY <1>2, <1>8, <1>9, <3>1, <4>2
    <3> QED  BY <3>1, <3>2, <3>3
  <2>15. job'.mode = "extend" \/ job'.phase = "pop" => Tidy(fdb')
    BY <1>9, <2>4
  <2>16. Running'
    BY <1>12, <1>13, <1>14, <2>9, <2>10, <2>11, <2>13, <2>14, <2>15 DEF Running
  <2> QED  BY <1>7, <1>10, <1>11, <1>14, <2>4, <2>16 DEF IInv
<1> QED  BY <1>15, <1>16

\* One block applied, or rejected.
LEMMA ApplyBlock ==
  ASSUME IInv, apply_block_extended
  PROVE  IInv'
<1> DEFINE b == Head(job.todo)
           f == set_head(fdb, b)
<1>1. up /\ job.phase \in {"apply", "restore"}
  BY DEF apply_block_extended
<1>2. CASE Rejected(b) /\ fail(f) /\ StateKept
  BY <1>1, <1>2, Fail
<1>3. ASSUME NEW r \in update_last_irreversible_block(f, approvals, b),
             lib' = r.lib,
             IF r.throws
             THEN fail(f) /\ UNCHANGED <<head, committed, log, notes>>
             ELSE IF ~ Storable(f, b, r.lib)
             THEN Down /\ UNCHANGED <<head, committed, log, notes>>
             ELSE /\ head' = b
                  /\ approvals' = r.ap
                  /\ migrate_irreversible_state(f, lib, r.lib)
                  /\ LET g == set_max_size(f, Num[b] - r.lib + 1)
                     IN  fdb' = IF job.mode = "switch" /\ ~ (Len(job.todo) = 1)
                                THEN g ELSE Free(g)
                  /\ job' = IF ~ (Len(job.todo) = 1) THEN [job EXCEPT !.todo = Tail(job.todo)]
                            ELSE Ended(job.phase = "restore")
                  /\ up' = up
      PROVE  IInv'
  <2>1. /\ r.lib \in Nat /\ lib <= r.lib /\ (r.throws => r.lib = lib) /\ lib \in Nat
    <3>1. /\ b \in Block \ {Root} /\ Num[b] = Num[head] + 1 /\ Num[head] \in Nat
          /\ f \in ForkDB /\ IsFiniteSet(f.linked)
      BY <1>1, NextBlock
    <3>2. lib \in Nat /\ approvals \in Approvals /\ lib <= Num[head]
      BY <1>1 DEF IInv, Types, Running, Logged
    <3>3. lib <= Num[b]
      BY <3>1, <3>2
    <3> HIDE DEF f, b
    <3> QED  BY <1>3, <3>1, <3>2, <3>3, UpdateResult
  <2>2. CASE r.throws
    <3>1. fail(f) /\ StateKept
      BY <1>3, <2>1, <2>2 DEF StateKept
    <3> QED  BY <1>1, <3>1, Fail
  <2>3. CASE ~ r.throws /\ ~ Storable(f, b, r.lib)
    <3>1. Down /\ UNCHANGED <<head, committed, log, notes>>
      BY <1>3, <2>3
    <3>2. lib' \in Nat /\ lib' >= lib
      BY <1>3, <2>1
    <3> QED  BY <3>1, <3>2, DownKeeps
  <2>4. CASE ~ r.throws /\ Storable(f, b, r.lib)
    <3>1. AppliedWith(r)
      BY <1>3, <2>4 DEF AppliedWith
    <3> QED  BY <1>1, <1>3, <3>1, Applied
  <2> QED  BY <2>2, <2>3, <2>4
<1> QED  BY <1>2, <1>3 DEF apply_block_extended

------------------------------------------------------------------------------
(* Fast confirmations. *)

\* What is moved when the LIB becomes n.
LEMMA ConcludeMoves ==
  ASSUME IInv, up, NEW ap, NEW old \in Nat, old <= lib, NEW n \in Nat, lib <= n, n <= Num[head],
         Conclude(ap, old, n), Storable(fdb, head, n)
  PROVE  /\ head' = head /\ lib' = n
         /\ fdb.head # NoBlock => Num[fdb.head] = Num[head]
         /\ fdb.head = head \/ Num[head] = committed
         /\ log' \in Seq(Block) /\ Len(log') = n
         /\ \A k \in 1 .. n : log'[k] = Path[head][k]
         /\ committed' = n
         /\ notes' \in Seq(Nat) /\ Len(notes') > 0 /\ notes'[Len(notes')] = n
         /\ NoNotificationGap'
<1>1. Types /\ Running /\ Logged /\ NoNotificationGap
  BY DEF IInv
<1>2. /\ committed \in Nat /\ lib \in Nat /\ lib = committed
      /\ head \in Block /\ Num[head] \in Nat
      /\ fdb \in ForkDB /\ IsFiniteSet(fdb.linked)
      /\ HeadsAgree /\ Anchored
  BY <1>1, Numbers DEF Types, Running, Logged
<1>3. lib' = n /\ migrate_irreversible_state(fdb, old, n) /\ head' = head
  BY DEF Conclude
<1>4. fdb.head # NoBlock => Num[fdb.head] = Num[head]
  BY DEF Storable
<1>5. ~ (fdb.head # NoBlock /\ Num[fdb.head] > Num[head])
  BY <1>2, <1>4
<1>6. fdb.head = head \/ Num[head] = committed
  BY <1>2, <1>5 DEF HeadsAgree
<1>7. /\ log' \in Seq(Block) /\ Len(log') = n
      /\ \A k \in 1 .. n : log'[k] = Path[head][k]
      /\ committed' = n
      /\ notes' \in Seq(Nat) /\ Len(notes') > 0 /\ notes'[Len(notes')] = n
      /\ NoNotificationGap'
  <2>1. committed <= n /\ old <= committed
    BY <1>2
  <2>2. n > committed => fdb.head = head /\ \A k \in committed .. Num[head] : Path[head][k] \in fdb.linked
    BY <1>2, <1>6 DEF Anchored
  <2> QED  BY <1>1, <1>2, <1>3, <2>1, <2>2, Migrate
<1> QED  BY <1>3, <1>4, <1>6, <1>7

\* The LIB becomes n and what became irreversible is moved.
LEMMA Concluded ==
  ASSUME IInv, up, Tidy(fdb), NEW ap \in Approvals,
         NEW old \in Nat, old <= lib, NEW n \in Nat, lib <= n, n <= Num[head],
         Conclude(ap, old, n)
  PROVE  IInv'
<1>1. Types /\ Running /\ Logged /\ NoNotificationGap
  BY DEF IInv
<1>2. /\ committed \in Nat /\ lib \in Nat /\ lib = committed /\ committed >= 1
      /\ head \in Block /\ Num[head] \in Nat
      /\ fdb \in ForkDB /\ fdb.orphan \subseteq fdb.linked /\ IsFiniteSet(fdb.linked)
      /\ HeadsAgree /\ Anchored
  BY <1>1, Numbers DEF Types, Running, Logged
<1>3. CASE ~ Storable(fdb, head, n)
  <2>1. Down /\ lib' = n /\ UNCHANGED <<head, committed, log, notes>>
    BY <1>3 DEF Conclude
  <2>2. lib' \in Nat /\ lib' >= lib
    BY <1>2, <2>1
  <2> QED  BY <2>1, <2>2, DownKeeps
<1>4. CASE Storable(fdb, head, n)
  <2> DEFINE z == Num[head] - n + 1
             g == set_max_size(fdb, z)
  <2>1. /\ lib' = n /\ approvals' = ap /\ migrate_irreversible_state(fdb, old, n)
        /\ fdb' = Free(g) /\ job' = Idle /\ head' = head /\ up' = up
    BY <1>4 DEF Conclude
  <2>2. /\ fdb.head # NoBlock => Num[fdb.head] = Num[head]
        /\ fdb.head = head \/ Num[head] = committed
    BY <1>4, ConcludeMoves
  <2>3. ~ (fdb.head # NoBlock /\ Num[fdb.head] > Num[head])
    BY <1>2, <2>2
  <2>4. fdb.head = head \/ Num[head] = committed
    BY <2>2
  <2>5. /\ log' \in Seq(Block) /\ Len(log') = n
        /\ \A k \in 1 .. n : log'[k] = Path[head][k]
        /\ committed' = n
        /\ notes' \in Seq(Nat) /\ Len(notes') > 0 /\ notes'[Len(notes')] = n
        /\ NoNotificationGap'
    BY <1>4, ConcludeMoves
  <2>6. z \in Nat /\ n >= 1 /\ Num[head] - z = n - 1
    BY <1>2
  <2> HIDE DEF z
  <2>7. /\ g \in ForkDB /\ g.orphan \subseteq g.linked /\ IsFiniteSet(g.linked)
        /\ g.linked = {c \in fdb.linked : Num[c] > Max0(HeadNum(fdb) - z)}
        /\ g.head = fdb.head
    BY <1>2, <2>6, SetMaxSizeKeeps
  <2> HIDE DEF g
  <2>8. Max0(HeadNum(fdb) - z) <= n - 1 /\ Max0(HeadNum(fdb) - z) \in Int
    <3>1. CASE fdb.head = NoBlock
      BY <2>6, <3>1 DEF HeadNum, Max0
    <3>2. CASE fdb.head # NoBlock
      <4>1. HeadNum(fdb) = Num[head]
        BY <2>2, <3>2 DEF HeadNum
      <4> QED  BY <2>6, <4>1 DEF Max0
    <3> QED  BY <3>1, <3>2
  <2>9. /\ fdb' \in ForkDB /\ (fdb.orphan \subseteq fdb.linked)' /\ IsFiniteSet(fdb'.linked)
        /\ Tidy(fdb') /\ fdb'.linked = g.linked /\ fdb'.head = fdb.head
    <3> DEFINE h == Free(g)
    <3>1. /\ h \in ForkDB /\ h.orphan \subseteq h.linked /\ IsFiniteSet(h.linked)
          /\ Tidy(h) /\ h.linked = g.linked /\ h.head = g.head
      BY <2>7, FreeKeeps
    <3>2. fdb' = h
      BY <2>1
    <3> HIDE DEF h
    <3> QED  BY <2>7, <3>1, <3>2
  <2>10. JobType'
    BY <2>1 DEF JobType, Idle
  <2>11. Types'
    BY <1>1, <2>1, <2>5, <2>9, <2>10 DEF Types
  <2>12. Logged'
    BY <1>2, <2>1, <2>5, <2>6 DEF Logged
  <2>13. Anchored'
    <3> SUFFICES ASSUME NEW k \in n .. Num[head] PROVE Path[head][k] \in fdb'.linked
      BY <2>1, <2>5 DEF Anchored
    <3>1. k \in committed .. Num[head] /\ k \in 1 .. Num[head] /\ k > Max0(HeadNum(fdb) - z)
      BY <1>2, <2>8
    <3>2. Path[head][k] \in fdb.linked /\ Num[Path[head][k]] = k
      BY <1>2, <3>1, PathOn DEF Anchored
    <3> QED  BY <2>7, <2>9, <3>1, <3>2
  <2>14. HeadsAgree'
    <3>1. fdb.head = head \/ Num[head] = n
      BY <1>2, <2>4
    <3> QED  BY <2>1, <2>3, <2>5, <2>9, <3>1 DEF HeadsAgree
  <2> QED  BY <2>1, <2>5, <2>9, <2>11, <2>12, <2>13, <2>14, IdleType, Resting
<1> QED  BY <1>3, <1>4

\* Only the approvals and the job change.
LEMMA OnlyJob ==
  ASSUME IInv, up, Tidy(fdb), StateKept, UNCHANGED <<fdb, up>>, approvals' \in Approvals,
         JobType', job'.phase \in {"idle", "approved"}, job'.mode = "extend", job'.from = <<>>
  PROVE  IInv'
<1>1. Types /\ Running
  BY DEF IInv
<1>2. /\ head' = head /\ committed' = committed /\ lib' = lib /\ log' = log /\ notes' = notes
      /\ Logged' /\ NoNotificationGap'
  BY KeptState
<1>3. Types'
  BY <1>1, <1>2 DEF Types
<1>4. Anchored' /\ HeadsAgree' /\ Tidy(fdb') /\ up' /\ lib' = committed'
  BY <1>1, <1>2 DEF Running, Anchored, HeadsAgree
<1> QED  BY <1>2, <1>3, <1>4, Resting

\* An approval is noted.
LEMMA ProcessFastConfirm ==
  ASSUME IInv, NEW c \in Confirmable, process_fast_confirm_transaction(c[1], c[2])
  PROVE  IInv'
<1>1. /\ up /\ job.phase = "idle" /\ StateKept /\ UNCHANGED <<fdb, up>>
      /\ approvals' = [approvals EXCEPT ![c[1]] = c[2]]
      /\ job' = [Idle EXCEPT !.phase = "approved"]
  BY DEF process_fast_confirm_transaction
<1>2. Tidy(fdb) /\ approvals \in Approvals
  BY <1>1 DEF IInv, Running, Modes, Types
<1>3. c[1] \in Scheduled /\ c[2] \in Block
  BY FlowAssumption
<1>4. approvals' \in Approvals
  BY <1>1, <1>2, <1>3 DEF Approvals
<1>5. job' = [phase |-> "approved", stack |-> <<>>, todo |-> <<>>, old |-> <<>>,
              target |-> NoBlock, mode |-> "extend", orig |-> 0, common |-> 0,
              from |-> <<>>, block |-> NoBlock]
  BY <1>1 DEF Idle
<1>6. <<>> \in Seq(Block)
  OBVIOUS
<1>7. JobType' /\ job'.phase = "approved" /\ job'.mode = "extend" /\ job'.from = <<>>
  BY <1>5, <1>6 DEF JobType
<1> QED  BY <1>1, <1>2, <1>4, <1>7, OnlyJob

\* It may move the LIB, or start a fork switch.
LEMMA EvaluateFastConfirm ==
  ASSUME IInv, evaluate_fast_confirm
  PROVE  IInv'
<1>1. up /\ job.phase = "approved"
  BY DEF evaluate_fast_confirm
<1>2. /\ Tidy(fdb) /\ approvals \in Approvals /\ lib \in Nat /\ lib <= Num[head]
      /\ head \in Block /\ fdb \in ForkDB /\ IsFiniteSet(fdb.linked)
  BY <1>1 DEF IInv, Running, Modes, Types, Logged
<1>3. PICK r \in update_last_irreversible_block(fdb, approvals, head) :
        IF r.throws
        THEN job' = Idle /\ StateKept /\ UNCHANGED <<fdb, approvals, up>>
        ELSE IF r.to = NoBlock THEN Conclude(r.ap, lib, r.lib)
        ELSE StateKept /\ switch_forks(r.to, <<lib, r.cand>>)
  BY DEF evaluate_fast_confirm
<1>4. /\ r.lib \in Nat /\ lib <= r.lib /\ r.lib <= Num[head]
      /\ r.ap \in Approvals
      /\ r.cand \in Nat
      /\ r.to # NoBlock => r.to \in Block /\ Num[r.to] >= Num[head]
  BY <1>2, UpdateResult
<1>5. CASE r.throws
  <2>1. job' = Idle /\ StateKept /\ UNCHANGED <<fdb, approvals, up>>
    BY <1>3, <1>5
  <2>2. JobType' /\ approvals' \in Approvals
    BY <1>2, <2>1 DEF JobType, Idle
  <2> QED  BY <1>1, <1>2, <2>1, <2>2, IdleType, OnlyJob
<1>6. CASE ~ r.throws /\ r.to = NoBlock
  <2>1. Conclude(r.ap, lib, r.lib) /\ lib <= lib
    BY <1>2, <1>3, <1>6
  <2> QED  BY <1>1, <1>2, <1>4, <2>1, Concluded
<1>7. CASE ~ r.throws /\ r.to # NoBlock
  <2> DEFINE t == <<lib, r.cand>>
  <2>1. StateKept /\ switch_forks(r.to, t)
    BY <1>3, <1>7
  <2>2. t \in {<<>>} \cup (Nat \X Nat) /\ t[1] <= lib
    BY <1>2, <1>4
  <2> HIDE DEF t
  <2> QED  BY <1>1, <1>2, <1>4, <1>7, <2>1, <2>2, SwitchForks
<1> QED  BY <1>5, <1>6, <1>7

\* After that fork switch, failed or not.
LEMMA FinishFastConfirm ==
  ASSUME IInv, finish_fast_confirm
  PROVE  IInv'
<1> DEFINE old == job.from[1]
           n == Lower(job.from[2], Num[head])
<1>1. /\ up /\ job.phase = "confirmed"
      /\ IF job.from[2] = 0 THEN Conclude(approvals, old, lib)
         ELSE IF n < lib
         THEN job' = Idle /\ StateKept /\ UNCHANGED <<fdb, approvals, up>>
         ELSE Conclude(Relevant(approvals, n), old, n)
  BY DEF finish_fast_confirm
<1>2. /\ Tidy(fdb) /\ approvals \in Approvals /\ lib \in Nat /\ lib <= Num[head]
      /\ head \in Block /\ Num[head] \in Nat /\ JobType /\ Modes
  BY <1>1, Numbers DEF IInv, Running, Modes, Types, Logged
<1>3. job.from \in Nat \X Nat /\ old <= lib
  BY <1>1, <1>2 DEF JobType, Modes
<1>4. old \in Nat /\ job.from[2] \in Nat
  BY <1>3
<1>5. n \in Nat /\ n <= Num[head]
  BY <1>2, <1>4 DEF Lower
<1> HIDE DEF n, old
<1>6. CASE job.from[2] = 0
  <2>1. Conclude(approvals, old, lib) /\ lib <= lib
    BY <1>1, <1>2, <1>6
  <2> QED  BY <1>1, <1>2, <1>3, <1>4, <2>1, Concluded
<1>7. CASE job.from[2] # 0 /\ n < lib
  <2>1. job' = Idle /\ StateKept /\ UNCHANGED <<fdb, approvals, up>>
    BY <1>1, <1>7
  <2>2. JobType' /\ approvals' \in Approvals
    BY <1>2, <2>1 DEF JobType, Idle
  <2> QED  BY <1>1, <1>2, <2>1, <2>2, IdleType, OnlyJob
<1>8. CASE job.from[2] # 0 /\ ~ (n < lib)
  <2>1. Conclude(Relevant(approvals, n), old, n) /\ lib <= n
    BY <1>1, <1>2, <1>5, <1>8
  <2>2. Relevant(approvals, n) \in Approvals
    BY <1>2 DEF Relevant, Approvals
  <2> QED  BY <1>1, <1>2, <1>3, <1>4, <1>5, <2>1, <2>2, Concluded
<1> QED  BY <1>6, <1>7, <1>8

------------------------------------------------------------------------------
(* Start and end of the process. *)

\* A start goes back to the newest block without undo session.
LEMMA Opened ==
  ASSUME IInv, open
  PROVE  IInv'
<1> DEFINE h == Path[head][committed]
<1>1. /\ ~ up /\ Loadable /\ head' = h /\ fdb' = start_block(Last(log)) /\ up' = TRUE
      /\ UNCHANGED <<committed, lib, log, approvals, notes, job>>
  BY DEF open
<1>2. Types /\ Logged /\ NoNotificationGap /\ job = Idle
  BY <1>1 DEF IInv
<1>3. /\ head \in Block /\ Num[head] \in Nat /\ committed \in Nat /\ lib \in Nat
      /\ log \in Seq(Block) /\ Len(log) = committed /\ 1 <= committed /\ committed <= Num[head]
      /\ committed <= lib
      /\ \A k \in 1 .. committed : log[k] = Path[head][k]
  BY <1>2, Numbers DEF Types, Logged
<1>4. committed \in 1 .. Num[head] /\ committed \in 1 .. committed
  BY <1>3
<1>5. h \in Block /\ Num[h] = committed /\ \A k \in 1 .. committed : Path[h][k] = Path[head][k]
  BY <1>3, <1>4, PathOn
<1>6. Last(log) = h
  BY <1>3, <1>4 DEF Last
<1> HIDE DEF h
<1>7. /\ fdb' \in ForkDB /\ (fdb.orphan \subseteq fdb.linked)' /\ IsFiniteSet(fdb'.linked)
      /\ fdb'.linked = {h} /\ fdb'.head = h /\ Tidy(fdb')
  BY <1>1, <1>5, <1>6, StartBlock
<1>8. Types'
  BY <1>1, <1>2, <1>5, <1>7 DEF Types, JobType
<1>9. Logged'
  BY <1>1, <1>2, <1>3, <1>5 DEF Logged
<1>10. NoNotificationGap'
  BY <1>1, <1>2 DEF NoNotificationGap
<1>11. lib' = committed'
  BY <1>1, <1>3 DEF Loadable
<1>12. Anchored'
  <2>1. Path[h][committed] = h
    BY <1>5, PathIsPath DEF IsPath
  <2>2. \A k \in committed .. committed : k = committed
    BY <1>3
  <2> QED  BY <1>1, <1>5, <1>7, <2>1, <2>2 DEF Anchored
<1>13. HeadsAgree'
  BY <1>1, <1>3, <1>5, <1>7 DEF HeadsAgree
<1> QED  BY <1>1, <1>2, <1>7, <1>8, <1>9, <1>10, <1>11, <1>12, <1>13, IdleType, Resting

\* Nothing happens.
LEMMA Stutter ==
  ASSUME IInv, UNCHANGED vars
  PROVE  IInv'
<1> USE DEF vars
<1>1. Types'
  BY DEF IInv, Types, JobType
<1>2. Logged' /\ NoNotificationGap'
  BY DEF IInv, Logged, NoNotificationGap
<1>3. Running => Running'
  BY DEF Running, Anchored, HeadsAgree, Modes, Linking, Applying, Reaching, Leaving, Returning
<1> QED  BY <1>1, <1>2, <1>3 DEF IInv

------------------------------------------------------------------------------
(* Theorems. *)

\* The inductive invariant holds for every tree of blocks.
THEOREM FlowInvariant == Spec => []IInv
<1>1. Init => IInv
  BY InitInv
<1>2. IInv /\ [Next]_vars => IInv'
  <2> SUFFICES ASSUME IInv, [Next]_vars PROVE IInv'
    OBVIOUS
  <2>1. CASE \E b \in Block \ {Root} : push_block(b)
    BY <2>1, PushBlock
  <2>2. CASE \E c \in Confirmable : process_fast_confirm_transaction(c[1], c[2])
    BY <2>2, ProcessFastConfirm
  <2>3. CASE push_next
    BY <2>3, PushNext
  <2>4. CASE extend_or_switch
    BY <2>4, ExtendOrSwitch
  <2>5. CASE pop_block_extended
    BY <2>5, PopBlock
  <2>6. CASE apply_block_extended
    BY <2>6, ApplyBlock
  <2>7. CASE evaluate_fast_confirm
    BY <2>7, EvaluateFastConfirm
  <2>8. CASE finish_fast_confirm
    BY <2>8, FinishFastConfirm
  <2>9. CASE stop
    <3>1. Down /\ UNCHANGED <<head, committed, log, notes>> /\ lib' = lib
      BY <2>9 DEF stop, StateKept
    <3>2. lib' \in Nat /\ lib' >= lib
      BY <3>1 DEF IInv, Types
    <3> QED  BY <3>1, <3>2, DownKeeps
  <2>10. CASE open
    BY <2>10, Opened
  <2>11. CASE UNCHANGED vars
    BY <2>11, Stutter
  <2> QED  BY <2>1, <2>2, <2>3, <2>4, <2>5, <2>6, <2>7, <2>8, <2>9, <2>10, <2>11
           DEF Next, Step
<1> QED  BY <1>1, <1>2, PTL DEF Spec

\* Every variable holds what the C++ types allow.
THEOREM TypeCorrect == Spec => []TypeOK
<1>1. IInv => TypeOK
  <2> SUFFICES ASSUME IInv PROVE TypeOK
    OBVIOUS
  <2>1. committed \in 1 .. Num[head]
    BY Numbers DEF IInv, Types, Logged
  <2> QED  BY <2>1 DEF IInv, Types, JobType, ForkDB, Approvals, TypeOK
<1> QED  BY <1>1, FlowInvariant, PTL

\* The block log is what the state was made from, whatever fork switches
\* succeed or fail and wherever the process ends.
THEOREM LogTheorem == Spec => []LogFollowsState
<1>1. IInv => LogFollowsState
  <2> SUFFICES ASSUME IInv PROVE LogFollowsState
    OBVIOUS
  <2>1. /\ head \in Block /\ log \in Seq(Block) /\ committed \in Nat /\ committed <= Num[head]
        /\ Len(log) = committed /\ \A k \in 1 .. committed : log[k] = Path[head][k]
    BY DEF IInv, Types, Logged
  <2>2. Path[head] \in Seq(Block) /\ Len(Path[head]) = Num[head] /\ Num[head] \in Nat
    BY <2>1, PathIsPath, Numbers DEF IsPath
  <2> DEFINE s == SubSeq(log, 1, committed)
             t == SubSeq(Path[head], 1, committed)
  <2>3. /\ s \in Seq(Block) /\ t \in Seq(Block) /\ Len(s) = committed /\ Len(t) = committed
        /\ \A k \in 1 .. committed : s[k] = log[k] /\ t[k] = Path[head][k]
    BY <2>1, <2>2
  <2> HIDE DEF s, t
  <2>4. s = t
    BY <2>1, <2>3
  <2> QED  BY <2>1, <2>2, <2>4 DEF LogFollowsState, IsPrefix, s, t
<1> QED  BY <1>1, FlowInvariant, PTL

\* Irreversible blocks are announced in order and without gaps, across fork
\* switches, fast confirmations and restarts.
THEOREM NotificationTheorem == Spec => []NoNotificationGap
<1>1. IInv => NoNotificationGap
  BY DEF IInv
<1> QED  BY <1>1, FlowInvariant, PTL

\* A running process may be ended between any two steps: the next start finds a
\* state, a LIB and a block log that agree.
THEOREM RecoverableWhileUp == Spec => [](up => Recoverable)
<1>1. IInv => (up => Recoverable)
  <2> SUFFICES ASSUME IInv, up PROVE Recoverable
    OBVIOUS
  <2>1. /\ lib = committed /\ committed \in Nat /\ 1 <= committed /\ committed <= Num[head]
        /\ Len(log) = committed
        /\ \A k \in 1 .. committed : log[k] = Path[head][k]
    BY DEF IInv, Running, Types, Logged
  <2>2. committed \in 1 .. committed /\ lib <= committed /\ Num[head] >= lib /\ committed >= lib
    BY <2>1, Numbers DEF IInv, Types
  <2> QED  BY <2>1, <2>2 DEF Recoverable, Loadable, is_reindex_complete
<1> QED  BY <1>1, FlowInvariant, PTL

------------------------------------------------------------------------------
(* The votes behind an irreversible block. *)

\* The block a witness is credited with is one of its own.
LEMMA LastGenerated ==
  ASSUME NEW f \in ForkDB, IsFiniteSet(f.linked), NEW w,
         last_block_generated_by(f, w) # NoBlock
  PROVE  /\ last_block_generated_by(f, w) \in f.linked
         /\ Producer[last_block_generated_by(f, w)] = w
<1> DEFINE mine == {b \in f.linked : Producer[b] = w}
           R == {e \in Block \X Block : Num[e[1]] <= Num[e[2]]}
<1>1. f.linked \subseteq Block
  BY DEF ForkDB
<1>2. mine # {}
  BY DEF last_block_generated_by
<1>3. \A b, c \in Block : <<b, c>> \in R <=> Num[b] <= Num[c]
  OBVIOUS
<1> HIDE DEF R
<1>4. Orders(R, f.linked)
  <2>1. \A b \in f.linked : Num[b] \in Nat
    BY <1>1, Numbers
  <2> QED  BY <1>1, <1>3, <2>1 DEF Orders
<1>5. mine \in SUBSET f.linked
  OBVIOUS
<1> HIDE DEF mine
<1>6. PICK m \in mine : \A x \in mine : x # m => <<x, m>> \in R
  BY <1>2, <1>4, <1>5, LastExists
<1>7. \A x \in mine : Num[x] <= Num[m]
  <2>1. Num[m] <= Num[m]
    BY <1>1, <1>5, Numbers
  <2> QED  BY <1>1, <1>3, <1>5, <1>6, <2>1
<1>8. last_block_generated_by(f, w) = CHOOSE b \in mine : \A c \in mine : Num[c] <= Num[b]
  BY <1>2 DEF last_block_generated_by, mine
<1>9. last_block_generated_by(f, w) \in mine
  BY <1>7, <1>8
<1> QED  BY <1>9 DEF mine

\* Enough support on a fork is a quorum of votes.
LEMMA SupportVotes ==
  ASSUME NEW f \in ForkDB, IsFiniteSet(f.linked), f.linked = fdb.linked,
         approvals \in Approvals, NEW h \in Block, NEW x \in Back(f, h),
         Enough(Support(f, approvals, h, x))
  PROVE  Cardinality(Votes(x)) >= Required
<1> DEFINE W == {w \in Scheduled :
                   /\ BestVote(f, approvals, w) # NoBlock
                   /\ BestVote(f, approvals, w) \in Ancestors(h)
                   /\ Num[BestVote(f, approvals, w)] >= Num[x]}
<1>1. Support(f, approvals, h, x) = Cardinality(W)
  BY DEF Support
<1>2. PICK i \in 1 .. Num[h] : x = Path[h][i]
  BY DEF Back
<1>3. x \in Block /\ Num[x] = i /\ Num[h] \in Nat
  BY <1>2, PathOn, Numbers
<1>4. ASSUME NEW w \in W PROVE w \in Votes(x)
  <2> DEFINE v == BestVote(f, approvals, w)
             p == last_block_generated_by(f, w)
  <2>1. w \in Scheduled /\ v # NoBlock /\ v \in Ancestors(h) /\ Num[v] >= Num[x]
    OBVIOUS
  <2>2. v = approvals[w] \/ v = p
    BY DEF BestVote
  <2> HIDE DEF v
  <2>3. v = approvals[w] \/ (v \in fdb.linked /\ Producer[v] = w)
    BY <2>1, <2>2, LastGenerated
  <2>4. PICK j \in 1 .. Num[h] : v = Path[h][j]
    BY <2>1 DEF Ancestors
  <2>5. v \in Block /\ Num[v] = j /\ \A k \in 1 .. j : Path[v][k] = Path[h][k]
    BY <2>4, PathOn
  <2>6. i \in 1 .. j
    BY <1>3, <2>1, <2>5
  <2>7. x \in Ancestors(v)
    BY <1>2, <2>5, <2>6 DEF Ancestors
  <2> QED  BY <2>1, <2>3, <2>7 DEF Votes
<1> HIDE DEF W
<1>5. IsFiniteSet(Votes(x)) /\ W \in SUBSET Votes(x)
  <2>1. Votes(x) \in SUBSET Scheduled
    BY DEF Votes
  <2> QED  BY <1>4, <2>1, FlowAssumption, FS_Subset
<1>6. /\ Cardinality(W) <= Cardinality(Votes(x)) /\ IsFiniteSet(W)
  BY <1>5, FS_Subset
<1>7. Cardinality(W) \in Nat /\ Cardinality(Votes(x)) \in Nat
  BY <1>5, <1>6, FS_CardinalityType
<1>8. Required \in Int
  <2>1. Cardinality(Scheduled) \in Nat
    BY FlowAssumption, FS_CardinalityType
  <2> QED  BY <2>1 DEF Required
<1>9. Cardinality(W) >= Required
  BY <1>1 DEF Enough
<1> QED  BY <1>6, <1>7, <1>8, <1>9

\* The votes among linked blocks and approvals.
VotesBy(linked, ap, x) ==
  {w \in Scheduled : \E v \in linked \cup {ap[w]} :
     /\ v # NoBlock
     /\ x \in Ancestors(v)
     /\ v = ap[w] \/ Producer[v] = w}

\* They are the votes of the current state.
LEMMA VotesAre ==
  ASSUME NEW x
  PROVE  Votes(x) = VotesBy(fdb.linked, approvals, x)
  BY DEF Votes, VotesBy

\* Votes for a block above the LIB outlive what becomes irreversible.
LEMMA VotesKept ==
  ASSUME approvals \in Approvals, approvals' \in Approvals, fdb \in ForkDB, lib' \in Nat,
         \A c \in fdb.linked : Num[c] > lib' => c \in fdb'.linked,
         \A w \in Scheduled : approvals[w] # NoBlock /\ Num[approvals[w]] > lib'
                                => approvals'[w] = approvals[w],
         NEW x \in Block, Num[x] > lib', Cardinality(Votes(x)) >= Required
  PROVE  Cardinality(VotesBy(fdb'.linked, approvals', x)) >= Required
<1>1. ASSUME NEW w \in Votes(x) PROVE w \in VotesBy(fdb'.linked, approvals', x)
  <2>1. PICK v \in fdb.linked \cup {approvals[w]} :
          v # NoBlock /\ x \in Ancestors(v) /\ (v = approvals[w] \/ Producer[v] = w)
    BY DEF Votes
  <2>2. w \in Scheduled
    BY DEF Votes
  <2>3. v \in Block
    BY <2>1, <2>2 DEF Approvals, ForkDB
  <2>4. PICK i \in 1 .. Num[v] : x = Path[v][i]
    BY <2>1 DEF Ancestors
  <2>5. Num[v] > lib'
    <3>1. Num[x] = i /\ Num[v] \in Nat
      BY <2>3, <2>4, PathOn, Numbers
    <3> QED  BY <3>1
  <2>6. CASE v = approvals[w]
    <3>1. approvals'[w] = v
      BY <2>1, <2>2, <2>5, <2>6
    <3> QED  BY <2>1, <2>2, <3>1 DEF VotesBy
  <2>7. CASE v # approvals[w]
    <3>1. v \in fdb'.linked /\ Producer[v] = w
      BY <2>1, <2>5, <2>7
    <3> QED  BY <2>1, <2>2, <3>1 DEF VotesBy
  <2> QED  BY <2>6, <2>7
<1> DEFINE V == Votes(x)
           U == VotesBy(fdb'.linked, approvals', x)
<1>2. U \in SUBSET Scheduled /\ V \in SUBSET U
  <2>1. U \in SUBSET Scheduled
    BY DEF VotesBy
  <2> QED  BY <1>1, <2>1
<1> HIDE DEF U, V
<1>3. IsFiniteSet(U)
  BY <1>2, FlowAssumption, FS_Subset
<1>4. Cardinality(V) <= Cardinality(U) /\ IsFiniteSet(V)
  BY <1>2, <1>3, FS_Subset
<1>5. Cardinality(V) \in Nat /\ Cardinality(U) \in Nat
  BY <1>3, <1>4, FS_CardinalityType
<1>6. Required \in Int
  <2>1. Cardinality(Scheduled) \in Nat
    BY FlowAssumption, FS_CardinalityType
  <2> QED  BY <2>1 DEF Required
<1>7. Cardinality(V) >= Required
  BY DEF V
<1>8. Cardinality(U) >= Required
  BY <1>4, <1>5, <1>6, <1>7
<1> QED  BY <1>8 DEF U

\* What is found where a new LIB or another fork comes of it.
LEMMA UpdateVoted ==
  ASSUME NEW f \in ForkDB, IsFiniteSet(f.linked), NEW ap \in Approvals, NEW hd \in Block,
         lib \in Nat, lib <= Num[hd],
         NEW r \in update_last_irreversible_block(f, ap, hd)
  PROVE  /\ r.ap \in {ap, Relevant(ap, r.lib)}
         /\ r.lib # lib /\ Num[hd] >= StartMinerVotingBlock =>
              \E x \in Candidates(f, ap, lib) :
                /\ x.block # NoBlock
                /\ x.block = fetch_block_on_main_branch_by_number(f, Num[x.block])
                /\ r.lib = Lower(Num[x.block], Num[hd])
         /\ r.to # NoBlock =>
              \E x \in Candidates(f, ap, lib) :
                /\ x.block # NoBlock
                /\ r.to = x.head
                /\ r.cand = Num[x.block]
<1> DEFINE same == [lib |-> lib, ap |-> ap, throws |-> FALSE, to |-> NoBlock, cand |-> 0]
           set(n) == IF n < lib THEN [same EXCEPT !.throws = TRUE]
                     ELSE [same EXCEPT !.lib = n, !.ap = Relevant(ap, n)]
           outcome(x) ==
             IF x.block = NoBlock THEN same
             ELSE IF x.block = fetch_block_on_main_branch_by_number(f, Num[x.block])
             THEN set(Lower(Num[x.block], Num[hd]))
             ELSE IF Num[x.head] < Num[hd] THEN same
             ELSE [same EXCEPT !.to = x.head, !.cand = Num[x.block]]
<1>1. Num[hd] \in Nat
  BY Numbers
<1>2. CASE Num[hd] < StartMinerVotingBlock
  <2> DEFINE n == IF Num[hd] > MaxWitnesses THEN Higher(lib, Num[hd] - MaxWitnesses) ELSE lib
  <2>1. r = [same EXCEPT !.lib = n]
    BY <1>2 DEF update_last_irreversible_block
  <2>2. ~ (Num[hd] >= StartMinerVotingBlock)
    BY <1>1, <1>2, FlowAssumption
  <2> HIDE DEF n
  <2> QED  BY <2>1, <2>2
<1>3. CASE ~ (Num[hd] < StartMinerVotingBlock) /\ lib = Num[hd]
  <2>1. r = same
    BY <1>3 DEF update_last_irreversible_block
  <2> QED  BY <2>1
<1>4. CASE ~ (Num[hd] < StartMinerVotingBlock) /\ lib # Num[hd]
  <2>1. PICK x \in find_new_last_irreversible_block(f, ap, lib) : r = outcome(x)
    BY <1>4 DEF update_last_irreversible_block
  <2>2. x \in Candidates(f, ap, lib)
    BY FindType
  <2>3. CASE x.block = NoBlock
    <3>1. r = same
      BY <2>1, <2>3
    <3> QED  BY <3>1
  <2>4. CASE x.block # NoBlock /\ x.block = fetch_block_on_main_branch_by_number(f, Num[x.block])
    <3> DEFINE n == Lower(Num[x.block], Num[hd])
    <3>1. r = set(n)
      BY <2>1, <2>4
    <3>2. CASE n < lib
      <4>1. r = [lib |-> lib, ap |-> ap, throws |-> TRUE, to |-> NoBlock, cand |-> 0]
        BY <3>1, <3>2
      <4> QED  BY <4>1
    <3>3. CASE ~ (n < lib)
      <4>1. r = [lib |-> n, ap |-> Relevant(ap, n), throws |-> FALSE, to |-> NoBlock, cand |-> 0]
        BY <3>1, <3>3
      <4> HIDE DEF set, outcome, same
      <4>2. r.lib = n /\ r.ap = Relevant(ap, n) /\ r.to = NoBlock
        BY <4>1
      <4> QED  BY <2>2, <2>4, <4>2
    <3> QED  BY <3>2, <3>3
  <2>5. CASE x.block # NoBlock /\ x.block # fetch_block_on_main_branch_by_number(f, Num[x.block])
    <3>1. CASE Num[x.head] < Num[hd]
      <4>1. r = same
        BY <2>1, <2>5, <3>1
      <4> QED  BY <4>1
    <3>2. CASE ~ (Num[x.head] < Num[hd])
      <4>1. r = [lib |-> lib, ap |-> ap, throws |-> FALSE, to |-> x.head, cand |-> Num[x.block]]
        BY <2>1, <2>5, <3>2
      <4> HIDE DEF set, outcome, same
      <4>2. r.lib = lib /\ r.ap = ap /\ r.to = x.head /\ r.cand = Num[x.block]
        BY <4>1
      <4> QED  BY <2>2, <2>5, <4>2
    <3> QED  BY <3>1, <3>2
  <2> QED  BY <2>3, <2>4, <2>5
<1> QED  BY <1>2, <1>3, <1>4

\* A new LIB found on the branch of the head is the block of the path, with a
\* quorum.
LEMMA FoundOnPath ==
  ASSUME NEW f \in ForkDB, IsFiniteSet(f.linked), f.linked = fdb.linked,
         approvals \in Approvals, NEW hd \in Block, f.head = hd,
         lib \in Nat, 1 <= lib, lib <= Num[hd],
         \A k \in lib .. Num[hd] : Path[hd][k] \in f.linked,
         NEW x \in Candidates(f, approvals, lib), x.block # NoBlock,
         x.block = fetch_block_on_main_branch_by_number(f, Num[x.block])
  PROVE  /\ Lower(Num[x.block], Num[hd]) = Num[x.block]
         /\ Num[x.block] \in 1 .. Num[hd]
         /\ x.block = Path[hd][Num[x.block]]
         /\ Cardinality(Votes(x.block)) >= Required
<1> DEFINE k == Num[x.block]
<1>1. /\ x.block \in Block /\ x.head \in Block /\ x.block \in Back(f, x.head) /\ k > lib
      /\ Enough(Support(f, approvals, x.head, x.block))
  BY DEF Candidates, Found
<1>2. k \in Nat /\ Num[hd] \in Nat /\ hd # NoBlock
  BY <1>1, Numbers, TreeAssumption
<1> HIDE DEF k
<1>3. ~ (k > Num[hd])
  BY <1>2 DEF fetch_block_on_main_branch_by_number, HeadNum, k
<1>4. k \in 1 .. Num[hd] /\ k \in lib .. Num[hd]
  BY <1>1, <1>2, <1>3
<1>5. fetch_block_on_main_branch_by_number(f, k) \in {NoBlock, Path[hd][k]}
  BY <1>2, <1>4, FetchOnBranch
<1>6. x.block = Path[hd][k]
  BY <1>5 DEF k
<1>7. Lower(k, Num[hd]) = k
  BY <1>2, <1>3 DEF Lower
<1>8. Cardinality(Votes(x.block)) >= Required
  BY <1>1, SupportVotes
<1> QED  BY <1>4, <1>6, <1>7, <1>8 DEF k

\* A fast confirmation whose fork switch has not failed: the candidate is on
\* the fork, and as long as it is above the LIB it has its quorum.
Confirming ==
  /\ job.phase \in {"idle", "link", "decide", "approved"} => job.from = <<>>
  /\ (up /\ job.phase \in {"pop", "apply", "confirmed"} /\ job.from # <<>> /\ job.from[2] # 0) =>
       LET tip == IF job.phase = "confirmed" THEN head ELSE job.todo[Len(job.todo)]
       IN  /\ job.from[2] <= Num[tip]
           /\ job.from[2] > lib => Cardinality(VotesBy(fdb.linked, approvals, Path[tip][job.from[2]])) >= Required

\* No candidate is waiting.
LEMMA NotConfirming ==
  ASSUME \/ job'.from = <<>>
         \/ job'.phase \in {"unpop", "restore"}
         \/ job'.phase = "confirmed" /\ job'.from[2] = 0
  PROVE  Confirming'
  BY DEF Confirming

\* A process that ends forgets its candidate.
LEMMA DownConfirming ==
  ASSUME Down
  PROVE  Confirming'
<1>1. job'.from = <<>>
  BY IdleType DEF Down
<1> QED  BY <1>1, NotConfirming

\* A job that has thrown has no candidate.
LEMMA ThrownConfirming ==
  ASSUME job' = Ended(TRUE)
  PROVE  Confirming'
<1>1. CASE job.from = <<>>
  <2>1. job'.from = <<>>
    BY <1>1, IdleType DEF Ended
  <2> QED  BY <2>1, NotConfirming
<1>2. CASE job.from # <<>>
  <2> DEFINE t == <<job.from[1], 0>>
  <2>1. job' = [Idle EXCEPT !.phase = "confirmed", !.from = t]
    BY <1>2 DEF Ended
  <2>2. t[2] = 0
    OBVIOUS
  <2> HIDE DEF t
  <2>3. job'.phase = "confirmed" /\ job'.from = t
    BY <2>1 DEF Idle
  <2> QED  BY <2>2, <2>3, NotConfirming
<1> QED  BY <1>1, <1>2

\* So does a fork switch that fails.
LEMMA FailConfirming ==
  ASSUME JobType, NEW f, fail(f)
  PROVE  Confirming'
<1>1. \/ job' = Ended(TRUE)
      \/ Down
      \/ job' = [job EXCEPT !.phase = "unpop", !.todo = <<>>]
  BY DEF fail
<1>2. CASE job' = [job EXCEPT !.phase = "unpop", !.todo = <<>>]
  <2>1. job'.phase = "unpop"
    BY <1>2 DEF JobType
  <2> QED  BY <2>1, NotConfirming
<1> QED  BY <1>1, <1>2, ThrownConfirming, DownConfirming

\* A fork switch starts with its candidate on the fork it goes to.
LEMMA SwitchConfirming ==
  ASSUME IInv, up, StateKept, NEW to \in Block, Num[to] >= Num[head],
         NEW from \in {<<>>} \cup (Nat \X Nat), switch_forks(to, from),
         from # <<>> => /\ from[2] <= Num[to]
                        /\ Cardinality(Votes(Path[to][from[2]])) >= Required
  PROVE  Confirming'
<1>1. CASE to = head
  <2>1. Down
    BY <1>1 DEF switch_forks
  <2> QED  BY <2>1, DownConfirming
<1>2. CASE to # head /\ ~ BranchesExist(fdb, to, head)
  <2>1. CASE from = <<>>
    <3>1. job' = Idle
      BY <1>2, <2>1 DEF switch_forks
    <3> QED  BY <3>1, IdleType, NotConfirming
  <2>2. CASE from # <<>>
    <3> DEFINE t == <<from[1], 0>>
    <3>1. job' = [Idle EXCEPT !.phase = "confirmed", !.from = t]
      BY <1>2, <2>2 DEF switch_forks
    <3>2. t[2] = 0
      OBVIOUS
    <3> HIDE DEF t
    <3>3. job'.phase = "confirmed" /\ job'.from = t
      BY <3>1 DEF Idle
    <3> QED  BY <3>2, <3>3, NotConfirming
  <2> QED  BY <2>1, <2>2
<1>3. CASE to # head /\ BranchesExist(fdb, to, head)
  <2> DEFINE m == Common(to, head)
             s == Branch(to, head)
  <2>1. /\ fdb' = fdb /\ approvals' = approvals
        /\ job' = [phase |-> "pop", stack |-> <<>>, todo |-> s, old |-> Branch(head, to),
                   target |-> Path[to][m], mode |-> "switch", orig |-> Num[head], common |-> m,
                   from |-> from, block |-> job.block]
    BY <1>3 DEF switch_forks
  <2>2. head \in Block
    BY DEF IInv, Types
  <2>3. /\ m \in 1 .. Num[to] /\ Len(s) = Num[to] - m /\ s # <<>> /\ s \in Seq(Block)
        /\ \A i \in 1 .. Len(s) : s[i] = Path[to][m + i]
    BY <1>3, <2>2, Branches
  <2> HIDE DEF m, s
  <2>4. job'.phase = "pop" /\ job'.todo = s /\ job'.from = from
    BY <2>1
  <2>5. s[Len(s)] = to
    <3>1. Num[to] \in Nat /\ Path[to][Num[to]] = to
      BY Numbers, PathIsPath DEF IsPath
    <3>2. Len(s) \in 1 .. Len(s) /\ m + Len(s) = Num[to]
      BY <2>3, <3>1
    <3> QED  BY <2>3, <3>1, <3>2
  <2>6. from # <<>> => Cardinality(VotesBy(fdb'.linked, approvals', Path[to][from[2]])) >= Required
    BY <2>1, VotesAre
  <2> QED  BY <2>4, <2>5, <2>6 DEF Confirming
<1> QED  BY <1>1, <1>2, <1>3

\* Applying a block keeps the candidate's quorum.
LEMMA AppliedConfirming ==
  ASSUME IInv, Confirming, up, job.phase \in {"apply", "restore"},
         NEW r \in update_last_irreversible_block(set_head(fdb, Head(job.todo)), approvals,
                                                  Head(job.todo)),
         AppliedWith(r)
  PROVE  Confirming'
<1> DEFINE s == job.todo
           b == Head(s)
           f == set_head(fdb, b)
           n == r.lib
           tip == s[Len(s)]
<1>1. /\ lib' = n /\ head' = b /\ approvals' = r.ap
      /\ job' = IF ~ (Len(s) = 1) THEN [job EXCEPT !.todo = Tail(job.todo)]
                ELSE Ended(job.phase = "restore")
      /\ up' = up
  BY DEF AppliedWith
<1>2. JobType /\ approvals \in Approvals /\ lib \in Nat /\ lib <= Num[head] /\ fdb \in ForkDB
  BY DEF IInv, Types, Running, Logged
<1>3. /\ s \in Seq(Block) /\ Len(s) \in Nat /\ Len(s) >= 1 /\ b = s[1]
      /\ b \in Block \ {Root} /\ Num[b] = Num[head] + 1 /\ Num[head] \in Nat
      /\ f \in ForkDB /\ IsFiniteSet(f.linked)
      /\ \A i \in 1 .. Len(s) : s[i] \in Block
  BY NextBlock
<1>4. /\ n \in Nat /\ lib <= n /\ r.ap \in Approvals
      /\ fdb'.linked = {c \in fdb.linked : Num[c] >= n}
  BY AppliedState
<1>5. r.ap \in {approvals, Relevant(approvals, n)}
  <2>1. r \in update_last_irreversible_block(f, approvals, b) /\ lib <= Num[b]
    BY <1>2, <1>3
  <2> HIDE DEF f, b
  <2> QED  BY <1>2, <1>3, <2>1, UpdateVoted
<1> HIDE DEF f, b
<1>6. ASSUME NEW x \in Block, Num[x] > lib', Cardinality(Votes(x)) >= Required
      PROVE  Cardinality(VotesBy(fdb'.linked, approvals', x)) >= Required
  <2>1. \A c \in fdb.linked : Num[c] > lib' => c \in fdb'.linked
    BY <1>1, <1>2, <1>4, Numbers DEF ForkDB
  <2>2. \A w \in Scheduled : approvals[w] # NoBlock /\ Num[approvals[w]] > lib'
                               => approvals'[w] = approvals[w]
    BY <1>1, <1>5 DEF Relevant
  <2> QED  BY <1>1, <1>2, <1>4, <1>6, <2>1, <2>2, VotesKept
<1>7. tip \in Block /\ Len(s) \in 1 .. Len(s)
  BY <1>3
<1>8. ASSUME job.phase = "apply", job.from # <<>>, job.from[2] # 0
      PROVE  /\ job.from[2] <= Num[tip]
             /\ job.from[2] > lib' => Cardinality(VotesBy(fdb'.linked, approvals', Path[tip][job.from[2]])) >= Required
  <2> DEFINE c == job.from[2]
  <2>1. c \in Nat
    BY <1>2, <1>8 DEF JobType
  <2>2. c <= Num[tip] /\ (c > lib => Cardinality(Votes(Path[tip][c])) >= Required)
    BY <1>8, VotesAre DEF Confirming
  <2> HIDE DEF c, tip
  <2>3. ASSUME c > lib' PROVE Cardinality(VotesBy(fdb'.linked, approvals', Path[tip][c])) >= Required
    <3>1. c > lib /\ c \in 1 .. Num[tip] /\ Num[tip] \in Nat
      BY <1>1, <1>2, <1>4, <1>7, <2>1, <2>2, <2>3, Numbers
    <3>2. Path[tip][c] \in Block /\ Num[Path[tip][c]] = c
      BY <1>7, <3>1, PathOn
    <3> QED  BY <1>6, <2>2, <2>3, <3>1, <3>2
  <2> QED  BY <2>2, <2>3 DEF c
<1> HIDE DEF tip
<1>9. CASE Len(s) # 1
  <2> DEFINE t == Tail(s)
  <2>1. job' = [job EXCEPT !.todo = t]
    BY <1>1, <1>9
  <2>2. s # <<>>
    BY <1>3
  <2>3. /\ t \in Seq(Block) /\ Len(t) = Len(s) - 1
        /\ \A i \in 1 .. Len(t) : t[i] = s[i + 1]
    BY <1>3, <2>2, HeadTailProperties
  <2> HIDE DEF t
  <2>4. job'.phase = job.phase /\ job'.todo = t /\ job'.from = job.from
    BY <1>2, <2>1, <2>3 DEF JobType
  <2>5. t[Len(t)] = tip
    <3> DEFINE l == Len(s)
    <3>1. l \in Nat /\ l >= 1 /\ l # 1 /\ Len(t) = l - 1
      BY <1>3, <1>9, <2>3
    <3> HIDE DEF l
    <3>2. Len(t) \in 1 .. Len(t) /\ Len(t) + 1 = l
      BY <3>1
    <3>3. t[Len(t)] = s[Len(t) + 1]
      BY <2>3, <3>2
    <3> QED  BY <3>2, <3>3 DEF l, tip
  <2> QED  BY <1>8, <2>4, <2>5 DEF Confirming
<1>10. CASE Len(s) = 1
  <2>1. tip = b
    BY <1>3, <1>10 DEF tip
  <2>2. CASE job.phase = "restore"
    <3>1. (job.phase = "restore") = TRUE
      BY <2>2
    <3>2. job' = Ended(job.phase = "restore")
      BY <1>1, <1>10
    <3>3. job' = Ended(TRUE)
      BY <3>1, <3>2
    <3> QED  BY <3>3, ThrownConfirming
  <2>3. CASE job.phase = "apply"
    <3>1. job' = Ended(job.phase = "restore")
      BY <1>1, <1>10
    <3>2. CASE job.from = <<>>
      <4>1. job'.from = <<>>
        BY <3>1, <3>2, IdleType DEF Ended
      <4> QED  BY <4>1, NotConfirming
    <3>3. CASE job.from # <<>>
      <4> DEFINE q == <<job.from[1], job.from[2]>>
      <4>1. job' = [Idle EXCEPT !.phase = "confirmed", !.from = q]
        BY <2>3, <3>1, <3>3 DEF Ended
      <4>2. q[2] = job.from[2]
        OBVIOUS
      <4> HIDE DEF q
      <4>3. job'.phase = "confirmed" /\ job'.from = q
        BY <4>1 DEF Idle
      <4> QED  BY <1>1, <1>8, <2>1, <2>3, <3>3, <4>2, <4>3 DEF Confirming
    <3> QED  BY <3>2, <3>3
  <2> QED  BY <2>2, <2>3
<1> QED  BY <1>9, <1>10

\* The three ways an evaluated block ends.
LEMMA ApplyCases ==
  ASSUME IInv, apply_block_extended
  PROVE  /\ up /\ job.phase \in {"apply", "restore"}
         /\ \/ /\ fail(set_head(fdb, Head(job.todo))) \/ Down
               /\ log' = log /\ committed' = committed /\ lib' \in Nat /\ lib <= lib'
            \/ \E r \in update_last_irreversible_block(set_head(fdb, Head(job.todo)), approvals,
                                                       Head(job.todo)) : AppliedWith(r)
<1> DEFINE b == Head(job.todo)
           f == set_head(fdb, b)
<1>1. up /\ job.phase \in {"apply", "restore"}
  BY DEF apply_block_extended
<1>2. lib \in Nat /\ approvals \in Approvals /\ lib <= Num[head]
  BY <1>1 DEF IInv, Types, Running, Logged
<1>3. CASE fail(f) /\ StateKept
  BY <1>1, <1>2, <1>3 DEF StateKept
<1>4. ASSUME NEW r \in update_last_irreversible_block(f, approvals, b),
             lib' = r.lib,
             IF r.throws
             THEN fail(f) /\ UNCHANGED <<head, committed, log, notes>>
             ELSE IF ~ Storable(f, b, r.lib)
             THEN Down /\ UNCHANGED <<head, committed, log, notes>>
             ELSE /\ head' = b
                  /\ approvals' = r.ap
                  /\ migrate_irreversible_state(f, lib, r.lib)
                  /\ LET g == set_max_size(f, Num[b] - r.lib + 1)
                     IN  fdb' = IF job.mode = "switch" /\ ~ (Len(job.todo) = 1)
                                THEN g ELSE Free(g)
                  /\ job' = IF ~ (Len(job.todo) = 1) THEN [job EXCEPT !.todo = Tail(job.todo)]
                            ELSE Ended(job.phase = "restore")
                  /\ up' = up
      PROVE  \/ /\ fail(f) \/ Down
                /\ log' = log /\ committed' = committed /\ lib' \in Nat /\ lib <= lib'
             \/ AppliedWith(r)
  <2>1. r.lib \in Nat /\ lib <= r.lib
    <3>1. /\ b \in Block \ {Root} /\ Num[b] = Num[head] + 1 /\ Num[head] \in Nat
          /\ f \in ForkDB /\ IsFiniteSet(f.linked)
      BY <1>1, NextBlock
    <3>2. lib <= Num[b]
      BY <1>2, <3>1
    <3> HIDE DEF f, b
    <3> QED  BY <1>2, <1>4, <3>1, <3>2, UpdateResult
  <2>2. CASE r.throws
    BY <1>4, <2>1, <2>2
  <2>3. CASE ~ r.throws /\ ~ Storable(f, b, r.lib)
    BY <1>4, <2>1, <2>3
  <2>4. CASE ~ r.throws /\ Storable(f, b, r.lib)
    BY <1>4, <2>4 DEF AppliedWith
  <2> QED  BY <2>2, <2>3, <2>4
<1>5. \/ fail(f) /\ StateKept
      \/ \E r \in update_last_irreversible_block(f, approvals, b) :
           /\ lib' = r.lib
           /\ IF r.throws
              THEN fail(f) /\ UNCHANGED <<head, committed, log, notes>>
              ELSE IF ~ Storable(f, b, r.lib)
              THEN Down /\ UNCHANGED <<head, committed, log, notes>>
              ELSE /\ head' = b
                   /\ approvals' = r.ap
                   /\ migrate_irreversible_state(f, lib, r.lib)
                   /\ LET g == set_max_size(f, Num[b] - r.lib + 1)
                      IN  fdb' = IF job.mode = "switch" /\ ~ (Len(job.todo) = 1)
                                 THEN g ELSE Free(g)
                   /\ job' = IF ~ (Len(job.todo) = 1) THEN [job EXCEPT !.todo = Tail(job.todo)]
                             ELSE Ended(job.phase = "restore")
                   /\ up' = up
  BY DEF apply_block_extended
<1> HIDE DEF f, b
<1> QED  BY <1>1, <1>3, <1>4, <1>5 DEF f, b

\* What a candidate on another fork stands on.
LEMMA EvaluateConfirming ==
  ASSUME IInv, evaluate_fast_confirm
  PROVE  Confirming'
<1>1. up /\ job.phase = "approved"
  BY DEF evaluate_fast_confirm
<1>2. /\ approvals \in Approvals /\ lib \in Nat /\ lib <= Num[head]
      /\ head \in Block /\ fdb \in ForkDB /\ IsFiniteSet(fdb.linked)
  BY <1>1 DEF IInv, Running, Types, Logged
<1>3. PICK r \in update_last_irreversible_block(fdb, approvals, head) :
        IF r.throws
        THEN job' = Idle /\ StateKept /\ UNCHANGED <<fdb, approvals, up>>
        ELSE IF r.to = NoBlock THEN Conclude(r.ap, lib, r.lib)
        ELSE StateKept /\ switch_forks(r.to, <<lib, r.cand>>)
  BY DEF evaluate_fast_confirm
<1>4. CASE r.throws
  <2>1. job' = Idle
    BY <1>3, <1>4
  <2> QED  BY <2>1, IdleType, NotConfirming
<1>5. CASE ~ r.throws /\ r.to = NoBlock
  <2>1. job' = Idle
    BY <1>3, <1>5 DEF Conclude, Down
  <2> QED  BY <2>1, IdleType, NotConfirming
<1>6. CASE ~ r.throws /\ r.to # NoBlock
  <2> DEFINE t == <<lib, r.cand>>
  <2>1. StateKept /\ switch_forks(r.to, t)
    BY <1>3, <1>6
  <2>2. r.to \in Block /\ Num[r.to] >= Num[head] /\ r.cand \in Nat
    BY <1>2, <1>6, UpdateResult
  <2>3. PICK x \in Candidates(fdb, approvals, lib) :
          x.block # NoBlock /\ r.to = x.head /\ r.cand = Num[x.block]
    BY <1>2, <1>6, UpdateVoted
  <2>4. x.block \in Back(fdb, r.to) /\ Enough(Support(fdb, approvals, r.to, x.block))
    BY <2>3 DEF Candidates
  <2>5. Cardinality(Votes(x.block)) >= Required
    BY <1>2, <2>2, <2>4, SupportVotes
  <2>6. PICK i \in 1 .. Num[r.to] : x.block = Path[r.to][i]
    BY <2>4 DEF Back
  <2>7. r.cand = i
    BY <2>2, <2>3, <2>6, PathOn
  <2>8. t \in {<<>>} \cup (Nat \X Nat) /\ t[2] = i
    BY <1>2, <2>2, <2>7
  <2> HIDE DEF t
  <2>9. t[2] <= Num[r.to] /\ Cardinality(Votes(Path[r.to][t[2]])) >= Required
    <3>1. Num[r.to] \in Nat
      BY <2>2, Numbers
    <3> QED  BY <2>5, <2>6, <2>8, <3>1
  <2> QED  BY <1>1, <2>1, <2>2, <2>8, <2>9, SwitchConfirming
<1> QED  BY <1>4, <1>5, <1>6

\* A candidate keeps its quorum until it becomes irreversible.
THEOREM ConfirmingInvariant == Spec => []Confirming
<1>1. Init => Confirming
  BY IdleType DEF Init, Confirming
<1>2. IInv /\ Confirming /\ [Next]_vars => Confirming'
  <2> SUFFICES ASSUME IInv, Confirming, [Next]_vars PROVE Confirming'
    OBVIOUS
  <2>0. JobType
    BY DEF IInv, Types
  <2>1. CASE \E b \in Block \ {Root} : push_block(b)
    <3>1. job' = Idle \/ \E b \in Block : job' = [Idle EXCEPT !.phase = "link", !.stack = <<b>>, !.block = b]
      BY <2>1 DEF push_block
    <3>2. CASE job' = Idle
      BY <3>2, IdleType, NotConfirming
    <3>3. ASSUME NEW b \in Block,
                 job' = [Idle EXCEPT !.phase = "link", !.stack = <<b>>, !.block = b]
          PROVE  Confirming'
      <4>1. job'.from = <<>>
        BY <3>3 DEF Idle
      <4> QED  BY <4>1, NotConfirming
    <3> QED  BY <3>1, <3>2, <3>3
  <2>2. CASE \E c \in Confirmable : process_fast_confirm_transaction(c[1], c[2])
    <3>1. job' = [Idle EXCEPT !.phase = "approved"]
      BY <2>2 DEF process_fast_confirm_transaction
    <3>2. job'.from = <<>>
      BY <3>1 DEF Idle
    <3> QED  BY <3>2, NotConfirming
  <2>3. CASE push_next
    <3>1. job.from = <<>>
      BY <2>3 DEF push_next, Confirming
    <3>2. \/ job' = job
          \/ job' = [job EXCEPT !.phase = "decide", !.stack = <<>>]
          \/ job' = [job EXCEPT !.stack = Front(@)]
          \/ \E u : job' = [job EXCEPT !.stack = Append(@, u)]
      BY <2>3 DEF push_next
    <3>3. CASE job' = job
      BY <3>1, <3>3, NotConfirming
    <3>4. CASE job' = [job EXCEPT !.phase = "decide", !.stack = <<>>]
      <4>1. job'.from = job.from
        BY <2>0, <3>4 DEF JobType
      <4> QED  BY <3>1, <4>1, NotConfirming
    <3>5. ASSUME NEW s, job' = [job EXCEPT !.stack = s] PROVE Confirming'
      <4>1. job'.from = job.from
        BY <2>0, <3>5 DEF JobType
      <4> QED  BY <3>1, <4>1, NotConfirming
    <3> QED  BY <3>2, <3>3, <3>4, <3>5
  <2>4. CASE extend_or_switch
    <3> DEFINE new == fdb.head
               above == SubSeq(Path[new], Num[head] + 1, Num[new])
    <3>1. /\ up /\ job.phase = "decide" /\ StateKept
          /\ \/ job' = Idle
             \/ Down
             \/ job' = [job EXCEPT !.phase  = "apply", !.todo   = above,
                                   !.orig   = Num[head], !.common = Num[head]]
             \/ above # <<>> /\ switch_forks(new, <<>>)
      BY <2>4 DEF extend_or_switch
    <3>2. job.from = <<>>
      BY <3>1 DEF Confirming
    <3>3. CASE job' = Idle
      BY <3>3, IdleType, NotConfirming
    <3>4. CASE job' = [job EXCEPT !.phase  = "apply", !.todo   = above,
                                  !.orig   = Num[head], !.common = Num[head]]
      <4> HIDE DEF above
      <4>1. job'.from = <<>>
        BY <2>0, <3>2, <3>4 DEF JobType
      <4> QED  BY <4>1, NotConfirming
    <3>5. CASE above # <<>> /\ switch_forks(new, <<>>)
      <4>1. new # NoBlock /\ fdb \in ForkDB /\ head \in Block
        BY <3>1 DEF IInv, Running, Linking, Types
      <4>2. new \in Block /\ Num[new] \in Nat /\ Num[head] \in Nat
        BY <4>1, Numbers DEF ForkDB
      <4>3. Path[new] \in Seq(Block) /\ Len(Path[new]) = Num[new]
        BY <4>2, PathIsPath DEF IsPath
      <4>4. ASSUME ~ (Num[new] >= Num[head]) PROVE above = <<>>
        BY <4>2, <4>3, <4>4
      <4>5. Num[new] >= Num[head] /\ <<>> \in {<<>>} \cup (Nat \X Nat)
        BY <3>5, <4>4
      <4> HIDE DEF new, above
      <4> QED  BY <3>1, <3>5, <4>2, <4>5, SwitchConfirming
    <3> QED  BY <3>1, <3>3, <3>4, <3>5, DownConfirming
  <2>5. CASE pop_block_extended
    <3>1. /\ up /\ job.phase \in {"pop", "unpop"} /\ lib' = lib /\ approvals' = approvals
      BY <2>5 DEF pop_block_extended
    <3>2. \/ job.phase = "pop" /\ fdb' = fdb /\ job' = [job EXCEPT !.phase = "apply"]
          \/ job' = [job EXCEPT !.phase = "restore", !.todo = job.old]
          \/ job' = Ended(TRUE)
          \/ fdb' = pop_block(fdb) /\ job' = job
      BY <2>5 DEF pop_block_extended
    <3>3. CASE job.phase = "pop" /\ fdb' = fdb /\ job' = [job EXCEPT !.phase = "apply"]
      <4>1. job'.phase = "apply" /\ job'.todo = job.todo /\ job'.from = job.from
        BY <2>0, <3>3 DEF JobType
      <4> QED  BY <3>1, <3>3, <4>1 DEF Confirming
    <3>4. CASE job' = [job EXCEPT !.phase = "restore", !.todo = job.old]
      <4>1. job'.phase = "restore"
        BY <2>0, <3>4 DEF JobType
      <4> QED  BY <4>1, NotConfirming
    <3>5. CASE fdb' = pop_block(fdb) /\ job' = job
      <4>1. fdb'.linked = fdb.linked
        <5>1. fdb \in ForkDB
          BY DEF IInv, Types
        <5> QED  BY <3>5, <5>1 DEF pop_block, ForkDB
      <4> QED  BY <3>1, <3>5, <4>1 DEF Confirming
    <3> QED  BY <3>2, <3>3, <3>4, <3>5, ThrownConfirming
  <2>6. CASE apply_block_extended
    <3>1. /\ up /\ job.phase \in {"apply", "restore"}
          /\ \/ fail(set_head(fdb, Head(job.todo))) \/ Down
             \/ \E r \in update_last_irreversible_block(set_head(fdb, Head(job.todo)), approvals,
                                                        Head(job.todo)) : AppliedWith(r)
      BY <2>6, ApplyCases
    <3> QED  BY <2>0, <3>1, FailConfirming, DownConfirming, AppliedConfirming
  <2>7. CASE evaluate_fast_confirm
    BY <2>7, EvaluateConfirming
  <2>8. CASE finish_fast_confirm
    <3>1. job' = Idle
      BY <2>8 DEF finish_fast_confirm, Conclude, Down
    <3> QED  BY <3>1, IdleType, NotConfirming
  <2>9. CASE stop
    BY <2>9, DownConfirming DEF stop
  <2>10. CASE open
    <3>1. job' = Idle
      BY <2>10 DEF open, IInv
    <3> QED  BY <3>1, IdleType, NotConfirming
  <2>11. CASE UNCHANGED vars
    BY <2>11 DEF vars, Confirming
  <2> QED  BY <2>1, <2>2, <2>3, <2>4, <2>5, <2>6, <2>7, <2>8, <2>9, <2>10, <2>11
           DEF Next, Step
<1> QED  BY <1>1, <1>2, FlowInvariant, PTL DEF Spec

\* A step that moves blocks to the log.
Moves(h, n) ==
  /\ n \in Nat /\ lib <= n /\ n <= Num[h]
  /\ head' = h /\ lib' = n /\ committed' = n
  /\ log' \in Seq(Block) /\ Len(log') = n
  /\ \A k \in 1 .. n : log'[k] = Path[h][k]

\* A step either leaves the log and what was committed alone, and may move
\* the LIB up as the process ends, or moves blocks to the log.
LEMMA LogSteps ==
  ASSUME IInv, [Next]_vars
  PROVE  \/ log' = log /\ committed' = committed /\ lib' \in Nat /\ lib <= lib'
         \/ /\ up /\ job.phase \in {"apply", "restore"}
            /\ \E r \in update_last_irreversible_block(set_head(fdb, Head(job.todo)), approvals,
                                                       Head(job.todo)) :
                 AppliedWith(r) /\ Moves(Head(job.todo), r.lib)
         \/ /\ up /\ evaluate_fast_confirm /\ (fdb.head = head \/ Num[head] = committed)
            /\ \E r \in update_last_irreversible_block(fdb, approvals, head) :
                 Moves(head, r.lib)
         \/ /\ up /\ finish_fast_confirm
            /\ \/ Moves(head, lib)
               \/ job.from[2] # 0 /\ Moves(head, Lower(job.from[2], Num[head]))
<1>0. lib \in Nat /\ committed \in Nat
  BY DEF IInv, Types
<1> DEFINE Same == log' = log /\ committed' = committed /\ lib' \in Nat /\ lib <= lib'
<1>1. ASSUME log' = log, committed' = committed, lib' = lib PROVE Same
  BY <1>0, <1>1
<1>2. CASE \/ \E b \in Block \ {Root} : push_block(b)
           \/ \E c \in Confirmable : process_fast_confirm_transaction(c[1], c[2])
           \/ push_next \/ extend_or_switch \/ pop_block_extended \/ stop \/ open
           \/ UNCHANGED vars
  BY <1>1, <1>2 DEF push_block, process_fast_confirm_transaction, push_next, extend_or_switch,
                    pop_block_extended, stop, open, vars, StateKept
<1>3. CASE apply_block_extended
  <2>1. /\ up /\ job.phase \in {"apply", "restore"}
        /\ \/ Same
           \/ \E r \in update_last_irreversible_block(set_head(fdb, Head(job.todo)), approvals,
                                                      Head(job.todo)) : AppliedWith(r)
    BY <1>3, ApplyCases
  <2>2. ASSUME NEW r \in update_last_irreversible_block(set_head(fdb, Head(job.todo)), approvals,
                                                        Head(job.todo)),
               AppliedWith(r)
        PROVE  Moves(Head(job.todo), r.lib)
    <3>1. head' = Head(job.todo) /\ lib' = r.lib
      BY <2>2 DEF AppliedWith
    <3> DEFINE b == Head(job.todo)
    <3>2. /\ r.lib \in Nat /\ lib <= r.lib /\ r.lib <= Num[b]
          /\ log' \in Seq(Block) /\ Len(log') = r.lib
          /\ \A k \in 1 .. r.lib : log'[k] = Path[b][k]
          /\ committed' = r.lib
      BY <2>1, <2>2, AppliedState
    <3> QED  BY <3>1, <3>2 DEF Moves
  <2> QED  BY <2>1, <2>2
<1>4. ASSUME up, NEW ap, NEW old \in Nat, old <= lib, NEW n \in Nat, lib <= n, n <= Num[head],
             Conclude(ap, old, n)
      PROVE  Same \/ (Moves(head, n) /\ (fdb.head = head \/ Num[head] = committed))
  <2>1. CASE Storable(fdb, head, n)
    <3>1. /\ head' = head /\ lib' = n
          /\ fdb.head = head \/ Num[head] = committed
          /\ log' \in Seq(Block) /\ Len(log') = n
          /\ \A k \in 1 .. n : log'[k] = Path[head][k]
          /\ committed' = n
      BY <1>4, <2>1, ConcludeMoves
    <3> QED  BY <1>4, <3>1 DEF Moves
  <2>2. CASE ~ Storable(fdb, head, n)
    BY <1>4, <2>2 DEF Conclude
  <2> QED  BY <2>1, <2>2
<1>5. CASE evaluate_fast_confirm
  <2>1. up /\ job.phase = "approved"
    BY <1>5 DEF evaluate_fast_confirm
  <2>2. /\ approvals \in Approvals /\ lib <= Num[head]
        /\ head \in Block /\ fdb \in ForkDB /\ IsFiniteSet(fdb.linked)
    BY <2>1 DEF IInv, Running, Types, Logged
  <2>3. PICK r \in update_last_irreversible_block(fdb, approvals, head) :
          IF r.throws
          THEN job' = Idle /\ StateKept /\ UNCHANGED <<fdb, approvals, up>>
          ELSE IF r.to = NoBlock THEN Conclude(r.ap, lib, r.lib)
          ELSE StateKept /\ switch_forks(r.to, <<lib, r.cand>>)
    BY <1>5 DEF evaluate_fast_confirm
  <2>4. CASE StateKept
    BY <1>1, <2>4 DEF StateKept
  <2>5. CASE Conclude(r.ap, lib, r.lib)
    <3>1. r.lib \in Nat /\ lib <= r.lib /\ r.lib <= Num[head]
      BY <1>0, <2>2, UpdateResult
    <3>2. lib <= lib
      BY <1>0
    <3>3. Same \/ (Moves(head, r.lib) /\ (fdb.head = head \/ Num[head] = committed))
      BY <1>0, <1>4, <2>1, <2>5, <3>1, <3>2
    <3> QED  BY <1>5, <2>1, <3>3
  <2> QED  BY <2>3, <2>4, <2>5
<1>6. CASE finish_fast_confirm
  <2> DEFINE old == job.from[1]
             n == Lower(job.from[2], Num[head])
  <2>1. /\ up /\ job.phase = "confirmed"
        /\ IF job.from[2] = 0 THEN Conclude(approvals, old, lib)
           ELSE IF n < lib
           THEN job' = Idle /\ StateKept /\ UNCHANGED <<fdb, approvals, up>>
           ELSE Conclude(Relevant(approvals, n), old, n)
    BY <1>6 DEF finish_fast_confirm
  <2>2. /\ lib <= Num[head] /\ head \in Block /\ Num[head] \in Nat /\ JobType /\ Modes
    BY <2>1, Numbers DEF IInv, Running, Modes, Types, Logged
  <2>3. job.from \in Nat \X Nat /\ old <= lib
    BY <2>1, <2>2 DEF JobType, Modes
  <2>4. old \in Nat /\ job.from[2] \in Nat
    BY <2>3
  <2>5. n \in Nat /\ n <= Num[head]
    BY <2>2, <2>4 DEF Lower
  <2> HIDE DEF n, old
  <2>6. CASE job.from[2] = 0
    <3>1. Conclude(approvals, old, lib) /\ lib <= lib
      BY <1>0, <2>1, <2>6
    <3>2. Same \/ Moves(head, lib)
      BY <1>0, <1>4, <2>1, <2>2, <2>3, <2>4, <3>1
    <3> QED  BY <1>6, <2>1, <3>2
  <2>7. CASE job.from[2] # 0 /\ n < lib
    <3>1. StateKept
      BY <2>1, <2>7
    <3> QED  BY <1>1, <3>1 DEF StateKept
  <2>8. CASE job.from[2] # 0 /\ ~ (n < lib)
    <3>1. Conclude(Relevant(approvals, n), old, n) /\ lib <= n
      BY <1>0, <2>1, <2>5, <2>8
    <3>2. Same \/ Moves(head, n)
      BY <1>4, <2>1, <2>3, <2>4, <2>5, <3>1
    <3> QED  BY <1>6, <2>1, <2>8, <3>2 DEF n
  <2> QED  BY <2>6, <2>7, <2>8
<1> QED  BY <1>2, <1>3, <1>5, <1>6 DEF Next, Step

\* The log only grows by it, and does not change where the LIB does not.
LEMMA MovesOn ==
  ASSUME IInv, up, NEW h \in Block, NEW n, Moves(h, n),
         h = head \/ (h # Root /\ Prev[h] = head)
  PROVE  /\ committed <= committed' /\ lib <= lib'
         /\ IsPrefix(log, log')
         /\ n = lib => log' = log
         /\ n \in 1 .. Num[h] /\ Last(log') = Path[h][n]
<1>1. /\ n \in Nat /\ lib <= n /\ n <= Num[h] /\ lib' = n /\ committed' = n
      /\ log' \in Seq(Block) /\ Len(log') = n
      /\ \A k \in 1 .. n : log'[k] = Path[h][k]
  BY DEF Moves
<1>2. /\ lib = committed /\ committed \in Nat /\ 1 <= committed /\ committed <= Num[head]
      /\ head \in Block /\ log \in Seq(Block) /\ Len(log) = committed
      /\ \A k \in 1 .. committed : log[k] = Path[head][k]
  BY DEF IInv, Running, Types, Logged
<1>3. Num[h] \in Nat /\ Num[head] \in Nat
  BY <1>2, Numbers
<1>4. \A k \in 1 .. Num[head] : Path[h][k] = Path[head][k]
  <2>1. CASE h = head
    BY <2>1
  <2>2. CASE h # Root /\ Prev[h] = head
    BY <2>2, PathOfChild
  <2> QED  BY <2>1, <2>2
<1>5. n \in 1 .. Num[h] /\ n \in 1 .. n
  BY <1>1, <1>2, <1>3
<1>6. \A k \in 1 .. committed : log'[k] = log[k]
  <2> TAKE k \in 1 .. committed
  <2>1. k \in 1 .. n /\ k \in 1 .. Num[head]
    BY <1>1, <1>2, <1>3
  <2> QED  BY <1>1, <1>2, <1>4, <2>1
<1>7. IsPrefix(log, log')
  <2> DEFINE s == SubSeq(log, 1, committed)
             t == SubSeq(log', 1, committed)
  <2>1. /\ s \in Seq(Block) /\ t \in Seq(Block) /\ Len(s) = committed /\ Len(t) = committed
        /\ \A k \in 1 .. committed : s[k] = log[k] /\ t[k] = log'[k]
    BY <1>1, <1>2
  <2> HIDE DEF s, t
  <2>2. s = t
    BY <1>2, <1>6, <2>1
  <2> QED  BY <1>1, <1>2, <2>2 DEF IsPrefix, s, t
<1>8. ASSUME n = lib PROVE log' = log
  BY <1>1, <1>2, <1>6, <1>8
<1>9. Last(log') = Path[h][n]
  BY <1>1, <1>5 DEF Last
<1> QED  BY <1>1, <1>2, <1>5, <1>7, <1>8, <1>9

\* What is irreversible stays: no step, a fork switch that fails or the end of
\* the process included, takes a block out of the log, moves the LIB back or
\* brings back an undo session.
THEOREM IrreversibleKept ==
  Spec => [][committed <= committed' /\ lib <= lib' /\ IsPrefix(log, log')]_vars
<1>1. IInv /\ [Next]_vars => committed <= committed' /\ lib <= lib' /\ IsPrefix(log, log')
  <2> SUFFICES ASSUME IInv, [Next]_vars
               PROVE  committed <= committed' /\ lib <= lib' /\ IsPrefix(log, log')
    OBVIOUS
  <2>1. committed \in Nat /\ lib \in Nat /\ log \in Seq(Block) /\ head \in Block
    BY DEF IInv, Types
  <2>2. CASE log' = log /\ committed' = committed /\ lib' \in Nat /\ lib <= lib'
    <3>1. IsPrefix(log, log) /\ committed <= committed
      BY <2>1 DEF IsPrefix
    <3> QED  BY <2>2, <3>1
  <2>3. ASSUME up, job.phase \in {"apply", "restore"}, NEW n, Moves(Head(job.todo), n)
        PROVE  committed <= committed' /\ lib <= lib' /\ IsPrefix(log, log')
    <3> DEFINE b == Head(job.todo)
    <3>1. b \in Block /\ b # Root /\ Prev[b] = head
      BY <2>3, NextBlock
    <3> HIDE DEF b
    <3> QED  BY <2>3, <3>1, MovesOn DEF b
  <2>4. ASSUME up, NEW n, Moves(head, n)
        PROVE  committed <= committed' /\ lib <= lib' /\ IsPrefix(log, log')
    BY <2>1, <2>4, MovesOn
  <2> QED  BY <2>2, <2>3, <2>4, LogSteps
<1> QED  BY <1>1, FlowInvariant, PTL DEF Spec

\* Once witnesses vote, a block reaches the block log only with the votes of
\* three quarters of the scheduled witnesses: applied, confirmed on the main
\* branch, or confirmed on another fork before the switch to it.
THEOREM QuorumTheorem == Spec => IrreversibleHasQuorum
<1> DEFINE Quorum == log' # log /\ Num[head'] >= StartMinerVotingBlock
                       => Cardinality(Votes(Last(log'))) >= Required
<1>1. IInv /\ Confirming /\ [Next]_vars => Quorum
  <2> SUFFICES ASSUME IInv, Confirming, [Next]_vars, log' # log,
                      Num[head'] >= StartMinerVotingBlock
               PROVE  Cardinality(Votes(Last(log'))) >= Required
    OBVIOUS
  <2>1. /\ committed \in Nat /\ lib \in Nat /\ head \in Block /\ fdb \in ForkDB
        /\ IsFiniteSet(fdb.linked) /\ approvals \in Approvals /\ JobType
        /\ 1 <= committed /\ committed <= lib /\ committed <= Num[head]
    BY DEF IInv, Types, Logged
  <2>2. CASE up /\ job.phase \in {"apply", "restore"}
    <3> DEFINE b == Head(job.todo)
               f == set_head(fdb, b)
    <3>1. PICK r \in update_last_irreversible_block(f, approvals, b) : Moves(b, r.lib)
      <4>1. ~ evaluate_fast_confirm /\ ~ finish_fast_confirm
        BY <2>2 DEF evaluate_fast_confirm, finish_fast_confirm
      <4> QED  BY <4>1, LogSteps
    <3>2. /\ b \in Block /\ b # Root /\ Prev[b] = head /\ Num[b] = Num[head] + 1
          /\ f \in ForkDB /\ f.linked = fdb.linked /\ f.head = b /\ IsFiniteSet(f.linked)
          /\ b \in fdb.linked /\ Num[head] \in Nat
          /\ \A k \in 1 .. Num[head] : Path[b][k] = Path[head][k]
      BY <2>2, NextBlock
    <3>3. lib = committed /\ Anchored
      BY <2>2 DEF IInv, Running
    <3> HIDE DEF b, f
    <3>4. r.lib # lib /\ Last(log') = Path[b][r.lib] /\ head' = b
      BY <2>2, <3>1, <3>2, MovesOn DEF Moves
    <3>5. lib <= Num[b] /\ 1 <= lib
      BY <2>1, <3>2, <3>3
    <3>6. \A k \in lib .. Num[b] : Path[b][k] \in f.linked
      <4> TAKE k \in lib .. Num[b]
      <4>1. CASE k = Num[b]
        <5>1. Path[b][Num[b]] = b
          BY <3>2, PathIsPath DEF IsPath
        <5> QED  BY <3>2, <4>1, <5>1
      <4>2. CASE k # Num[b]
        <5>1. k \in 1 .. Num[head] /\ k \in committed .. Num[head]
          BY <2>1, <3>2, <3>3, <3>5, <4>2
        <5> QED  BY <3>2, <3>3, <5>1 DEF Anchored
      <4> QED  BY <4>1, <4>2
    <3>7. PICK x \in Candidates(f, approvals, lib) :
            /\ x.block # NoBlock
            /\ x.block = fetch_block_on_main_branch_by_number(f, Num[x.block])
            /\ r.lib = Lower(Num[x.block], Num[b])
      BY <2>1, <3>1, <3>2, <3>4, <3>5, UpdateVoted
    <3>8. r.lib = Num[x.block] /\ x.block = Path[b][r.lib]
          /\ Cardinality(Votes(x.block)) >= Required
      BY <2>1, <3>2, <3>5, <3>6, <3>7, FoundOnPath
    <3> QED  BY <3>4, <3>8
  <2>3. CASE up /\ evaluate_fast_confirm
    <3>1. PICK r \in update_last_irreversible_block(fdb, approvals, head) :
            Moves(head, r.lib) /\ (fdb.head = head \/ Num[head] = committed)
      <4>1. job.phase = "approved"
        BY <2>3 DEF evaluate_fast_confirm
      <4>2. job.phase \notin {"apply", "restore"} /\ ~ finish_fast_confirm
        BY <4>1 DEF finish_fast_confirm
      <4> QED  BY <4>2, LogSteps
    <3>2. lib = committed /\ Anchored
      BY <2>3 DEF IInv, Running
    <3>3. r.lib # lib /\ Last(log') = Path[head][r.lib] /\ head' = head
      BY <2>1, <2>3, <3>1, MovesOn DEF Moves
    <3>4. fdb.head = head
      BY <2>1, <3>1, <3>2, <3>3, Numbers DEF Moves
    <3>5. lib <= Num[head] /\ 1 <= lib /\ \A k \in lib .. Num[head] : Path[head][k] \in fdb.linked
      BY <2>1, <3>2 DEF Anchored
    <3>6. PICK x \in Candidates(fdb, approvals, lib) :
            /\ x.block # NoBlock
            /\ x.block = fetch_block_on_main_branch_by_number(fdb, Num[x.block])
            /\ r.lib = Lower(Num[x.block], Num[head])
      BY <2>1, <3>1, <3>3, <3>5, UpdateVoted
    <3>7. r.lib = Num[x.block] /\ x.block = Path[head][r.lib]
          /\ Cardinality(Votes(x.block)) >= Required
      BY <2>1, <3>4, <3>5, <3>6, FoundOnPath
    <3> QED  BY <3>3, <3>7
  <2>4. CASE up /\ finish_fast_confirm
    <3> DEFINE m == job.from[2]
    <3>1. job.phase = "confirmed"
      BY <2>4 DEF finish_fast_confirm
    <3>2. job.from # <<>> /\ job.from \in {<<>>} \cup (Nat \X Nat)
      BY <2>1, <2>4, <3>1 DEF IInv, Running, Modes, JobType
    <3>3. m \in Nat
      BY <3>2
    <3>4. m # 0 =>
            /\ m <= Num[head]
            /\ m > lib => Cardinality(VotesBy(fdb.linked, approvals, Path[head][m])) >= Required
      BY <2>4, <3>1, <3>2 DEF Confirming
    <3>5. Moves(head, lib) \/ (m # 0 /\ Moves(head, Lower(m, Num[head])))
      <4>1. job.phase \notin {"apply", "restore"} /\ ~ evaluate_fast_confirm
        BY <3>1 DEF evaluate_fast_confirm
      <4> QED  BY <4>1, LogSteps
    <3> HIDE DEF m
    <3>6. ~ Moves(head, lib)
      BY <2>1, <2>4, MovesOn
    <3>7. Num[head] \in Nat
      BY <2>1, Numbers
    <3>8. m # 0 /\ Lower(m, Num[head]) = m /\ Moves(head, m)
      BY <3>3, <3>4, <3>5, <3>6, <3>7 DEF Lower
    <3>9. m # lib /\ Last(log') = Path[head][m]
      BY <2>1, <2>4, <3>8, MovesOn
    <3>10. m > lib
      BY <2>1, <3>3, <3>8, <3>9 DEF Moves
    <3> QED  BY <3>4, <3>8, <3>9, <3>10, VotesAre
  <2> QED  BY <2>2, <2>3, <2>4, LogSteps
<1> QED  BY <1>1, FlowInvariant, ConfirmingInvariant, PTL DEF Spec, IrreversibleHasQuorum

------------------------------------------------------------------------------
(* As long as no block is refused for lack of undo history. *)

\* No block is refused for lack of undo history.
UndoHistorySuffices ==
  up /\ job.phase \in {"apply", "restore"} => UndoHistoryLeft(Head(job.todo))

\* b is on the path to c.
OnPath(b, c) == Num[b] <= Num[c] /\ Path[c][Num[b]] = b

\* A block that is bad or built on a bad one.
Doomed(b) == \E k \in 1 .. Num[b] : Path[b][k] \in Bad

\* A block that may be without its parent.
Cut(b) == Num[b] <= lib \/ (b # Root /\ Doomed(Prev[b]))

\* The state is not built on a bad block, and no prev has expired above the
\* LIB but on top of one.
Sound ==
  /\ ~ Doomed(head)
  /\ up => /\ fdb.head # NoBlock
           /\ \A b \in fdb.linked : Num[b] >= lib
           /\ \A b \in fdb.linked : b = Root \/ Prev[b] \in fdb.linked \/ Cut(b)
           /\ \A b \in fdb.orphan : Cut(b)

\* A fork switch may go back to where it came from.
Switching ==
  /\ (job.phase \in {"pop", "apply", "unpop"} /\ job.mode = "switch") =>
       /\ job.orig = job.common + Len(job.old)
       /\ OnPath(job.target, head)
       /\ \A i \in 1 .. Len(job.old) : job.old[i] \notin Bad
  /\ job.phase = "pop" => job.common + Len(job.todo) >= job.orig
  /\ (job.phase = "pop" /\ job.from = <<>> /\ lib <= job.common) =>
       \E i \in 1 .. Len(job.todo) : fdb.head = job.todo[i] /\ job.common + i > Num[head]
  /\ job.phase = "apply" =>
       /\ Num[head] + Len(job.todo) >= job.orig
       /\ job.mode = "extend" => Num[head] >= job.orig
  /\ job.phase = "unpop" => lib < job.common /\ fdb.head = head /\ job.old # <<>>
  /\ job.phase = "restore" =>
       /\ Num[head] + Len(job.todo) = job.orig
       /\ \A i \in 1 .. Len(job.todo) : job.todo[i] \notin Bad

\* The fork of the fork database's head does not reach back to the state's.
Stuck ==
  \/ \E k \in (Num[head] + 1) .. Num[fdb.head] : Path[fdb.head][k] \in fdb.orphan
  \/ ~ BranchesExist(fdb, fdb.head, head)

Settled == Num[fdb.head] <= Num[head] \/ Stuck

Pushing ==
  /\ \A u \in fdb.unlinked \ {Root} :
       Prev[u] \in fdb.linked => job.phase = "link" /\ Prev[u] \in Range(job.stack)
  /\ job.phase \in {"idle", "approved", "confirmed"} => Settled
  /\ job.phase \in {"link", "decide"} =>
       /\ job.block \in Block
       /\ Settled \/ (OnPath(job.block, fdb.head) /\ ~ OnPath(job.block, head))
  /\ job.phase = "link" =>
       /\ \A i \in 1 .. Len(job.stack) : OnPath(job.block, job.stack[i])
       /\ OnPath(job.block, head) => \A u \in fdb.unlinked \ {Root} : Prev[u] \notin fdb.linked

Steady == Sound /\ (up => Switching /\ Pushing)

\* A block is doomed if it is bad or its parent is doomed, Root never is, and
\* nothing built on a doomed block is sound.
LEMMA DoomedPrev ==
  ASSUME NEW b \in Block \ {Root}
  PROVE  Doomed(b) <=> b \in Bad \/ Doomed(Prev[b])
<1>1. /\ Prev[b] \in Block /\ Num[b] \in Nat /\ Num[Prev[b]] \in Nat /\ Num[b] = Num[Prev[b]] + 1
      /\ Num[Prev[b]] >= 1
  BY Numbers
<1>2. \A k \in 1 .. Num[Prev[b]] : Path[b][k] = Path[Prev[b]][k]
  BY PathOfChild
<1>3. Path[b][Num[b]] = b
  BY PathIsPath DEF IsPath
<1>4. \A k \in 1 .. Num[b] : k = Num[b] \/ k \in 1 .. Num[Prev[b]]
  BY <1>1
<1>5. Num[b] \in 1 .. Num[b] /\ \A k \in 1 .. Num[Prev[b]] : k \in 1 .. Num[b]
  BY <1>1
<1> QED  BY <1>2, <1>3, <1>4, <1>5 DEF Doomed

LEMMA DoomedRoot == ~ Doomed(Root)
<1>1. Num[Root] = 1 /\ Root \in Block
  BY TreeAssumption
<1>2. Path[Root][1] = Root
  BY <1>1, PathIsPath DEF IsPath
<1> QED  BY <1>1, <1>2, FlowAssumption DEF Doomed

LEMMA DoomedPath ==
  ASSUME NEW b \in Block, NEW n \in 1 .. Num[b], Doomed(Path[b][n])
  PROVE  Doomed(b)
<1>1. Num[b] \in Nat /\ Num[Path[b][n]] = n /\ \A k \in 1 .. n : Path[Path[b][n]][k] = Path[b][k]
  BY Numbers, PathOn
<1>2. \A k \in 1 .. n : k \in 1 .. Num[b]
  BY <1>1
<1> QED  BY <1>1, <1>2 DEF Doomed

\* A chain that starts with a bad block is doomed.
LEMMA DoomedChain ==
  ASSUME NEW s \in Seq(Block), NEW base, Chain(s, base), s # <<>>, s[1] \in Bad
  PROVE  \A i \in 1 .. Len(s) : Doomed(s[i])
<1> DEFINE m == Len(s) - 1
           S == {k \in 0 .. m : Doomed(s[k + 1])}
<1>1. Len(s) \in Nat /\ Len(s) >= 1 /\ m \in Nat
  BY EmptySeq
<1>2. \A i \in 1 .. Len(s) : s[i] \in Block \ {Root} /\ Prev[s[i]] = IF i = 1 THEN base ELSE s[i - 1]
  BY DEF Chain
<1>3. 0 \in S
  <2>1. 1 \in 1 .. Len(s)
    BY <1>1
  <2>2. Doomed(s[1])
    BY <1>2, <2>1, DoomedPrev
  <2> QED  BY <1>1, <2>2
<1>4. ASSUME NEW k \in 1 .. m, k - 1 \in S PROVE k \in S
  <2>1. k + 1 \in 1 .. Len(s) /\ k + 1 # 1 /\ (k + 1) - 1 = k /\ (k - 1) + 1 = k /\ k \in 0 .. m
    BY <1>1
  <2>2. Doomed(s[k])
    BY <1>4, <2>1
  <2>3. Prev[s[k + 1]] = s[k] /\ s[k + 1] \in Block \ {Root}
    BY <1>2, <2>1
  <2>4. Doomed(s[k + 1])
    BY <2>2, <2>3, DoomedPrev
  <2> QED  BY <2>1, <2>4
<1>5. \A k \in 0 .. m : k \in S
  <2> HIDE DEF m, S
  <2>1. \A k \in 1 .. m : k - 1 \in S => k \in S
    BY <1>4
  <2> QED  BY <1>1, <1>3, <2>1, UpTo
<1>6. ASSUME NEW i \in 1 .. Len(s) PROVE Doomed(s[i])
  <2>1. i - 1 \in 0 .. m /\ (i - 1) + 1 = i
    BY <1>1
  <2>2. i - 1 \in S
    BY <1>5, <2>1
  <2> QED  BY <2>1, <2>2
<1> QED  BY <1>6

\* What is on the path to a block is on the path to its children.
LEMMA OnPathChild ==
  ASSUME NEW b \in Block, NEW c \in Block \ {Root}, OnPath(b, Prev[c])
  PROVE  OnPath(b, c)
<1>1. /\ Num[b] \in Nat /\ Num[b] >= 1 /\ Num[c] = Num[Prev[c]] + 1 /\ Num[Prev[c]] \in Nat
  BY Numbers
<1>2. Num[b] \in 1 .. Num[Prev[c]]
  BY <1>1 DEF OnPath
<1> QED  BY <1>1, <1>2, PathOfChild DEF OnPath

\* Re-evaluating irreversibility never throws: a candidate is above the LIB.
LEMMA NeverThrows ==
  ASSUME NEW f \in ForkDB, IsFiniteSet(f.linked), NEW ap, NEW hd \in Block,
         lib \in Nat, lib <= Num[hd],
         NEW r \in update_last_irreversible_block(f, ap, hd)
  PROVE  ~ r.throws
<1> DEFINE same == [lib |-> lib, ap |-> ap, throws |-> FALSE, to |-> NoBlock, cand |-> 0]
           set(n) == IF n < lib THEN [same EXCEPT !.throws = TRUE]
                     ELSE [same EXCEPT !.lib = n, !.ap = Relevant(ap, n)]
           outcome(x) ==
             IF x.block = NoBlock THEN same
             ELSE IF x.block = fetch_block_on_main_branch_by_number(f, Num[x.block])
             THEN set(Lower(Num[x.block], Num[hd]))
             ELSE IF Num[x.head] < Num[hd] THEN same
             ELSE [same EXCEPT !.to = x.head, !.cand = Num[x.block]]
<1>1. Num[hd] \in Nat
  BY Numbers
<1>2. CASE Num[hd] < StartMinerVotingBlock
  <2> DEFINE n == IF Num[hd] > MaxWitnesses THEN Higher(lib, Num[hd] - MaxWitnesses) ELSE lib
  <2>1. r = [same EXCEPT !.lib = n]
    BY <1>2 DEF update_last_irreversible_block
  <2> HIDE DEF n
  <2> QED  BY <2>1
<1>3. CASE ~ (Num[hd] < StartMinerVotingBlock) /\ lib = Num[hd]
  <2>1. r = same
    BY <1>3 DEF update_last_irreversible_block
  <2> QED  BY <2>1
<1>4. CASE ~ (Num[hd] < StartMinerVotingBlock) /\ lib # Num[hd]
  <2>1. PICK x \in find_new_last_irreversible_block(f, ap, lib) : r = outcome(x)
    BY <1>4 DEF update_last_irreversible_block
  <2>2. x.block # NoBlock => x.block \in Block /\ Num[x.block] > lib
    BY FindType DEF Candidates, Found
  <2>3. CASE x.block # NoBlock /\ x.block = fetch_block_on_main_branch_by_number(f, Num[x.block])
    <3> DEFINE n == Lower(Num[x.block], Num[hd])
    <3>1. Num[x.block] \in Nat
      BY <2>2, <2>3, Numbers
    <3>2. ~ (n < lib)
      BY <1>1, <2>2, <2>3, <3>1 DEF Lower
    <3>3. r = set(n)
      BY <2>1, <2>3
    <3> HIDE DEF n
    <3>4. r = [same EXCEPT !.lib = n, !.ap = Relevant(ap, n)]
      BY <3>2, <3>3
    <3> QED  BY <3>4
  <2>4. CASE ~ (x.block # NoBlock /\ x.block = fetch_block_on_main_branch_by_number(f, Num[x.block]))
    <3>1. r = same \/ r = [same EXCEPT !.to = x.head, !.cand = Num[x.block]]
      BY <2>1, <2>4
    <3> HIDE DEF outcome
    <3>2. CASE r = same
      BY <3>2
    <3>3. CASE r = [same EXCEPT !.to = x.head, !.cand = Num[x.block]]
      BY <3>3
    <3> QED  BY <3>1, <3>2, <3>3
  <2> QED  BY <2>3, <2>4
<1> QED  BY <1>2, <1>3, <1>4

\* What leaves the fork database is below the LIB or doomed, so that no prev
\* expires above the LIB but on a doomed block.
LEMMA ForkKept ==
  ASSUME IInv, Sound, up, IInv',
         lib <= lib', ~ Doomed(head'), fdb'.head # NoBlock,
         \A c \in fdb'.linked : c \in fdb.linked \/ (c # Root /\ Prev[c] \in fdb.linked),
         lib' = lib \/ \A c \in fdb'.linked : Num[c] >= lib',
         \A c \in fdb.linked : c \in fdb'.linked \/ Num[c] < lib' \/ Doomed(c),
         \A c \in fdb'.orphan : c \in fdb.orphan \/ (c # Root /\ Prev[c] \notin fdb'.linked)
  PROVE  Sound'
<1>1. /\ lib \in Nat /\ lib' \in Nat /\ fdb \in ForkDB /\ fdb' \in ForkDB
      /\ fdb.orphan \subseteq fdb.linked /\ fdb'.orphan \subseteq fdb'.linked
  BY DEF IInv, Types
<1>2. /\ \A b \in fdb.linked : Num[b] >= lib
      /\ \A b \in fdb.linked : b = Root \/ Prev[b] \in fdb.linked \/ Cut(b)
      /\ \A b \in fdb.orphan : Cut(b)
  BY DEF Sound
<1>3. \A b \in Block : /\ Num[b] \in Nat
                       /\ b # Root => Prev[b] \in Block /\ Num[b] = Num[Prev[b]] + 1 /\ Num[Prev[b]] \in Nat
  BY Numbers
<1>4. \A b \in Block : Cut(b) => Cut(b)'
  BY <1>1, <1>3 DEF Cut
<1>5. ASSUME NEW b \in fdb'.linked PROVE Num[b] >= lib'
  <2>1. b \in Block
    BY <1>1 DEF ForkDB
  <2>2. CASE lib' = lib /\ b # Root /\ Prev[b] \in fdb.linked
    <3>1. Num[Prev[b]] >= lib
      BY <1>2, <2>2
    <3> QED  BY <1>1, <1>3, <2>1, <2>2, <3>1
  <2> QED  BY <1>2, <1>5, <2>2
<1>6. ASSUME NEW b \in fdb'.linked PROVE b = Root \/ Prev[b] \in fdb'.linked \/ Cut(b)'
  <2>1. b \in Block
    BY <1>1 DEF ForkDB
  <2>2. CASE b # Root /\ Prev[b] \in fdb.linked
    <3>1. CASE Num[Prev[b]] < lib'
      BY <1>1, <1>3, <2>1, <2>2, <3>1 DEF Cut
    <3>2. CASE Doomed(Prev[b])
      BY <2>2, <3>2 DEF Cut
    <3> QED  BY <2>2, <3>1, <3>2
  <2>3. CASE b \in fdb.linked
    BY <1>2, <1>4, <2>1, <2>2, <2>3
  <2> QED  BY <1>6, <2>2, <2>3
<1>7. ASSUME NEW b \in fdb'.orphan PROVE Cut(b)'
  <2>1. b \in Block /\ b \in fdb'.linked
    BY <1>1 DEF ForkDB
  <2> QED  BY <1>2, <1>4, <1>6, <1>7, <2>1
<1> QED  BY <1>5, <1>6, <1>7 DEF Sound

\* Above the LIB, no prev on the path of the state has expired.
LEMMA HeadReaches ==
  ASSUME IInv, Sound, up, NEW k \in (lib + 1) .. Num[head]
  PROVE  Path[head][k] \notin fdb.orphan
<1> SUFFICES ASSUME Path[head][k] \in fdb.orphan PROVE FALSE
  OBVIOUS
<1>1. /\ head \in Block /\ lib \in Nat /\ Num[head] \in Nat /\ lib = committed /\ 1 <= lib
      /\ ~ Doomed(head)
  BY Numbers DEF IInv, Types, Running, Logged, Sound
<1>2. k \in 2 .. Num[head] /\ k \in 1 .. Num[head] /\ k - 1 \in 1 .. Num[head]
  BY <1>1
<1>3. Num[Path[head][k]] = k /\ Prev[Path[head][k]] = Path[head][k - 1]
  BY <1>1, <1>2, PathIsPath DEF IsPath
<1>4. Cut(Path[head][k])
  BY DEF Sound
<1>5. Doomed(Path[head][k - 1])
  BY <1>1, <1>3, <1>4 DEF Cut
<1> QED  BY <1>1, <1>2, <1>5, DoomedPath

\* Nor has that of the block to apply next.
LEMMA NextReaches ==
  ASSUME IInv, Sound, up, job.phase \in {"apply", "restore"}
  PROVE  Head(job.todo) \notin fdb.orphan
<1> DEFINE b == Head(job.todo)
<1>1. /\ b \in Block \ {Root} /\ Prev[b] = head /\ Num[b] = Num[head] + 1 /\ Num[head] \in Nat
  BY NextBlock
<1>2. lib \in Nat /\ lib <= Num[head] /\ ~ Doomed(head)
  BY DEF IInv, Types, Running, Logged, Sound
<1> HIDE DEF b
<1>3. ~ Cut(b)
  BY <1>1, <1>2 DEF Cut
<1>4. b \notin fdb.orphan
  BY <1>3 DEF Sound
<1> QED  BY <1>4 DEF b

\* The end of the process keeps it.
LEMMA SteadyDown ==
  ASSUME Sound, Down, head' = head
  PROVE  Steady'
  BY DEF Down, Steady, Sound, Doomed

\* A request rests between two of its parts or is over.
LEMMA SteadyRest ==
  ASSUME Pushing, job.phase # "link", Sound',
         fdb'.linked \subseteq fdb.linked, fdb'.unlinked \subseteq fdb.unlinked,
         job'.phase \in {"idle", "approved", "confirmed"}, Settled'
  PROVE  Steady'
<1>1. Switching'
  BY DEF Switching
<1>2. Pushing'
  BY DEF Pushing
<1> QED  BY <1>1, <1>2 DEF Steady

\* What the job is after its last step.
LEMMA EndedPhase ==
  ASSUME NEW thrown, job' = Ended(thrown)
  PROVE  job'.phase \in {"idle", "confirmed"}
  BY DEF Ended, Idle

\* A fork database that is left alone.
LEMMA ForkSame ==
  ASSUME IInv, Sound, up, IInv', lib' = lib, head' = head,
         fdb'.linked = fdb.linked, fdb'.orphan = fdb.orphan, fdb'.head # NoBlock
  PROVE  Sound'
<1>1. lib \in Nat /\ ~ Doomed(head)
  BY DEF IInv, Types, Sound
<1>2. lib <= lib' /\ ~ Doomed(head')
  BY <1>1
<1> QED  BY <1>2, ForkKept

\* Linking a block: the head of the fork database moves up to it or stays.
LEMMA SteadyLink ==
  ASSUME IInv, Steady, up, IInv', StateKept,
         NEW f \in ForkDB, f.linked = fdb.linked, f.orphan = fdb.orphan, f.head = fdb.head,
         NEW b \in Block \ {Root}, Prev[b] \in fdb.linked, fdb' = link_block(f, b)
  PROVE  /\ Sound'
         /\ fdb'.linked = fdb.linked \cup {b} /\ fdb'.unlinked = f.unlinked
         /\ \/ fdb'.head = b /\ Num[b] > Num[fdb.head]
            \/ fdb'.head = fdb.head /\ (Settled => Settled')
         /\ head' = head
<1>1. /\ head' = head /\ lib' = lib
  BY DEF StateKept
<1>2. /\ fdb \in ForkDB /\ fdb.orphan \subseteq fdb.linked /\ IsFiniteSet(fdb.linked)
      /\ head \in Block /\ Anchored /\ HeadsAgree /\ lib \in Nat
      /\ committed \in Nat /\ 1 <= committed /\ committed <= Num[head]
  BY DEF IInv, Types, Running, Logged
<1>3. Sound /\ fdb.head # NoBlock /\ ~ Doomed(head)
  BY DEF Steady, Sound
<1>4. fdb.head \in Block /\ Num[fdb.head] \in Nat /\ Num[head] \in Nat
  BY <1>2, <1>3, Numbers DEF ForkDB
<1>5. /\ fdb'.linked = fdb.linked \cup {b} /\ fdb'.unlinked = f.unlinked
      /\ fdb'.orphan = fdb.orphan
      /\ fdb'.head = IF Num[b] > Num[fdb.head] THEN b ELSE fdb.head
  BY <1>3 DEF link_block, HeadNum, ForkDB
<1>6. fdb'.head # NoBlock
  BY <1>3, <1>5, TreeAssumption
<1>7. Sound'
  <2>1. lib <= lib' /\ ~ Doomed(head')
    BY <1>1, <1>2, <1>3
  <2> QED  BY <1>1, <1>3, <1>5, <1>6, <2>1, ForkKept
<1>8. ASSUME fdb'.head = fdb.head, Settled PROVE Settled'
  <2>1. CASE Num[fdb.head] <= Num[head]
    BY <1>1, <1>8, <2>1 DEF Settled
  <2>2. CASE Num[fdb.head] > Num[head]
    <3>1. fdb.head \in fdb.linked
      BY <1>2, <1>3, <2>2 DEF HeadsAgree
    <3>2. head \in fdb.linked
      <4>1. Path[head][Num[head]] = head /\ Num[head] \in committed .. Num[head]
        BY <1>2, <1>4, PathIsPath DEF IsPath
      <4> QED  BY <1>2, <4>1 DEF Anchored
    <3>3. BranchesExist(fdb', fdb.head, head) => BranchesExist(fdb, fdb.head, head)
      BY <1>5, <3>1, <3>2 DEF BranchesExist
    <3>4. ~ (Num[fdb.head] <= Num[head])
      BY <1>4, <2>2
    <3>5. Stuck
      BY <1>8, <3>4 DEF Settled
    <3>6. Stuck'
      BY <1>1, <1>5, <1>8, <3>3, <3>5 DEF Stuck
    <3> QED  BY <3>6 DEF Settled
  <2> QED  BY <1>4, <2>1, <2>2
<1> QED  BY <1>1, <1>5, <1>7, <1>8

\* A block from the network.
LEMMA SteadyPush ==
  ASSUME IInv, Steady, IInv', NEW b \in Block \ {Root}, push_block(b)
  PROVE  Steady'
<1>1. up /\ job.phase = "idle" /\ StateKept /\ up' = up
  BY DEF push_block
<1>2. Sound /\ Pushing /\ fdb.head # NoBlock
  BY <1>1 DEF Steady, Sound
<1>3. fdb \in ForkDB /\ head \in Block /\ lib \in Nat /\ Anchored /\ lib = committed
  BY <1>1 DEF IInv, Types, Running
<1>4. \A u \in fdb.unlinked \ {Root} : Prev[u] \notin fdb.linked
  BY <1>1, <1>2 DEF Pushing
<1>5. Settled
  BY <1>1, <1>2 DEF Pushing
<1>6. head' = head /\ lib' = lib
  BY <1>1 DEF StateKept
<1>7. CASE Links(fdb, b)
  <2>1. fdb' = link_block(fdb, b) /\ Prev[b] \in fdb.linked
    BY <1>2, <1>7 DEF push_block, Links
  <2>2. job' = [Idle EXCEPT !.phase = "link", !.stack = <<b>>, !.block = b]
    BY <1>7 DEF push_block
  <2>3. job'.phase = "link" /\ job'.stack = <<b>> /\ job'.block = b
    BY <2>2 DEF Idle
  <2>4. /\ Sound'
        /\ fdb'.linked = fdb.linked \cup {b} /\ fdb'.unlinked = fdb.unlinked
        /\ \/ fdb'.head = b /\ Num[b] > Num[fdb.head]
           \/ fdb'.head = fdb.head /\ (Settled => Settled')
    BY <1>1, <1>3, <2>1, SteadyLink
  <2>5. /\ Len(<<b>>) = 1 /\ <<b>>[1] = b /\ Range(<<b>>) = {b}
    BY DEF Range
  <2>6. Num[b] \in Nat /\ Num[head] \in Nat /\ Num[b] >= 1 /\ Num[Prev[b]] \in Nat
        /\ Num[b] = Num[Prev[b]] + 1 /\ Path[b][Num[b]] = b
    BY <1>3, Numbers, PathIsPath DEF IsPath
  <2>7. OnPath(b, b)
    BY <2>6 DEF OnPath
  <2>8. OnPath(b, head) => b \in fdb.linked
    <3> SUFFICES ASSUME OnPath(b, head) PROVE b \in fdb.linked
      OBVIOUS
    <3>1. Num[Prev[b]] >= lib
      BY <1>1, <1>2, <2>1 DEF Sound
    <3>2. Num[b] \in committed .. Num[head] /\ Path[head][Num[b]] = b
      BY <1>3, <2>6, <3>1 DEF OnPath
    <3> QED  BY <1>3, <3>2 DEF Anchored
  <2>9. ASSUME OnPath(b, head) PROVE \A u \in fdb'.unlinked \ {Root} : Prev[u] \notin fdb'.linked
    BY <1>4, <2>4, <2>8, <2>9
  <2>10. Settled' \/ (OnPath(b, fdb'.head) /\ ~ OnPath(b, head))
    <3>1. CASE fdb'.head = b /\ Num[b] > Num[head]
      <4>1. ~ OnPath(b, head)
        BY <2>6, <3>1 DEF OnPath
      <4> QED  BY <2>7, <3>1, <4>1
    <3>2. CASE fdb'.head = b /\ ~ (Num[b] > Num[head])
      BY <1>6, <2>6, <3>2 DEF Settled
    <3> QED  BY <1>5, <2>4, <3>1, <3>2
  <2>11. Pushing'
    <3>1. \A u \in fdb'.unlinked \ {Root} : Prev[u] \in fdb'.linked => Prev[u] = b
      BY <1>4, <2>4
    <3>2. \A i \in 1 .. Len(<<b>>) : OnPath(b, <<b>>[i])
      BY <2>5, <2>7
    <3> QED  BY <1>6, <2>3, <2>5, <2>9, <2>10, <3>1, <3>2 DEF Pushing, OnPath
  <2>12. Switching'
    BY <2>3 DEF Switching
  <2> QED  BY <2>4, <2>11, <2>12 DEF Steady
<1>8. CASE ~ Links(fdb, b)
  <2>1. fdb' = [fdb EXCEPT !.unlinked = fdb.unlinked \cup {b}] /\ job' = Idle
    BY <1>8 DEF push_block
  <2>2. Prev[b] \notin fdb.linked
    BY <1>8 DEF Links
  <2>3. /\ fdb'.linked = fdb.linked /\ fdb'.orphan = fdb.orphan /\ fdb'.head = fdb.head
        /\ fdb'.unlinked = fdb.unlinked \cup {b}
    BY <1>3, <2>1 DEF ForkDB
  <2>4. Sound'
    BY <1>1, <1>2, <1>6, <2>3, ForkSame
  <2>5. Settled'
    BY <1>5, <1>6, <2>3 DEF Settled, Stuck, BranchesExist
  <2>6. job'.phase = "idle"
    BY <2>1, IdleType
  <2>7. Pushing'
    BY <1>4, <2>2, <2>3, <2>5, <2>6 DEF Pushing
  <2>8. Switching'
    BY <2>6 DEF Switching
  <2> QED  BY <2>4, <2>7, <2>8 DEF Steady
<1> QED  BY <1>7, <1>8

\* The blocks that waited for the one just linked.
LEMMA SteadyPushNext ==
  ASSUME IInv, Steady, IInv', push_next
  PROVE  Steady'
<1> DEFINE s == job.stack
           x == Last(s)
<1>1. up /\ job.phase = "link" /\ StateKept /\ up' = up
  BY DEF push_next
<1>2. Sound /\ Pushing /\ fdb.head # NoBlock
  BY <1>1 DEF Steady, Sound
<1>3. fdb \in ForkDB /\ head \in Block /\ JobType
  BY <1>1 DEF IInv, Types, Running
<1>4. s \in Seq(Block) /\ s # <<>> /\ Range(s) \subseteq fdb.linked
  BY <1>1, <1>3 DEF IInv, Running, JobType, Linking
<1>5. head' = head /\ lib' = lib
  BY <1>1 DEF StateKept
<1>6. /\ Len(s) \in Nat /\ Len(s) >= 1 /\ x = s[Len(s)] /\ Len(s) \in 1 .. Len(s)
      /\ x \in Block /\ x \in fdb.linked
  <2>1. Len(s) \in 1 .. Len(s) /\ Len(s) \in Nat
    BY <1>4
  <2>2. s[Len(s)] \in Range(s) /\ s[Len(s)] \in Block
    BY <1>4, <2>1 DEF Range
  <2> QED  BY <1>4, <2>1, <2>2 DEF Last
<1>7. /\ \A u \in fdb.unlinked \ {Root} : Prev[u] \in fdb.linked => Prev[u] \in Range(s)
      /\ job.block \in Block
      /\ Settled \/ (OnPath(job.block, fdb.head) /\ ~ OnPath(job.block, head))
      /\ \A i \in 1 .. Len(s) : OnPath(job.block, s[i])
      /\ OnPath(job.block, head) => \A u \in fdb.unlinked \ {Root} : Prev[u] \notin fdb.linked
  BY <1>1, <1>2 DEF Pushing
<1>8. ASSUME fdb'.linked = fdb.linked, fdb'.orphan = fdb.orphan, fdb'.head = fdb.head,
             job'.block = job.block
      PROVE  /\ Sound'
             /\ Settled' \/ (OnPath(job'.block, fdb'.head) /\ ~ OnPath(job'.block, head))
  <2>1. Sound'
    BY <1>1, <1>2, <1>5, <1>8, ForkSame
  <2>2. Settled => Settled'
    BY <1>5, <1>8 DEF Settled, Stuck, BranchesExist
  <2> QED  BY <1>7, <1>8, <2>1, <2>2
<1>9. CASE Waiting(fdb, x) = {} /\ fdb' = fdb /\ Len(s) = 1
           /\ job' = [job EXCEPT !.phase = "decide", !.stack = <<>>]
  <2>1. job'.phase = "decide" /\ job'.block = job.block
    BY <1>3, <1>9 DEF JobType
  <2>2. Range(s) = {x}
    BY <1>4, <1>6, <1>9 DEF Range
  <2>3. \A u \in fdb.unlinked \ {Root} : Prev[u] \notin fdb.linked
    BY <1>7, <1>9, <2>2 DEF Waiting
  <2>4. Pushing'
    BY <1>5, <1>7, <1>8, <1>9, <2>1, <2>3 DEF Pushing, OnPath
  <2>5. Switching'
    BY <2>1 DEF Switching
  <2> QED  BY <1>8, <1>9, <2>1, <2>4, <2>5 DEF Steady
<1>10. CASE Waiting(fdb, x) = {} /\ fdb' = fdb /\ Len(s) # 1
            /\ job' = [job EXCEPT !.stack = Front(job.stack)]
  <2> DEFINE t == Front(s)
  <2>1. /\ t \in Seq(Block) /\ Len(t) = Len(s) - 1 /\ Len(t) \in Nat
        /\ \A i \in 1 .. Len(t) : t[i] = s[i]
    <3> DEFINE n == Len(s) - 1
    <3>1. n \in Nat /\ n <= Len(s)
      BY <1>6
    <3>2. t = SubSeq(s, 1, n)
      BY DEF Front
    <3> HIDE DEF n, t, s
    <3>3. t \in Seq(Block) /\ Len(t) = n /\ \A i \in 1 .. n : t[i] = s[i]
      BY <1>4, <3>1, <3>2
    <3> QED  BY <3>1, <3>3 DEF n
  <2>2. job' = [job EXCEPT !.stack = t]
    BY <1>10
  <2> HIDE DEF t
  <2>3. job'.phase = "link" /\ job'.block = job.block /\ job'.stack = t
    BY <1>1, <1>3, <2>2 DEF JobType
  <2>4. ASSUME NEW y \in Range(s), y # x PROVE y \in Range(t)
    <3>1. PICK i \in 1 .. Len(s) : y = s[i]
      BY <1>4 DEF Range
    <3>2. i # Len(s)
      BY <1>6, <2>4, <3>1
    <3>3. i \in 1 .. Len(t)
      BY <1>6, <2>1, <3>2
    <3> QED  BY <2>1, <3>1, <3>3 DEF Range
  <2>5. \A u \in fdb.unlinked \ {Root} : Prev[u] # x
    BY <1>10 DEF Waiting
  <2>6. \A u \in fdb.unlinked \ {Root} : Prev[u] \in fdb.linked => Prev[u] \in Range(t)
    BY <1>7, <2>4, <2>5
  <2>7. \A i \in 1 .. Len(t) : OnPath(job.block, t[i])
    <3> TAKE i \in 1 .. Len(t)
    <3>1. i \in 1 .. Len(s)
      BY <1>6, <2>1
    <3> QED  BY <1>7, <2>1, <3>1
  <2>8. Pushing'
    BY <1>5, <1>7, <1>8, <1>10, <2>3, <2>6, <2>7 DEF Pushing, OnPath
  <2>9. Switching'
    BY <2>3 DEF Switching
  <2> QED  BY <1>8, <1>10, <2>3, <2>8, <2>9 DEF Steady
<1>11. ASSUME NEW u \in Waiting(fdb, x),
              LET f == [fdb EXCEPT !.unlinked = fdb.unlinked \ {u}]
              IN  IF TooOld(f, u) THEN fdb' = f /\ job' = job
                  ELSE /\ fdb' = link_block(f, u)
                       /\ job' = [job EXCEPT !.stack = Append(job.stack, u)]
       PROVE  Steady'
  <2> DEFINE f == [fdb EXCEPT !.unlinked = fdb.unlinked \ {u}]
  <2>1. /\ f \in ForkDB /\ f.linked = fdb.linked /\ f.orphan = fdb.orphan
        /\ f.head = fdb.head /\ f.unlinked = fdb.unlinked \ {u}
    BY <1>3 DEF ForkDB
  <2>2. u \in Block \ {Root} /\ Prev[u] = x /\ Prev[u] \in fdb.linked /\ u \in fdb.unlinked
    BY <1>3, <1>6 DEF Waiting, ForkDB
  <2>3. IF TooOld(f, u) THEN fdb' = f /\ job' = job
        ELSE fdb' = link_block(f, u) /\ job' = [job EXCEPT !.stack = Append(job.stack, u)]
    BY <1>11
  <2> HIDE DEF f
  <2>4. ~ OnPath(job.block, head)
    BY <1>7, <2>2
  <2>5. CASE TooOld(f, u)
    <3>1. fdb' = f /\ job' = job
      BY <2>3, <2>5
    <3>2. Pushing'
      BY <1>1, <1>5, <1>7, <1>8, <2>1, <2>4, <3>1 DEF Pushing, OnPath
    <3>3. Switching'
      BY <1>1, <3>1 DEF Switching
    <3> QED  BY <1>8, <2>1, <3>1, <3>2, <3>3 DEF Steady
  <2>6. CASE ~ TooOld(f, u)
    <3> DEFINE t == Append(s, u)
    <3>1. fdb' = link_block(f, u) /\ job' = [job EXCEPT !.stack = t]
      BY <2>3, <2>6
    <3>2. /\ t \in Seq(Block) /\ Len(t) = Len(s) + 1
          /\ \A i \in 1 .. Len(s) : t[i] = s[i]
          /\ t[Len(s) + 1] = u
      BY <1>4, <2>2, AppendProperties
    <3> HIDE DEF t
    <3>3. job'.phase = "link" /\ job'.block = job.block /\ job'.stack = t
      BY <1>1, <1>3, <3>1 DEF JobType
    <3>4. /\ Sound'
          /\ fdb'.linked = fdb.linked \cup {u} /\ fdb'.unlinked = fdb.unlinked \ {u}
          /\ \/ fdb'.head = u
             \/ fdb'.head = fdb.head /\ (Settled => Settled')
      BY <1>1, <2>1, <2>2, <3>1, SteadyLink
    <3>5. OnPath(job.block, u)
      BY <1>6, <1>7, <2>2, OnPathChild
    <3>6. ASSUME NEW y, y \in Range(s) \/ y = u PROVE y \in Range(t)
      <4>1. CASE y = u
        <5>1. Len(s) + 1 \in 1 .. Len(t)
          BY <1>6, <3>2
        <5> QED  BY <3>2, <4>1, <5>1 DEF Range
      <4>2. CASE y \in Range(s)
        <5>1. PICK i \in 1 .. Len(s) : y = s[i]
          BY <1>4, <4>2 DEF Range
        <5>2. i \in 1 .. Len(t)
          BY <1>6, <3>2
        <5> QED  BY <3>2, <5>1, <5>2 DEF Range
      <4> QED  BY <3>6, <4>1, <4>2
    <3>7. \A v \in fdb'.unlinked \ {Root} : Prev[v] \in fdb'.linked => Prev[v] \in Range(t)
      BY <1>7, <3>4, <3>6
    <3>8. ASSUME NEW i \in 1 .. Len(t) PROVE OnPath(job.block, t[i])
      <4>1. i \in 1 .. Len(s) \/ i = Len(s) + 1
        BY <1>6, <3>2
      <4> QED  BY <1>7, <3>2, <3>5, <4>1
    <3>9. Settled' \/ (OnPath(job.block, fdb'.head) /\ ~ OnPath(job.block, head))
      BY <1>7, <2>4, <3>4, <3>5
    <3>10. Pushing'
      BY <1>5, <1>7, <2>4, <3>3, <3>7, <3>8, <3>9 DEF Pushing, OnPath
    <3>11. Switching'
      BY <3>3 DEF Switching
    <3> QED  BY <3>4, <3>10, <3>11 DEF Steady
  <2> QED  BY <2>5, <2>6
<1> QED  BY <1>9, <1>10, <1>11 DEF push_next

\* A fork switch starts, or cannot.
LEMMA SteadySwitch ==
  ASSUME IInv, Steady, up, IInv', StateKept, job.phase # "link",
         \A u \in fdb.unlinked \ {Root} : Prev[u] \notin fdb.linked,
         NEW to \in Block, Num[to] >= Num[head],
         NEW from, switch_forks(to, from),
         from = <<>> => fdb.head = to /\ Num[to] > Num[head],
         Settled \/ fdb.head = to
  PROVE  Steady'
<1>1. Sound /\ Pushing /\ fdb.head # NoBlock /\ ~ Doomed(head)
  BY DEF Steady, Sound
<1>2. /\ fdb \in ForkDB /\ head \in Block /\ Num[head] \in Nat /\ Num[to] \in Nat /\ lib \in Nat
  BY Numbers DEF IInv, Types
<1>3. head' = head /\ lib' = lib
  BY DEF StateKept
<1>4. CASE to = head
  <2>1. Down
    BY <1>4 DEF switch_forks
  <2> QED  BY <1>1, <1>3, <2>1, SteadyDown
<1>5. CASE to # head /\ ~ BranchesExist(fdb, to, head)
  <2>1. /\ fdb' = fdb
        /\ job' = IF from = <<>> THEN Idle
                  ELSE [Idle EXCEPT !.phase = "confirmed", !.from = <<from[1], 0>>]
    BY <1>5 DEF switch_forks
  <2>2. job'.phase \in {"idle", "confirmed"}
    BY <2>1 DEF Idle
  <2>3. Sound'
    BY <1>1, <1>3, <2>1, ForkSame
  <2>4. Settled
    BY <1>5 DEF Settled, Stuck
  <2>5. Settled'
    BY <1>3, <2>1, <2>4 DEF Settled, Stuck
  <2> QED  BY <1>1, <2>1, <2>2, <2>3, <2>5, SteadyRest
<1>6. CASE to # head /\ BranchesExist(fdb, to, head)
  <2> DEFINE m == Common(to, head)
             s == Branch(to, head)
             o == Branch(head, to)
             t == Path[to][m]
  <2>1. /\ m \in 1 .. Num[to] /\ m <= Num[head]
        /\ t \in Block /\ Num[t] = m
        /\ Len(s) = Num[to] - m /\ Len(o) = Num[head] - m
        /\ \A i \in 1 .. Len(s) : s[i] = Path[to][m + i]
        /\ \A i \in 1 .. Len(o) : o[i] = Path[head][m + i]
    BY <1>2, Branches
  <2>2. /\ fdb' = fdb
        /\ job' = [phase |-> "pop", stack |-> <<>>, todo |-> s, old |-> o, target |-> t,
                   mode |-> "switch", orig |-> Num[head], common |-> m,
                   from |-> from, block |-> job.block]
    BY <1>6 DEF switch_forks
  <2>3. t = Path[head][m]
    BY <1>2, CommonIs
  <2>4. OnPath(t, head)
    BY <2>1, <2>3 DEF OnPath
  <2>5. ASSUME NEW i \in 1 .. Len(o) PROVE o[i] \notin Bad
    <3>1. m + i \in 1 .. Num[head]
      BY <1>2, <2>1
    <3> QED  BY <1>1, <2>1, <3>1 DEF Doomed
  <2>6. ASSUME from = <<>>
        PROVE  \E i \in 1 .. Len(s) : fdb.head = s[i] /\ m + i > Num[head]
    <3>1. Path[to][Num[to]] = to
      BY PathIsPath DEF IsPath
    <3>2. Len(s) \in 1 .. Len(s) /\ m + Len(s) = Num[to] /\ Num[to] > Num[head]
      BY <1>2, <2>1, <2>6
    <3>3. s[Len(s)] = to
      BY <2>1, <3>1, <3>2
    <3> QED  BY <2>6, <3>2, <3>3
  <2> HIDE DEF m, s, o, t
  <2>7. m + Len(s) >= Num[head] /\ Num[head] = m + Len(o)
    BY <1>2, <2>1
  <2>8. /\ job'.phase = "pop" /\ job'.todo = s /\ job'.old = o /\ job'.target = t
        /\ job'.mode = "switch" /\ job'.common = m /\ job'.from = from /\ job'.orig = Num[head]
    BY <2>2
  <2>9. Sound'
    BY <1>1, <1>3, <2>2, ForkSame
  <2>10. Switching'
    BY <1>3, <2>2, <2>4, <2>5, <2>6, <2>7, <2>8 DEF Switching, OnPath
  <2>11. Pushing'
    BY <2>2, <2>8 DEF Pushing
  <2> QED  BY <2>9, <2>10, <2>11 DEF Steady
<1> QED  BY <1>4, <1>5, <1>6

\* The end of a push.
LEMMA SteadyExtend ==
  ASSUME IInv, Steady, IInv', extend_or_switch
  PROVE  Steady'
<1> DEFINE new == fdb.head
           above == SubSeq(Path[new], Num[head] + 1, Num[new])
<1>1. /\ up /\ job.phase = "decide" /\ StateKept
      /\ IF above = <<>>
         THEN job' = Idle /\ UNCHANGED <<fdb, approvals, up>>
         ELSE IF Range(above) \cap fdb.orphan # {} THEN Down
         ELSE IF Prev[above[1]] = head
         THEN /\ job' = [job EXCEPT !.phase  = "apply",
                                    !.todo   = above,
                                    !.orig   = Num[head],
                                    !.common = Num[head]]
              /\ UNCHANGED <<fdb, approvals, up>>
         ELSE switch_forks(new, <<>>)
  BY DEF extend_or_switch
<1>2. Sound /\ Pushing /\ new # NoBlock
  BY <1>1 DEF Steady, Sound
<1>3. /\ fdb \in ForkDB /\ head \in Block /\ Num[head] \in Nat /\ Num[head] >= 1
      /\ JobType /\ job.mode = "extend"
  BY <1>1, Numbers DEF IInv, Types, Running, Modes
<1>4. new \in Block /\ Num[new] \in Nat
  BY <1>2, <1>3, Numbers DEF ForkDB
<1>5. head' = head /\ lib' = lib
  BY <1>1 DEF StateKept
<1>6. \A u \in fdb.unlinked \ {Root} : Prev[u] \notin fdb.linked
  BY <1>1, <1>2 DEF Pushing
<1>7. CASE above = <<>>
  <2>1. fdb' = fdb /\ job' = Idle
    BY <1>1, <1>7
  <2>2. Num[new] <= Num[head]
    <3>1. Path[new] \in Seq(Block) /\ Len(Path[new]) = Num[new]
      BY <1>4, PathIsPath DEF IsPath
    <3>2. ASSUME Num[new] > Num[head] PROVE above # <<>>
      <4>1. Num[head] \in 1 .. Num[new]
        BY <1>3, <1>4, <3>2
      <4>2. Len(above) = Num[new] - Num[head]
        BY <1>4, <4>1, PathChain
      <4>3. Len(above) # 0
        BY <1>3, <1>4, <3>2, <4>2
      <4> HIDE DEF above
      <4> QED  BY <4>3
    <3> QED  BY <1>3, <1>4, <1>7, <3>2
  <2>3. Sound'
    BY <1>1, <1>2, <1>5, <2>1, ForkSame
  <2>4. Settled'
    BY <1>5, <2>1, <2>2 DEF Settled
  <2> QED  BY <1>1, <1>2, <2>1, <2>3, <2>4, IdleType, SteadyRest
<1>8. CASE above # <<>>
  <2>1. Num[new] > Num[head]
    <3>1. Path[new] \in Seq(Block) /\ Len(Path[new]) = Num[new]
      BY <1>4, PathIsPath DEF IsPath
    <3>2. ASSUME Num[new] <= Num[head] PROVE above = <<>>
      BY <1>3, <1>4, <3>1, <3>2
    <3> QED  BY <1>3, <1>4, <1>8, <3>2
  <2>2. Num[head] \in 1 .. Num[new]
    BY <1>3, <1>4, <2>1
  <2>3. above \in Seq(Block) /\ Len(above) = Num[new] - Num[head]
    BY <1>4, <2>2, PathChain
  <2> HIDE DEF above
  <2>4. CASE Range(above) \cap fdb.orphan # {}
    <3>1. Down
      BY <1>1, <1>8, <2>4
    <3> QED  BY <1>2, <1>5, <3>1, SteadyDown
  <2>5. CASE Range(above) \cap fdb.orphan = {} /\ Prev[above[1]] = head
    <3>1. /\ fdb' = fdb
          /\ job' = [job EXCEPT !.phase  = "apply", !.todo   = above,
                                !.orig   = Num[head], !.common = Num[head]]
      BY <1>1, <1>8, <2>5
    <3>2. /\ job'.phase = "apply" /\ job'.todo = above /\ job'.mode = "extend"
          /\ job'.orig = Num[head]
      BY <1>3, <3>1 DEF JobType
    <3>3. Num[head] + Len(above) >= Num[head] /\ Num[head] >= Num[head]
      BY <1>3, <2>3
    <3>4. Switching'
      BY <1>5, <3>2, <3>3 DEF Switching
    <3>5. Pushing'
      BY <1>6, <3>1, <3>2 DEF Pushing
    <3>6. Sound'
      BY <1>1, <1>2, <1>5, <3>1, ForkSame
    <3> QED  BY <3>4, <3>5, <3>6 DEF Steady
  <2>6. CASE Range(above) \cap fdb.orphan = {} /\ Prev[above[1]] # head
    <3>1. switch_forks(new, <<>>)
      BY <1>1, <1>8, <2>6
    <3>2. Num[new] >= Num[head] /\ job.phase # "link"
      BY <1>1, <1>3, <1>4, <2>1
    <3> QED  BY <1>1, <1>4, <1>6, <2>1, <3>1, <3>2, SteadySwitch
  <2> QED  BY <2>4, <2>5, <2>6
<1> QED  BY <1>7, <1>8

\* One pop, on the way to a fork or back from it.
LEMMA SteadyPop ==
  ASSUME IInv, Steady, IInv', pop_block_extended
  PROVE  Steady'
<1>1. /\ up /\ job.phase \in {"pop", "unpop"} /\ lib' = lib /\ committed' = committed /\ up' = up
  BY DEF pop_block_extended, undo
<1>2. /\ Sound /\ Switching /\ Pushing /\ fdb.head # NoBlock /\ ~ Doomed(head)
  BY <1>1 DEF Steady, Sound
<1>3. /\ fdb \in ForkDB /\ head \in Block /\ Num[head] \in Nat /\ Num[head] >= 1 /\ lib \in Nat
      /\ JobType /\ job.mode = "switch" /\ lib = committed /\ 1 <= lib /\ lib <= Num[head]
      /\ IsFiniteSet(fdb.linked)
  BY <1>1, Numbers DEF IInv, Types, Running, Modes, Logged
<1>4. /\ job.target \in Block /\ job.common = Num[job.target] /\ Num[job.target] \in Nat
      /\ Num[job.target] >= 1
  BY <1>1, <1>3, Numbers DEF IInv, Running, Leaving
<1>5. /\ job.orig = job.common + Len(job.old) /\ OnPath(job.target, head)
      /\ \A i \in 1 .. Len(job.old) : job.old[i] \notin Bad
      /\ job.phase = "pop" => job.common + Len(job.todo) >= job.orig
      /\ job.phase = "unpop" => lib < job.common /\ fdb.head = head /\ job.old # <<>>
  BY <1>1, <1>2, <1>3 DEF Switching
<1>6. fdb.head \in Block /\ Num[fdb.head] \in Nat
  BY <1>2, <1>3, Numbers DEF ForkDB
<1>7. \A u \in fdb.unlinked \ {Root} : Prev[u] \notin fdb.linked
  BY <1>1, <1>2 DEF Pushing
<1>8. CASE head = job.target /\ job.phase = "pop"
  <2>1. fdb' = fdb /\ head' = head /\ job' = [job EXCEPT !.phase = "apply"]
    BY <1>8 DEF pop_block_extended, undo
  <2>2. /\ job'.phase = "apply" /\ job'.todo = job.todo /\ job'.old = job.old
        /\ job'.target = job.target /\ job'.mode = "switch" /\ job'.common = job.common
        /\ job'.orig = job.orig
    BY <1>3, <2>1 DEF JobType
  <2>3. Switching'
    BY <1>4, <1>5, <1>8, <2>1, <2>2 DEF Switching, OnPath
  <2>4. Pushing'
    BY <1>7, <2>1, <2>2 DEF Pushing
  <2>5. Sound'
    BY <1>1, <1>2, <2>1, ForkSame
  <2> QED  BY <2>3, <2>4, <2>5 DEF Steady
<1>9. CASE head = job.target /\ job.phase = "unpop"
  <2>1. /\ fdb' = fdb /\ head' = head
        /\ job' = [job EXCEPT !.phase = "restore", !.todo = job.old]
    BY <1>5, <1>9 DEF pop_block_extended, undo
  <2>2. /\ job'.phase = "restore" /\ job'.todo = job.old /\ job'.orig = job.orig
        /\ job'.mode = "switch"
    BY <1>3, <2>1 DEF JobType
  <2>3. Switching'
    BY <1>4, <1>5, <1>9, <2>1, <2>2 DEF Switching
  <2>4. Pushing'
    BY <1>7, <2>1, <2>2 DEF Pushing
  <2>5. Sound'
    BY <1>1, <1>2, <2>1, ForkSame
  <2> QED  BY <2>3, <2>4, <2>5 DEF Steady
<1>10. CASE head # job.target /\ ~ CanPop(fdb)
  <2>1. fdb' = Free(fdb) /\ job' = Ended(TRUE) /\ head' = head
    BY <1>1, <1>10 DEF pop_block_extended
  <2>2. /\ fdb'.linked = fdb.linked /\ fdb'.head = fdb.head
        /\ \A b \in fdb'.orphan : b \in fdb.orphan \/ (b # Root /\ Prev[b] \notin fdb.linked)
    BY <1>3, <2>1, FreeKeeps
  <2>3. fdb'.unlinked = fdb.unlinked /\ (fdb.orphan \subseteq fdb.linked => fdb.orphan \subseteq fdb'.orphan)
    BY <1>3, <2>1 DEF Free, ForkDB
  <2>4. fdb.orphan \subseteq fdb'.orphan
    BY <2>3 DEF IInv, Types
  <2>5. Sound'
    <3>1. lib <= lib' /\ ~ Doomed(head')
      BY <1>1, <1>2, <1>3, <2>1
    <3> QED  BY <1>1, <1>2, <2>2, <3>1, ForkKept
  <2>6. fdb.head = Root \/ fdb.head \in fdb.orphan
    <3>1. fdb.head # Root => Prev[fdb.head] \in Block
      BY <1>6, Numbers
    <3> QED  BY <1>2, <1>10, <3>1, TreeAssumption DEF CanPop, prev
  <2>7. Settled'
    <3>1. CASE Num[fdb.head] <= Num[head]
      BY <2>1, <2>2, <3>1 DEF Settled
    <3>2. CASE Num[fdb.head] > Num[head]
      <4>1. fdb.head # Root
        BY <1>3, <3>2, TreeAssumption
      <4>2. Num[fdb.head] \in (Num[head] + 1) .. Num[fdb.head] /\ Path[fdb.head][Num[fdb.head]] = fdb.head
        BY <1>3, <1>6, <3>2, PathIsPath DEF IsPath
      <4>3. fdb.head \in fdb'.orphan
        BY <2>4, <2>6, <4>1
      <4> QED  BY <2>1, <2>2, <4>2, <4>3 DEF Settled, Stuck
    <3> QED  BY <1>3, <1>6, <3>1, <3>2
  <2>8. job'.phase \in {"idle", "confirmed"}
    BY <2>1, EndedPhase
  <2> QED  BY <1>1, <1>2, <2>2, <2>3, <2>5, <2>7, <2>8, SteadyRest
<1>11. CASE head # job.target /\ CanPop(fdb)
  <2> DEFINE h == fdb.head
  <2>1. /\ fdb' = pop_block(fdb) /\ job' = job
        /\ head' = IF Num[head] > committed THEN Prev[head] ELSE head
    BY <1>1, <1>11 DEF pop_block_extended, undo
  <2>2. h # Root /\ h \notin fdb.orphan /\ prev(fdb, h) = Prev[h]
    BY <1>11 DEF CanPop, prev
  <2>3. Prev[h] \in Block /\ Prev[h] # NoBlock
    BY <1>6, <2>2, Numbers, TreeAssumption
  <2>4. /\ fdb'.linked = fdb.linked /\ fdb'.orphan = fdb.orphan /\ fdb'.unlinked = fdb.unlinked
        /\ fdb'.head = Prev[h]
    BY <1>3, <2>1, <2>2 DEF pop_block, ForkDB
  <2>5. Num[head] > Num[job.target]
    <3>1. Path[head][Num[head]] = head
      BY <1>3, PathIsPath DEF IsPath
    <3>2. Num[head] # Num[job.target]
      BY <1>5, <1>11, <3>1 DEF OnPath
    <3> QED  BY <1>3, <1>4, <1>5, <3>2 DEF OnPath
  <2>6. head # Root
    BY <1>4, <2>5, TreeAssumption
  <2>7. /\ Prev[head] \in Block /\ Num[Prev[head]] \in Nat /\ Num[head] = Num[Prev[head]] + 1
        /\ \A k \in 1 .. Num[Prev[head]] : Path[head][k] = Path[Prev[head]][k]
    BY <1>3, <2>6, Numbers, PathOfChild
  <2>8. ~ Doomed(head')
    BY <1>2, <1>3, <2>1, <2>6, DoomedPrev
  <2>9. Sound'
    <3>1. lib <= lib'
      BY <1>1, <1>3
    <3> QED  BY <1>1, <1>2, <2>3, <2>4, <2>8, <3>1, ForkKept
  <2>10. OnPath(job.target, head')
    <3>1. Num[job.target] \in 1 .. Num[Prev[head]]
      BY <1>4, <2>5, <2>7
    <3> QED  BY <1>5, <2>1, <2>7, <3>1 DEF OnPath
  <2>11. ASSUME job.phase = "unpop" PROVE fdb'.head = head'
    BY <1>3, <1>4, <1>5, <2>1, <2>4, <2>5, <2>11
  <2>12. ASSUME job.phase = "pop", job.from = <<>>, lib <= job.common
         PROVE  \E i \in 1 .. Len(job.todo) : fdb'.head = job.todo[i] /\ job.common + i > Num[head']
    <3>1. PICK i \in 1 .. Len(job.todo) : h = job.todo[i] /\ job.common + i > Num[head]
      BY <1>2, <2>12 DEF Switching
    <3>2. i # 1 /\ i - 1 \in 1 .. Len(job.todo)
      BY <1>3, <1>4, <2>5, <3>1
    <3>3. Prev[h] = job.todo[i - 1]
      <4>1. Chain(job.todo, job.target)
        BY <1>1, <2>12 DEF IInv, Running, Reaching
      <4> QED  BY <3>1, <3>2, <4>1 DEF Chain
    <3>4. head' = Prev[head]
      BY <1>3, <1>4, <2>1, <2>5, <2>12
    <3>5. job.common + (i - 1) > Num[head']
      BY <1>3, <1>4, <2>7, <3>1, <3>4
    <3> QED  BY <2>4, <3>2, <3>3, <3>5
  <2>13. Switching'
    BY <1>1, <1>3, <1>5, <2>1, <2>10, <2>11, <2>12 DEF Switching, OnPath
  <2>14. Pushing'
    BY <1>1, <1>7, <2>1, <2>4 DEF Pushing
  <2> QED  BY <2>9, <2>13, <2>14 DEF Steady
<1> QED  BY <1>1, <1>8, <1>9, <1>10, <1>11

\* A request does not leave the node lower than it was, unless what it left
\* has become irreversible.
NotLower ==
  job'.phase \in {"idle", "confirmed"} /\ up' => Num[head'] >= job.orig \/ lib' >= job.common

\* A bad block: it and the blocks after it go, and the way back is open.
LEMMA SteadyFail ==
  ASSUME IInv, Steady, up, IInv', StateKept, job.phase = "apply", Head(job.todo) \in Bad,
         fail(set_head(fdb, Head(job.todo)))
  PROVE  Steady' /\ NotLower
<1> DEFINE s == job.todo
           b == Head(s)
           f == set_head(fdb, b)
           S == Range(s)
           g == remove(f, S)
           n == get_last_irreversible_block_num(g)
           above == job.mode = "switch" /\ n < job.common
<1>1. /\ Sound /\ Switching /\ Pushing /\ ~ Doomed(head) /\ \A c \in fdb.linked : Num[c] >= lib
  BY DEF Steady, Sound
<1>2. /\ s \in Seq(Block) /\ Len(s) \in Nat /\ Len(s) >= 1 /\ b = s[1]
      /\ b \in Block \ {Root} /\ b # NoBlock /\ Prev[b] = head /\ Num[b] = Num[head] + 1
      /\ Num[head] \in Nat /\ head # NoBlock
      /\ \A i \in 1 .. Len(s) : Num[s[i]] = Num[head] + i
      /\ f \in ForkDB /\ f.linked = fdb.linked /\ f.orphan = fdb.orphan /\ f.head = b
      /\ f.orphan \subseteq f.linked /\ IsFiniteSet(f.linked)
  BY NextBlock
<1>3. head' = head /\ lib' = lib
  BY DEF StateKept
<1>4. /\ head \in Block /\ lib \in Nat /\ lib = committed /\ committed >= 1 /\ committed <= Num[head]
      /\ fdb \in ForkDB /\ JobType /\ Anchored /\ s # <<>> /\ Chain(s, head)
  BY DEF IInv, Types, Running, Logged, Applying
<1>5. b \notin fdb.orphan
  BY <1>1, NextReaches
<1>6. \A c \in S : Doomed(c)
  <2>1. s[1] \in Bad
    BY <1>2
  <2>2. \A i \in 1 .. Len(s) : Doomed(s[i])
    <3> HIDE DEF s
    <3> QED  BY <1>2, <1>4, <2>1, DoomedChain
  <2> TAKE c \in S
  <2>3. PICK i \in 1 .. Len(s) : c = s[i]
    BY <1>2 DEF Range
  <2> QED  BY <2>2, <2>3
<1>7. /\ g \in ForkDB /\ g.orphan \subseteq g.linked /\ IsFiniteSet(g.linked)
      /\ g.linked = f.linked \ S /\ g.orphan = f.orphan \ S
      /\ g.head = IF f.head \in S THEN prev(f, f.head) ELSE f.head
  BY <1>2, RemoveKeeps
<1>8. b \in S
  BY <1>2 DEF Range
<1>9. g.head = head
  BY <1>2, <1>5, <1>7, <1>8 DEF prev
<1>10. g.unlinked = fdb.unlinked
  BY <1>4 DEF remove, set_head, ForkDB
<1>11. head \in g.linked /\ n \in Nat /\ n <= lib /\ lib <= n
  <2>1. Path[head][committed] \in fdb.linked /\ Num[Path[head][committed]] = committed
        /\ head \in fdb.linked
    <3>1. committed \in committed .. Num[head] /\ committed \in 1 .. Num[head]
          /\ Num[head] \in committed .. Num[head]
      BY <1>2, <1>4
    <3> QED  BY <1>4, <3>1, PathOn, PathIsPath DEF Anchored, IsPath
  <2>2. \A c \in S : Num[c] > Num[head]
    BY <1>2 DEF Range
  <2>3. Path[head][committed] \in g.linked /\ head \in g.linked
    BY <1>2, <1>4, <1>7, <2>1, <2>2, SMTT(60)
  <2>4. n \in Nat /\ n <= committed /\ \E c \in g.linked : n = Num[c]
    BY <1>7, <2>1, <2>3, OldestBlock
  <2> HIDE DEF n, g
  <2>5. PICK c \in g.linked : n = Num[c]
    BY <2>4
  <2>6. Num[c] >= lib
    BY <1>1, <1>2, <1>7, <2>5
  <2> QED  BY <1>4, <2>3, <2>4, <2>5, <2>6
<1>12. \/ above /\ g.head = NoBlock /\ Down
       \/ /\ above /\ Num[g.head] < job.orig
          /\ fdb' = g /\ job' = [job EXCEPT !.phase = "unpop", !.todo = <<>>]
          /\ up' = up
       \/ /\ ~ (above /\ Num[g.head] < job.orig)
          /\ fdb' = Free(g) /\ job' = Ended(TRUE) /\ up' = up
  BY DEF fail
<1> HIDE DEF n, g, f, b, S, above
<1>13. ASSUME fdb'.linked = g.linked, fdb'.head = head,
              \A c \in fdb'.orphan : c \in g.orphan \/ (c # Root /\ Prev[c] \notin g.linked)
       PROVE  Sound'
  <2>1. lib <= lib' /\ ~ Doomed(head')
    BY <1>1, <1>3, <1>4
  <2>2. /\ \A c \in fdb'.linked : c \in fdb.linked
        /\ \A c \in fdb.linked : c \in fdb'.linked \/ Doomed(c)
        /\ \A c \in fdb'.orphan : c \in fdb.orphan \/ (c # Root /\ Prev[c] \notin fdb'.linked)
        /\ fdb'.head # NoBlock
    BY <1>2, <1>6, <1>7, <1>13
  <2> QED  BY <1>1, <1>3, <2>1, <2>2, ForkKept
<1>14. CASE /\ above /\ Num[g.head] < job.orig
            /\ fdb' = g /\ job' = [job EXCEPT !.phase = "unpop", !.todo = <<>>]
            /\ up' = up
  <2>1. /\ job'.phase = "unpop" /\ job'.old = job.old /\ job'.target = job.target
        /\ job'.mode = job.mode /\ job'.common = job.common /\ job'.orig = job.orig
    BY <1>4, <1>14 DEF JobType
  <2>2. Sound'
    BY <1>9, <1>13, <1>14
  <2>3. job.mode = "switch" /\ lib < job.common
    <3>1. job.common \in Nat
      BY <1>4 DEF JobType
    <3> QED  BY <1>4, <1>11, <1>14, <3>1 DEF above
  <2>4. /\ job.orig = job.common + Len(job.old) /\ OnPath(job.target, head)
        /\ \A i \in 1 .. Len(job.old) : job.old[i] \notin Bad
    BY <1>1, <2>3 DEF Switching
  <2>5. job.old # <<>>
    <3>1. job.common = Num[job.target]
      BY <2>3 DEF IInv, Running, Leaving
    <3>2. job.common \in Nat /\ job.orig \in Nat
      BY <1>4 DEF JobType
    <3>3. job.old = <<>> => Len(job.old) = 0
      OBVIOUS
    <3> QED  BY <1>2, <1>9, <1>14, <2>4, <3>1, <3>2, <3>3 DEF OnPath
  <2>6. Switching'
    BY <1>3, <1>9, <1>14, <2>1, <2>3, <2>4, <2>5 DEF Switching, OnPath
  <2>7. \A u \in fdb'.unlinked \ {Root} : Prev[u] \notin fdb'.linked
    BY <1>1, <1>2, <1>7, <1>10, <1>14 DEF Pushing
  <2>8. Pushing'
    BY <2>1, <2>7 DEF Pushing
  <2> QED  BY <2>1, <2>2, <2>6, <2>8 DEF Steady, NotLower
<1>15. CASE /\ ~ (above /\ Num[g.head] < job.orig)
            /\ fdb' = Free(g) /\ job' = Ended(TRUE) /\ up' = up
  <2>1. /\ fdb'.linked = g.linked /\ fdb'.head = g.head
        /\ \A c \in fdb'.orphan : c \in g.orphan \/ (c # Root /\ Prev[c] \notin g.linked)
    BY <1>7, <1>15, FreeKeeps
  <2>2. fdb'.unlinked = fdb.unlinked
    BY <1>7, <1>10, <1>15 DEF Free, ForkDB
  <2>3. Sound'
    BY <1>9, <1>13, <2>1
  <2>4. Settled'
    BY <1>2, <1>3, <1>9, <2>1 DEF Settled
  <2>5. job'.phase \in {"idle", "confirmed"}
    BY <1>15, EndedPhase
  <2>6. Steady'
    <3>1. fdb'.linked \subseteq fdb.linked
      BY <1>2, <1>7, <2>1
    <3> QED  BY <1>1, <2>2, <2>3, <2>4, <2>5, <3>1, SteadyRest
  <2>7. Num[head] >= job.orig \/ lib >= job.common
    <3>1. job.orig \in Nat /\ job.common \in Nat /\ job.mode \in {"extend", "switch"}
      BY <1>4 DEF JobType
    <3>2. job.mode = "extend" => Num[head] >= job.orig
      BY <1>1 DEF Switching
    <3> QED  BY <1>2, <1>4, <1>9, <1>11, <1>15, <3>1, <3>2 DEF above
  <2> QED  BY <1>3, <2>6, <2>7 DEF NotLower
<1> QED  BY <1>2, <1>9, <1>12, <1>14, <1>15

\* A block has been applied.
LEMMA SteadyApplied ==
  ASSUME IInv, Steady, up, IInv', job.phase \in {"apply", "restore"}, Head(job.todo) \notin Bad,
         NEW r \in update_last_irreversible_block(set_head(fdb, Head(job.todo)), approvals,
                                                  Head(job.todo)),
         AppliedWith(r)
  PROVE  Steady' /\ NotLower
<1> DEFINE s == job.todo
           b == Head(s)
           f == set_head(fdb, b)
           g == set_max_size(f, Num[b] - r.lib + 1)
           n == r.lib
<1>1. /\ Sound /\ Switching /\ Pushing /\ ~ Doomed(head)
  BY DEF Steady, Sound
<1>2. /\ s \in Seq(Block) /\ Len(s) \in Nat /\ Len(s) >= 1 /\ b = s[1]
      /\ b \in Block \ {Root} /\ b # NoBlock /\ Prev[b] = head /\ Num[b] = Num[head] + 1
      /\ Num[head] \in Nat /\ Num[b] \in Nat
      /\ f \in ForkDB
  BY NextBlock
<1>3. /\ lib' = n /\ head' = b /\ up' = up
      /\ fdb' = IF job.mode = "switch" /\ ~ (Len(s) = 1) THEN g ELSE Free(g)
      /\ job' = IF ~ (Len(s) = 1) THEN [job EXCEPT !.todo = Tail(job.todo)]
                ELSE Ended(job.phase = "restore")
  BY DEF AppliedWith
<1>4. /\ n \in Nat /\ lib <= n
      /\ fdb' \in ForkDB
      /\ fdb'.linked = {c \in fdb.linked : Num[c] >= n} /\ fdb'.head = b
      /\ \A c \in fdb'.orphan : c \in fdb.orphan \/ (c # Root /\ Prev[c] \notin fdb'.linked)
  BY AppliedState
<1>5. /\ head \in Block /\ JobType /\ fdb \in ForkDB
      /\ job.orig \in Nat /\ job.common \in Nat /\ job.mode \in {"extend", "switch"}
  BY DEF IInv, Types, JobType
<1>6. fdb'.unlinked \subseteq fdb.unlinked
  <2>1. f.unlinked = fdb.unlinked
    BY <1>5 DEF set_head, ForkDB
  <2> HIDE DEF f
  <2>2. g.unlinked \subseteq f.unlinked /\ Free(g).unlinked = g.unlinked
    BY <1>2 DEF set_max_size, Free, ForkDB
  <2> HIDE DEF g
  <2> QED  BY <1>3, <2>1, <2>2
<1> HIDE DEF f, g, b
<1>7. ~ Doomed(b)
  BY <1>1, <1>2, DoomedPrev DEF b
<1>8. Sound'
  <2>1. lib <= lib' /\ ~ Doomed(head') /\ fdb'.head # NoBlock
    BY <1>2, <1>3, <1>4, <1>7
  <2>2. \A c \in fdb.linked : Num[c] \in Nat
    BY <1>5, Numbers DEF ForkDB
  <2>3. /\ \A c \in fdb'.linked : c \in fdb.linked /\ Num[c] >= lib'
        /\ \A c \in fdb.linked : c \in fdb'.linked \/ Num[c] < lib'
    BY <1>3, <1>4, <2>2
  <2> QED  BY <1>1, <1>4, <2>1, <2>3, ForkKept
<1>9. CASE Len(s) = 1
  <2>1. job' = Ended(job.phase = "restore")
    BY <1>3, <1>9
  <2>2. job'.phase \in {"idle", "confirmed"}
    BY <2>1, EndedPhase
  <2>3. Settled'
    BY <1>2, <1>3, <1>4 DEF Settled
  <2>4. Steady'
    BY <1>1, <1>4, <1>6, <1>8, <2>2, <2>3, SteadyRest
  <2>5. Num[b] >= job.orig
    <3>1. Num[head] + Len(s) >= job.orig
      BY <1>1, <1>2, <1>5 DEF Switching
    <3> QED  BY <1>2, <1>9, <3>1
  <2> QED  BY <1>3, <2>4, <2>5 DEF NotLower
<1>10. CASE Len(s) # 1
  <2> DEFINE t == Tail(s)
  <2>1. job' = [job EXCEPT !.todo = t]
    BY <1>3, <1>10
  <2>2. /\ t \in Seq(Block) /\ Len(t) = Len(s) - 1
        /\ \A i \in 1 .. Len(t) : i + 1 \in 1 .. Len(s) /\ t[i] = s[i + 1]
    BY <1>2, <1>10
  <2> HIDE DEF t
  <2>3. /\ job'.phase = job.phase /\ job'.todo = t /\ job'.old = job.old
        /\ job'.target = job.target /\ job'.mode = job.mode /\ job'.common = job.common
        /\ job'.orig = job.orig
    BY <1>5, <2>1 DEF JobType
  <2>4. Num[b] + Len(t) = Num[head] + Len(s)
    BY <1>2, <2>2, SMTT(60)
  <2>5. ASSUME job.phase = "apply", job.mode = "switch" PROVE OnPath(job.target, b)
    <3>1. OnPath(job.target, head)
      BY <1>1, <2>5 DEF Switching
    <3>2. job.target \in Block
      BY <2>5 DEF IInv, Running, Leaving
    <3> QED  BY <1>2, <3>1, <3>2, OnPathChild
  <2>6. ASSUME job.phase = "apply" PROVE Switching'
    <3>1. /\ Num[b] + Len(t) >= job.orig
          /\ job.mode = "extend" => Num[b] >= job.orig
      BY <1>1, <1>2, <1>5, <2>4, <2>6 DEF Switching
    <3>2. job.mode = "switch" => /\ job.orig = job.common + Len(job.old)
                                 /\ \A i \in 1 .. Len(job.old) : job.old[i] \notin Bad
      BY <1>1, <2>6 DEF Switching
    <3> QED  BY <1>3, <2>3, <2>5, <2>6, <3>1, <3>2 DEF Switching, OnPath
  <2>7. ASSUME job.phase = "restore" PROVE Switching'
    <3>1. /\ Num[head] + Len(s) = job.orig
          /\ \A i \in 1 .. Len(s) : s[i] \notin Bad
      BY <1>1, <2>7 DEF Switching
    <3>2. /\ Num[b] + Len(t) = job.orig
          /\ \A i \in 1 .. Len(t) : t[i] \notin Bad
      BY <2>2, <2>4, <3>1
    <3> QED  BY <1>3, <2>3, <2>7, <3>2 DEF Switching
  <2>8. Pushing'
    BY <1>1, <1>4, <1>6, <2>3 DEF Pushing
  <2> QED  BY <1>8, <2>3, <2>6, <2>7, <2>8 DEF Steady, NotLower
<1> QED  BY <1>9, <1>10

\* One block applied, or rejected.
LEMMA SteadyApply ==
  ASSUME IInv, Steady, UndoHistorySuffices, IInv', apply_block_extended
  PROVE  Steady' /\ NotLower
<1> DEFINE b == Head(job.todo)
           f == set_head(fdb, b)
<1>1. up /\ job.phase \in {"apply", "restore"}
  BY DEF apply_block_extended
<1>2. Sound /\ Switching /\ UndoHistoryLeft(b)
  BY <1>1 DEF Steady, UndoHistorySuffices
<1>3. /\ b = job.todo[1] /\ Len(job.todo) \in Nat /\ Len(job.todo) >= 1
      /\ b \in Block \ {Root} /\ Prev[b] = head /\ Num[b] = Num[head] + 1 /\ Num[head] \in Nat
      /\ f \in ForkDB /\ IsFiniteSet(f.linked)
  BY <1>1, NextBlock
<1>4. lib \in Nat /\ lib <= Num[head]
  BY <1>1 DEF IInv, Types, Running, Logged
<1>5. Rejected(b) <=> b \in Bad
  BY <1>2, <1>3 DEF Rejected, validate_block_header
<1>6. job.phase = "restore" => b \notin Bad
  BY <1>2, <1>3 DEF Switching
<1>7. CASE Rejected(b) /\ fail(f) /\ StateKept
  BY <1>1, <1>5, <1>6, <1>7, SteadyFail
<1>8. ASSUME ~ Rejected(b),
             NEW r \in update_last_irreversible_block(f, approvals, b),
             lib' = r.lib,
             IF r.throws
             THEN fail(f) /\ UNCHANGED <<head, committed, log, notes>>
             ELSE IF ~ Storable(f, b, r.lib)
             THEN Down /\ UNCHANGED <<head, committed, log, notes>>
             ELSE /\ head' = b
                  /\ approvals' = r.ap
                  /\ migrate_irreversible_state(f, lib, r.lib)
                  /\ LET g == set_max_size(f, Num[b] - r.lib + 1)
                     IN  fdb' = IF job.mode = "switch" /\ ~ (Len(job.todo) = 1)
                                THEN g ELSE Free(g)
                  /\ job' = IF ~ (Len(job.todo) = 1) THEN [job EXCEPT !.todo = Tail(job.todo)]
                            ELSE Ended(job.phase = "restore")
                  /\ up' = up
      PROVE  Steady' /\ NotLower
  <2>1. ~ r.throws
    <3>1. lib <= Num[b]
      BY <1>3, <1>4
    <3> HIDE DEF f, b
    <3> QED  BY <1>3, <1>4, <1>8, <3>1, NeverThrows
  <2>2. CASE ~ Storable(f, b, r.lib)
    <3>1. Down /\ head' = head
      BY <1>8, <2>1, <2>2
    <3>2. Steady' /\ ~ up'
      BY <1>2, <3>1, SteadyDown DEF Down
    <3> QED  BY <3>2 DEF NotLower
  <2>3. CASE Storable(f, b, r.lib)
    <3>1. AppliedWith(r)
      BY <1>8, <2>1, <2>3 DEF AppliedWith
    <3>2. b \notin Bad
      BY <1>5, <1>8
    <3> QED  BY <1>1, <1>8, <3>1, <3>2, SteadyApplied
  <2> QED  BY <2>2, <2>3
<1> QED  BY <1>7, <1>8 DEF apply_block_extended

\* What became irreversible is moved.
LEMMA SteadyConclude ==
  ASSUME IInv, Steady, up, IInv', job.phase \in {"approved", "confirmed"},
         NEW ap, NEW old, NEW n \in Nat, lib <= n, n <= Num[head], Conclude(ap, old, n)
  PROVE  Steady'
<1>1. /\ Sound /\ Pushing /\ fdb.head # NoBlock /\ ~ Doomed(head)
  BY DEF Steady, Sound
<1>2. /\ fdb \in ForkDB /\ fdb.orphan \subseteq fdb.linked /\ IsFiniteSet(fdb.linked)
      /\ head \in Block /\ Num[head] \in Nat /\ lib \in Nat /\ 1 <= lib
  BY Numbers DEF IInv, Types, Running, Logged
<1>3. CASE ~ Storable(fdb, head, n)
  <2>1. Down /\ head' = head
    BY <1>3 DEF Conclude
  <2> QED  BY <1>1, <2>1, SteadyDown
<1>4. CASE Storable(fdb, head, n)
  <2> DEFINE z == Num[head] - n + 1
             g == set_max_size(fdb, z)
  <2>1. lib' = n /\ fdb' = Free(g) /\ job' = Idle /\ head' = head
    BY <1>4 DEF Conclude
  <2>2. Num[fdb.head] = Num[head]
    BY <1>1, <1>4 DEF Storable
  <2>3. z \in Nat /\ HeadNum(fdb) = Num[head] /\ Num[head] - z = n - 1 /\ n >= 1
    BY <1>1, <1>2, <2>2 DEF HeadNum
  <2> HIDE DEF z
  <2>4. /\ g \in ForkDB /\ IsFiniteSet(g.linked)
        /\ g.linked = {c \in fdb.linked : Num[c] > Max0(HeadNum(fdb) - z)}
        /\ g.orphan \subseteq fdb.orphan /\ g.head = fdb.head
    BY <1>2, <2>3, SetMaxSizeKeeps
  <2>5. g.unlinked \subseteq fdb.unlinked
    BY <1>2 DEF set_max_size, ForkDB
  <2>6. Max0(HeadNum(fdb) - z) = n - 1
    BY <2>3 DEF Max0
  <2> HIDE DEF g
  <2>7. /\ fdb'.linked = g.linked /\ fdb'.head = g.head /\ fdb'.unlinked = g.unlinked
        /\ \A c \in fdb'.orphan : c \in g.orphan \/ (c # Root /\ Prev[c] \notin g.linked)
    <3>1. Free(g).unlinked = g.unlinked
      BY <2>4 DEF Free, ForkDB
    <3> QED  BY <2>1, <2>4, <3>1, FreeKeeps
  <2>8. Sound'
    <3>1. lib <= lib' /\ ~ Doomed(head') /\ fdb'.head # NoBlock
      BY <1>1, <2>1, <2>4, <2>7
    <3>2. \A c \in fdb.linked : Num[c] \in Nat
      BY <1>2, Numbers DEF ForkDB
    <3>3. /\ \A c \in fdb'.linked : c \in fdb.linked /\ Num[c] >= lib'
          /\ \A c \in fdb.linked : c \in fdb'.linked \/ Num[c] < lib'
      BY <2>1, <2>4, <2>6, <2>7, <3>2
    <3>4. \A c \in fdb'.orphan : c \in fdb.orphan \/ (c # Root /\ Prev[c] \notin fdb'.linked)
      BY <2>4, <2>7
    <3> QED  BY <1>1, <3>1, <3>3, <3>4, ForkKept
  <2>9. Settled'
    BY <1>2, <2>1, <2>2, <2>4, <2>7 DEF Settled
  <2>10. job'.phase = "idle"
    BY <2>1, IdleType
  <2>11. fdb'.linked \subseteq fdb.linked /\ fdb'.unlinked \subseteq fdb.unlinked
    BY <2>4, <2>5, <2>7
  <2> QED  BY <1>1, <2>8, <2>9, <2>10, <2>11, SteadyRest
<1> QED  BY <1>3, <1>4

\* The fork database is left alone and the request rests.
LEMMA SteadyKept ==
  ASSUME IInv, Steady, up, IInv', job.phase \in {"idle", "approved", "confirmed"},
         StateKept, fdb' = fdb, job'.phase \in {"idle", "approved", "confirmed"}
  PROVE  Steady'
<1>1. Sound /\ Pushing /\ fdb.head # NoBlock /\ head' = head /\ lib' = lib /\ Settled
  BY DEF Steady, Sound, StateKept, Pushing
<1>2. Sound'
  BY <1>1, ForkSame
<1>3. Settled'
  BY <1>1 DEF Settled, Stuck
<1> QED  BY <1>1, <1>2, <1>3, SteadyRest

\* A fast confirmation is evaluated.
LEMMA SteadyEvaluate ==
  ASSUME IInv, Steady, IInv', evaluate_fast_confirm
  PROVE  Steady'
<1>1. up /\ job.phase = "approved"
  BY DEF evaluate_fast_confirm
<1>2. /\ approvals \in Approvals /\ lib \in Nat /\ lib <= Num[head]
      /\ head \in Block /\ fdb \in ForkDB /\ IsFiniteSet(fdb.linked)
  BY <1>1 DEF IInv, Running, Types, Logged
<1>3. PICK r \in update_last_irreversible_block(fdb, approvals, head) :
        IF r.throws
        THEN job' = Idle /\ StateKept /\ UNCHANGED <<fdb, approvals, up>>
        ELSE IF r.to = NoBlock THEN Conclude(r.ap, lib, r.lib)
        ELSE StateKept /\ switch_forks(r.to, <<lib, r.cand>>)
  BY DEF evaluate_fast_confirm
<1>4. /\ r.lib \in Nat /\ lib <= r.lib /\ r.lib <= Num[head]
      /\ r.to # NoBlock => r.to \in Block /\ Num[r.to] >= Num[head]
  BY <1>2, UpdateResult
<1>5. ~ r.throws
  BY <1>2, NeverThrows
<1>6. CASE r.to = NoBlock
  <2>1. Conclude(r.ap, lib, r.lib)
    BY <1>3, <1>5, <1>6
  <2> QED  BY <1>1, <1>4, <2>1, SteadyConclude
<1>7. CASE r.to # NoBlock
  <2> DEFINE t == <<lib, r.cand>>
  <2>1. StateKept /\ switch_forks(r.to, t) /\ t # <<>>
    BY <1>3, <1>5, <1>7
  <2> HIDE DEF t
  <2>2. /\ \A u \in fdb.unlinked \ {Root} : Prev[u] \notin fdb.linked
        /\ Settled
    BY <1>1 DEF Steady, Pushing
  <2> QED  BY <1>1, <1>4, <1>7, <2>1, <2>2, SteadySwitch
<1> QED  BY <1>6, <1>7

\* The end of a fast confirmation that switched forks.
LEMMA SteadyFinish ==
  ASSUME IInv, Steady, IInv', finish_fast_confirm
  PROVE  Steady'
<1> DEFINE old == job.from[1]
           n == Lower(job.from[2], Num[head])
<1>1. /\ up /\ job.phase = "confirmed"
      /\ IF job.from[2] = 0 THEN Conclude(approvals, old, lib)
         ELSE IF n < lib
         THEN job' = Idle /\ StateKept /\ UNCHANGED <<fdb, approvals, up>>
         ELSE Conclude(Relevant(approvals, n), old, n)
  BY DEF finish_fast_confirm
<1>2. /\ lib \in Nat /\ lib <= Num[head] /\ head \in Block /\ Num[head] \in Nat /\ JobType /\ Modes
  BY <1>1, Numbers DEF IInv, Running, Types, Logged
<1>3. job.from \in Nat \X Nat
  BY <1>1, <1>2 DEF JobType, Modes
<1>4. n \in Nat /\ n <= Num[head]
  BY <1>2, <1>3 DEF Lower
<1> HIDE DEF n, old
<1>5. CASE job.from[2] = 0
  <2>1. Conclude(approvals, old, lib) /\ lib <= lib
    BY <1>1, <1>2, <1>5
  <2> QED  BY <1>1, <1>2, <2>1, SteadyConclude
<1>6. CASE job.from[2] # 0 /\ n < lib
  <2>1. job' = Idle /\ StateKept /\ fdb' = fdb
    BY <1>1, <1>6
  <2> QED  BY <1>1, <2>1, IdleType, SteadyKept
<1>7. CASE job.from[2] # 0 /\ ~ (n < lib)
  <2>1. Conclude(Relevant(approvals, n), old, n) /\ lib <= n
    BY <1>1, <1>2, <1>4, <1>7
  <2> QED  BY <1>1, <1>4, <2>1, SteadyConclude
<1> QED  BY <1>5, <1>6, <1>7

\* A fork database that has just been started, at the head of the state.
LEMMA SteadyStart ==
  ASSUME head' \in Block, lib' = Num[head'], ~ Doomed(head'), fdb' = start_block(head'), job' = Idle
  PROVE  Steady'
<1>1. /\ fdb'.linked = {head'} /\ fdb'.orphan = {head'} /\ fdb'.unlinked = {} /\ fdb'.head = head'
  BY DEF start_block
<1>2. Num[head'] \in Nat /\ head' # NoBlock
  BY Numbers, TreeAssumption
<1>3. Cut(head)'
  BY <1>2 DEF Cut
<1>4. Sound'
  BY <1>1, <1>2, <1>3 DEF Sound
<1>5. Settled'
  BY <1>1, <1>2 DEF Settled
<1>6. job'.phase = "idle"
  BY IdleType
<1>7. Pushing' /\ Switching'
  BY <1>1, <1>5, <1>6 DEF Pushing, Switching
<1> QED  BY <1>4, <1>7 DEF Steady

\* The process starts.
LEMMA SteadyOpen ==
  ASSUME IInv, Steady, open
  PROVE  Steady'
<1> DEFINE h == Path[head][committed]
<1>1. /\ ~ up /\ Loadable /\ head' = h /\ fdb' = start_block(Last(log))
      /\ lib' = lib /\ job' = job
  BY DEF open
<1>2. /\ head \in Block /\ Num[head] \in Nat /\ committed \in Nat /\ lib \in Nat
      /\ log \in Seq(Block) /\ Len(log) = committed /\ 1 <= committed /\ committed <= Num[head]
      /\ committed <= lib /\ job = Idle
      /\ \A k \in 1 .. committed : log[k] = Path[head][k]
  BY <1>1, Numbers DEF IInv, Types, Logged
<1>3. committed \in 1 .. Num[head] /\ committed \in 1 .. committed
  BY <1>2
<1>4. h \in Block /\ Num[h] = committed
  BY <1>2, <1>3, PathOn
<1>5. Last(log) = h
  BY <1>2, <1>3 DEF Last
<1>6. ~ Doomed(h)
  BY <1>2, <1>3, DoomedPath DEF Steady, Sound
<1>7. lib = committed
  BY <1>1, <1>2 DEF Loadable
<1> HIDE DEF h
<1> QED  BY <1>1, <1>2, <1>4, <1>5, <1>6, <1>7, SteadyStart

\* The pops of a push, and those on the way back, do not throw above the LIB.
LEMMA PopNotLower ==
  ASSUME IInv, Steady, pop_block_extended, job.phase = "unpop" \/ job.from = <<>>
  PROVE  NotLower
<1>1. up /\ job.phase \in {"pop", "unpop"} /\ lib' = lib
  BY DEF pop_block_extended
<1>2. Sound /\ Switching /\ fdb.head # NoBlock
  BY <1>1 DEF Steady, Sound
<1>3. /\ fdb \in ForkDB /\ head \in Block /\ Num[head] \in Nat /\ lib \in Nat /\ 1 <= lib
      /\ JobType /\ job.mode = "switch"
  BY <1>1, Numbers DEF IInv, Types, Running, Modes, Logged
<1>4. /\ job.target \in Block /\ job.common = Num[job.target] /\ Num[job.target] \in Nat
  BY <1>1, <1>3, Numbers DEF IInv, Running, Leaving
<1>5. OnPath(job.target, head)
  BY <1>1, <1>2, <1>3 DEF Switching
<1>6. CASE head = job.target \/ CanPop(fdb)
  <2>1. job.phase = "unpop" => job.old # <<>>
    BY <1>2 DEF Switching
  <2>2. \/ job' = [job EXCEPT !.phase = "apply"]
        \/ job' = [job EXCEPT !.phase = "restore", !.todo = job.old]
        \/ job' = job
    BY <1>1, <1>6, <2>1 DEF pop_block_extended
  <2>3. job'.phase \notin {"idle", "confirmed"}
    BY <1>1, <1>3, <2>2 DEF JobType
  <2> QED  BY <2>3 DEF NotLower
<1>7. CASE head # job.target /\ ~ CanPop(fdb)
  <2>1. Num[head] > job.common
    <3>1. Path[head][Num[head]] = head
      BY <1>3, PathIsPath DEF IsPath
    <3> QED  BY <1>3, <1>4, <1>5, <1>7, <3>1 DEF OnPath
  <2>2. CASE lib >= job.common
    BY <1>1, <2>2 DEF NotLower
  <2>3. CASE lib < job.common /\ job.phase = "pop"
    <3>1. lib <= job.common
      BY <1>3, <1>4, <2>3
    <3>2. PICK i \in 1 .. Len(job.todo) : fdb.head = job.todo[i] /\ job.common + i > Num[head]
      BY <1>2, <2>3, <3>1 DEF Switching
    <3>3. i # 1
      BY <1>3, <1>4, <2>1, <3>2
    <3>4. fdb.head \notin fdb.orphan /\ fdb.head \in Block \ {Root}
      BY <1>1, <2>3, <3>2, <3>3 DEF IInv, Running, Reaching, Chain
    <3>5. CanPop(fdb)
      BY <1>2, <3>4, Numbers, TreeAssumption DEF CanPop, prev
    <3> QED  BY <1>7, <3>5
  <2>4. CASE lib < job.common /\ job.phase = "unpop"
    <3>1. fdb.head = head
      BY <1>2, <2>4 DEF Switching
    <3>2. Num[head] \in (lib + 1) .. Num[head] /\ Path[head][Num[head]] = head /\ Num[head] # 1
      BY <1>3, <1>4, <2>1, <2>4, PathIsPath DEF IsPath
    <3>3. head \notin fdb.orphan
      BY <1>1, <1>2, <3>2, HeadReaches
    <3>4. head # Root
      BY <3>2, TreeAssumption
    <3>5. CanPop(fdb)
      BY <1>2, <1>3, <3>1, <3>3, <3>4, Numbers, TreeAssumption DEF CanPop, prev
    <3> QED  BY <1>7, <3>5
  <2> QED  BY <1>1, <1>3, <1>4, <2>2, <2>3, <2>4
<1> QED  BY <1>6, <1>7

\* A block that is on the path to c but not to d is on the branch of c.
LEMMA OnBranch ==
  ASSUME NEW b \in Block, NEW c \in Block, NEW d \in Block, OnPath(b, c), ~ OnPath(b, d)
  PROVE  b \in Range(Branch(c, d))
<1> DEFINE m == Common(c, d)
           s == Branch(c, d)
<1>1. /\ m \in 1 .. Num[c] /\ m <= Num[d] /\ Path[c][m] = Path[d][m]
  BY CommonIs
<1>2. s \in Seq(Block) /\ Len(s) = Num[c] - m /\ \A i \in 1 .. Len(s) : s[i] = Path[c][m + i]
  BY Branches
<1>3. /\ Num[b] \in Nat /\ Num[b] >= 1 /\ Num[c] \in Nat /\ Num[d] \in Nat
      /\ Num[b] <= Num[c] /\ Path[c][Num[b]] = b
  BY Numbers DEF OnPath
<1> HIDE DEF m, s
<1>4. Num[b] > m
  <2> SUFFICES ASSUME ~ (Num[b] > m) PROVE FALSE
    OBVIOUS
  <2>1. Num[b] \in 1 .. m /\ m \in 1 .. Num[d] /\ Num[b] <= Num[d]
    BY <1>1, <1>3
  <2>2. Path[c][Num[b]] = Path[d][Num[b]]
    BY <1>1, <2>1, PathOn
  <2> QED  BY <1>3, <2>1, <2>2 DEF OnPath
<1> DEFINE i == Num[b] - m
<1>5. i \in 1 .. Len(s) /\ m + i = Num[b]
  BY <1>1, <1>2, <1>3, <1>4
<1> HIDE DEF i
<1>6. b = s[i]
  BY <1>2, <1>3, <1>5
<1>7. b \in Range(s)
  BY <1>2, <1>5, <1>6 DEF Range
<1> QED  BY <1>7 DEF s

\* Where the state's head is on the path to the new one, the new branch is what
\* is above it, and nothing else is followed.
LEMMA AboveHead ==
  ASSUME NEW c \in Block, NEW d \in Block, OnPath(d, c)
  PROVE  /\ Common(c, d) = Num[d]
         /\ Followed(d, c) = {}
         /\ \A n \in Followed(c, d) : n \in (Num[d] + 1) .. Num[c]
<1> DEFINE m == Common(c, d)
<1>1. /\ m \in 1 .. Num[c] /\ m <= Num[d]
      /\ \A k \in (m + 1) .. Num[c] : k <= Num[d] => Path[c][k] # Path[d][k]
  BY CommonIs
<1>2. Num[c] \in Nat /\ Num[d] \in Nat /\ Num[d] <= Num[c] /\ Path[c][Num[d]] = d /\ Path[d][Num[d]] = d
  BY Numbers, PathIsPath DEF OnPath, IsPath
<1>3. Common(d, c) = m
  BY CommonSymmetric
<1> HIDE DEF m
<1>4. m = Num[d]
  <2>1. ~ (m < Num[d])
    <3> SUFFICES ASSUME m < Num[d] PROVE FALSE
      OBVIOUS
    <3>1. Num[d] \in (m + 1) .. Num[c] /\ Num[d] <= Num[d]
      BY <1>1, <1>2
    <3> QED  BY <1>1, <1>2, <3>1
  <2> QED  BY <1>1, <1>2, <2>1
<1>5. Followed(d, c) = {}
  BY <1>2, <1>3, <1>4 DEF Followed
<1>6. \A n \in Followed(c, d) : n \in (Num[d] + 1) .. Num[c]
  BY <1>2, <1>4 DEF Followed, m
<1> QED  BY <1>4, <1>5, <1>6 DEF m

\* A push that applies blocks applies the pushed one.
LEMMA PushServed ==
  ASSUME IInv, Steady, extend_or_switch, job'.phase \in {"pop", "apply"}
  PROVE  job.block \in Range(job'.todo)
<1> DEFINE new == fdb.head
           above == SubSeq(Path[new], Num[head] + 1, Num[new])
<1>1. /\ up /\ job.phase = "decide"
      /\ IF above = <<>>
         THEN job' = Idle /\ UNCHANGED <<fdb, approvals, up>>
         ELSE IF Range(above) \cap fdb.orphan # {} THEN Down
         ELSE IF Prev[above[1]] = head
         THEN /\ job' = [job EXCEPT !.phase  = "apply", !.todo   = above,
                                    !.orig   = Num[head], !.common = Num[head]]
              /\ UNCHANGED <<fdb, approvals, up>>
         ELSE switch_forks(new, <<>>)
  BY DEF extend_or_switch
<1>2. Sound /\ Pushing /\ new # NoBlock
  BY <1>1 DEF Steady, Sound
<1>3. /\ head \in Block /\ Num[head] \in Nat /\ Num[head] >= 1 /\ new \in Block /\ Num[new] \in Nat
      /\ JobType /\ Anchored /\ HeadsAgree /\ committed \in Nat /\ committed <= Num[head]
  BY <1>1, <1>2, Numbers DEF IInv, Types, Running, Logged, ForkDB
<1>4. /\ job.block \in Block
      /\ Settled \/ (OnPath(job.block, new) /\ ~ OnPath(job.block, head))
  BY <1>1, <1>2 DEF Pushing
<1>5. above # <<>> /\ Range(above) \cap fdb.orphan = {}
  <2>1. job' # Idle
    BY IdleType
  <2> QED  BY <1>1, <2>1 DEF Down
<1>6. Num[new] > Num[head]
  <2> SUFFICES ASSUME ~ (Num[new] > Num[head]) PROVE FALSE
    OBVIOUS
  <2>1. Path[new] \in Seq(Block) /\ Num[head] + 1 > Num[new]
    BY <1>3, PathIsPath DEF IsPath
  <2>2. above = <<>>
    BY <1>3, <2>1
  <2> QED  BY <1>5, <2>2
<1>7. Num[head] \in 1 .. Num[new]
  BY <1>3, <1>6
<1>8. /\ above \in Seq(Block) /\ Len(above) = Num[new] - Num[head]
      /\ \A i \in 1 .. Len(above) : above[i] = Path[new][Num[head] + i]
      /\ Chain(above, Path[new][Num[head]])
  BY <1>3, <1>7, PathChain
<1> HIDE DEF above, new
<1>9. ASSUME NEW k \in (Num[head] + 1) .. Num[new] PROVE Path[new][k] \notin fdb.orphan
  <2>1. k - Num[head] \in 1 .. Len(above) /\ Num[head] + (k - Num[head]) = k
    BY <1>3, <1>8
  <2>2. Path[new][k] = above[k - Num[head]]
    BY <1>8, <2>1
  <2>3. Path[new][k] \in Range(above)
    BY <1>8, <2>1, <2>2 DEF Range
  <2> QED  BY <1>5, <2>3
<1>10. ASSUME BranchesExist(fdb, new, head)
       PROVE  OnPath(job.block, new) /\ ~ OnPath(job.block, head)
  <2>1. ~ Stuck
    BY <1>9, <1>10 DEF Stuck, new
  <2>2. ~ Settled
    BY <1>3, <1>6, <2>1 DEF Settled, new
  <2> QED  BY <1>4, <2>2
<1>11. CASE Prev[above[1]] = head
  <2>1. job'.todo = above
    <3>1. job' = [job EXCEPT !.phase  = "apply", !.todo   = above,
                             !.orig   = Num[head], !.common = Num[head]]
      BY <1>1, <1>5, <1>11
    <3> QED  BY <1>3, <3>1 DEF JobType
  <2>2. OnPath(head, new)
    <3>1. 1 \in 1 .. Len(above)
      BY <1>3, <1>6, <1>8
    <3>2. Path[new][Num[head]] = head
      BY <1>8, <1>11, <3>1 DEF Chain
    <3> QED  BY <1>7, <3>2 DEF OnPath
  <2>3. /\ Common(new, head) = Num[head]
        /\ Followed(head, new) = {}
        /\ \A n \in Followed(new, head) : n \in (Num[head] + 1) .. Num[new]
    BY <1>3, <2>2, AboveHead
  <2>4. {new, head} \subseteq fdb.linked
    <3>1. Path[head][Num[head]] = head /\ Num[head] \in committed .. Num[head]
      BY <1>3, PathIsPath DEF IsPath
    <3> QED  BY <1>2, <1>3, <1>6, <3>1 DEF Anchored, HeadsAgree, new
  <2>5. BranchesExist(fdb, new, head)
    BY <1>9, <2>3, <2>4 DEF BranchesExist
  <2>6. job.block \in Range(Branch(new, head))
    BY <1>3, <1>4, <1>10, <2>5, OnBranch
  <2> QED  BY <2>1, <2>3, <2>6 DEF Branch, above
<1>12. CASE Prev[above[1]] # head
  <2>1. switch_forks(new, <<>>)
    BY <1>1, <1>5, <1>12
  <2>2. BranchesExist(fdb, new, head) /\ job'.todo = Branch(new, head)
    BY <2>1, IdleType DEF switch_forks, Down
  <2> QED  BY <1>3, <1>4, <1>10, <2>2, OnBranch
<1> QED  BY <1>11, <1>12

\* As long as no block is refused for lack of undo history, the state is never
\* built on a bad block, nothing of it leaves the fork database above the LIB,
\* and every fork switch has its way back.
THEOREM SteadyInvariant == Spec /\ []UndoHistorySuffices => []Steady
<1>1. Init => Steady
  <2> SUFFICES ASSUME Init PROVE Steady
    OBVIOUS
  <2>1. /\ head = Root /\ lib = 1 /\ job = Idle /\ fdb = start_block(Root)
        /\ Root \in Block /\ Num[Root] = 1 /\ Root # NoBlock
    BY TreeAssumption DEF Init
  <2>2. fdb.linked = {Root} /\ fdb.orphan = {Root} /\ fdb.unlinked = {} /\ fdb.head = Root
    BY <2>1 DEF start_block
  <2>3. Sound
    BY <2>1, <2>2, DoomedRoot DEF Sound, Cut
  <2>4. Settled
    BY <2>1, <2>2 DEF Settled
  <2>5. Pushing /\ Switching
    BY <2>1, <2>2, <2>4, IdleType DEF Pushing, Switching
  <2> QED  BY <2>3, <2>5 DEF Steady
<1>2. IInv /\ IInv' /\ UndoHistorySuffices /\ Steady /\ [Next]_vars => Steady'
  <2> SUFFICES ASSUME IInv, IInv', UndoHistorySuffices, Steady, [Next]_vars PROVE Steady'
    OBVIOUS
  <2>1. CASE \E b \in Block \ {Root} : push_block(b)
    BY <2>1, SteadyPush
  <2>2. CASE \E c \in Confirmable : process_fast_confirm_transaction(c[1], c[2])
    <3>1. /\ up /\ job.phase = "idle" /\ StateKept /\ fdb' = fdb
          /\ job' = [Idle EXCEPT !.phase = "approved"]
      BY <2>2 DEF process_fast_confirm_transaction
    <3>2. job'.phase = "approved"
      BY <3>1 DEF Idle
    <3> QED  BY <3>1, <3>2, SteadyKept
  <2>3. CASE push_next
    BY <2>3, SteadyPushNext
  <2>4. CASE extend_or_switch
    BY <2>4, SteadyExtend
  <2>5. CASE pop_block_extended
    BY <2>5, SteadyPop
  <2>6. CASE apply_block_extended
    BY <2>6, SteadyApply
  <2>7. CASE evaluate_fast_confirm
    BY <2>7, SteadyEvaluate
  <2>8. CASE finish_fast_confirm
    BY <2>8, SteadyFinish
  <2>9. CASE stop
    BY <2>9, SteadyDown DEF stop, StateKept, Steady
  <2>10. CASE open
    BY <2>10, SteadyOpen
  <2>11. CASE UNCHANGED vars
    BY <2>11, SMTT(60) DEF vars, Steady, Sound, Cut, Switching, OnPath, Pushing, Settled, Stuck
  <2> QED  BY <2>1, <2>2, <2>3, <2>4, <2>5, <2>6, <2>7, <2>8, <2>9, <2>10, <2>11
           DEF Next, Step
<1> QED  BY <1>1, <1>2, FlowInvariant, PTL DEF Spec

\* Between requests the state's head is in the fork database with everything
\* down to the last irreversible block, whatever blocks failed and whatever
\* forks were taken and left.
THEOREM HeadAnchoredTheorem == Spec /\ []UndoHistorySuffices => []HeadAnchored
<1>1. IInv /\ Steady => HeadAnchored
  <2> SUFFICES ASSUME IInv, Steady, up
               PROVE  head \in fdb.linked /\ Path[head][lib] \in Back(fdb, head)
    BY DEF HeadAnchored
  <2>1. /\ head \in Block /\ Num[head] \in Nat /\ lib \in Nat /\ lib = committed
        /\ 1 <= lib /\ lib <= Num[head] /\ Anchored /\ Sound
    BY Numbers DEF IInv, Types, Running, Logged, Steady
  <2>2. lib \in 1 .. Num[head] /\ Num[head] \in committed .. Num[head]
    BY <2>1
  <2>3. head \in fdb.linked
    BY <2>1, <2>2, PathIsPath DEF Anchored, IsPath
  <2>4. \A m \in (lib + 1) .. Num[head] : Path[head][m] \notin fdb.orphan
    BY <2>1, HeadReaches
  <2> QED  BY <2>2, <2>3, <2>4 DEF Back
<1> QED  BY <1>1, FlowInvariant, SteadyInvariant, PTL

\* A push that applies blocks has the pushed one among them, wherever the head
\* of the fork database was before.
THEOREM PushedBlockServedTheorem == Spec /\ []UndoHistorySuffices => PushedBlockServed
<1> DEFINE Served == (job.phase = "decide" /\ job'.phase \in {"pop", "apply"})
                       => job.block \in Range(job'.todo)
<1>1. IInv /\ Steady /\ [Next]_vars => Served
  <2> SUFFICES ASSUME IInv, Steady, [Next]_vars,
                      job.phase = "decide", job'.phase \in {"pop", "apply"}
               PROVE  job.block \in Range(job'.todo)
    OBVIOUS
  <2>1. job' # job /\ job' # Idle /\ job # Idle
    BY IdleType
  <2>2. extend_or_switch
    BY <2>1 DEF Next, Step, vars, push_block, process_fast_confirm_transaction, push_next,
                pop_block_extended, apply_block_extended, evaluate_fast_confirm,
                finish_fast_confirm, stop, open, Down
  <2> QED  BY <2>2, PushServed
<1> QED  BY <1>1, FlowInvariant, SteadyInvariant, PTL DEF Spec, PushedBlockServed

\* A fork switch that fails above the last irreversible block leaves the node
\* at least as high as it was, whatever the forks and whichever block fails.
THEOREM HeadKeptTheorem == Spec /\ []UndoHistorySuffices => HeadKept
<1> DEFINE Kept == (\/ job.phase \in {"apply", "unpop", "restore"}
                    \/ job.phase = "pop" /\ job.from = <<>>)
                     /\ job'.phase \in {"idle", "confirmed"} /\ up'
                     => Num[head'] >= job.orig \/ lib' >= job.common
<1>1. IInv /\ IInv' /\ UndoHistorySuffices /\ Steady /\ [Next]_vars => Kept
  <2> SUFFICES ASSUME IInv, IInv', UndoHistorySuffices, Steady, [Next]_vars,
                      \/ job.phase \in {"apply", "unpop", "restore"}
                      \/ job.phase = "pop" /\ job.from = <<>>,
                      job'.phase \in {"idle", "confirmed"}, up'
               PROVE  NotLower
    BY DEF NotLower
  <2>1. job' # job /\ job # Idle
    BY IdleType
  <2>2. up
    BY <2>1 DEF IInv
  <2>3. pop_block_extended \/ apply_block_extended
    BY <2>1, <2>2 DEF Next, Step, vars, push_block, process_fast_confirm_transaction, push_next,
                extend_or_switch, evaluate_fast_confirm, finish_fast_confirm, stop, open, Down
  <2>4. CASE pop_block_extended
    <3>1. job.phase = "unpop" \/ job.from = <<>>
      BY <2>4 DEF pop_block_extended
    <3> QED  BY <2>4, <3>1, PopNotLower
  <2>5. CASE apply_block_extended
    BY <2>5, SteadyApply
  <2> QED  BY <2>3, <2>4, <2>5
<1> QED  BY <1>1, FlowInvariant, SteadyInvariant, PTL DEF Spec, HeadKept

\* A block on the path of the fork database's head is found by its number where
\* no prev down to it has expired.
LEMMA FetchFinds ==
  ASSUME NEW f \in ForkDB, NEW h \in Block, f.head = h,
         NEW k \in 1 .. Num[h], Path[h][k] \in f.linked,
         \A m \in (k + 1) .. Num[h] : Path[h][m] \notin f.orphan
  PROVE  fetch_block_on_main_branch_by_number(f, k) # NoBlock
<1> DEFINE p == Path[h][k]
           found == {b \in f.linked : Num[b] = k}
<1>1. /\ p \in Block /\ Num[p] = k /\ Num[h] \in Nat /\ NoBlock \notin Block /\ h # NoBlock
  BY PathOn, Numbers, TreeAssumption
<1>2. p \in found /\ found \subseteq Block
  BY <1>1 DEF ForkDB
<1>3. p \in Back(f, h)
  BY DEF Back
<1>4. ~ (k > HeadNum(f))
  BY <1>1 DEF HeadNum
<1> HIDE DEF p, found
<1>5. fetch_block_on_main_branch_by_number(f, k)
        = IF k > HeadNum(f) \/ found = {} THEN NoBlock
          ELSE IF Cardinality(found) = 1 THEN CHOOSE b \in found : TRUE
          ELSE IF p \in Back(f, h) THEN p ELSE NoBlock
  BY DEF fetch_block_on_main_branch_by_number, found, p
<1>6. (CHOOSE b \in found : TRUE) \in found
  BY <1>2
<1> QED  BY <1>1, <1>2, <1>3, <1>4, <1>5, <1>6

\* What a block makes irreversible can be written.
LEMMA AppliedStorable ==
  ASSUME IInv, Sound, up, job.phase \in {"apply", "restore"}, NEW n \in Nat, n <= Num[Head(job.todo)]
  PROVE  Storable(set_head(fdb, Head(job.todo)), Head(job.todo), n)
<1> DEFINE b == Head(job.todo)
           f == set_head(fdb, b)
<1>1. /\ b \in Block \ {Root} /\ Num[b] = Num[head] + 1 /\ Num[head] \in Nat /\ Num[b] \in Nat
      /\ f \in ForkDB /\ f.orphan = fdb.orphan /\ f.head = b
      /\ \A k \in 1 .. Num[head] : Path[b][k] = Path[head][k]
      /\ \A k \in committed .. Num[b] : Path[b][k] \in f.linked
  BY NextBlock
<1>2. lib = committed /\ lib \in Nat /\ 1 <= lib /\ Len(log) = committed
  BY DEF IInv, Types, Running, Logged
<1>3. b \notin fdb.orphan
  BY NextReaches
<1> HIDE DEF b, f
<1>4. ASSUME NEW m \in (lib + 1) .. Num[b] PROVE Path[b][m] \notin f.orphan
  <2>1. CASE m = Num[b]
    BY <1>1, <1>3, <2>1, PathIsPath DEF IsPath
  <2>2. CASE m # Num[b]
    <3>1. m \in (lib + 1) .. Num[head] /\ m \in 1 .. Num[head]
      BY <1>1, <1>2, <2>2
    <3> QED  BY <1>1, <3>1, HeadReaches
  <2> QED  BY <2>1, <2>2
<1>5. ASSUME NEW k \in (Len(log) + 1) .. n PROVE fetch_block_on_main_branch_by_number(f, k) # NoBlock
  <2>1. k \in 1 .. Num[b] /\ k \in committed .. Num[b] /\ \A m \in (k + 1) .. Num[b] : m \in (lib + 1) .. Num[b]
    BY <1>1, <1>2 DEF b
  <2> QED  BY <1>1, <1>4, <2>1, FetchFinds
<1>6. Storable(f, b, n)
  BY <1>1, <1>5 DEF Storable
<1> QED  BY <1>6 DEF b, f

\* A fast confirmation moves what became irreversible, or the LIB does not move.
LEMMA ConcludeKeeps ==
  ASSUME IInv, Sound, up, HeadNum(fdb) <= Num[head],
         NEW ap, NEW old, NEW n \in Nat, lib <= n, n <= Num[head], Conclude(ap, old, n), ~ up'
  PROVE  UNCHANGED <<head, committed, lib, log>>
<1>1. /\ ~ Storable(fdb, head, n) /\ lib' = n /\ UNCHANGED <<head, committed, log>>
  BY DEF Conclude
<1>2. /\ fdb \in ForkDB /\ head \in Block /\ Num[head] \in Nat /\ lib \in Nat /\ lib = committed
      /\ 1 <= lib /\ Len(log) = committed /\ Anchored /\ HeadsAgree /\ fdb.head # NoBlock
  BY Numbers DEF IInv, Types, Running, Logged, Sound
<1>3. HeadNum(fdb) = Num[fdb.head] /\ Num[fdb.head] \in Nat
  BY <1>2, Numbers DEF HeadNum, ForkDB
<1>4. CASE fdb.head = head
  <2>1. ASSUME NEW k \in (Len(log) + 1) .. n PROVE fetch_block_on_main_branch_by_number(fdb, k) # NoBlock
    <3>1. /\ k \in 1 .. Num[head] /\ k \in committed .. Num[head]
          /\ \A m \in (k + 1) .. Num[head] : m \in (lib + 1) .. Num[head]
      BY <1>2
    <3>2. Path[head][k] \in fdb.linked /\ \A m \in (k + 1) .. Num[head] : Path[head][m] \notin fdb.orphan
      BY <1>2, <3>1, HeadReaches DEF Anchored
    <3> QED  BY <1>2, <1>4, <3>1, <3>2, FetchFinds
  <2>2. Storable(fdb, head, n)
    BY <1>4, <2>1 DEF Storable
  <2> QED  BY <1>1, <2>2
<1>5. CASE fdb.head # head
  <2>1. Num[head] = committed
    BY <1>2, <1>3, <1>5 DEF HeadsAgree
  <2>2. n = lib
    BY <1>2, <2>1
  <2> QED  BY <1>1, <2>2
<1> QED  BY <1>4, <1>5

\* The end of the process leaves the state, the LIB and the log as they were.
LEMMA EndKeeps ==
  ASSUME IInv, Steady, UndoHistorySuffices, [Next]_vars, ~ up',
         job.phase \in {"approved", "confirmed"} => HeadNum(fdb) <= Num[head]
  PROVE  UNCHANGED <<head, committed, lib, log>>
<1>1. CASE ~ up
  <2>1. ~ open
    BY DEF open
  <2>2. UNCHANGED vars
    BY <1>1, <2>1 DEF Next, Step, push_block, process_fast_confirm_transaction, push_next,
                extend_or_switch, pop_block_extended, apply_block_extended, evaluate_fast_confirm,
                finish_fast_confirm, stop
  <2> QED  BY <2>2 DEF vars
<1>2. CASE up
  <2>1. Sound /\ Switching
    BY <1>2 DEF Steady
  <2>2. /\ lib \in Nat /\ lib <= Num[head] /\ approvals \in Approvals /\ Num[head] \in Nat
        /\ head \in Block /\ fdb \in ForkDB /\ IsFiniteSet(fdb.linked) /\ JobType /\ Modes
    BY <1>2, Numbers DEF IInv, Types, Running, Logged
  <2>3. CASE apply_block_extended
    <3> DEFINE b == Head(job.todo)
               f == set_head(fdb, b)
    <3>1. job.phase \in {"apply", "restore"}
      BY <2>3 DEF apply_block_extended
    <3>2. /\ b \in Block \ {Root} /\ Num[b] = Num[head] + 1
          /\ f \in ForkDB /\ IsFiniteSet(f.linked)
      BY <1>2, <3>1, NextBlock
    <3>3. lib <= Num[b]
      BY <2>2, <3>2
    <3>4. ASSUME NEW r \in update_last_irreversible_block(f, approvals, b)
          PROVE  ~ r.throws /\ Storable(f, b, r.lib)
      <4>1. ~ r.throws
        <5> HIDE DEF f, b
        <5> QED  BY <2>2, <3>2, <3>3, <3>4, NeverThrows
      <4>2. r.lib \in Nat /\ r.lib <= Num[b]
        <5> HIDE DEF f, b
        <5> QED  BY <2>2, <3>2, <3>3, <3>4, UpdateResult
      <4> QED  BY <1>2, <2>1, <3>1, <4>1, <4>2, AppliedStorable
    <3>5. \/ StateKept
          \/ \E r \in update_last_irreversible_block(f, approvals, b) :
               r.throws \/ ~ Storable(f, b, r.lib) \/ up' = up
      BY <2>3 DEF apply_block_extended
    <3> QED  BY <1>2, <3>4, <3>5 DEF StateKept
  <2>4. CASE evaluate_fast_confirm
    <3>1. job.phase = "approved"
      BY <2>4 DEF evaluate_fast_confirm
    <3>2. PICK r \in update_last_irreversible_block(fdb, approvals, head) :
            IF r.throws
            THEN job' = Idle /\ StateKept /\ UNCHANGED <<fdb, approvals, up>>
            ELSE IF r.to = NoBlock THEN Conclude(r.ap, lib, r.lib)
            ELSE StateKept /\ switch_forks(r.to, <<lib, r.cand>>)
      BY <2>4 DEF evaluate_fast_confirm
    <3>3. r.lib \in Nat /\ lib <= r.lib /\ r.lib <= Num[head]
      BY <2>2, UpdateResult
    <3>4. CASE Conclude(r.ap, lib, r.lib)
      BY <1>2, <2>1, <3>1, <3>3, <3>4, ConcludeKeeps
    <3>5. CASE StateKept
      BY <3>5 DEF StateKept
    <3> QED  BY <3>2, <3>4, <3>5
  <2>5. CASE finish_fast_confirm
    <3> DEFINE n == Lower(job.from[2], Num[head])
    <3>1. /\ job.phase = "confirmed"
          /\ \/ Conclude(approvals, job.from[1], lib)
             \/ StateKept
             \/ ~ (n < lib) /\ Conclude(Relevant(approvals, n), job.from[1], n)
      BY <2>5 DEF finish_fast_confirm
    <3>2. job.from \in Nat \X Nat
      BY <1>2, <2>2, <3>1 DEF JobType, Modes
    <3>3. n \in Nat /\ n <= Num[head]
      BY <2>2, <3>2 DEF Lower
    <3> HIDE DEF n
    <3>4. CASE Conclude(approvals, job.from[1], lib)
      <4>1. lib <= lib
        BY <2>2
      <4> QED  BY <1>2, <2>1, <2>2, <3>1, <3>4, <4>1, ConcludeKeeps
    <3>5. CASE ~ (n < lib) /\ Conclude(Relevant(approvals, n), job.from[1], n)
      <4>1. lib <= n
        BY <2>2, <3>3, <3>5
      <4> QED  BY <1>2, <2>1, <3>1, <3>3, <3>5, <4>1, ConcludeKeeps
    <3>6. CASE StateKept
      BY <3>6 DEF StateKept
    <3> QED  BY <3>1, <3>4, <3>5, <3>6
  <2>6. CASE extend_or_switch \/ stop
    BY <2>6 DEF extend_or_switch, stop, StateKept
  <2> QED  BY <1>2, <2>3, <2>4, <2>5, <2>6
           DEF Next, Step, vars, push_block, process_fast_confirm_transaction, push_next,
               pop_block_extended, open
<1> QED  BY <1>1, <1>2

\* Wherever the process ends, it can be started again: a block that is applied
\* never fails to be written, so that only a fast confirmation while the fork
\* database's head is above the state's can leave a LIB without its blocks.
THEOREM RecoverableKeptTheorem == Spec /\ []UndoHistorySuffices => RecoverableKept
<1> DEFINE Kept == (/\ Recoverable
                    /\ job.phase \in {"approved", "confirmed"} => HeadNum(fdb) <= Num[head])
                     => Recoverable'
<1>1. IInv /\ Steady /\ UndoHistorySuffices /\ (up => Recoverable)' /\ [Next]_vars => Kept
  BY EndKeeps DEF Recoverable, Loadable, is_reindex_complete
<1>2. Init => up
  BY DEF Init
<1> QED  BY <1>1, <1>2, FlowInvariant, SteadyInvariant, RecoverableWhileUp, PTL
         DEF Spec, RecoverableKept

==============================================================================
