---------------------- MODULE PendingTransactionsProofs ----------------------
(***************************************************************************)
(* For any set of transactions, with any sizes, expirations and            *)
(* dependences, and for any limits: the lists, the session and the chain   *)
(* agree, and the restorer drops nothing because it comes too early.       *)
(***************************************************************************)
EXTENDS PendingTransactions, SequenceTheorems, FoldTheorems

------------------------------------------------------------------------------
(* The size of a list. *)

\* TotalSize adds the sizes one after the other.
LEMMA TotalSizeSteps ==
  ASSUME NEW s \in Seq(Tx)
  PROVE  \E h \in [0 .. Len(s) -> Nat] :
           /\ h[0] = 0
           /\ \A k \in 1 .. Len(s) : h[k] = h[k - 1] + Size[s[k]]
           /\ TotalSize(s) = h[Len(s)]
<1> DEFINE n == Len(s)
           F == [i \in 1 .. n |-> [m \in Nat |-> m + Size[s[i]]]]
           Eq(g) == g = [t \in SUBSET (1 .. n) |->
                           IF t = {} THEN 0
                           ELSE g[t \ {Max(t)}] + Size[s[Max(t)]]]
           it == CHOOSE g : Eq(g)
<1>1. n \in Nat /\ DOMAIN s = 1 .. n /\ \A k \in 1 .. n : Size[s[k]] \in Nat
  BY PendingAssumption
<1>2. F \in [1 .. n -> [Nat -> Nat]] /\ 0 \in Nat
  BY <1>1
<1>3. \A i \in 1 .. n, m \in Nat : F[i][m] = m + Size[s[i]]
  OBVIOUS
<1>4. TotalSize(s) = it[1 .. n]
  BY <1>1 DEF TotalSize, FoldLeft, MapThenFoldSet
<1>5. \A t \in SUBSET (1 .. n) : t # {} => Max(t) \in 1 .. n
  BY <1>1, MaxIndex
<1> HIDE DEF F, n
<1>6. \E g : Eq(g)
  <2>1. PICK g : Folds(g, n, Nat, 0, F)
    BY <1>1, <1>2, FoldExists
  <2>2. g \in [SUBSET (1 .. n) -> Nat]
    BY <2>1 DEF Folds
  <2>3. \A t \in SUBSET (1 .. n) :
          g[t] = IF t = {} THEN 0 ELSE g[t \ {Max(t)}] + Size[s[Max(t)]]
    BY <1>3, <1>5, <2>1, <2>2 DEF Folds
  <2>4. g = [t \in SUBSET (1 .. n) |-> g[t]]
    BY <2>2
  <2> QED  BY <2>3, <2>4
<1>7. Eq(it)
  <2> HIDE DEF Eq
  <2> QED  BY <1>6
<1> HIDE DEF it
<1>8. Computes(it, n, Nat, 0, F)
  BY <1>3, <1>5, <1>7 DEF Computes
<1> HIDE DEF Eq
<1>9. PICK h : States(h, n, Nat, 0, F, TotalSize(s))
  <2>1. n \in Nat
    BY <1>1
  <2>2. \E h : States(h, n, Nat, 0, F, it[1 .. n])
    BY <1>2, <1>8, <2>1, FoldSteps, Zenon
  <2> QED  BY <1>4, <2>2
<1>10. h \in [0 .. n -> Nat] /\ h[0] = 0 /\ h[n] = TotalSize(s)
  BY <1>9 DEF States
<1>11. \A k \in 1 .. n : h[k] = h[k - 1] + Size[s[k]]
  <2> TAKE k \in 1 .. n
  <2>1. h[k] = F[k][h[k - 1]]
    BY <1>9 DEF States
  <2>2. h[k - 1] \in Nat
    BY <1>1, <1>10
  <2> QED  BY <1>3, <2>1, <2>2
<1> QED  BY <1>10, <1>11 DEF n

\* The size of the empty list, and of any list.
LEMMA TotalSizeEmpty ==
  TotalSize(<<>>) = 0
<1>1. <<>> \in Seq(Tx) /\ Len(<<>>) = 0
  BY EmptySeq
<1> QED  BY <1>1, TotalSizeSteps

\* The size of a list is a natural number.
LEMMA TotalSizeType ==
  ASSUME NEW s \in Seq(Tx)
  PROVE  TotalSize(s) \in Nat
<1>1. Len(s) \in 0 .. Len(s)
  BY LenProperties
<1> QED  BY <1>1, TotalSizeSteps

\* Appending a transaction adds its size (add_pending_tx).
LEMMA TotalSizeAppend ==
  ASSUME NEW s \in Seq(Tx), NEW x \in Tx
  PROVE  TotalSize(Append(s, x)) = TotalSize(s) + Size[x]
<1> DEFINE n == Len(s)
           r == Append(s, x)
<1>1. /\ n \in Nat /\ r \in Seq(Tx) /\ Len(r) = n + 1 /\ r[n + 1] = x
      /\ \A k \in 1 .. n : r[k] = s[k]
  OBVIOUS
<1> HIDE DEF n, r
<1>2. PICK h \in [0 .. n -> Nat] :
        /\ h[0] = 0
        /\ \A k \in 1 .. n : h[k] = h[k - 1] + Size[s[k]]
        /\ TotalSize(s) = h[n]
  BY TotalSizeSteps DEF n
<1>3. PICK g \in [0 .. n + 1 -> Nat] :
        /\ g[0] = 0
        /\ \A k \in 1 .. n + 1 : g[k] = g[k - 1] + Size[r[k]]
        /\ TotalSize(r) = g[n + 1]
  <2>1. \E f \in [0 .. Len(r) -> Nat] :
           /\ f[0] = 0
           /\ \A k \in 1 .. Len(r) : f[k] = f[k - 1] + Size[r[k]]
           /\ TotalSize(r) = f[Len(r)]
    BY <1>1, TotalSizeSteps
  <2> QED  BY <1>1, <2>1
<1>4. \A k \in 0 .. n : g[k] = h[k]
  <2> DEFINE S == {k \in 0 .. n : g[k] = h[k]}
  <2>1. 0 \in S
    BY <1>1, <1>2, <1>3
  <2>2. ASSUME NEW k \in 1 .. n, k - 1 \in S PROVE k \in S
    <3>1. k \in 0 .. n /\ k \in 1 .. n + 1 /\ g[k - 1] = h[k - 1]
      BY <1>1, <2>2
    <3>2. g[k] = g[k - 1] + Size[r[k]]
      BY <1>3, <3>1
    <3>3. h[k] = h[k - 1] + Size[s[k]] /\ r[k] = s[k]
      BY <1>1, <1>2
    <3> QED  BY <3>1, <3>2, <3>3
  <2>3. \A k \in 0 .. n : k \in S
    <3> HIDE DEF S
    <3>1. \A k \in 1 .. n : k - 1 \in S => k \in S
      BY <2>2
    <3> QED  BY <1>1, <2>1, <3>1, UpTo
  <2> QED  BY <2>3
<1>5. g[n + 1] = g[n] + Size[r[n + 1]]
  <2>1. n + 1 \in 1 .. n + 1 /\ (n + 1) - 1 = n
    BY <1>1
  <2>2. g[n + 1] = g[(n + 1) - 1] + Size[r[n + 1]]
    BY <1>3, <2>1, Zenon
  <2> QED  BY <2>1, <2>2
<1>6. g[n] = h[n]
  BY <1>1, <1>4
<1> QED  BY <1>1, <1>2, <1>3, <1>5, <1>6 DEF r

------------------------------------------------------------------------------
(* What the producer chooses. *)

\* The elements of a list and of one with another at its end.
LEMMA RangeAppend ==
  ASSUME NEW s \in Seq(Tx), NEW x \in Tx
  PROVE  Append(s, x) \in Seq(Tx) /\ Range(Append(s, x)) = Range(s) \cup {x}
<1> DEFINE r == Append(s, x)
<1>1. /\ Len(s) \in Nat /\ r \in Seq(Tx) /\ Len(r) = Len(s) + 1
      /\ DOMAIN r = 1 .. Len(s) + 1 /\ DOMAIN s = 1 .. Len(s)
      /\ r[Len(s) + 1] = x /\ \A i \in 1 .. Len(s) : r[i] = s[i]
  OBVIOUS
<1> HIDE DEF r
<1>2. Range(r) \subseteq Range(s) \cup {x}
  BY <1>1 DEF Range
<1>3. Range(s) \subseteq Range(r)
  <2> SUFFICES ASSUME NEW i \in 1 .. Len(s) PROVE s[i] \in Range(r)
    BY <1>1 DEF Range
  <2>1. i \in DOMAIN r /\ r[i] = s[i]
    BY <1>1
  <2> QED  BY <2>1 DEF Range
<1>4. x \in Range(r)
  <2>1. Len(s) + 1 \in DOMAIN r
    BY <1>1
  <2> QED  BY <1>1, <2>1 DEF Range
<1> QED  BY <1>1, <1>2, <1>3, <1>4 DEF r

\* A transaction that applies after those of a block that applies can be put at
\* the end of the block.
LEMMA AppendApplies ==
  ASSUME NEW s \in Seq(Tx), NEW x \in Tx, BlockApplies(s, chain, TRUE),
         Applies(x, chain, s, until[x])
  PROVE  BlockApplies(Append(s, x), chain, TRUE)
<1> DEFINE r == Append(s, x)
<1>1. /\ Len(s) \in Nat /\ r \in Seq(Tx)
      /\ DOMAIN r = 1 .. Len(s) + 1 /\ DOMAIN s = 1 .. Len(s)
      /\ r[Len(s) + 1] = x /\ \A i \in 1 .. Len(s) : r[i] = s[i]
  OBVIOUS
<1> SUFFICES ASSUME NEW i \in DOMAIN r
             PROVE  Applies(r[i], chain, SubSeq(r, 1, i - 1), until[r[i]])
  BY DEF BlockApplies
<1>2. CASE i = Len(s) + 1
  <2>1. SubSeq(r, 1, i - 1) = s
    BY <1>1, <1>2
  <2> QED  BY <1>1, <1>2, <2>1
<1>3. CASE i # Len(s) + 1
  <2>1. i \in DOMAIN s /\ r[i] = s[i]
    BY <1>1, <1>3
  <2>2. SubSeq(r, 1, i - 1) = SubSeq(s, 1, i - 1)
    BY <1>1, <2>1
  <2>3. Applies(s[i], chain, SubSeq(s, 1, i - 1), until[s[i]])
    BY <2>1 DEF BlockApplies
  <2> QED  BY <2>1, <2>2, <2>3
<1> QED  BY <1>2, <1>3

\* What apply_pending_transactions has chosen so far applies as a block.
Chosen == {s \in [full : Seq(Tx), unused : Nat] : BlockApplies(s.full, chain, TRUE)}

\* One candidate more keeps what is chosen applicable (apply_pending_transactions).
LEMMA CandidateChosen ==
  ASSUME NEW s \in Chosen, NEW x \in Tx, NEW when
  PROVE  Candidate(s, x, when) \in Chosen
<1>1. s.full \in Seq(Tx) /\ s.unused \in Nat /\ BlockApplies(s.full, chain, TRUE)
  BY DEF Chosen
<1>2. s = [full |-> s.full, unused |-> s.unused]
  BY DEF Chosen
<1> DEFINE later == [s EXCEPT !.unused = s.unused + 1]
           longer == [s EXCEPT !.full = Append(s.full, x)]
<1>3. Candidate(s, x, when) \in {s, later, longer}
  BY DEF Candidate
<1>4. later \in Chosen
  <2>1. later = [full |-> s.full, unused |-> s.unused + 1]
    BY <1>2
  <2>2. later \in [full : Seq(Tx), unused : Nat] /\ later.full = s.full
    BY <1>1, <2>1
  <2> HIDE DEF later
  <2> QED  BY <1>1, <2>2 DEF Chosen
<1>5. CASE Applies(x, chain, s.full, until[x])
  <2>1. longer = [full |-> Append(s.full, x), unused |-> s.unused]
    BY <1>2, SMTT(60)
  <2>2. /\ longer \in [full : Seq(Tx), unused : Nat]
        /\ longer.full = Append(s.full, x)
    BY <1>1, <2>1
  <2>3. BlockApplies(longer.full, chain, TRUE)
    BY <1>1, <1>5, <2>2, AppendApplies
  <2>4. longer \in Chosen
    <3> HIDE DEF longer
    <3> QED  BY <2>2, <2>3 DEF Chosen
  <2> QED  BY <1>3, <1>4, <2>4
<1>6. CASE ~Applies(x, chain, s.full, until[x])
  <2>1. Candidate(s, x, when) \in {s, later}
    BY <1>6 DEF Candidate
  <2> QED  BY <1>4, <2>1
<1> QED  BY <1>5, <1>6

\* The block the producer makes applies (apply_pending_transactions).
LEMMA ChosenApply ==
  ASSUME NEW when, pending \in Seq(Tx)
  PROVE  /\ apply_pending_transactions(when) \in Seq(Tx)
         /\ BlockApplies(apply_pending_transactions(when), chain, TRUE)
<1> DEFINE n == Len(pending)
           base == [full |-> <<>>, unused |-> 0]
           F == [i \in 1 .. n |-> [s \in Chosen |-> Candidate(s, pending[i], when)]]
           Eq(g) == g = [t \in SUBSET (DOMAIN pending) |->
                           IF t = {} THEN base
                           ELSE Candidate(g[t \ {Max(t)}], pending[Max(t)], when)]
           it == CHOOSE g : Eq(g)
<1>1. n \in Nat /\ DOMAIN pending = 1 .. n /\ \A k \in 1 .. n : pending[k] \in Tx
  OBVIOUS
<1>2. base \in Chosen
  <2>1. base \in [full : Seq(Tx), unused : Nat] /\ base.full = <<>>
    OBVIOUS
  <2>2. BlockApplies(<<>>, chain, TRUE)
    BY DEF BlockApplies
  <2> HIDE DEF base
  <2> QED  BY <2>1, <2>2 DEF Chosen
<1>3. F \in [1 .. n -> [Chosen -> Chosen]]
  <2>1. \A i \in 1 .. n : [s \in Chosen |-> Candidate(s, pending[i], when)]
                            \in [Chosen -> Chosen]
    BY <1>1, CandidateChosen
  <2> QED  BY <2>1
<1>4. \A i \in 1 .. n, s \in Chosen : F[i][s] = Candidate(s, pending[i], when)
  OBVIOUS
<1>5. apply_pending_transactions(when) = it[DOMAIN pending].full
  BY DEF apply_pending_transactions, FoldLeft, MapThenFoldSet
<1>6. \A t \in SUBSET (1 .. n) : t # {} => Max(t) \in 1 .. n
  BY <1>1, MaxIndex
<1> HIDE DEF F, n, base
<1>7. \E g : Eq(g)
  <2>1. PICK g : Folds(g, n, Chosen, base, F)
    <3>1. n \in Nat
      BY <1>1
    <3> QED  BY <1>2, <1>3, <3>1, FoldExists, Zenon
  <2>2. g \in [SUBSET (1 .. n) -> Chosen]
    BY <2>1 DEF Folds
  <2>3. ASSUME NEW t \in SUBSET (1 .. n)
        PROVE  g[t] = IF t = {} THEN base
                      ELSE Candidate(g[t \ {Max(t)}], pending[Max(t)], when)
    <3>1. g[t] = IF t = {} THEN base ELSE F[Max(t)][g[t \ {Max(t)}]]
      BY <2>1 DEF Folds
    <3>2. g[t \ {Max(t)}] \in Chosen
      BY <2>2
    <3> QED  BY <1>4, <1>6, <3>1, <3>2
  <2>4. g = [t \in SUBSET (1 .. n) |-> g[t]]
    BY <2>2
  <2>5. g = [t \in SUBSET (1 .. n) |->
               IF t = {} THEN base
               ELSE Candidate(g[t \ {Max(t)}], pending[Max(t)], when)]
    BY <2>3, <2>4
  <2> QED  BY <1>1, <2>5
<1>8. Eq(it)
  <2> HIDE DEF Eq
  <2> QED  BY <1>7
<1> HIDE DEF it
<1>9. Computes(it, n, Chosen, base, F)
  <2>1. it[{}] = base
    BY <1>1, <1>8
  <2>2. ASSUME NEW t \in SUBSET (1 .. n), t # {}, it[t \ {Max(t)}] \in Chosen
        PROVE  it[t] = F[Max(t)][it[t \ {Max(t)}]]
    <3>1. it[t] = Candidate(it[t \ {Max(t)}], pending[Max(t)], when)
      BY <1>1, <1>8, <2>2
    <3> QED  BY <1>4, <1>6, <2>2, <3>1
  <2> QED  BY <2>1, <2>2 DEF Computes
<1> HIDE DEF Eq
<1>10. PICK h : States(h, n, Chosen, base, F, it[1 .. n])
  <2>1. n \in Nat
    BY <1>1
  <2> QED  BY <1>2, <1>3, <1>9, <2>1, FoldSteps, Zenon
<1>11. it[1 .. n] \in Chosen
  <2>1. n \in 0 .. n
    BY <1>1
  <2> QED  BY <1>10, <2>1 DEF States
<1> QED  BY <1>1, <1>5, <1>11 DEF Chosen

------------------------------------------------------------------------------
(* What the restorer rebuilds. *)

\* What the restorer has built so far: the size is that of the list, and what
\* is in the session is in the list and not on the chain.
Built ==
  {r \in [pending : Seq(Tx), size : Nat, session : Seq(Tx), stop : BOOLEAN] :
     /\ r.size = TotalSize(r.pending)
     /\ Range(r.session) \subseteq Range(r.pending)
     /\ Range(r.session) \cap Deduplicated(chain) = {}}

\* One transaction more keeps what is restored listed, counted and apart from the
\* chain (the loops of ~pending_transactions_restorer).
LEMMA HandledBuilt ==
  ASSUME NEW r \in Built, NEW x \in Tx, NEW i, NEW cut
  PROVE  handle_tx(r, x, i, cut) \in Built
<1>1. /\ r.pending \in Seq(Tx) /\ r.size \in Nat /\ r.session \in Seq(Tx)
      /\ r.stop \in BOOLEAN
      /\ r.size = TotalSize(r.pending)
      /\ Range(r.session) \subseteq Range(r.pending)
      /\ Range(r.session) \cap Deduplicated(chain) = {}
  BY DEF Built
<1>2. r \in [pending : Seq(Tx), size : Nat, session : Seq(Tx), stop : BOOLEAN]
  BY DEF Built
<1> DEFINE full == [r EXCEPT !.stop = TRUE]
           kept == [r EXCEPT !.pending = Append(r.pending, x), !.size = r.size + Size[x]]
           applied == [r EXCEPT !.pending = Append(r.pending, x),
                                !.size = r.size + Size[x],
                                !.session = Append(r.session, x)]
<1>3. /\ Append(r.pending, x) \in Seq(Tx)
      /\ Range(Append(r.pending, x)) = Range(r.pending) \cup {x}
      /\ Append(r.session, x) \in Seq(Tx)
      /\ Range(Append(r.session, x)) = Range(r.session) \cup {x}
  BY <1>1, RangeAppend
<1>4. r.size + Size[x] \in Nat /\ r.size + Size[x] = TotalSize(Append(r.pending, x))
  BY <1>1, TotalSizeAppend, PendingAssumption
<1>5. full \in Built
  <2>2. /\ full \in [pending : Seq(Tx), size : Nat, session : Seq(Tx), stop : BOOLEAN]
        /\ full.pending = r.pending /\ full.size = r.size /\ full.session = r.session
    BY <1>2
  <2> HIDE DEF full
  <2> QED  BY <1>1, <2>2 DEF Built
<1>6. kept \in Built
  <2>2. /\ kept \in [pending : Seq(Tx), size : Nat, session : Seq(Tx), stop : BOOLEAN]
        /\ kept.pending = Append(r.pending, x) /\ kept.size = r.size + Size[x]
        /\ kept.session = r.session
    BY <1>2, <1>3, <1>4
  <2> HIDE DEF kept
  <2> QED  BY <1>1, <1>3, <1>4, <2>2 DEF Built
<1>7. CASE Applies(x, chain, r.session, until[x])
  <2>2. /\ applied \in [pending : Seq(Tx), size : Nat, session : Seq(Tx), stop : BOOLEAN]
        /\ applied.pending = Append(r.pending, x) /\ applied.size = r.size + Size[x]
        /\ applied.session = Append(r.session, x)
    BY <1>2, <1>3, <1>4
  <2>3. x \notin Deduplicated(chain)
    BY <1>7 DEF Applies, is_known_transaction
  <2>4. applied \in Built
    <3> HIDE DEF applied
    <3>1. Range(applied.session) = Range(r.session) \cup {x}
      BY <1>3, <2>2
    <3>2. Range(applied.pending) = Range(r.pending) \cup {x}
      BY <1>3, <2>2
    <3>3. applied.size = TotalSize(applied.pending)
      BY <1>4, <2>2
    <3> QED  BY <1>1, <2>2, <2>3, <3>1, <3>2, <3>3 DEF Built
  <2>5. handle_tx(r, x, i, cut) \in {r, full, kept, applied}
    BY DEF handle_tx
  <2> QED  BY <1>5, <1>6, <2>4, <2>5
<1>8. CASE ~Applies(x, chain, r.session, until[x])
  <2>1. handle_tx(r, x, i, cut) \in {r, full, kept}
    BY <1>8 DEF handle_tx
  <2> QED  BY <1>5, <1>6, <2>1
<1> QED  BY <1>7, <1>8

\* What the restorer goes through, popped transactions first.
Todo == popped \o aside

\* h is what it has built before, between and after the transactions.
Restoring(h, cut) ==
  /\ h \in [0 .. Len(Todo) -> Built]
  /\ h[0] = [pending |-> <<>>, size |-> 0, session |-> <<>>, stop |-> FALSE]
  /\ \A k \in 1 .. Len(Todo) : h[k] = handle_tx(h[k - 1], Todo[k], k, cut)
  /\ Restored(cut) = h[Len(Todo)]

\* The restorer's destructor (~pending_transactions_restorer) takes one
\* transaction after the other.
LEMMA RestoredSteps ==
  ASSUME NEW cut, popped \in Seq(Tx), aside \in Seq(Tx)
  PROVE  \E h : Restoring(h, cut)
<1> DEFINE todo == popped \o aside
           n == Len(todo)
           D == DOMAIN [i \in 1 .. Len(todo) |-> i]
           base == [pending |-> <<>>, size |-> 0, session |-> <<>>, stop |-> FALSE]
           F == [i \in 1 .. n |-> [r \in Built |-> handle_tx(r, todo[i], i, cut)]]
           Eq(g) == g = [t \in SUBSET D |->
                           IF t = {} THEN base
                           ELSE handle_tx(g[t \ {Max(t)}],
                                          todo[[i \in 1 .. Len(todo) |-> i][Max(t)]],
                                          [i \in 1 .. Len(todo) |-> i][Max(t)], cut)]
           it == CHOOSE g : Eq(g)
<1>1. n \in Nat /\ D = 1 .. n /\ \A k \in 1 .. n : todo[k] \in Tx
  BY ConcatProperties
<1>2. base \in Built
  <2>1. /\ base \in [pending : Seq(Tx), size : Nat, session : Seq(Tx), stop : BOOLEAN]
        /\ base.pending = <<>> /\ base.session = <<>> /\ base.size = 0
    OBVIOUS
  <2>2. TotalSize(<<>>) = 0 /\ Range(<<>>) = {}
    BY TotalSizeEmpty DEF Range
  <2> HIDE DEF base
  <2> QED  BY <2>1, <2>2 DEF Built
<1>3. F \in [1 .. n -> [Built -> Built]]
  <2>1. \A i \in 1 .. n : [r \in Built |-> handle_tx(r, todo[i], i, cut)]
                            \in [Built -> Built]
    BY <1>1, HandledBuilt
  <2> QED  BY <2>1
<1>4. \A i \in 1 .. n, r \in Built : F[i][r] = handle_tx(r, todo[i], i, cut)
  OBVIOUS
<1>5. Restored(cut) = it[D]
  BY DEF Restored, FoldLeft, MapThenFoldSet
<1>6. \A t \in SUBSET (1 .. n) : t # {} => Max(t) \in 1 .. n
  BY <1>1, MaxIndex
<1>7. \A t \in SUBSET (1 .. n) : t # {} => [i \in 1 .. Len(todo) |-> i][Max(t)] = Max(t)
  BY <1>6
<1> HIDE DEF F, n, base, todo, D
<1>8. \E g : Eq(g)
  <2>1. PICK g : Folds(g, n, Built, base, F)
    <3>1. n \in Nat
      BY <1>1
    <3> QED  BY <1>2, <1>3, <3>1, FoldExists, Zenon
  <2>2. g \in [SUBSET (1 .. n) -> Built]
    BY <2>1 DEF Folds
  <2>3. ASSUME NEW t \in SUBSET (1 .. n)
        PROVE  g[t] = IF t = {} THEN base
                      ELSE handle_tx(g[t \ {Max(t)}],
                                     todo[[i \in 1 .. Len(todo) |-> i][Max(t)]],
                                     [i \in 1 .. Len(todo) |-> i][Max(t)], cut)
    <3>1. g[t] = IF t = {} THEN base ELSE F[Max(t)][g[t \ {Max(t)}]]
      BY <2>1 DEF Folds
    <3>2. g[t \ {Max(t)}] \in Built
      BY <2>2
    <3> QED  BY <1>4, <1>6, <1>7, <3>1, <3>2
  <2>4. g = [t \in SUBSET (1 .. n) |-> g[t]]
    BY <2>2
  <2>5. g = [t \in SUBSET (1 .. n) |->
               IF t = {} THEN base
               ELSE handle_tx(g[t \ {Max(t)}],
                              todo[[i \in 1 .. Len(todo) |-> i][Max(t)]],
                              [i \in 1 .. Len(todo) |-> i][Max(t)], cut)]
    BY <2>3, <2>4
  <2> QED  BY <1>1, <2>5
<1>9. Eq(it)
  <2> HIDE DEF Eq
  <2> QED  BY <1>8
<1> HIDE DEF it
<1>10. Computes(it, n, Built, base, F)
  <2>1. it[{}] = base
    BY <1>1, <1>9
  <2>2. ASSUME NEW t \in SUBSET (1 .. n), t # {}, it[t \ {Max(t)}] \in Built
        PROVE  it[t] = F[Max(t)][it[t \ {Max(t)}]]
    <3>1. it[t] = handle_tx(it[t \ {Max(t)}],
                            todo[[i \in 1 .. Len(todo) |-> i][Max(t)]],
                            [i \in 1 .. Len(todo) |-> i][Max(t)], cut)
      BY <1>1, <1>9, <2>2
    <3> QED  BY <1>4, <1>6, <1>7, <2>2, <3>1
  <2> QED  BY <2>1, <2>2 DEF Computes
<1> HIDE DEF Eq
<1>11. PICK h : States(h, n, Built, base, F, it[1 .. n])
  <2>1. n \in Nat
    BY <1>1
  <2> QED  BY <1>2, <1>3, <1>10, <2>1, FoldSteps, Zenon
<1>12. /\ h \in [0 .. n -> Built] /\ h[0] = base /\ h[n] = it[1 .. n]
       /\ \A k \in 1 .. n : h[k] = handle_tx(h[k - 1], todo[k], k, cut)
  <2>1. /\ h \in [0 .. n -> Built] /\ h[0] = base /\ h[n] = it[1 .. n]
        /\ \A k \in 1 .. n : h[k] = F[k][h[k - 1]]
    BY <1>11 DEF States
  <2>2. \A k \in 1 .. n : k - 1 \in 0 .. n
    BY <1>1
  <2> QED  BY <1>4, <2>1, <2>2
<1> QED  BY <1>1, <1>5, <1>12 DEF Restoring, Todo, todo, n, base

\* What it leaves is listed, counted and apart from the chain.
LEMMA RestoredBuilt ==
  ASSUME NEW cut, popped \in Seq(Tx), aside \in Seq(Tx)
  PROVE  Restored(cut) \in Built
<1>1. PICK h : Restoring(h, cut)
  BY RestoredSteps
<1>2. Len(Todo) \in 0 .. Len(Todo)
  BY ConcatProperties DEF Todo
<1> QED  BY <1>1, <1>2 DEF Restoring

------------------------------------------------------------------------------
(* The inductive invariant. *)

\* The chain is a list of blocks that has the genesis block.
ChainOK == chain \in Seq([time : Nat, txs : Seq(Tx)]) /\ Len(chain) >= 1

\* A validated object is not used beyond the expiration its signers chose
\* (validate_transaction), so that the deduplication index still has whatever
\* it could be confused with.
UntilOK == \A x \in Tx : until[x] <= Expiration[x]

\* Inside a request nothing is applied on top of the head block (clear_pending).
SessionAside == phase # "idle" => session = <<>>

IInv ==
  /\ TypeOK /\ ChainOK /\ UntilOK /\ SessionAside
  /\ IncludedOnce /\ ProducedApplies /\ SessionHeld

\* The parts of the invariant that are about the chain alone.
GoodChain(c) ==
  /\ c \in Seq([time : Nat, txs : Seq(Tx)]) /\ Len(c) >= 1
  /\ \A i \in DOMAIN c :
       /\ c[i].time \in 1 .. MaxTime /\ c[i].txs \in Seq(Tx)
       /\ i > 1 => c[i - 1].time < c[i].time
  /\ \A i, j \in DOMAIN c :
       \A p \in DOMAIN c[i].txs, q \in DOMAIN c[j].txs :
         c[i].txs[p] = c[j].txs[q] => i = j /\ p = q

\* The invariant holds them.
LEMMA GoodChainNow == IInv => GoodChain(chain)
  BY DEF IInv, TypeOK, ChainOK, IncludedOnce, GoodChain

\* The timestamp of the head block.
LEMMA HeadTime ==
  ASSUME NEW c, GoodChain(c)
  PROVE  head_block_time(c) \in 1 .. MaxTime /\ head_block_time(c) = c[Len(c)].time
<1>1. Len(c) \in DOMAIN c
  BY DEF GoodChain
<1> QED  BY <1>1 DEF head_block_time, Last, GoodChain

\* A transaction that applies is not on the chain: were it there, its entry
\* would still be in the deduplication index, because it has not expired
\* (validate_transaction, clear_expired_transactions).
LEMMA AppliesOnce ==
  ASSUME IInv, NEW x \in Tx, NEW s, Applies(x, chain, s, until[x])
  PROVE  x \notin Included(chain) /\ x \notin Range(s)
<1> DEFINE now == head_block_time(chain)
<1>1. now \in Nat
  BY GoodChainNow, HeadTime, PendingAssumption
<1>2. Expiration[x] \in Nat /\ MaxAge \in Nat /\ until[x] \in Nat /\ until[x] <= Expiration[x]
  BY PendingAssumption DEF IInv, TypeOK, UntilOK
<1>3. now < RuntimeExpiration(until[x], x, now)
  BY DEF Applies
<1>4. RuntimeExpiration(until[x], x, now) \in Nat /\ RuntimeExpiration(until[x], x, now) <= Expiration[x]
  <2> HIDE DEF now
  <2> QED  BY <1>1, <1>2 DEF RuntimeExpiration, Lower
<1>5. ~(now > Expiration[x])
  <2> HIDE DEF now
  <2> QED  BY <1>1, <1>2, <1>3, <1>4
<1>6. x \notin Deduplicated(chain) /\ x \notin Range(s)
  BY DEF Applies, is_known_transaction
<1> QED  BY <1>5, <1>6 DEF Deduplicated

\* The transactions of a block that applies are new and distinct.
LEMMA BlockOnce ==
  ASSUME IInv, NEW txs \in Seq(Tx), BlockApplies(txs, chain, TRUE)
  PROVE  /\ \A p \in DOMAIN txs : txs[p] \notin Included(chain)
         /\ \A p, q \in DOMAIN txs : txs[p] = txs[q] => p = q
<1>1. ASSUME NEW p \in DOMAIN txs
      PROVE  txs[p] \notin Included(chain) /\ txs[p] \notin Range(SubSeq(txs, 1, p - 1))
  <2>1. Applies(txs[p], chain, SubSeq(txs, 1, p - 1), until[txs[p]])
    BY DEF BlockApplies
  <2> QED  BY <2>1, AppliesOnce
<1>2. ASSUME NEW p \in DOMAIN txs, NEW q \in DOMAIN txs, p < q
      PROVE  txs[p] # txs[q]
  <2> DEFINE r == SubSeq(txs, 1, q - 1)
  <2>1. p \in DOMAIN r /\ r[p] = txs[p]
    BY <1>2
  <2>2. txs[p] \in Range(r)
    BY <2>1 DEF Range
  <2> QED  BY <1>1, <2>2
<1>3. \A p, q \in DOMAIN txs : p # q => p < q \/ q < p
  OBVIOUS
<1> QED  BY <1>1, <1>2, <1>3

\* The chain with another block that applies (apply_block, generate_block).
LEMMA Extended ==
  ASSUME IInv, NEW b \in [time : Nat, txs : Seq(Tx)],
         b.time \in 1 .. MaxTime, head_block_time(chain) < b.time,
         BlockApplies(b.txs, chain, TRUE)
  PROVE  GoodChain(Append(chain, b))
<1> DEFINE B == [time : Nat, txs : Seq(Tx)]
           c == Append(chain, b)
           n == Len(chain)
<1>1. GoodChain(chain)
  BY GoodChainNow
<1>2. /\ chain \in Seq(B) /\ n \in Nat \ {0} /\ DOMAIN chain = 1 .. n
      /\ c \in Seq(B) /\ DOMAIN c = 1 .. n + 1 /\ Len(c) = n + 1
      /\ c[n + 1] = b /\ \A i \in 1 .. n : c[i] = chain[i]
  <2>1. chain \in Seq(B) /\ n >= 1
    BY <1>1 DEF GoodChain
  <2>2. b \in B
    OBVIOUS
  <2> HIDE DEF B
  <2> QED  BY <2>1, <2>2
<1> HIDE DEF c, n, B
<1>3. ASSUME NEW i \in DOMAIN c
      PROVE  /\ c[i].time \in 1 .. MaxTime /\ c[i].txs \in Seq(Tx)
             /\ i > 1 => c[i - 1].time < c[i].time
  <2>1. CASE i \in 1 .. n
    <3>1. c[i] = chain[i] /\ i \in DOMAIN chain
      BY <1>2, <2>1
    <3>2. i > 1 => c[i - 1] = chain[i - 1]
      BY <1>2, <2>1
    <3> QED  BY <1>1, <3>1, <3>2 DEF GoodChain
  <2>2. CASE i = n + 1
    <3>1. c[i] = b /\ i - 1 = n /\ c[i - 1] = chain[n]
      BY <1>2, <2>2
    <3>2. head_block_time(chain) = chain[n].time
      BY <1>1, HeadTime DEF n
    <3>3. b.txs \in Seq(Tx)
      OBVIOUS
    <3> QED  BY <3>1, <3>2, <3>3
  <2> QED  BY <1>2, <2>1, <2>2
<1>4. ASSUME NEW i \in DOMAIN c, NEW j \in DOMAIN c,
             NEW p \in DOMAIN c[i].txs, NEW q \in DOMAIN c[j].txs,
             c[i].txs[p] = c[j].txs[q]
      PROVE  i = j /\ p = q
  <2> DEFINE T == b.txs
  <2>1. /\ \A k \in DOMAIN T : T[k] \notin Included(chain)
        /\ \A k, l \in DOMAIN T : T[k] = T[l] => k = l
    BY BlockOnce
  <2>2. \A k \in 1 .. n : \A l \in DOMAIN chain[k].txs : chain[k].txs[l] \in Included(chain)
    BY <1>2 DEF Included, Range
  <2> HIDE DEF T
  <2>3. CASE i \in 1 .. n /\ j \in 1 .. n
    BY <1>1, <1>2, <1>4, <2>3, SMTT(60) DEF GoodChain
  <2>4. CASE i \in 1 .. n /\ j = n + 1
    <3>1. c[i] = chain[i] /\ c[j].txs = T
      BY <1>2, <2>4 DEF T
    <3> QED  BY <1>4, <2>1, <2>2, <2>4, <3>1
  <2>5. CASE i = n + 1 /\ j \in 1 .. n
    <3>1. c[j] = chain[j] /\ c[i].txs = T
      BY <1>2, <2>5 DEF T
    <3> QED  BY <1>4, <2>1, <2>2, <2>5, <3>1
  <2>6. CASE i = n + 1 /\ j = n + 1
    <3>1. c[i].txs = T /\ c[j].txs = T
      BY <1>2, <2>6 DEF T
    <3> QED  BY <1>4, <2>1, <2>6, <3>1
  <2> QED  BY <1>2, <2>3, <2>4, <2>5, <2>6
<1>5. c \in Seq([time : Nat, txs : Seq(Tx)]) /\ Len(c) >= 1
  BY <1>2 DEF B
<1>6. GoodChain(c)
  BY <1>3, <1>4, <1>5 DEF GoodChain
<1> QED  BY <1>6 DEF c

\* The chain without its head block (pop_block).
LEMMA Shortened ==
  ASSUME NEW c, GoodChain(c), Len(c) > 1
  PROVE  GoodChain(Front(c)) /\ Last(c).txs \in Seq(Tx)
<1> DEFINE B == [time : Nat, txs : Seq(Tx)]
           d == Front(c)
<1>1. c \in Seq(B) /\ Len(c) \in Nat /\ DOMAIN c = 1 .. Len(c)
  BY DEF GoodChain
<1>2. /\ d \in Seq(B) /\ Len(d) = Len(c) - 1 /\ DOMAIN d = 1 .. Len(c) - 1
      /\ \A i \in 1 .. Len(c) - 1 : d[i] = c[i]
  <2> HIDE DEF B
  <2> QED  BY <1>1 DEF Front
<1>3. Last(c) = c[Len(c)] /\ c[Len(c)].txs \in Seq(Tx)
  BY <1>1, SMTT(60) DEF Last, GoodChain
<1>4. d \in Seq([time : Nat, txs : Seq(Tx)]) /\ Len(d) >= 1
  BY <1>1, <1>2
<1> HIDE DEF d, B
<1>5. ASSUME NEW i \in DOMAIN d
      PROVE  /\ d[i].time \in 1 .. MaxTime /\ d[i].txs \in Seq(Tx)
             /\ i > 1 => d[i - 1].time < d[i].time
  <2>1. i \in DOMAIN c /\ d[i] = c[i] /\ (i > 1 => d[i - 1] = c[i - 1])
    BY <1>1, <1>2
  <2> QED  BY <2>1 DEF GoodChain
<1>6. \A i, j \in DOMAIN d :
       \A p \in DOMAIN d[i].txs, q \in DOMAIN d[j].txs :
         d[i].txs[p] = d[j].txs[q] => i = j /\ p = q
  <2> TAKE i, j \in DOMAIN d
  <2>1. i \in DOMAIN c /\ j \in DOMAIN c /\ d[i] = c[i] /\ d[j] = c[j]
    BY <1>1, <1>2
  <2> QED  BY <2>1, SMTT(60) DEF GoodChain
<1>7. GoodChain(d)
  BY <1>4, <1>5, <1>6 DEF GoodChain
<1> QED  BY <1>3, <1>7 DEF d

------------------------------------------------------------------------------
(* The steps. *)

\* The types of everything but the chain.
ListsOK ==
  /\ pending \in Seq(Tx) /\ popped \in Seq(Tx) /\ session \in Seq(Tx)
  /\ aside \in Seq(Tx)
  /\ size \in Nat
  /\ until \in [Tx -> Nat]
  /\ phase \in {"idle", "open", "done"}
  /\ phase = "idle" => aside = <<>>
  /\ pops \in 0 .. MaxPops /\ pushes \in 0 .. MaxPushes
  /\ phase = "idle" => shown = {}
  /\ shown \subseteq Tx /\ favoured \subseteq WitnessTx
  /\ faults \subseteq {"refused", "misproduced"}

\* The invariant is what holds of the chain, of the lists and of the two together.
LEMMA Parts ==
  IInv <=> /\ GoodChain(chain) /\ ListsOK /\ UntilOK /\ SessionAside
           /\ ProducedApplies /\ SessionHeld
  BY DEF IInv, TypeOK, ChainOK, IncludedOnce, GoodChain, ListsOK

\* The elements of an empty list.
LEMMA RangeEmpty == Range(<<>>) = {}
  BY DEF Range

\* Elements of lists and of their concatenation.
LEMMA RangeConcat ==
  ASSUME NEW s \in Seq(Tx), NEW t \in Seq(Tx)
  PROVE  s \o t \in Seq(Tx) /\ Range(s) \subseteq Range(s \o t) /\ Range(t) \subseteq Range(s \o t)
<1> DEFINE r == s \o t
<1>1. /\ r \in Seq(Tx) /\ Len(r) = Len(s) + Len(t) /\ Len(s) \in Nat /\ Len(t) \in Nat
      /\ DOMAIN r = 1 .. Len(s) + Len(t) /\ DOMAIN s = 1 .. Len(s) /\ DOMAIN t = 1 .. Len(t)
  BY ConcatProperties
<1>2. \A i \in 1 .. Len(s) : r[i] = s[i]
  BY <1>1
<1>3. \A i \in 1 .. Len(t) : r[Len(s) + i] = t[i]
  BY <1>1
<1> HIDE DEF r
<1>4. Range(s) \subseteq Range(r)
  BY <1>1, <1>2 DEF Range
<1>5. Range(t) \subseteq Range(r)
  <2> SUFFICES ASSUME NEW i \in 1 .. Len(t) PROVE t[i] \in Range(r)
    BY <1>1 DEF Range
  <2>1. Len(s) + i \in DOMAIN r /\ r[Len(s) + i] = t[i]
    BY <1>1, <1>3
  <2> QED  BY <2>1 DEF Range
<1> QED  BY <1>1, <1>4, <1>5 DEF r

\* The elements of a list of transactions are transactions.
LEMMA RangeType ==
  ASSUME NEW s \in Seq(Tx)
  PROVE  Range(s) \subseteq Tx
<1>1. \A i \in DOMAIN s : s[i] \in Tx
  BY LenProperties
<1> QED  BY <1>1 DEF Range

\* validate_transaction never lets an object live beyond its expiration.
LEMMA RuntimeBounded ==
  ASSUME IInv, NEW x \in Tx
  PROVE  /\ RuntimeExpiration(until[x], x, head_block_time(chain)) \in Nat
         /\ RuntimeExpiration(until[x], x, head_block_time(chain)) <= Expiration[x]
<1>1. head_block_time(chain) \in Nat
  BY GoodChainNow, HeadTime, PendingAssumption
<1>2. Expiration[x] \in Nat /\ MaxAge \in Nat /\ until[x] \in Nat /\ until[x] <= Expiration[x]
  BY PendingAssumption DEF IInv, TypeOK, UntilOK
<1> QED  BY <1>1, <1>2 DEF RuntimeExpiration, Lower

\* The same for a transaction that is validated and kept (_push_transaction).
LEMMA StampedBounded ==
  ASSUME IInv, NEW b
  PROVE  Stamped(b) \in [Tx -> Nat] /\ \A x \in Tx : Stamped(b)[x] <= Expiration[x]
<1>1. until \in [Tx -> Nat] /\ \A x \in Tx : until[x] <= Expiration[x]
  BY DEF IInv, TypeOK, UntilOK
<1> QED  BY <1>1, RuntimeBounded DEF Stamped

\* A node starts on a block, with no transaction waiting.
LEMMA InitInv == Init => IInv
<1> SUFFICES ASSUME Init PROVE IInv
  OBVIOUS
<1>1. GoodChain(chain)
  <2> DEFINE g == [time |-> 1, txs |-> <<>>]
  <2>1. g \in [time : Nat, txs : Seq(Tx)] /\ g.time = 1 /\ g.txs = <<>> /\ 1 \in 1 .. MaxTime
    BY PendingAssumption
  <2>2. chain = <<g>>
    BY DEF Init
  <2> HIDE DEF g
  <2>3. /\ chain \in Seq([time : Nat, txs : Seq(Tx)]) /\ Len(chain) = 1
        /\ DOMAIN chain = {1} /\ chain[1] = g
    BY <2>1, <2>2
  <2>4. g.txs \in Seq(Tx) /\ DOMAIN g.txs = {}
    BY <2>1
  <2> QED  BY <2>1, <2>3, <2>4 DEF GoodChain
<1>2. ListsOK /\ UntilOK
  BY PendingAssumption DEF Init, ListsOK, UntilOK
<1>3. SessionAside /\ ProducedApplies
  BY DEF Init, SessionAside, ProducedApplies
<1>4. SessionHeld
  BY TotalSizeEmpty, RangeEmpty DEF Init, SessionHeld
<1> QED  BY <1>1, <1>2, <1>3, <1>4, Parts

\* _push_transaction.
LEMMA PushStep ==
  ASSUME IInv, NEW x \in Tx, _push_transaction(x)
  PROVE  IInv'
<1>1. /\ GoodChain(chain) /\ ListsOK /\ UntilOK /\ SessionAside
      /\ ProducedApplies /\ SessionHeld
  BY Parts
<1>2. /\ session' = Append(session, x) /\ chain' = chain /\ phase = "idle" /\ phase' = phase
      /\ faults' = faults
  BY DEF _push_transaction
<1>3. session' \in Seq(Tx) /\ Range(session') = Range(session) \cup {x}
  BY <1>1, <1>2, RangeAppend DEF ListsOK
<1>4. /\ Append(pending, x) \in Seq(Tx)
      /\ Range(Append(pending, x)) = Range(pending) \cup {x}
      /\ TotalSize(Append(pending, x)) = TotalSize(pending) + Size[x]
  BY <1>1, RangeAppend, TotalSizeAppend DEF ListsOK
<1>5. /\ <<x>> \o popped \in Seq(Tx)
      /\ x \in Range(<<x>> \o popped) /\ Range(popped) \subseteq Range(<<x>> \o popped)
  <2>1. <<x>> \in Seq(Tx) /\ popped \in Seq(Tx)
    BY <1>1 DEF ListsOK
  <2>2. x \in Range(<<x>>)
    BY DEF Range
  <2> QED  BY <2>1, <2>2, RangeConcat
<1>6. UntilOK' /\ until' \in [Tx -> Nat]
  BY <1>1, RuntimeBounded DEF UntilOK, ListsOK, _push_transaction
<1>7. \/ popped' = <<x>> \o popped /\ favoured' = favoured \cup {x} /\ x \in WitnessTx
         /\ pending' = pending /\ size' = size
      \/ pending' = Append(pending, x) /\ size' = size + Size[x]
         /\ popped' = popped /\ favoured' = favoured
  BY DEF _push_transaction, IsPrivileged
<1>8. /\ pending' \in Seq(Tx) /\ popped' \in Seq(Tx) /\ size' \in Nat
      /\ favoured' \subseteq WitnessTx
      /\ size' = TotalSize(pending')
      /\ Range(session') \subseteq Range(pending') \cup Range(popped')
  <2>1. size \in Nat /\ Size[x] \in Nat /\ pending \in Seq(Tx) /\ popped \in Seq(Tx)
        /\ favoured \subseteq WitnessTx
    BY <1>1, PendingAssumption DEF ListsOK
  <2>2. size = TotalSize(pending) /\ Range(session) \subseteq Range(pending) \cup Range(popped)
    BY <1>1 DEF SessionHeld
  <2>3. CASE popped' = <<x>> \o popped /\ favoured' = favoured \cup {x} /\ x \in WitnessTx
             /\ pending' = pending /\ size' = size
    BY <1>3, <1>5, <2>1, <2>2, <2>3
  <2>4. CASE pending' = Append(pending, x) /\ size' = size + Size[x]
             /\ popped' = popped /\ favoured' = favoured
    BY <1>3, <1>4, <2>1, <2>2, <2>4
  <2> QED  BY <1>7, <2>3, <2>4
<1>9. ListsOK'
  <2>1. /\ pushes' = pushes + 1 /\ pushes < MaxPushes
        /\ aside' = aside /\ pops' = pops /\ shown' = shown
    BY DEF _push_transaction
  <2>2. pushes' \in 0 .. MaxPushes
    BY <1>1, <2>1, PendingAssumption DEF ListsOK
  <2> QED  BY <1>1, <1>2, <1>3, <1>6, <1>8, <2>1, <2>2 DEF ListsOK
<1>10. SessionHeld'
  <2>1. x \notin Deduplicated(chain)
    BY DEF _push_transaction, Applies, is_known_transaction
  <2>2. Deduplicated(chain)' = Deduplicated(chain)
    BY <1>2 DEF Deduplicated, Included, head_block_time
  <2>3. Range(session) \cap Deduplicated(chain) = {}
    BY <1>1 DEF SessionHeld
  <2>4. TotalSize(pending)' = TotalSize(pending') /\ Range(session)' = Range(session')
    OBVIOUS
  <2>5. Range(session') \cap Deduplicated(chain) = {}
    BY <1>3, <2>1, <2>3
  <2> QED  BY <1>8, <2>2, <2>5 DEF SessionHeld
<1>11. GoodChain(chain)' /\ SessionAside' /\ ProducedApplies'
  BY <1>1, <1>2 DEF GoodChain, SessionAside, ProducedApplies
<1> QED  BY <1>6, <1>9, <1>10, <1>11, Parts, PTL

\* Putting the pending transactions aside (without_pending_transactions).
LEMMA AsideFacts ==
  ASSUME IInv, phase = "idle", Aside
  PROVE  /\ pending' \in Seq(Tx) /\ session' \in Seq(Tx) /\ aside' \in Seq(Tx)
         /\ size' \in Nat /\ shown' \subseteq Tx
         /\ size' = TotalSize(pending') /\ session' = <<>> /\ Range(session') = {}
<1>1. pending \in Seq(Tx) /\ session \in Seq(Tx)
  BY DEF IInv, TypeOK
<1>2. pending' = <<>> /\ session' = <<>> /\ size' = 0 /\ aside' = pending /\ shown' = Range(session)
  BY DEF Aside
<1>3. <<>> \in Seq(Tx) /\ 0 \in Nat
  BY EmptySeq
<1> QED  BY <1>1, <1>2, <1>3, TotalSizeEmpty, RangeEmpty, RangeType

\* A request begins: the pending transactions are put aside.
LEMMA WithoutStep ==
  ASSUME IInv, without_pending_transactions
  PROVE  IInv'
<1>1. /\ GoodChain(chain) /\ ListsOK /\ UntilOK /\ SessionAside
      /\ ProducedApplies /\ SessionHeld
  BY Parts
<1>2. phase = "idle" /\ Aside /\ phase' = "open" /\ chain' = chain /\ popped' = popped
      /\ until' = until /\ pops' = pops /\ pushes' = pushes /\ favoured' = favoured
      /\ faults' = faults
  BY DEF without_pending_transactions
<1>3. /\ pending' \in Seq(Tx) /\ session' \in Seq(Tx) /\ aside' \in Seq(Tx)
      /\ size' \in Nat /\ shown' \subseteq Tx
      /\ size' = TotalSize(pending') /\ session' = <<>> /\ Range(session') = {}
  BY <1>2, AsideFacts
<1>4. ListsOK'
  BY <1>1, <1>2, <1>3 DEF ListsOK
<1>5. SessionHeld' /\ SessionAside'
  BY <1>3 DEF SessionHeld, SessionAside
<1>6. GoodChain(chain)' /\ ProducedApplies' /\ UntilOK'
  BY <1>1, <1>2 DEF GoodChain, ProducedApplies, UntilOK
<1> QED  BY <1>4, <1>5, <1>6, Parts, PTL

\* A block is popped and its transactions kept (pop_block).
LEMMA PopStep ==
  ASSUME IInv, pop_block
  PROVE  IInv'
<1>1. /\ GoodChain(chain) /\ ListsOK /\ UntilOK /\ SessionAside
      /\ ProducedApplies /\ SessionHeld
  BY Parts
<1>2. /\ phase = "open" /\ pops < MaxPops /\ Len(chain) > 1
      /\ popped' = Last(chain).txs \o popped /\ chain' = Front(chain) /\ pops' = pops + 1
      /\ pending' = pending /\ size' = size /\ session' = session /\ aside' = aside
      /\ until' = until /\ phase' = phase /\ pushes' = pushes /\ shown' = shown
      /\ favoured' = favoured /\ faults' = faults
  BY DEF pop_block
<1>3. GoodChain(Front(chain)) /\ Last(chain).txs \in Seq(Tx)
  BY <1>1, <1>2, Shortened
<1>4. popped' \in Seq(Tx)
  BY <1>1, <1>2, <1>3, RangeConcat DEF ListsOK
<1>5. pops' \in 0 .. MaxPops
  BY <1>1, <1>2, PendingAssumption DEF ListsOK
<1>6. ListsOK'
  BY <1>1, <1>2, <1>4, <1>5 DEF ListsOK
<1>7. session' = <<>> /\ Range(session') = {}
  BY <1>1, <1>2, RangeEmpty DEF SessionAside
<1>8. SessionHeld' /\ SessionAside'
  BY <1>1, <1>2, <1>7 DEF SessionHeld, SessionAside
<1>9. GoodChain(chain)'
  BY <1>2, <1>3 DEF GoodChain
<1>10. ProducedApplies' /\ UntilOK'
  BY <1>1, <1>2 DEF ProducedApplies, UntilOK
<1> QED  BY <1>6, <1>8, <1>9, <1>10, Parts, PTL

\* The block of a peer.
LEMMA BlockType ==
  ASSUME IInv, NEW b \in Blocks
  PROVE  b \in [time : Nat, txs : Seq(Tx)]
<1>1. ASSUME NEW r \in BoundedSeq(Tx, 2) PROVE r \in Seq(Tx)
  <2>1. PICK m \in 0 .. 2 : r \in [1 .. m -> Tx]
    BY DEF BoundedSeq, SeqOf
  <2> QED  BY <2>1
<1>2. /\ b.time \in 1 .. MaxTime
      /\ b.txs \in BoundedSeq(Tx, 2) /\ b = [time |-> b.time, txs |-> b.txs]
  BY DEF Blocks
<1>3. b.time \in Nat /\ b.txs \in Seq(Tx)
  BY <1>1, <1>2
<1> QED  BY <1>2, <1>3

\* A block is applied (apply_block).
LEMMA ApplyStep ==
  ASSUME IInv, NEW b \in Blocks, apply_block(b)
  PROVE  IInv'
<1>1. /\ GoodChain(chain) /\ ListsOK /\ UntilOK /\ SessionAside
      /\ ProducedApplies /\ SessionHeld
  BY Parts
<1>2. /\ phase = "open"
      /\ pending' = pending /\ size' = size /\ popped' = popped /\ session' = session
      /\ aside' = aside /\ phase' = phase /\ pops' = pops /\ pushes' = pushes
      /\ shown' = shown /\ favoured' = favoured
  BY DEF apply_block
<1>3. /\ b \in [time : Nat, txs : Seq(Tx)]
      /\ b.time \in 1 .. MaxTime /\ head_block_time(chain) < b.time
  <2>1. b.time \in 1 .. MaxTime /\ b.time > head_block_time(chain)
    BY DEF Blocks
  <2>2. head_block_time(chain) \in Nat
    BY <1>1, HeadTime, PendingAssumption
  <2> QED  BY <2>1, <2>2, BlockType
<1>4. \/ BlockApplies(b.txs, chain, TRUE) /\ chain' = Append(chain, b)
         /\ until' = Stamped(b) /\ faults' = faults
      \/ faults' = faults \cup {"refused"} /\ chain' = chain /\ until' = until
  BY DEF apply_block
<1>5. GoodChain(chain')
  BY <1>1, <1>3, <1>4, Extended
<1>6. until' \in [Tx -> Nat] /\ \A x \in Tx : until'[x] <= Expiration[x]
  BY <1>1, <1>4, StampedBounded DEF ListsOK, UntilOK
<1>7. faults' \subseteq {"refused", "misproduced"} /\ "misproduced" \notin faults'
  BY <1>1, <1>4 DEF ListsOK, ProducedApplies
<1>8. ListsOK'
  BY <1>1, <1>2, <1>6, <1>7 DEF ListsOK
<1>9. session' = <<>> /\ Range(session') = {}
  BY <1>1, <1>2, RangeEmpty DEF SessionAside
<1>10. SessionHeld' /\ SessionAside'
  BY <1>1, <1>2, <1>9 DEF SessionHeld, SessionAside
<1>11. GoodChain(chain)'
  BY <1>5 DEF GoodChain
<1>12. ProducedApplies' /\ UntilOK'
  BY <1>6, <1>7 DEF ProducedApplies, UntilOK
<1> QED  BY <1>8, <1>10, <1>11, <1>12, Parts, PTL

\* A block is produced and applied (generate_block).
LEMMA GenerateStep ==
  ASSUME IInv, NEW t \in head_block_time(chain) + 1 .. MaxTime, generate_block(t)
  PROVE  IInv'
<1> DEFINE txs == apply_pending_transactions(t)
           new == [time |-> t, txs |-> txs]
<1>1. /\ GoodChain(chain) /\ ListsOK /\ UntilOK /\ SessionAside
      /\ ProducedApplies /\ SessionHeld
  BY Parts
<1>2. txs \in Seq(Tx) /\ BlockApplies(txs, chain, TRUE)
  BY <1>1, ChosenApply DEF ListsOK
<1>3. /\ phase = "idle" /\ Aside /\ phase' = "done" /\ popped' = popped
      /\ pops' = pops /\ pushes' = pushes /\ favoured' = favoured
      /\ IF BlockApplies(new.txs, chain, TRUE)
         THEN chain' = Append(chain, new) /\ until' = Stamped(new) /\ UNCHANGED faults
         ELSE faults' = faults \cup {"misproduced"} /\ UNCHANGED <<chain, until>>
  <2> HIDE DEF txs
  <2> QED  BY DEF generate_block, txs
<1> HIDE DEF txs
<1>4. /\ new \in [time : Nat, txs : Seq(Tx)] /\ new.txs = txs
      /\ new.time \in 1 .. MaxTime /\ head_block_time(chain) < new.time
  <2>1. head_block_time(chain) \in 1 .. MaxTime
    BY <1>1, HeadTime
  <2>2. t \in 1 .. MaxTime /\ t \in Nat /\ head_block_time(chain) < t
    BY <2>1, PendingAssumption
  <2> QED  BY <1>2, <2>2
<1> HIDE DEF new
<1>5. chain' = Append(chain, new) /\ until' = Stamped(new) /\ faults' = faults
  BY <1>2, <1>3, <1>4
<1>6. GoodChain(chain')
  BY <1>2, <1>4, <1>5, Extended
<1>7. until' \in [Tx -> Nat] /\ \A x \in Tx : until'[x] <= Expiration[x]
  BY <1>5, StampedBounded
<1>8. /\ pending' \in Seq(Tx) /\ session' \in Seq(Tx) /\ aside' \in Seq(Tx)
      /\ size' \in Nat /\ shown' \subseteq Tx
      /\ size' = TotalSize(pending') /\ session' = <<>> /\ Range(session') = {}
  BY <1>3, AsideFacts
<1>9. ListsOK'
  BY <1>1, <1>3, <1>5, <1>7, <1>8 DEF ListsOK
<1>10. SessionHeld' /\ SessionAside'
  BY <1>8 DEF SessionHeld, SessionAside
<1>11. GoodChain(chain)'
  BY <1>6 DEF GoodChain
<1>12. ProducedApplies' /\ UntilOK'
  BY <1>1, <1>5, <1>7 DEF ProducedApplies, UntilOK
<1> QED  BY <1>9, <1>10, <1>11, <1>12, Parts, PTL

\* The request ends: transactions are restored (~pending_transactions_restorer).
LEMMA RestoreStep ==
  ASSUME IInv, NEW cut, restore_pending(cut)
  PROVE  IInv'
<1> DEFINE r == Restored(cut)
<1>1. /\ GoodChain(chain) /\ ListsOK /\ UntilOK /\ SessionAside
      /\ ProducedApplies /\ SessionHeld
  BY Parts
<1>2. r \in Built
  BY <1>1, RestoredBuilt DEF ListsOK
<1>3. /\ pending' = r.pending /\ size' = r.size /\ session' = r.session
      /\ popped' = <<>> /\ aside' = <<>> /\ phase' = "idle" /\ shown' = {}
      /\ \E held : until' = Alive(until, held)
      /\ chain' = chain /\ pops' = pops /\ pushes' = pushes
      /\ favoured' = favoured /\ faults' = faults
  BY DEF restore_pending
<1> HIDE DEF r
<1>4. /\ pending' \in Seq(Tx) /\ size' \in Nat /\ session' \in Seq(Tx)
      /\ size' = TotalSize(pending') /\ Range(session') \subseteq Range(pending')
      /\ Range(session') \cap Deduplicated(chain) = {}
  BY <1>2, <1>3 DEF Built
<1>5. until' \in [Tx -> Nat] /\ \A x \in Tx : until'[x] <= Expiration[x]
  <2>1. /\ until \in [Tx -> Nat] /\ \A x \in Tx : until[x] <= Expiration[x]
        /\ \A x \in Tx : Expiration[x] \in Nat
    BY <1>1, PendingAssumption DEF ListsOK, UntilOK
  <2>2. PICK held : until' = Alive(until, held)
    BY <1>3
  <2> QED  BY <2>1, <2>2 DEF Alive
<1>6. <<>> \in Seq(Tx)
  BY EmptySeq
<1>7. ListsOK'
  BY <1>1, <1>3, <1>4, <1>5, <1>6 DEF ListsOK
<1>8. SessionHeld'
  <2>1. Deduplicated(chain)' = Deduplicated(chain)
    BY <1>3 DEF Deduplicated, Included, head_block_time
  <2> QED  BY <1>4, <2>1 DEF SessionHeld
<1>9. SessionAside'
  BY <1>3 DEF SessionAside
<1>10. GoodChain(chain)' /\ ProducedApplies'
  BY <1>1, <1>3 DEF GoodChain, ProducedApplies
<1>11. UntilOK'
  BY <1>5 DEF UntilOK
<1> QED  BY <1>7, <1>8, <1>9, <1>10, <1>11, Parts, PTL

\* A step that changes nothing.
LEMMA StutterStep ==
  ASSUME IInv, UNCHANGED vars
  PROVE  IInv'
<1>1. /\ GoodChain(chain) /\ ListsOK /\ UntilOK /\ SessionAside
      /\ ProducedApplies /\ SessionHeld
  BY Parts
<1>2. /\ chain' = chain /\ pending' = pending /\ size' = size /\ popped' = popped
      /\ session' = session /\ aside' = aside /\ until' = until /\ phase' = phase
      /\ pops' = pops /\ pushes' = pushes /\ shown' = shown /\ favoured' = favoured
      /\ faults' = faults
  BY DEF vars
<1>3. GoodChain(chain)' /\ UntilOK' /\ SessionAside' /\ ProducedApplies'
  BY <1>1, <1>2 DEF GoodChain, UntilOK, SessionAside, ProducedApplies
<1>4. ListsOK'
  BY <1>1, <1>2 DEF ListsOK
<1>5. SessionHeld'
  <2>1. Deduplicated(chain)' = Deduplicated(chain)
    BY <1>2 DEF Deduplicated, Included, head_block_time
  <2> QED  BY <1>1, <1>2, <2>1 DEF SessionHeld
<1> QED  BY <1>3, <1>4, <1>5, Parts, PTL

------------------------------------------------------------------------------
(* The theorems. *)

\* Whatever requests, transactions and blocks the node meets, its lists, the
\* session and the chain stay consistent in the ways listed in IInv.
THEOREM PendingInvariant == Spec => []IInv
<1>1. Init => IInv
  BY InitInv
<1>2. IInv /\ [Next]_vars => IInv'
  <2> SUFFICES ASSUME IInv, [Next]_vars PROVE IInv'
    OBVIOUS
  <2>1. CASE UNCHANGED vars
    BY <2>1, StutterStep
  <2>2. ASSUME NEW x \in Tx, _push_transaction(x) PROVE IInv'
    BY <2>2, PushStep
  <2>3. CASE without_pending_transactions
    BY <2>3, WithoutStep
  <2>4. CASE pop_block
    BY <2>4, PopStep
  <2>5. ASSUME NEW b \in Blocks, apply_block(b) PROVE IInv'
    BY <2>5, ApplyStep
  <2>6. ASSUME NEW t \in head_block_time(chain) + 1 .. MaxTime, generate_block(t) PROVE IInv'
    BY <2>6, GenerateStep
  <2>7. ASSUME NEW cut \in 0 .. Len(popped \o aside), restore_pending(cut) PROVE IInv'
    BY <2>7, RestoreStep
  <2> QED  BY <2>1, <2>2, <2>3, <2>4, <2>5, <2>6, <2>7 DEF Next
<1> QED  BY <1>1, <1>2, PTL DEF Spec

\* The lists hold transactions, timestamps grow along the chain and nothing is
\* put aside outside a request (without_pending_transactions).
THEOREM TypeCorrect == Spec => []TypeOK
  BY PendingInvariant, PTL DEF IInv

\* No transaction is on the chain twice, however expiration times, the node's
\* own earlier runtime expirations and the removal of deduplication entries
\* are spaced (validate_transaction, clear_expired_transactions).
THEOREM OnceTheorem == Spec => []IncludedOnce
  BY PendingInvariant, PTL DEF IInv

\* The block a producer makes from its pending list applies
\* (apply_pending_transactions, generate_block).
THEOREM ProducedTheorem == Spec => []ProducedApplies
  BY PendingInvariant, PTL DEF IInv

\* What is applied on top of the head block is in a list and not on the chain,
\* and _pending_tx_size is the size of _pending_tx.
THEOREM HeldTheorem == Spec => []SessionHeld
  BY PendingInvariant, PTL DEF IInv

------------------------------------------------------------------------------
(* The order in which the restorer applies. *)

\* handle_tx applies x.
Accepts(r, x) ==
  until[x] > head_block_time(chain) /\ Applies(x, chain, r.session, until[x])

\* The four ends of handle_tx: nothing, the limit, kept unapplied, applied.
LEMMA Handled ==
  ASSUME NEW r \in Built, NEW x \in Tx, NEW i \in Nat, NEW cut \in Nat
  PROVE  LET s == handle_tx(r, x, i, cut)
         IN  \/ s = r /\ (r.stop \/ (i <= cut /\ ~ Accepts(r, x)))
             \/ /\ ~ r.stop /\ i > cut /\ r.size >= MaxMempool /\ s.stop
                /\ s.pending = r.pending /\ s.size = r.size /\ s.session = r.session
             \/ /\ ~ r.stop /\ i > cut /\ ~ s.stop
                /\ s.pending = Append(r.pending, x) /\ s.session = r.session
                /\ s.size = r.size + Size[x]
             \/ /\ ~ r.stop /\ i <= cut /\ ~ s.stop /\ Accepts(r, x)
                /\ s.pending = Append(r.pending, x) /\ s.session = Append(r.session, x)
                /\ s.size = r.size + Size[x]
<1>1. r \in [pending : Seq(Tx), size : Nat, session : Seq(Tx), stop : BOOLEAN]
  BY DEF Built
<1> DEFINE full == [r EXCEPT !.stop = TRUE]
           kept == [r EXCEPT !.pending = Append(r.pending, x), !.size = r.size + Size[x]]
           applied == [r EXCEPT !.pending = Append(r.pending, x),
                                !.size = r.size + Size[x],
                                !.session = Append(r.session, x)]
<1>2. /\ full.stop /\ full.pending = r.pending /\ full.size = r.size
      /\ full.session = r.session
  BY <1>1
<1>3. /\ kept.stop = r.stop /\ kept.pending = Append(r.pending, x)
      /\ kept.size = r.size + Size[x] /\ kept.session = r.session
  BY <1>1
<1>4. /\ applied.stop = r.stop /\ applied.pending = Append(r.pending, x)
      /\ applied.size = r.size + Size[x] /\ applied.session = Append(r.session, x)
  BY <1>1
<1>5. r.stop \in BOOLEAN
  BY <1>1
<1>6. Accepts(r, x) <=> /\ until[x] > head_block_time(chain)
                        /\ ~is_known_transaction(x, chain, r.session)
                        /\ Applies(x, chain, r.session, until[x])
  BY DEF Accepts, Applies
<1>7. handle_tx(r, x, i, cut) =
        IF r.stop THEN r
        ELSE IF i > cut THEN IF r.size >= MaxMempool THEN full ELSE kept
        ELSE IF Accepts(r, x) THEN applied ELSE r
  BY <1>6 DEF handle_tx
<1> HIDE DEF full, kept, applied
<1>8. i > cut <=> ~ (i <= cut)
  OBVIOUS
<1> QED  BY <1>2, <1>3, <1>4, <1>5, <1>7, <1>8

\* What a step of the restorer's loop leaves behind.
LEMMA LoopStep ==
  ASSUME popped \in Seq(Tx), aside \in Seq(Tx), NEW cut \in Nat,
         NEW h, Restoring(h, cut), NEW k \in 1 .. Len(Todo)
  PROVE  /\ k - 1 \in 0 .. Len(Todo) /\ h[k - 1] \in Built /\ h[k] \in Built
         /\ Todo[k] \in Tx /\ k \in Nat
         /\ h[k] = handle_tx(h[k - 1], Todo[k], k, cut)
<1>1. Len(Todo) \in Nat /\ \A j \in 1 .. Len(Todo) : Todo[j] \in Tx
  BY ConcatProperties DEF Todo
<1>2. k - 1 \in 0 .. Len(Todo) /\ k \in 0 .. Len(Todo) /\ k \in Nat
  BY <1>1
<1>3. h[k - 1] \in Built /\ h[k] \in Built
  BY <1>2 DEF Restoring
<1>4. h[k] = handle_tx(h[k - 1], Todo[k], k, cut)
  BY DEF Restoring
<1> QED  BY <1>1, <1>2, <1>3, <1>4

\* The session grows, and what enters it is applied at that place.
LEMMA SessionGrows ==
  ASSUME popped \in Seq(Tx), aside \in Seq(Tx), NEW cut \in Nat,
         NEW h, Restoring(h, cut), NEW k \in 0 .. Len(Todo), NEW m \in k .. Len(Todo)
  PROVE  /\ Range(h[k].session) \subseteq Range(h[m].session)
         /\ \A y \in Range(h[m].session) \ Range(h[k].session) :
              \E j \in k + 1 .. m : Todo[j] = y /\ j <= cut /\ Accepts(h[j - 1], y)
<1> DEFINE n == Len(Todo)
           P(l) == /\ Range(h[k].session) \subseteq Range(h[l].session)
                   /\ \A y \in Range(h[l].session) \ Range(h[k].session) :
                        \E j \in k + 1 .. l : Todo[j] = y /\ j <= cut /\ Accepts(h[j - 1], y)
           S == {d \in 0 .. n - k : P(k + d)}
<1>1. n \in Nat /\ k \in Nat /\ n - k \in Nat
  BY ConcatProperties DEF Todo
<1>2. 0 \in S
  BY <1>1
<1>3. ASSUME NEW d \in 1 .. n - k, d - 1 \in S PROVE d \in S
  <2> DEFINE l == k + d
             x == Todo[l]
  <2>1. l \in 1 .. n /\ l - 1 = k + (d - 1) /\ d \in 0 .. n - k /\ l \in Nat
    BY <1>1
  <2>2. P(l - 1)
    BY <1>3, <2>1
  <2> HIDE DEF l
  <2>3. /\ h[l - 1] \in Built /\ h[l] \in Built /\ x \in Tx
        /\ h[l] = handle_tx(h[l - 1], x, l, cut)
    BY <2>1, LoopStep
  <2> HIDE DEF x
  <2>4. \/ h[l].session = h[l - 1].session
        \/ /\ h[l].session = Append(h[l - 1].session, x)
           /\ l <= cut /\ Accepts(h[l - 1], x)
    <3> DEFINE r == h[l - 1]
               s == h[l]
    <3>1. r \in Built /\ s = handle_tx(r, x, l, cut)
      BY <2>3
    <3> HIDE DEF r, s
    <3>2. s.session = r.session \/ (s.session = Append(r.session, x) /\ l <= cut /\ Accepts(r, x))
      BY <2>1, <2>3, <3>1, Handled
    <3> QED  BY <3>2 DEF r, s
  <2>5. CASE h[l].session = h[l - 1].session
    <3>1. \A j \in k + 1 .. l - 1 : j \in k + 1 .. l
      BY <2>1
    <3>2. P(l)
      BY <2>2, <2>5, <3>1
    <3> QED  BY <2>1, <3>2 DEF l
  <2>6. CASE /\ h[l].session = Append(h[l - 1].session, x)
             /\ l <= cut /\ Accepts(h[l - 1], x)
    <3>1. Range(h[l].session) = Range(h[l - 1].session) \cup {x}
      BY <2>3, <2>6, RangeAppend DEF Built
    <3>2. \A j \in k + 1 .. l - 1 : j \in k + 1 .. l
      BY <2>1
    <3>3. l \in k + 1 .. l
      BY <1>1, <2>1, <1>3 DEF l
    <3>4. P(l)
      BY <2>2, <2>6, <3>1, <3>2, <3>3 DEF x
    <3> QED  BY <2>1, <3>4 DEF l
  <2> QED  BY <2>4, <2>5, <2>6
<1>4. \A d \in 0 .. n - k : d \in S
  <2> HIDE DEF S
  <2> QED  BY <1>1, <1>2, <1>3, UpTo
<1>5. m - k \in 0 .. n - k /\ k + (m - k) = m
  BY <1>1
<1>6. P(k + (m - k))
  BY <1>4, <1>5
<1> HIDE DEF P
<1>7. P(m)
  BY <1>5, <1>6
<1> QED  BY <1>7 DEF P

\* The needs of a list of transactions that apply one after the other.
InTurn(s) ==
  \A p \in DOMAIN s : \A y \in Needs[s[p]] :
    y \in Included(chain) \/ \E q \in 1 .. p - 1 : s[q] = y

\* Until time is over, what is listed is what is applied; then the list goes on.
\* Nothing is left out then unless the limit is reached.
Loop(r, k, cut) ==
  /\ InTurn(r.session)
  /\ Len(r.session) <= Len(r.pending)
  /\ \A p \in 1 .. Len(r.session) : r.pending[p] = r.session[p]
  /\ k <= cut => Len(r.session) = Len(r.pending) /\ ~ r.stop
  /\ r.stop => r.size >= MaxMempool
  /\ r.size >= MaxMempool \/ \A j \in cut + 1 .. k : Todo[j] \in Range(r.pending)

\* The restorer's loop keeps that.
LEMMA LoopKept ==
  ASSUME popped \in Seq(Tx), aside \in Seq(Tx), NEW cut \in Nat,
         NEW h, Restoring(h, cut)
  PROVE  \A k \in 0 .. Len(Todo) : Loop(h[k], k, cut)
<1> DEFINE n == Len(Todo)
           S == {k \in 0 .. n : Loop(h[k], k, cut)}
<1>1. n \in Nat /\ 0 \in 0 .. n
  BY ConcatProperties DEF Todo
<1>2. 0 \in S
  <2>1. h[0].session = <<>> /\ h[0].pending = <<>> /\ h[0].stop = FALSE
    BY DEF Restoring
  <2>2. cut + 1 .. 0 = {}
    OBVIOUS
  <2>3. Loop(h[0], 0, cut)
    BY <2>1, <2>2 DEF Loop, InTurn
  <2> QED  BY <1>1, <2>3
<1>3. ASSUME NEW k \in 1 .. n, k - 1 \in S PROVE k \in S
  <2> DEFINE x == Todo[k]
             r == h[k - 1]
             s == h[k]
  <2>1. /\ r \in Built /\ s \in Built /\ x \in Tx /\ k \in Nat /\ k \in 0 .. n
        /\ s = handle_tx(r, x, k, cut) /\ k - 1 \in Int
    BY LoopStep
  <2>2. Loop(r, k - 1, cut)
    BY <1>3
  <2>3. /\ r.pending \in Seq(Tx) /\ r.session \in Seq(Tx) /\ r.size \in Nat
        /\ r.stop \in BOOLEAN /\ Size[x] \in Nat /\ MaxMempool \in Nat
    BY <2>1, PendingAssumption DEF Built
  <2>4. \A j \in cut + 1 .. k : j \in cut + 1 .. k - 1 \/ (j = k /\ Todo[j] = x)
    BY <2>1
  <2>5. k <= cut => k - 1 <= cut /\ cut + 1 .. k = {}
    BY <2>1
  <2>6. Loop(s, k, cut)
    <3> HIDE DEF x, r, s
    <3>1. CASE s = r /\ (r.stop \/ (k <= cut /\ ~ Accepts(r, x)))
      <4>1. k <= cut => ~ r.stop
        BY <2>2, <2>5 DEF Loop
      <4>2. s.stop => s.size >= MaxMempool
        BY <2>2, <3>1 DEF Loop
      <4>3. s.size >= MaxMempool \/ \A j \in cut + 1 .. k : Todo[j] \in Range(s.pending)
        BY <2>2, <2>5, <3>1 DEF Loop
      <4> QED  BY <2>2, <2>5, <3>1, <4>1, <4>2, <4>3 DEF Loop
    <3>2. CASE /\ ~ r.stop /\ k > cut /\ r.size >= MaxMempool /\ s.stop
               /\ s.pending = r.pending /\ s.size = r.size /\ s.session = r.session
      BY <2>1, <2>2, <3>2 DEF Loop
    <3>3. CASE /\ ~ r.stop /\ k > cut /\ ~ s.stop
               /\ s.pending = Append(r.pending, x) /\ s.session = r.session
               /\ s.size = r.size + Size[x]
      <4>1. /\ Len(s.pending) = Len(r.pending) + 1 /\ Len(r.pending) \in Nat
            /\ Len(r.session) \in Nat
            /\ \A p \in 1 .. Len(r.pending) : s.pending[p] = r.pending[p]
        BY <2>1, <2>3, <3>3, SMTT(60)
      <4>2. Range(s.pending) = Range(r.pending) \cup {x}
        BY <2>1, <2>3, <3>3, RangeAppend
      <4>3. r.size >= MaxMempool => s.size >= MaxMempool
        BY <2>3, <3>3
      <4>4. s.size >= MaxMempool \/ \A j \in cut + 1 .. k : Todo[j] \in Range(s.pending)
        BY <2>2, <2>4, <4>2, <4>3 DEF Loop
      <4>5. /\ Len(s.session) <= Len(s.pending)
            /\ \A p \in 1 .. Len(s.session) : s.pending[p] = s.session[p]
        BY <2>2, <3>3, <4>1 DEF Loop
      <4> QED  BY <2>1, <2>2, <3>3, <4>4, <4>5 DEF Loop
    <3>4. CASE /\ ~ r.stop /\ k <= cut /\ ~ s.stop /\ Accepts(r, x)
               /\ s.pending = Append(r.pending, x) /\ s.session = Append(r.session, x)
               /\ s.size = r.size + Size[x]
      <4>1. /\ Len(s.pending) = Len(r.pending) + 1 /\ Len(r.pending) \in Nat
            /\ Len(s.session) = Len(r.session) + 1
            /\ DOMAIN s.session = 1 .. Len(r.session) + 1
            /\ DOMAIN r.session = 1 .. Len(r.session)
            /\ s.session[Len(r.session) + 1] = x
            /\ s.pending[Len(r.pending) + 1] = x
            /\ \A p \in 1 .. Len(r.pending) : s.pending[p] = r.pending[p]
            /\ \A p \in 1 .. Len(r.session) : s.session[p] = r.session[p]
        BY <2>1, <2>3, <3>4, SMTT(60)
      <4>2. /\ Len(r.session) = Len(r.pending)
            /\ \A p \in 1 .. Len(r.session) : r.pending[p] = r.session[p]
            /\ InTurn(r.session)
        BY <2>2, <2>5, <3>4 DEF Loop
      <4>3. \A p \in 1 .. Len(s.session) : s.pending[p] = s.session[p]
        <5> TAKE p \in 1 .. Len(s.session)
        <5>1. p \in 1 .. Len(r.session) \/ p = Len(r.session) + 1
          BY <4>1, <4>2
        <5> QED  BY <4>1, <4>2, <5>1
      <4>4. \A y \in Needs[x] : y \in Included(chain) \/ \E q \in 1 .. Len(r.session) : r.session[q] = y
        BY <3>4, <4>1, SMTT(60) DEF Accepts, Applies, Range
      <4>5. InTurn(s.session)
        <5> SUFFICES ASSUME NEW p \in 1 .. Len(r.session) + 1, NEW y \in Needs[s.session[p]],
                            y \notin Included(chain)
                     PROVE  \E q \in 1 .. p - 1 : s.session[q] = y
          BY <4>1 DEF InTurn
        <5>1. CASE p = Len(r.session) + 1
          <6>1. p - 1 = Len(r.session) /\ s.session[p] = x
            BY <4>1, <4>2, <5>1
          <6> QED  BY <4>1, <4>4, <6>1
        <5>2. CASE p # Len(r.session) + 1
          <6>1. p \in 1 .. Len(r.session) /\ \A q \in 1 .. p - 1 : q \in 1 .. Len(r.session)
            BY <4>1, <4>2, <5>2, SMTT(60)
          <6>2. \E q \in 1 .. p - 1 : r.session[q] = y
            BY <4>1, <4>2, <6>1 DEF InTurn
          <6> QED  BY <4>1, <6>1, <6>2
        <5> QED  BY <5>1, <5>2
      <4> QED  BY <2>5, <3>4, <4>1, <4>2, <4>3, <4>5, SMTT(60) DEF Loop
    <3> QED  BY <2>1, <3>1, <3>2, <3>3, <3>4, Handled, SMTT(60)
  <2> QED  BY <2>1, <2>6
<1>4. \A k \in 0 .. n : k \in S
  <2> HIDE DEF S
  <2> QED  BY <1>1, <1>2, <1>3, UpTo
<1> QED  BY <1>4

\* Places G of a list s at which nothing is too early: what the transaction needs
\* is in inc, has such a place before it, or comes only before it.
Rooted(G, s, inc) ==
  \A i \in G : \A y \in Needs[s[i]] :
    \/ y \in inc
    \/ \E k \in G : k < i /\ s[k] = y
    \/ \A j \in DOMAIN s : s[j] = y => j < i

\* A transaction that is not applied at such a place would not apply later: what
\* enters the session behind it is nothing it needs.
LEMMA NeverLater ==
  ASSUME popped \in Seq(Tx), aside \in Seq(Tx), NEW cut \in Nat,
         NEW h, Restoring(h, cut),
         NEW G \in SUBSET (DOMAIN Todo), Rooted(G, Todo, Included(chain)),
         NEW i \in G, i <= cut
  PROVE  \A j \in i .. Len(Todo) : ~ Accepts(h[j], Todo[i])
<1> DEFINE n == Len(Todo)
           P(k) == \A j \in k .. n : ~ Accepts(h[j], Todo[k])
           Bad == {k \in G : k <= cut /\ ~ P(k)}
<1> SUFFICES ASSUME Bad # {} PROVE FALSE
  OBVIOUS
<1>1. /\ n \in Nat /\ DOMAIN Todo = 1 .. n /\ Bad \subseteq Nat
      /\ \A k \in 1 .. n : Todo[k] \in Tx
  BY ConcatProperties DEF Todo
<1>2. PICK k \in Bad : \A m \in Bad : k <= m
  BY <1>1, LeastNat
<1> DEFINE x == Todo[k]
<1>3. PICK j \in k .. n : Accepts(h[j], x)
  OBVIOUS
<1>4. /\ k \in 1 .. n /\ k \in 0 .. n /\ k - 1 \in 0 .. n /\ k <= cut /\ j \in k - 1 .. n
      /\ j \in Nat /\ k \in G /\ k \in Nat
  BY <1>1, <1>2
<1>5. \A m \in G : m < k => P(m)
  BY <1>1, <1>2, <1>4, SMTT(60)
<1> HIDE DEF Bad, x
<1>6. /\ h[k - 1] \in Built /\ h[k] \in Built /\ h[k] = handle_tx(h[k - 1], x, k, cut)
      /\ x \in Tx
  BY <1>4, LoopStep DEF x
<1>7. /\ Range(h[k - 1].session) \subseteq Range(h[j].session)
      /\ Range(h[k].session) \subseteq Range(h[j].session)
  BY <1>3, <1>4, SessionGrows
<1>8. x \notin Range(h[j].session)
  BY <1>3 DEF Accepts, Applies, is_known_transaction
<1>9. ~ Accepts(h[k - 1], x)
  <2> SUFFICES ASSUME Accepts(h[k - 1], x) PROVE FALSE
    OBVIOUS
  <2>1. Loop(h[k - 1], k - 1, cut) /\ k - 1 <= cut
    BY <1>4, LoopKept
  <2>2. ~ h[k - 1].stop
    BY <2>1 DEF Loop
  <2>3. h[k].session = Append(h[k - 1].session, x)
    <3> DEFINE r == h[k - 1]
               s == h[k]
    <3>1. r \in Built /\ s = handle_tx(r, x, k, cut) /\ ~ r.stop /\ Accepts(r, x)
      BY <1>6, <2>2
    <3> HIDE DEF r, s
    <3>2. s.session = Append(r.session, x)
      BY <1>4, <1>6, <3>1, Handled, SMTT(60)
    <3> QED  BY <3>2 DEF r, s
  <2>4. x \in Range(h[k].session)
    BY <1>6, <2>3, RangeAppend, SMTT(60) DEF Built
  <2> QED  BY <1>7, <1>8, <2>4
<1>10. PICK y \in Needs[x] : /\ y \notin Included(chain) /\ y \notin Range(h[k - 1].session)
                             /\ y \in Range(h[j].session)
  BY <1>3, <1>7, <1>9 DEF Accepts, Applies, is_known_transaction
<1>11. PICK m \in k .. j : Todo[m] = y /\ m <= cut /\ Accepts(h[m - 1], y)
  <2>1. \E m \in (k - 1) + 1 .. j : Todo[m] = y /\ m <= cut /\ Accepts(h[m - 1], y)
    <3> DEFINE l == k - 1
    <3>1. l \in 0 .. Len(Todo) /\ j \in l .. Len(Todo) /\ y \in Range(h[j].session) \ Range(h[l].session)
      BY <1>4, <1>10
    <3> HIDE DEF l
    <3>2. \E m \in l + 1 .. j : Todo[m] = y /\ m <= cut /\ Accepts(h[m - 1], y)
      BY <3>1, SessionGrows
    <3> QED  BY <3>2 DEF l
  <2>2. (k - 1) + 1 = k
    BY <1>4
  <2> QED  BY <2>1, <2>2
<1>12. m \in DOMAIN Todo /\ m \in Nat /\ ~ (m < k)
  BY <1>1, <1>4
<1>13. CASE \E l \in G : l < k /\ Todo[l] = y
  <2>1. PICK l \in G : l < k /\ Todo[l] = y
    BY <1>13
  <2>2. m - 1 \in l .. n
    BY <1>1, <1>4, <2>1
  <2> QED  BY <1>5, <1>11, <2>1, <2>2
<1>14. CASE \A l \in DOMAIN Todo : Todo[l] = y => l < k
  BY <1>11, <1>12, <1>14
<1> QED  BY <1>4, <1>10, <1>13, <1>14 DEF Rooted, x

------------------------------------------------------------------------------
(* Nothing is restored too early. *)

\* The blocks of the chain in the order of their needs.
ChainRooted(c) ==
  \A i \in DOMAIN c : \A p \in DOMAIN c[i].txs : \A y \in Needs[c[i].txs[p]] :
    \/ \E j \in 1 .. i - 1 : y \in Range(c[j].txs)
    \/ \E q \in 1 .. p - 1 : c[i].txs[q] = y

\* What the restorer will go through, once a request begins.
Listed == popped \o (IF phase = "idle" THEN pending ELSE aside)

\* What it must not drop for lack of something it drops later.
Due ==
  (IF phase = "idle" THEN Range(session) ELSE shown \cup Range(popped)) \ favoured

\* Every transaction that is due has a place at which it is not too early.
Placed(G) ==
  /\ Rooted(G, Listed, Included(chain))
  /\ \A x \in Due : \E i \in G : Listed[i] = x
  /\ phase = "idle" =>
       \A i \in G : Needs[Listed[i]] \subseteq Included(chain) \cup Range(session)

Ordered ==
  /\ ChainRooted(chain)
  /\ phase = "idle" => Range(popped) \subseteq favoured
  /\ \E G \in SUBSET (DOMAIN Listed) : Placed(G)

\* A block whose transactions apply extends the chain in the order of needs.
LEMMA RootedExtended ==
  ASSUME IInv, ChainRooted(chain), NEW b \in [time : Nat, txs : Seq(Tx)],
         BlockApplies(b.txs, chain, TRUE)
  PROVE  /\ ChainRooted(Append(chain, b))
         /\ Included(chain) \subseteq Included(Append(chain, b))
<1> DEFINE B == [time : Nat, txs : Seq(Tx)]
           c == Append(chain, b)
           n == Len(chain)
           T == b.txs
<1>1. /\ chain \in Seq(B) /\ n \in Nat /\ DOMAIN chain = 1 .. n
      /\ DOMAIN c = 1 .. n + 1
      /\ c[n + 1] = b /\ \A i \in 1 .. n : c[i] = chain[i]
  <2>1. chain \in Seq(B) /\ b \in B
    BY GoodChainNow DEF GoodChain
  <2> HIDE DEF B
  <2> QED  BY <2>1
<1>2. T \in Seq(Tx) /\ DOMAIN T = 1 .. Len(T) /\ Len(T) \in Nat
  OBVIOUS
<1> HIDE DEF B, c, n
<1>3. ASSUME NEW p \in DOMAIN T, NEW y \in Needs[T[p]], y \notin Included(chain)
      PROVE  \E q \in 1 .. p - 1 : T[q] = y
  <2> DEFINE s == SubSeq(T, 1, p - 1)
  <2>1. Applies(T[p], chain, s, until[T[p]])
    BY DEF BlockApplies
  <2>2. DOMAIN s = 1 .. p - 1 /\ \A q \in 1 .. p - 1 : s[q] = T[q]
    BY <1>2
  <2>3. y \in Range(s)
    BY <1>3, <2>1 DEF Applies
  <2> HIDE DEF s
  <2> QED  BY <2>2, <2>3 DEF Range
<1>4. \A y \in Included(chain) : \E j \in 1 .. n : y \in Range(chain[j].txs)
  BY <1>1 DEF Included
<1>5. ChainRooted(c)
  <2> SUFFICES ASSUME NEW i \in 1 .. n + 1, NEW p \in DOMAIN c[i].txs, NEW y \in Needs[c[i].txs[p]]
               PROVE  \/ \E j \in 1 .. i - 1 : y \in Range(c[j].txs)
                      \/ \E q \in 1 .. p - 1 : c[i].txs[q] = y
    BY <1>1 DEF ChainRooted
  <2>1. CASE i = n + 1
    <3>1. c[i] = b /\ i - 1 = n
      BY <1>1, <2>1
    <3>2. CASE y \in Included(chain)
      BY <1>1, <1>4, <3>1, <3>2
    <3>3. CASE y \notin Included(chain)
      BY <1>3, <3>1, <3>3
    <3> QED  BY <3>2, <3>3
  <2>2. CASE i # n + 1
    <3>1. i \in 1 .. n /\ c[i] = chain[i] /\ \A j \in 1 .. i - 1 : j \in 1 .. n
      BY <1>1, <2>2
    <3>2. \A j \in 1 .. i - 1 : c[j] = chain[j]
      BY <1>1, <3>1
    <3>3. i \in DOMAIN chain /\ p \in DOMAIN chain[i].txs /\ y \in Needs[chain[i].txs[p]]
      BY <1>1, <3>1
    <3>4. \/ \E j \in 1 .. i - 1 : y \in Range(chain[j].txs)
          \/ \E q \in 1 .. p - 1 : chain[i].txs[q] = y
      BY <3>3 DEF ChainRooted
    <3> QED  BY <3>1, <3>2, <3>4
  <2> QED  BY <2>1, <2>2
<1>6. Included(chain) \subseteq Included(c)
  <2> SUFFICES ASSUME NEW y \in Included(chain) PROVE y \in Included(c)
    OBVIOUS
  <2>1. PICK j \in 1 .. n : y \in Range(chain[j].txs)
    BY <1>4
  <2>2. j \in DOMAIN c /\ c[j] = chain[j]
    BY <1>1
  <2> QED  BY <2>1, <2>2 DEF Included
<1> QED  BY <1>5, <1>6 DEF c

\* What is on the chain makes a place good, and more of it does too.
LEMMA RootedMore ==
  ASSUME NEW G, NEW s, NEW inc, Rooted(G, s, inc), NEW more, inc \subseteq more
  PROVE  Rooted(G, s, more)
  BY DEF Rooted

\* Places K of a list r that are those of s in H and those of t in G.
Joined(K, r, s, H, t, G) ==
  /\ \A i \in G : \E k \in K : r[k] = t[i]
  /\ \A p \in H : \E k \in K : r[k] = s[p]
  /\ \A k \in K : (\E p \in H : r[k] = s[p]) \/ \E i \in G : r[k] = t[i]

\* A list put in front of another (push_front of _popped_tx).
LEMMA RootedBehind ==
  ASSUME NEW s \in Seq(Tx), NEW t \in Seq(Tx), NEW G \in SUBSET (DOMAIN t),
         NEW H \in SUBSET (DOMAIN s), NEW inc, NEW less, Rooted(G, t, inc),
         \A y \in inc : y \in less \/ \E q \in H : s[q] = y,
         \A p \in H : \A y \in Needs[s[p]] : y \in less \/ \E q \in H : q < p /\ s[q] = y
  PROVE  \E K \in SUBSET (DOMAIN (s \o t)) :
           Rooted(K, s \o t, less) /\ Joined(K, s \o t, s, H, t, G)
<1> DEFINE r == s \o t
           L == Len(s)
           K == H \cup {L + i : i \in G}
<1>1. /\ L \in Nat /\ Len(t) \in Nat /\ DOMAIN s = 1 .. L /\ DOMAIN t = 1 .. Len(t)
      /\ DOMAIN r = 1 .. L + Len(t)
      /\ \A p \in 1 .. L : r[p] = s[p]
      /\ \A i \in 1 .. Len(t) : r[L + i] = t[i]
  BY ConcatProperties
<1>2. /\ \A i \in G : i \in 1 .. Len(t) /\ i \in Nat
      /\ \A p \in H : p \in 1 .. L /\ p \in Nat
  BY <1>1
<1> HIDE DEF r, L
<1>3. K \in SUBSET (DOMAIN r)
  BY <1>1, <1>2
<1>4. \A i \in G : L + i \in K /\ r[L + i] = t[i]
  BY <1>1, <1>2
<1>5. \A p \in H : p \in K /\ r[p] = s[p]
  BY <1>1, <1>2
<1>6. ASSUME NEW k \in K, NEW y \in Needs[r[k]]
      PROVE  \/ y \in less
             \/ \E m \in K : m < k /\ r[m] = y
             \/ \A j \in DOMAIN r : r[j] = y => j < k
  <2>1. CASE k \in H
    BY <1>5, <2>1
  <2>2. ASSUME NEW i \in G, k = L + i
        PROVE  \/ y \in less
               \/ \E m \in K : m < k /\ r[m] = y
               \/ \A j \in DOMAIN r : r[j] = y => j < k
    <3>1. /\ y \in Needs[t[i]] /\ i \in 1 .. Len(t) /\ \A q \in H : q < k
      BY <1>1, <1>2, <1>4, <2>2
    <3>2. CASE y \in inc
      <4>1. CASE \E q \in H : s[q] = y
        BY <1>5, <3>1, <4>1
      <4> QED  BY <3>2, <4>1
    <3>3. CASE \E l \in G : l < i /\ t[l] = y
      <4>1. PICK l \in G : l < i /\ t[l] = y
        BY <3>3
      <4>2. L + l \in K /\ r[L + l] = y /\ L + l < k
        BY <1>1, <1>2, <1>4, <2>2, <4>1
      <4> QED  BY <4>2
    <3>4. CASE \A j \in DOMAIN t : t[j] = y => j < i
      <4> SUFFICES ASSUME NEW j \in DOMAIN r, r[j] = y PROVE j < k
        OBVIOUS
      <4>1. CASE j \in 1 .. L
        BY <1>1, <2>2, <3>1, <4>1
      <4>2. CASE j \notin 1 .. L
        <5>1. j - L \in 1 .. Len(t) /\ j = L + (j - L)
          <6>1. j \in 1 .. L + Len(t) /\ ~ (j <= L)
            BY <1>1, <4>2
          <6>2. L \in Nat /\ Len(t) \in Nat
            BY <1>1
          <6> QED  BY <6>1, <6>2
        <5>2. t[j - L] = y
          BY <1>1, <5>1
        <5>3. j - L < i
          BY <1>1, <3>4, <5>1, <5>2
        <5> QED  BY <1>1, <2>2, <3>1, <5>1, <5>3
      <4> QED  BY <4>1, <4>2
    <3> QED  BY <3>1, <3>2, <3>3, <3>4 DEF Rooted
  <2> QED  BY <2>1, <2>2
<1>7. Rooted(K, r, less)
  BY <1>6 DEF Rooted
<1>8. Joined(K, r, s, H, t, G)
  BY <1>4, <1>5 DEF Joined
<1> HIDE DEF K
<1> QED  BY <1>3, <1>7, <1>8 DEF r

\* The elements of a concatenation are those of its parts.
LEMMA ConcatRange ==
  ASSUME NEW s \in Seq(Tx), NEW t \in Seq(Tx)
  PROVE  \A z \in Range(s \o t) : z \in Range(s) \cup Range(t)
<1> DEFINE r == s \o t
<1>1. /\ Len(s) \in Nat /\ Len(t) \in Nat /\ DOMAIN s = 1 .. Len(s) /\ DOMAIN t = 1 .. Len(t)
      /\ DOMAIN r = 1 .. Len(s) + Len(t)
  BY ConcatProperties
<1> SUFFICES ASSUME NEW i \in DOMAIN r PROVE r[i] \in Range(s) \cup Range(t)
  BY DEF Range
<1>2. CASE i <= Len(s)
  <2>1. i \in DOMAIN s /\ r[i] = s[i]
    BY <1>1, <1>2
  <2> QED  BY <2>1 DEF Range
<1>3. CASE ~ (i <= Len(s))
  <2>1. i - Len(s) \in DOMAIN t /\ r[i] = t[i - Len(s)]
    BY <1>1, <1>3
  <2> QED  BY <2>1 DEF Range
<1> QED  BY <1>2, <1>3

\* What holds of the next list, chain and session makes the next state ordered.
LEMMA OrderedNext ==
  ASSUME NEW s, Listed' = s, NEW inc, Included(chain') = inc, NEW due, Due' \subseteq due,
         NEW G \in SUBSET (DOMAIN s), Rooted(G, s, inc),
         \A x \in due : \E i \in G : s[i] = x,
         ChainRooted(chain'),
         phase' = "idle" =>
           /\ Range(popped') \subseteq favoured'
           /\ \A i \in G : Needs[s[i]] \subseteq inc \cup Range(session')
  PROVE  Ordered'
<1>1. Placed(G)'
  BY DEF Placed, Rooted
<1>2. ChainRooted(chain)' /\ G \in SUBSET (DOMAIN Listed')
  BY DEF ChainRooted
<1> QED  BY <1>1, <1>2 DEF Ordered

\* A node starts with nothing to restore.
LEMMA InitOrdered == Init => Ordered
<1> SUFFICES ASSUME Init PROVE Ordered
  OBVIOUS
<1>1. DOMAIN chain = {1} /\ chain[1].txs = <<>>
  BY DEF Init
<1>2. ChainRooted(chain)
  BY <1>1 DEF ChainRooted
<1>3. Range(popped) = {} /\ Range(session) = {} /\ phase = "idle"
  BY RangeEmpty DEF Init
<1>4. Placed({})
  BY <1>3 DEF Placed, Rooted, Due
<1> QED  BY <1>2, <1>3, <1>4 DEF Ordered

\* Three lists put one behind the other, whichever two first.
LEMMA Regroup ==
  ASSUME NEW s \in Seq(Tx), NEW t \in Seq(Tx), NEW u \in Seq(Tx)
  PROVE  (s \o t) \o u = s \o (t \o u)
BY ConcatAssociative

\* A transaction that applies comes last, or first if it is privileged.
LEMMA PushOrdered ==
  ASSUME IInv, Ordered, NEW x \in Tx, _push_transaction(x)
  PROVE  Ordered'
<1> DEFINE inc == Included(chain)
           s == Listed
<1>1. /\ phase = "idle" /\ phase' = "idle" /\ chain' = chain
      /\ session' = Append(session, x) /\ Applies(x, chain, session, until[x])
  BY DEF _push_transaction
<1>2. /\ pending \in Seq(Tx) /\ popped \in Seq(Tx) /\ session \in Seq(Tx)
  BY DEF IInv, TypeOK
<1>3. s = popped \o pending /\ Due = Range(session) \ favoured
  BY <1>1 DEF Listed, Due
<1>4. /\ s \in Seq(Tx) /\ Len(s) \in Nat /\ DOMAIN s = 1 .. Len(s)
  BY <1>2, <1>3, ConcatProperties
<1>5. ChainRooted(chain') /\ Included(chain') = inc /\ Range(popped) \subseteq favoured
  BY <1>1 DEF Ordered
<1>6. PICK G \in SUBSET (DOMAIN s) : Placed(G)
  BY DEF Ordered
<1>7. /\ Rooted(G, s, inc)
      /\ \A z \in Due : \E i \in G : s[i] = z
      /\ \A i \in G : Needs[s[i]] \subseteq inc \cup Range(session)
  BY <1>1, <1>6 DEF Placed
<1>8. /\ Range(session') = Range(session) \cup {x} /\ x \notin Range(session)
      /\ Needs[x] \subseteq inc \cup Range(session)
  BY <1>1, <1>2, RangeAppend DEF Applies, is_known_transaction
<1> HIDE DEF s, inc
<1>9. CASE IsPrivileged(x)
  <2> DEFINE f == <<x>>
             t == f \o s
  <2>1. popped' = f \o popped /\ favoured' = favoured \cup {x} /\ pending' = pending
    BY <1>9 DEF _push_transaction
  <2>2. f \in Seq(Tx) /\ Len(f) = 1 /\ DOMAIN f = {1} /\ Range(f) = {x}
    BY DEF Range
  <2> HIDE DEF f
  <2>3. Listed' = (f \o popped) \o pending
    BY <1>1, <2>1 DEF Listed
  <2>4. Listed' = t
    <3>1. (f \o popped) \o pending = f \o (popped \o pending)
      BY <1>2, <2>2, Regroup, ZenonT(60)
    <3> QED  BY <1>3, <2>3, <3>1
  <2>5. /\ {} \in SUBSET (DOMAIN f)
        /\ \A y \in inc : y \in inc \/ \E q \in {} : f[q] = y
        /\ \A p \in {} : \A y \in Needs[f[p]] : y \in inc \/ \E q \in {} : q < p /\ f[q] = y
    OBVIOUS
  <2>6. PICK K \in SUBSET (DOMAIN t) : Rooted(K, t, inc) /\ Joined(K, t, f, {}, s, G)
    BY <1>4, <1>6, <1>7, <2>2, <2>5, RootedBehind, Zenon
  <2>7. Due' \subseteq Due
    BY <1>1, <1>3, <1>8, <2>1 DEF Due
  <2>8. \A z \in Due : \E k \in K : t[k] = z
    BY <1>7, <2>6 DEF Joined
  <2>9. \A k \in K : Needs[t[k]] \subseteq inc \cup Range(session')
    BY <1>7, <1>8, <2>6 DEF Joined
  <2>10. Range(popped') \subseteq favoured'
    <3>1. \A z \in Range(f \o popped) : z \in Range(f) \cup Range(popped)
      BY <1>2, <2>2, ConcatRange
    <3> QED  BY <1>5, <2>1, <2>2, <3>1
  <2> HIDE DEF t
  <2> QED  BY <1>1, <1>5, <2>4, <2>6, <2>7, <2>8, <2>9, <2>10, OrderedNext
<1>10. CASE ~ IsPrivileged(x)
  <2> DEFINE t == Append(s, x)
             n == Len(s) + 1
             K == G \cup {n}
  <2>1. popped' = popped /\ favoured' = favoured /\ pending' = Append(pending, x)
    BY <1>10 DEF _push_transaction
  <2>2. Listed' = popped \o Append(pending, x)
    BY <1>1, <2>1 DEF Listed
  <2>3. Listed' = t
    BY <1>2, <1>3, <2>2
  <2>4. /\ DOMAIN t = 1 .. n /\ t[n] = x /\ n \in Nat
        /\ \A i \in 1 .. Len(s) : t[i] = s[i]
        /\ \A i \in 1 .. n : i = n \/ i \in 1 .. Len(s)
    BY <1>4
  <2>5. /\ K \in SUBSET (DOMAIN t) /\ \A i \in G : i \in 1 .. Len(s) /\ i < n /\ t[i] = s[i]
        /\ n \in 1 .. n
    BY <1>4, <2>4
  <2> HIDE DEF t, n
  <2>6. Rooted(K, t, inc)
    <3> SUFFICES ASSUME NEW i \in K, NEW y \in Needs[t[i]], y \notin inc
                 PROVE  \/ \E k \in K : k < i /\ t[k] = y
                        \/ \A j \in DOMAIN t : t[j] = y => j < i
      BY DEF Rooted
    <3>1. CASE i = n
      <4>1. y # x
        BY <1>8, <2>4, <3>1
      <4> QED  BY <2>4, <3>1, <4>1, <1>4
    <3>2. CASE i \in G
      <4>1. y \in Needs[s[i]] /\ y # x
        BY <1>7, <1>8, <2>5, <3>2
      <4>2. CASE \E k \in G : k < i /\ s[k] = y
        BY <2>5, <4>2
      <4>3. CASE \A j \in DOMAIN s : s[j] = y => j < i
        BY <1>4, <2>4, <4>1, <4>3
      <4> QED  BY <1>7, <3>2, <4>1, <4>2, <4>3 DEF Rooted
    <3> QED  BY <3>1, <3>2
  <2>7. Due' = (Range(session) \cup {x}) \ favoured
    BY <1>1, <1>8, <2>1 DEF Due
  <2>8. \A z \in (Range(session) \cup {x}) \ favoured : \E k \in K : t[k] = z
    BY <1>3, <1>7, <2>4, <2>5
  <2>9. \A k \in K : Needs[t[k]] \subseteq inc \cup Range(session')
    BY <1>7, <1>8, <2>4, <2>5
  <2> HIDE DEF K
  <2> QED  BY <1>5, <2>1, <2>3, <2>5, <2>6, <2>7, <2>8, <2>9, OrderedNext
<1> QED  BY <1>9, <1>10

\* What is put aside stays in its place, whatever is then on the chain.
LEMMA AsideOrdered ==
  ASSUME IInv, Ordered, phase = "idle", phase' # "idle", Aside, popped' = popped,
         favoured' = favoured, ChainRooted(chain'), Included(chain) \subseteq Included(chain')
  PROVE  Ordered'
<1>1. aside' = pending /\ shown' = Range(session)
  BY DEF Aside
<1>2. Listed' = Listed
  BY <1>1 DEF Listed
<1>3. Due' \subseteq Due
  BY <1>1 DEF Due, Ordered
<1>4. PICK G \in SUBSET (DOMAIN Listed) : Placed(G)
  BY DEF Ordered
<1>5. /\ Rooted(G, Listed, Included(chain'))
      /\ \A x \in Due : \E i \in G : Listed[i] = x
  BY <1>4, RootedMore DEF Placed
<1> QED  BY <1>2, <1>3, <1>4, <1>5, OrderedNext

\* A block applied inside a request (apply_block).
LEMMA ApplyOrdered ==
  ASSUME IInv, Ordered, NEW b \in Blocks, apply_block(b)
  PROVE  Ordered'
<1>1. /\ phase = "open" /\ phase' = phase /\ popped' = popped /\ aside' = aside
      /\ shown' = shown /\ favoured' = favoured
      /\ chain' = chain \/ (BlockApplies(b.txs, chain, TRUE) /\ chain' = Append(chain, b))
  BY DEF apply_block
<1>2. ChainRooted(chain') /\ Included(chain) \subseteq Included(chain')
  BY <1>1, BlockType, RootedExtended DEF Ordered
<1>3. Listed' = Listed /\ Due' = Due
  BY <1>1 DEF Listed, Due
<1>4. PICK G \in SUBSET (DOMAIN Listed) : Placed(G)
  BY DEF Ordered
<1>5. /\ Rooted(G, Listed, Included(chain'))
      /\ \A x \in Due : \E i \in G : Listed[i] = x
  BY <1>2, <1>4, RootedMore DEF Placed
<1> QED  BY <1>1, <1>2, <1>3, <1>4, <1>5, OrderedNext

\* The producer's own block (generate_block).
LEMMA GenerateOrdered ==
  ASSUME IInv, Ordered, NEW t \in head_block_time(chain) + 1 .. MaxTime, generate_block(t)
  PROVE  Ordered'
<1> DEFINE txs == apply_pending_transactions(t)
           new == [time |-> t, txs |-> txs]
<1>1. txs \in Seq(Tx) /\ BlockApplies(txs, chain, TRUE)
  BY ChosenApply DEF IInv, TypeOK
<1>2. /\ phase = "idle" /\ Aside /\ phase' = "done" /\ popped' = popped
      /\ favoured' = favoured /\ chain' \in {chain, Append(chain, new)}
  <2> HIDE DEF txs
  <2> QED  BY DEF generate_block, txs
<1> HIDE DEF txs
<1>3. new \in [time : Nat, txs : Seq(Tx)] /\ new.txs = txs
  <2>1. head_block_time(chain) \in 1 .. MaxTime
    BY GoodChainNow, HeadTime
  <2>2. t \in Nat
    BY <2>1, PendingAssumption
  <2> QED  BY <1>1, <2>2
<1> HIDE DEF new
<1>4. ChainRooted(chain') /\ Included(chain) \subseteq Included(chain')
  BY <1>1, <1>2, <1>3, RootedExtended DEF Ordered
<1> QED  BY <1>2, <1>4, AsideOrdered

\* The transactions of a popped block come first, in their order (pop_block).
LEMMA PopOrdered ==
  ASSUME IInv, Ordered, pop_block
  PROVE  Ordered'
<1> DEFINE T == Last(chain).txs
           less == Included(chain')
           n == Len(chain)
           s == Listed
<1>1. /\ phase = "open" /\ phase' = phase /\ n > 1
      /\ popped' = T \o popped /\ chain' = Front(chain) /\ aside' = aside
      /\ shown' = shown /\ favoured' = favoured
  BY DEF pop_block
<1>2. /\ popped \in Seq(Tx) /\ aside \in Seq(Tx) /\ T \in Seq(Tx)
      /\ DOMAIN T = 1 .. Len(T) /\ Len(T) \in Nat
  BY <1>1, GoodChainNow, Shortened DEF IInv, TypeOK
<1>3. /\ n \in Nat /\ DOMAIN chain = 1 .. n /\ DOMAIN chain' = 1 .. n - 1
      /\ \A i \in 1 .. n - 1 : chain'[i] = chain[i] /\ i \in 1 .. n
      /\ T = chain[n].txs /\ n \in 1 .. n
  <2>1. chain \in Seq([time : Nat, txs : Seq(Tx)]) /\ n \in Nat
    BY GoodChainNow DEF GoodChain
  <2> DEFINE B == [time : Nat, txs : Seq(Tx)]
  <2>2. chain \in Seq(B)
    BY <2>1
  <2> HIDE DEF B
  <2> QED  BY <1>1, <2>1, <2>2 DEF Front, Last
<1>4. s = popped \o aside /\ s \in Seq(Tx)
  BY <1>1, <1>2, ConcatProperties DEF Listed
<1>5. PICK G \in SUBSET (DOMAIN s) : Placed(G)
  BY DEF Ordered
<1>6. /\ Rooted(G, s, Included(chain)) /\ \A x \in Due : \E i \in G : s[i] = x
      /\ ChainRooted(chain)
  BY <1>5 DEF Placed, Ordered
<1> HIDE DEF s, T, n
<1>7. Listed' = T \o s
  <2>1. (T \o popped) \o aside = T \o (popped \o aside)
    BY <1>2, Regroup, ZenonT(60)
  <2> QED  BY <1>1, <1>4, <2>1 DEF Listed
<1>8. \A j \in 1 .. n - 1 : Range(chain[j].txs) \subseteq less
  BY <1>3 DEF Included
<1>9. \A y \in Included(chain) : y \in less \/ \E q \in DOMAIN T : T[q] = y
  <2> SUFFICES ASSUME NEW j \in 1 .. n, NEW y \in Range(chain[j].txs)
               PROVE  y \in less \/ \E q \in DOMAIN T : T[q] = y
    BY <1>3 DEF Included
  <2>1. j \in 1 .. n - 1 \/ j = n
    BY <1>3
  <2> QED  BY <1>3, <1>8, <2>1 DEF Range
<1>10. \A p \in DOMAIN T : \A y \in Needs[T[p]] :
         y \in less \/ \E q \in DOMAIN T : q < p /\ T[q] = y
  <2> SUFFICES ASSUME NEW p \in DOMAIN T, NEW y \in Needs[T[p]], y \notin less
               PROVE  \E q \in DOMAIN T : q < p /\ T[q] = y
    OBVIOUS
  <2>1. \/ \E j \in 1 .. n - 1 : y \in Range(chain[j].txs)
        \/ \E q \in 1 .. p - 1 : T[q] = y
    BY <1>3, <1>6 DEF ChainRooted
  <2>2. \A q \in 1 .. p - 1 : q \in DOMAIN T /\ q < p
    BY <1>2
  <2> QED  BY <1>8, <2>1, <2>2
<1> DEFINE t == T \o s
<1>11. PICK K \in SUBSET (DOMAIN t) : Rooted(K, t, less) /\ Joined(K, t, T, DOMAIN T, s, G)
  <2>1. DOMAIN T \in SUBSET (DOMAIN T)
    OBVIOUS
  <2> HIDE DEF less
  <2> QED  BY <1>2, <1>4, <1>5, <1>6, <1>9, <1>10, <2>1, RootedBehind, Zenon
<1> HIDE DEF t
<1>12. Due' \subseteq Due \cup Range(T)
  <2>1. Due = (shown \cup Range(popped)) \ favoured
    BY <1>1 DEF Due
  <2>2. Due' = (shown \cup Range(T \o popped)) \ favoured
    BY <1>1 DEF Due
  <2> QED  BY <1>2, <2>1, <2>2, ConcatRange
<1>13. \A x \in Due \cup Range(T) : \E k \in K : t[k] = x
  BY <1>6, <1>11 DEF Range, Joined
<1>14. ChainRooted(chain')
  <2> SUFFICES ASSUME NEW i \in 1 .. n - 1, NEW p \in DOMAIN chain'[i].txs,
                      NEW y \in Needs[chain'[i].txs[p]]
               PROVE  \/ \E j \in 1 .. i - 1 : y \in Range(chain'[j].txs)
                      \/ \E q \in 1 .. p - 1 : chain'[i].txs[q] = y
    BY <1>3 DEF ChainRooted
  <2>1. i \in 1 .. n /\ chain'[i] = chain[i] /\ \A j \in 1 .. i - 1 : j \in 1 .. n - 1
    BY <1>3
  <2>2. \/ \E j \in 1 .. i - 1 : y \in Range(chain[j].txs)
        \/ \E q \in 1 .. p - 1 : chain[i].txs[q] = y
    <3>1. i \in DOMAIN chain /\ p \in DOMAIN chain[i].txs /\ y \in Needs[chain[i].txs[p]]
      BY <1>3, <2>1
    <3> QED  BY <1>6, <3>1 DEF ChainRooted
  <2> QED  BY <1>3, <2>1, <2>2
<1>15. Listed' = t /\ phase' # "idle"
  BY <1>1, <1>7 DEF t
<1> QED  BY <1>11, <1>12, <1>13, <1>14, <1>15, OrderedNext

\* What the restorer has applied is in order again, and it has dropped nothing
\* too early.
LEMMA RestoreOrdered ==
  ASSUME IInv, Ordered, NEW cut \in 0 .. Len(popped \o aside), restore_pending(cut)
  PROVE  /\ Ordered'
         /\ \A x \in (shown \cup Range(popped)) \ (Range(pending') \cup favoured) :
              \/ until[x] <= head_block_time(chain)
              \/ size' >= MaxMempool
              \/ ~Applies(x, chain, session', until[x])
<1> DEFINE n == Len(Todo)
<1>1. /\ popped \in Seq(Tx) /\ aside \in Seq(Tx) /\ Todo \in Seq(Tx)
      /\ n \in Nat /\ cut \in Nat /\ n \in 0 .. n /\ DOMAIN Todo = 1 .. n
  BY ConcatProperties DEF IInv, TypeOK, Todo
<1>2. PICK h : Restoring(h, cut)
  BY <1>1, RestoredSteps
<1> DEFINE r == h[n]
<1>3. /\ phase # "idle" /\ phase' = "idle" /\ pending' = r.pending /\ size' = r.size
      /\ session' = r.session /\ popped' = <<>> /\ chain' = chain
      /\ favoured' = favoured
  BY <1>2 DEF restore_pending, Restoring
<1>4. Loop(r, n, cut) /\ r \in Built
  BY <1>1, <1>2, LoopKept DEF Restoring
<1> HIDE DEF r
<1>5. /\ r.pending \in Seq(Tx) /\ r.session \in Seq(Tx) /\ r.size \in Nat
      /\ DOMAIN r.session = 1 .. Len(r.session) /\ DOMAIN r.pending = 1 .. Len(r.pending)
      /\ Len(r.session) \in Nat /\ Len(r.pending) \in Nat
  BY <1>4 DEF Built
<1>6. Ordered'
  <2> DEFINE G == DOMAIN r.session
             s == r.pending
             inc == Included(chain)
  <2>1. Listed' = s
    BY <1>3, <1>5, ConcatEmptySeq DEF Listed
  <2>2. G \in SUBSET (DOMAIN s) /\ \A i \in G : s[i] = r.session[i]
    BY <1>4, <1>5 DEF Loop
  <2>3. \A i \in G : \A y \in Needs[s[i]] :
          y \in inc \/ \E k \in G : k < i /\ s[k] = y
    <3> SUFFICES ASSUME NEW i \in G, NEW y \in Needs[s[i]], y \notin inc
                 PROVE  \E k \in G : k < i /\ s[k] = y
      OBVIOUS
    <3>1. PICK k \in 1 .. i - 1 : r.session[k] = y
      BY <1>4, <2>2 DEF Loop, InTurn
    <3>2. k \in G /\ k < i
      BY <1>5
    <3> QED  BY <2>2, <3>1, <3>2
  <2>4. Rooted(G, s, inc)
    BY <2>3 DEF Rooted
  <2>5. Due' \subseteq Range(r.session)
    BY <1>3 DEF Due
  <2>6. \A x \in Range(r.session) : \E i \in G : s[i] = x
    BY <2>2 DEF Range
  <2>7. \A i \in G : Needs[s[i]] \subseteq inc \cup Range(session')
    BY <1>3, <2>2, <2>3 DEF Range
  <2>8. ChainRooted(chain') /\ Included(chain') = inc /\ Range(popped') \subseteq favoured'
    BY <1>3, RangeEmpty DEF Ordered
  <2> HIDE DEF G, s, inc
  <2> QED  BY <2>1, <2>2, <2>4, <2>5, <2>6, <2>7, <2>8, OrderedNext
<1>7. ASSUME NEW x \in (shown \cup Range(popped)) \ (Range(pending') \cup favoured),
             ~ (until[x] <= head_block_time(chain)), ~ (size' >= MaxMempool),
             Applies(x, chain, session', until[x])
      PROVE  FALSE
  <2>1. PICK G \in SUBSET (DOMAIN Todo) : Placed(G)
    BY <1>3 DEF Ordered, Listed, Todo
  <2>2. Rooted(G, Todo, Included(chain)) /\ \E i \in G : Todo[i] = x
    BY <1>3, <1>7, <2>1 DEF Placed, Listed, Todo, Due
  <2>3. PICK i \in G : Todo[i] = x
    BY <2>2
  <2>4. i \in 1 .. n
    BY <1>1
  <2>5. i <= cut
    <3> SUFFICES ASSUME ~ (i <= cut) PROVE FALSE
      OBVIOUS
    <3>1. i \in cut + 1 .. n
      BY <1>1, <2>4
    <3>2. x \in Range(pending')
      BY <1>3, <1>4, <1>7, <2>3, <3>1 DEF Loop
    <3> QED  BY <1>7, <3>2
  <2>6. ~ Accepts(h[n], x)
    <3>1. n \in i .. Len(Todo)
      BY <1>1, <2>4
    <3> QED  BY <1>1, <1>2, <2>1, <2>2, <2>3, <2>5, <3>1, NeverLater
  <2>7. x \in Tx /\ until[x] \in Nat /\ head_block_time(chain) \in Nat
    <3>1. x \in Tx
      BY <1>1, <1>7, RangeType DEF IInv, TypeOK
    <3> QED  BY <3>1, GoodChainNow, HeadTime, PendingAssumption DEF IInv, TypeOK
  <2>8. until[x] > head_block_time(chain)
    BY <1>7, <2>7
  <2> QED  BY <1>3, <1>7, <2>6, <2>8 DEF Accepts, r
<1> QED  BY <1>6, <1>7

\* In every state each transaction that was applied before has a place at which it
\* is not too early, whatever is popped, applied, pushed and restored.
THEOREM OrderedInvariant == Spec => []Ordered
<1>1. Init => Ordered
  BY InitOrdered
<1>2. IInv /\ Ordered /\ [Next]_vars => Ordered'
  <2> SUFFICES ASSUME IInv, Ordered, [Next]_vars PROVE Ordered'
    OBVIOUS
  <2>1. CASE UNCHANGED vars
    <3>1. /\ Listed' = Listed /\ Due' = Due /\ chain' = chain /\ phase' = phase
          /\ popped' = popped /\ favoured' = favoured /\ session' = session
      BY <2>1 DEF vars, Listed, Due
    <3>2. PICK G \in SUBSET (DOMAIN Listed) : Placed(G)
      BY DEF Ordered
    <3> QED  BY <3>1, <3>2, OrderedNext DEF Ordered, Placed
  <2>2. ASSUME NEW x \in Tx, _push_transaction(x) PROVE Ordered'
    BY <2>2, PushOrdered
  <2>3. CASE without_pending_transactions
    <3>1. /\ phase = "idle" /\ phase' # "idle" /\ Aside /\ popped' = popped
          /\ favoured' = favoured /\ chain' = chain
      BY <2>3 DEF without_pending_transactions
    <3>2. ChainRooted(chain') /\ Included(chain) \subseteq Included(chain')
      BY <3>1 DEF Ordered
    <3> QED  BY <3>1, <3>2, AsideOrdered
  <2>4. CASE pop_block
    BY <2>4, PopOrdered
  <2>5. ASSUME NEW b \in Blocks, apply_block(b) PROVE Ordered'
    BY <2>5, ApplyOrdered
  <2>6. ASSUME NEW t \in head_block_time(chain) + 1 .. MaxTime, generate_block(t) PROVE Ordered'
    BY <2>6, GenerateOrdered
  <2>7. ASSUME NEW cut \in 0 .. Len(popped \o aside), restore_pending(cut) PROVE Ordered'
    BY <2>7, RestoreOrdered
  <2> QED  BY <2>1, <2>2, <2>3, <2>4, <2>5, <2>6, <2>7 DEF Next
<1> QED  BY <1>1, <1>2, PendingInvariant, PTL DEF Spec

\* What the restorer drops though it was applied before, with no limit reached, is
\* on the chain, expired or does not apply after what is kept: nothing is dropped
\* because what it needs comes behind it (~pending_transactions_restorer,
\* pop_block).  Privileged transactions are excepted.
THEOREM CulledTheorem == Spec => CulledAreInvalid
<1> DEFINE Kept == phase # "idle" /\ phase' = "idle" =>
       \A x \in (shown \cup Range(popped)) \ (Range(pending') \cup favoured) :
         \/ x \in Included(chain)
         \/ until[x] <= head_block_time(chain)
         \/ size' >= MaxMempool
         \/ ~Applies(x, chain, session', until[x])
<1>1. IInv /\ Ordered /\ [Next]_vars => Kept
  <2> SUFFICES ASSUME IInv, Ordered, Next, phase # "idle", phase' = "idle" PROVE Kept
    BY DEF vars
  <2>1. PICK cut \in 0 .. Len(popped \o aside) : restore_pending(cut)
    BY DEF Next, _push_transaction, without_pending_transactions, pop_block, apply_block,
           generate_block
  <2> QED  BY <2>1, RestoreOrdered
<1> QED  BY <1>1, PendingInvariant, OrderedInvariant, PTL DEF Spec, CulledAreInvalid

=============================================================================
