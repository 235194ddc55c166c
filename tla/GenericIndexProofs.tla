------------------------- MODULE GenericIndexProofs -------------------------
(***************************************************************************)
(* Proofs about GenericIndex for every number of ids, every set of values  *)
(* and every bound, provided that an index with a unique secondary key     *)
(* never lets a modifier change that key (SafeKeys).                       *)
(***************************************************************************)
EXTENDS GenericIndex, TLAPS

SafeKeys == KeyUnique => ~ KeyMutable

------------------------------------------------------------------------------
(* One undo state and the two versions of the index it lies between. *)

\* A new session's empty undo state is the difference between a version of
\* the index and itself (start_undo_session).
LEMMA DeltaOfNewSession ==
  ASSUME NEW s \in Snapshot, NEW r \in Int
  PROVE  Delta([old_values     |-> Nothing,
                removed_values |-> Nothing,
                new_ids        |-> {},
                old_next_id    |-> s.next,
                revision       |-> r], s, s)
  BY BoundsAssumption DEF Delta, Nothing, Snapshot, Store

\* on_create keeps the newest undo state exact.
LEMMA DeltaOfCreate ==
  ASSUME NEW u \in undo_state, NEW b \in Snapshot, NEW a \in Snapshot,
         NEW v \in Value, a.next < MaxId,
         Delta(u, b, a), WellFormed(a), WellFormed(b)
  PROVE  Delta(on_create(u, a.next), b,
               [contents |-> [a.contents EXCEPT ![a.next] = v],
                next     |-> a.next + 1])
  BY BoundsAssumption, ValueAssumption
     DEF Delta, WellFormed, on_create, With, undo_state, Snapshot, Store, Contents, Ids

\* on_modify keeps the newest undo state exact.
LEMMA DeltaOfModify ==
  ASSUME NEW u \in undo_state, NEW b \in Snapshot, TypeOK,
         NEW i \in Ids, NEW v \in Value, idx[i] # Absent,
         Delta(u, b, Current)
  PROVE  Delta(on_modify(u, i), b,
               [contents |-> [idx EXCEPT ![i] = v], next |-> next_id])
  BY BoundsAssumption, ValueAssumption
     DEF TypeOK, Delta, Current, on_modify, With, undo_state, Snapshot, Store, Contents

\* on_remove keeps the newest undo state exact.
LEMMA DeltaOfRemove ==
  ASSUME NEW u \in undo_state, NEW b \in Snapshot, TypeOK,
         NEW i \in Ids, idx[i] # Absent,
         Delta(u, b, Current)
  PROVE  Delta(on_remove(u, i), b,
               [contents |-> [idx EXCEPT ![i] = Absent], next |-> next_id])
  BY BoundsAssumption, ValueAssumption
     DEF TypeOK, Delta, Current, on_remove, With, undo_state, Snapshot, Store, Contents

\* The three notifications yield undo states.
LEMMA UndoStateTypes ==
  ASSUME NEW u \in undo_state, TypeOK, NEW i \in Ids
  PROVE  /\ on_create(u, i) \in undo_state
         /\ on_modify(u, i) \in undo_state
         /\ on_remove(u, i) \in undo_state
  <1>1. on_create(u, i) \in undo_state
    BY DEF on_create, With, undo_state
  <1>2. on_modify(u, i) \in undo_state
    BY DEF on_modify, With, undo_state, TypeOK, Store
  <1>3. on_remove(u, i) \in undo_state
    BY DEF on_remove, With, undo_state, TypeOK, Store, Contents
  <1>. QED BY <1>1, <1>2, <1>3

\* squash's merge yields an undo state with the revision of the older one.
LEMMA MergeIsUndoState ==
  ASSUME NEW p \in undo_state, NEW u \in undo_state
  PROVE  Merge(p, u) \in undo_state /\ Merge(p, u).revision = p.revision
  BY DEF Merge, With, undo_state, Store, Contents

\* The notifications leave an undo state's revision alone.
LEMMA RevisionKept ==
  ASSUME NEW u \in undo_state, NEW i \in Ids
  PROVE  /\ on_create(u, i).revision = u.revision
         /\ on_modify(u, i).revision = u.revision
         /\ on_remove(u, i).revision = u.revision
  BY DEF on_create, on_modify, on_remove, With, undo_state

\* Ids do not come back over two sessions either (squash).
LEMMA FollowsTransitive ==
  ASSUME NEW b \in Snapshot, NEW m \in Snapshot, NEW a \in Snapshot,
         b.next <= m.next, m.next <= a.next,
         WellFormed(b), Follows(b, m), Follows(m, a)
  PROVE  Follows(b, a)
  BY BoundsAssumption, ValueAssumption
     DEF Follows, WellFormed, Snapshot, Store, Contents, Ids

\* The merge of two consecutive exact differences is the exact difference
\* over both sessions: every cell of the 4x4 matrix in squash's comment.
LEMMA DeltaOfMerge ==
  ASSUME NEW p \in undo_state, NEW u \in undo_state,
         NEW b \in Snapshot, NEW m \in Snapshot, NEW a \in Snapshot,
         Delta(p, b, m), Delta(u, m, a),
         WellFormed(b), Follows(b, m), Follows(m, a)
  PROVE  Delta(Merge(p, u), b, a)
  <1>1. Merge(p, u).old_next_id = b.next /\ b.next <= a.next
    BY BoundsAssumption DEF Delta, Merge, With, undo_state, Snapshot
  <1>2. ASSUME NEW i \in Ids, b.contents[i] # Absent, m.contents[i] = Absent
        PROVE  a.contents[i] = Absent
    <2>1. i < b.next /\ b.next <= m.next
      BY <1>2 DEF WellFormed, Delta
    <2>. QED
      BY <1>2, <2>1, BoundsAssumption DEF Follows, Snapshot, Ids
  <1>3. ASSUME NEW i \in Ids
        PROVE  i \in Merge(p, u).new_ids <=> /\ b.contents[i] = Absent
                                             /\ a.contents[i] # Absent
    BY <1>2, <1>3, ValueAssumption
       DEF Delta, Merge, With, undo_state, Snapshot, Store, Contents
  <1>4. ASSUME NEW i \in Ids
        PROVE  Merge(p, u).removed_values[i] =
                 IF a.contents[i] = Absent THEN b.contents[i] ELSE Absent
    BY <1>2, <1>4, ValueAssumption
       DEF Delta, Merge, With, undo_state, Snapshot, Store, Contents
  <1>5. ASSUME NEW i \in Ids
        PROVE  /\ Merge(p, u).old_values[i] # Absent =>
                    /\ a.contents[i] # Absent
                    /\ b.contents[i] = Merge(p, u).old_values[i]
               /\ (/\ Merge(p, u).old_values[i] = Absent
                   /\ b.contents[i] # Absent
                   /\ a.contents[i] # Absent)
                    => b.contents[i] = a.contents[i]
    BY <1>2, <1>5, ValueAssumption
       DEF Delta, Merge, With, undo_state, Snapshot, Store, Contents
  <1>. QED BY <1>1, <1>3, <1>4, <1>5 DEF Delta

\* Putting an exact difference back yields the older version.
LEMMA RollbackRestores ==
  ASSUME NEW u \in undo_state, NEW b \in Snapshot, TypeOK,
         Delta(u, b, Current)
  PROVE  Rollback(u) = b.contents
  BY BoundsAssumption, ValueAssumption
     DEF TypeOK, Delta, Current, Rollback, undo_state, Snapshot, Store, Contents

\* Nothing in undo() throws when keys were kept between the two versions.
LEMMA ExactIsRestorable ==
  ASSUME NEW u \in undo_state, NEW b \in Snapshot, TypeOK,
         Delta(u, b, Current), Follows(b, Current),
         WellFormed(b), WellFormed(Current)
  PROVE  Restorable(u)
  <1>1. ASSUME NEW i \in Ids, u.old_values[i] # Absent
        PROVE  ~ Clash([j \in Ids |-> IF j < i /\ u.old_values[j] # Absent
                                      THEN u.old_values[j] ELSE idx[j]],
                       i, u.old_values[i])
    <2> SUFFICES ASSUME KeyUnique, NEW j \in Ids \ {i},
                        (IF j < i /\ u.old_values[j] # Absent
                         THEN u.old_values[j] ELSE idx[j]) # Absent
                 PROVE  KeyOf(IF j < i /\ u.old_values[j] # Absent
                              THEN u.old_values[j] ELSE idx[j])
                          # KeyOf(u.old_values[i])
      BY DEF Clash
    <2>1. /\ idx[i] # Absent
          /\ KeyOf(u.old_values[i]) = KeyOf(idx[i])
      BY <1>1 DEF Delta, Follows, Current
    <2>2. /\ idx[j] # Absent
          /\ u.old_values[j] # Absent => KeyOf(u.old_values[j]) = KeyOf(idx[j])
      BY DEF Delta, Follows, Current
    <2>3. KeyOf(idx[j]) # KeyOf(idx[i])
      BY <2>1, <2>2 DEF WellFormed, Current
    <2>. QED BY <2>1, <2>2, <2>3
  <1>2. \A i \in u.new_ids : idx[i] # Absent
    BY DEF Delta, Current, undo_state
  <1>3. ASSUME NEW i \in Ids, u.removed_values[i] # Absent
        PROVE  /\ idx[i] = Absent \/ i \in u.new_ids
               /\ ~ Clash(Rollback(u), i, u.removed_values[i])
    <2>1. idx[i] = Absent /\ u.removed_values[i] = b.contents[i]
      BY <1>3 DEF Delta, Current
    <2>2. Rollback(u) = b.contents
      BY RollbackRestores
    <2>. QED BY <1>3, <2>1, <2>2 DEF Clash, WellFormed
  <1>. QED BY <1>1, <1>2, <1>3 DEF Restorable

------------------------------------------------------------------------------
(* The whole stack.  st is a stack of undo states, sv what their sessions   *)
(* found, c the current index and r the revision; the lemmas say how each   *)
(* operation on the stack keeps all levels exact.                           *)

After(sv, c, k) == IF k < Len(sv) THEN sv[k + 1] ELSE c

Linked(u, b, a) == Delta(u, b, a) /\ WellFormed(b) /\ Follows(b, a)

Levels(st, sv, c, r) ==
  /\ Len(sv) = Len(st)
  /\ \A k \in 1..Len(st) : /\ st[k].revision = r - (Len(st) - k)
                           /\ Linked(st[k], sv[k], After(sv, c, k))

\* Without sessions there is nothing to keep exact.
LEMMA NoLevels ==
  ASSUME NEW sv, NEW c, NEW r
  PROVE  Levels(<<>>, sv, c, r) <=> Len(sv) = 0
  BY DEF Levels

\* A change of the current index recorded in the newest undo state.
LEMMA LevelsChangeTop ==
  ASSUME NEW st \in Seq(undo_state), NEW sv \in Seq(Snapshot), NEW r \in Int,
         NEW c \in Snapshot, NEW d \in Snapshot, NEW u \in undo_state,
         st # <<>>, Levels(st, sv, c, r),
         u.revision = st[Len(st)].revision,
         Linked(u, sv[Len(sv)], d)
  PROVE  /\ [st EXCEPT ![Len(st)] = u] \in Seq(undo_state)
         /\ Levels([st EXCEPT ![Len(st)] = u], sv, d, r)
  <1>. DEFINE n == Len(st)
              t == [st EXCEPT ![n] = u]
  <1>1. n \in Nat \ {0} /\ Len(sv) = n /\ t \in Seq(undo_state) /\ Len(t) = n
    BY DEF Levels
  <1>2. t[n] = u /\ \A k \in 1..n : k # n => t[k] = st[k]
    BY <1>1
  <1>. HIDE DEF t
  <1>3. ASSUME NEW k \in 1..n
        PROVE  t[k].revision = r - (n - k) /\ Linked(t[k], sv[k], After(sv, d, k))
    <2>1. CASE k = n
      BY <1>1, <1>2, <2>1 DEF Levels, After
    <2>2. CASE k # n
      <3>1. k < Len(sv) /\ t[k] = st[k]
        BY <1>1, <1>2, <2>2
      <3>. QED BY <1>1, <3>1 DEF Levels, After
    <2>. QED BY <2>1, <2>2
  <1>. QED BY <1>1, <1>3 DEF Levels, t

\* A new session on top (start_undo_session).
LEMMA LevelsPush ==
  ASSUME NEW st \in Seq(undo_state), NEW sv \in Seq(Snapshot), NEW r \in Int,
         NEW c \in Snapshot, NEW u \in undo_state,
         Levels(st, sv, c, r), u.revision = r + 1, Linked(u, c, c)
  PROVE  Levels(Append(st, u), Append(sv, c), c, r + 1)
  <1>. DEFINE n == Len(st)
              t == Append(st, u)
              sw == Append(sv, c)
  <1>1. /\ n \in Nat
        /\ Len(sv) = n
        /\ Len(t) = n + 1
        /\ Len(sw) = n + 1
    BY DEF Levels
  <1>2. /\ t[n + 1] = u
        /\ sw[n + 1] = c
        /\ \A k \in 1..n : t[k] = st[k] /\ sw[k] = sv[k]
    BY <1>1
  <1>. HIDE DEF t, sw
  <1>3. ASSUME NEW k \in 1..(n + 1)
        PROVE  /\ t[k].revision = (r + 1) - (n + 1 - k)
               /\ Linked(t[k], sw[k], After(sw, c, k))
    <2>1. CASE k = n + 1
      BY <1>1, <1>2, <2>1 DEF After
    <2>2. CASE k \in 1..n
      <3>1. After(sw, c, k) = After(sv, c, k)
        BY <1>1, <1>2, <2>2 DEF After
      <3>2. st[k].revision = r - (n - k) /\ Linked(st[k], sv[k], After(sv, c, k))
        BY <2>2 DEF Levels
      <3>. QED BY <1>1, <1>2, <2>2, <3>1, <3>2
    <2>. QED BY <1>1, <2>1, <2>2
  <1>. QED BY <1>1, <1>3 DEF Levels, t, sw

\* The newest level taken off; what its session found is current (undo).
LEMMA LevelsPop ==
  ASSUME NEW st \in Seq(undo_state), NEW sv \in Seq(Snapshot), NEW r \in Int,
         NEW c \in Snapshot, st # <<>>, Levels(st, sv, c, r)
  PROVE  /\ SubSeq(st, 1, Len(st) - 1) \in Seq(undo_state)
         /\ SubSeq(sv, 1, Len(sv) - 1) \in Seq(Snapshot)
         /\ Levels(SubSeq(st, 1, Len(st) - 1), SubSeq(sv, 1, Len(sv) - 1),
                   sv[Len(sv)], r - 1)
  <1>. DEFINE n == Len(st)
              t == SubSeq(st, 1, n - 1)
              sw == SubSeq(sv, 1, n - 1)
  <1>1. /\ n \in Nat \ {0}
        /\ Len(sv) = n
        /\ t \in Seq(undo_state)
        /\ sw \in Seq(Snapshot)
        /\ Len(t) = n - 1
        /\ Len(sw) = n - 1
    BY DEF Levels
  <1>2. \A k \in 1..(n - 1) : t[k] = st[k] /\ sw[k] = sv[k]
    BY <1>1
  <1>. HIDE DEF t, sw
  <1>3. ASSUME NEW k \in 1..(n - 1)
        PROVE  /\ t[k].revision = (r - 1) - (n - 1 - k)
               /\ Linked(t[k], sw[k], After(sw, sv[n], k))
    <2>1. After(sw, sv[n], k) = After(sv, c, k)
      <3>1. k < n /\ k + 1 \in 1..n
        BY <1>1
      <3>2. CASE k + 1 = n
        BY <1>1, <3>1, <3>2 DEF After
      <3>3. CASE k + 1 # n
        <4>1. k + 1 \in 1..(n - 1) /\ k < Len(sw) /\ k < Len(sv)
          BY <1>1, <3>3
        <4>. QED BY <4>1, <1>2 DEF After
      <3>. QED BY <3>2, <3>3
    <2>2. st[k].revision = r - (n - k) /\ Linked(st[k], sv[k], After(sv, c, k))
      BY <1>1 DEF Levels
    <2>. QED BY <1>1, <1>2, <2>1, <2>2
  <1>. QED BY <1>1, <1>3 DEF Levels, t, sw

\* The two newest levels merged into one (squash).
LEMMA LevelsMerge ==
  ASSUME NEW st \in Seq(undo_state), NEW sv \in Seq(Snapshot), NEW r \in Int,
         NEW c \in Snapshot, NEW n \in Nat, n = Len(st), n > 1,
         Levels(st, sv, c, r),
         Merge(st[n - 1], st[n]) \in undo_state,
         Merge(st[n - 1], st[n]).revision = st[n - 1].revision,
         NEW t, t = [SubSeq(st, 1, n - 1) EXCEPT ![n - 1] = Merge(@, st[n])]
  PROVE  /\ t \in Seq(undo_state)
         /\ Levels(t, SubSeq(sv, 1, Len(sv) - 1), c, r - 1)
  <1>. DEFINE low == SubSeq(st, 1, n - 1)
              m == Merge(st[n - 1], st[n])
              sw == SubSeq(sv, 1, Len(sv) - 1)
  <1>1. /\ low \in Seq(undo_state)
        /\ sw \in Seq(Snapshot)
        /\ Levels(low, sw, sv[Len(sv)], r - 1)
    BY LevelsPop
  <1>2. /\ Len(low) = n - 1
        /\ low # <<>>
        /\ low[n - 1] = st[n - 1]
        /\ Len(sv) = n
        /\ Len(sw) = n - 1
        /\ sw[n - 1] = sv[n - 1]
        /\ sv[n - 1] \in Snapshot
        /\ sv[n] \in Snapshot
        /\ st[n - 1] \in undo_state
        /\ st[n] \in undo_state
    <2>1. Len(sv) = n /\ n - 1 \in 1..n /\ n \in 1..n /\ n - 1 \in 1..(n - 1)
      BY DEF Levels
    <2>2. Len(low) = n - 1 /\ low[n - 1] = st[n - 1]
      BY <2>1
    <2>4. low # <<>>
      <3>1. Len(low) # 0
        BY <2>2
      <3>. QED BY <3>1
    <2>3. Len(sw) = n - 1 /\ sw[n - 1] = sv[n - 1]
      BY <2>1
    <2>. QED BY <2>1, <2>2, <2>3, <2>4
  <1>3. /\ Linked(st[n - 1], sv[n - 1], sv[n])
        /\ Linked(st[n], sv[n], c)
    <2>1. n - 1 \in 1..n /\ n \in 1..n /\ n - 1 < Len(sv) /\ ~ (n < Len(sv))
      BY <1>2
    <2>2. /\ Linked(st[n - 1], sv[n - 1], After(sv, c, n - 1))
          /\ Linked(st[n], sv[n], After(sv, c, n))
      BY <2>1 DEF Levels
    <2>. QED BY <2>1, <2>2 DEF After
  <1>4. Linked(m, sv[n - 1], c)
    <2>1. sv[n - 1].next <= sv[n].next /\ sv[n].next <= c.next
      BY <1>3 DEF Linked, Delta
    <2>2. Follows(sv[n - 1], c)
      BY <1>2, <1>3, <2>1, FollowsTransitive DEF Linked
    <2>. QED BY <1>2, <1>3, <2>2, DeltaOfMerge DEF Linked
  <1>. HIDE DEF low, sw, m
  <1>5. /\ [low EXCEPT ![Len(low)] = m] \in Seq(undo_state)
        /\ Levels([low EXCEPT ![Len(low)] = m], sw, c, r - 1)
    <2>1. m \in undo_state /\ m.revision = low[Len(low)].revision
      BY <1>2 DEF m
    <2>2. Linked(m, sw[Len(sw)], c)
      BY <1>2, <1>4
    <2>3. sv[Len(sv)] \in Snapshot /\ r - 1 \in Int
      BY <1>2
    <2>. QED BY <1>1, <1>2, <2>1, <2>2, <2>3, LevelsChangeTop
  <1>6. t = [low EXCEPT ![Len(low)] = m]
    BY <1>2 DEF m, low
  <1>. QED BY <1>5, <1>6 DEF sw

\* The oldest levels dropped (commit).
LEMMA LevelsDropFront ==
  ASSUME NEW st \in Seq(undo_state), NEW sv \in Seq(Snapshot), NEW r \in Int,
         NEW c \in Snapshot, Levels(st, sv, c, r), NEW j \in 1..Len(st)
  PROVE  /\ SubSeq(st, j + 1, Len(st)) \in Seq(undo_state)
         /\ SubSeq(sv, j + 1, Len(sv)) \in Seq(Snapshot)
         /\ Levels(SubSeq(st, j + 1, Len(st)), SubSeq(sv, j + 1, Len(sv)), c, r)
  <1>. DEFINE n == Len(st)
              t == SubSeq(st, j + 1, n)
              sw == SubSeq(sv, j + 1, n)
  <1>1. /\ n \in Nat
        /\ Len(sv) = n
        /\ t \in Seq(undo_state)
        /\ sw \in Seq(Snapshot)
        /\ Len(t) = n - j
        /\ Len(sw) = n - j
    BY DEF Levels
  <1>2. \A k \in 1..(n - j) : t[k] = st[k + j] /\ sw[k] = sv[k + j]
    BY <1>1
  <1>. HIDE DEF t, sw
  <1>3. ASSUME NEW k \in 1..(n - j)
        PROVE  /\ t[k].revision = r - (n - j - k)
               /\ Linked(t[k], sw[k], After(sw, c, k))
    <2>1. k + j \in 1..n
      BY <1>1
    <2>2. After(sw, c, k) = After(sv, c, k + j)
      <3>1. CASE k < n - j
        <4>1. k + 1 \in 1..(n - j) /\ k + j < Len(sv) /\ k < Len(sw)
          BY <1>1, <3>1
        <4>2. sw[k + 1] = sv[k + j + 1]
          BY <1>2, <4>1
        <4>. QED BY <4>1, <4>2 DEF After
      <3>2. CASE k = n - j
        BY <1>1, <3>2 DEF After
      <3>. QED BY <1>1, <3>1, <3>2
    <2>3. /\ st[k + j].revision = r - (n - (k + j))
          /\ Linked(st[k + j], sv[k + j], After(sv, c, k + j))
      BY <2>1 DEF Levels
    <2>. QED BY <1>1, <1>2, <2>2, <2>3
  <1>. QED BY <1>1, <1>3 DEF Levels, t, sw

\* Snapshot s without object i.
Without(s, i) == [contents |-> [s.contents EXCEPT ![i] = Absent], next |-> s.next]

\* An object no undo state knows, taken out of every version
\* (move_to_external_storage).
LEMMA LevelsWithout ==
  ASSUME NEW st \in Seq(undo_state), NEW sv \in Seq(Snapshot), NEW r \in Int,
         NEW c \in Snapshot, Levels(st, sv, c, r), NEW i \in Ids,
         \A k \in 1..Len(st) : /\ i \notin st[k].new_ids
                               /\ st[k].old_values[i] = Absent
                               /\ st[k].removed_values[i] = Absent
  PROVE  /\ [k \in 1..Len(sv) |-> Without(sv[k], i)] \in Seq(Snapshot)
         /\ Levels(st, [k \in 1..Len(sv) |-> Without(sv[k], i)], Without(c, i), r)
  <1>. DEFINE n == Len(st)
              sw == [k \in 1..Len(sv) |-> Without(sv[k], i)]
  <1>1. n \in Nat /\ Len(sv) = n
    BY DEF Levels
  <1>2. ASSUME NEW s \in Snapshot PROVE Without(s, i) \in Snapshot
    BY DEF Without, Snapshot, Store, Contents
  <1>3. sw \in Seq(Snapshot) /\ Len(sw) = n
    BY <1>1, <1>2
  <1>4. ASSUME NEW k \in 1..n
        PROVE  /\ st[k].revision = r - (n - k)
               /\ Linked(st[k], sw[k], After(sw, Without(c, i), k))
    <2>1. /\ st[k].revision = r - (n - k)
          /\ Linked(st[k], sv[k], After(sv, c, k))
      BY DEF Levels
    <2>2. sw[k] = Without(sv[k], i) /\ sv[k] \in Snapshot /\ st[k] \in undo_state
      BY <1>1
    <2>3. /\ After(sw, Without(c, i), k) = Without(After(sv, c, k), i)
          /\ After(sv, c, k) \in Snapshot
      <3>1. CASE k < n
        BY <1>1, <1>3, <3>1 DEF After
      <3>2. CASE k = n
        BY <1>1, <1>3, <3>2 DEF After
      <3>. QED BY <1>1, <3>1, <3>2
    <2>4. ASSUME NEW u \in undo_state, NEW b \in Snapshot, NEW a \in Snapshot,
                 Linked(u, b, a), i \notin u.new_ids,
                 u.old_values[i] = Absent, u.removed_values[i] = Absent
          PROVE  Linked(u, Without(b, i), Without(a, i))
      <3>1. Delta(u, Without(b, i), Without(a, i))
        BY <2>4 DEF Linked, Delta, Without, Snapshot, Store
      <3>2. WellFormed(Without(b, i))
        BY <2>4 DEF Linked, WellFormed, Without, Snapshot, Store
      <3>3. Follows(Without(b, i), Without(a, i))
        BY <2>4 DEF Linked, Follows, Without, Snapshot, Store
      <3>. QED BY <3>1, <3>2, <3>3 DEF Linked
    <2>5. Linked(st[k], Without(sv[k], i), Without(After(sv, c, k), i))
      BY <2>1, <2>2, <2>3, <2>4
    <2>. QED BY <2>1, <2>2, <2>3, <2>5
  <1>. QED BY <1>1, <1>3, <1>4 DEF Levels

------------------------------------------------------------------------------
(* The invariant of the specification. *)

\* IndInv speaks about levels.
LEMMA IndInvByLevels ==
  IndInv <=> /\ TypeOK
             /\ ~ failed
             /\ WellFormed(Current)
             /\ Levels(stack, saved, Current, revision)
  <1>1. \A k : Level(k) = After(saved, Current, k)
    BY DEF Level, After
  <1>2. ASSUME IndInv PROVE Levels(stack, saved, Current, revision)
    BY <1>1, <1>2 DEF IndInv, Levels, Linked, RevisionsInStep, DeltaExact
  <1>3. ASSUME Levels(stack, saved, Current, revision)
        PROVE  /\ RevisionsInStep
               /\ DeltaExact
               /\ \A k \in 1..Len(saved) : /\ WellFormed(saved[k])
                                           /\ Follows(saved[k], Level(k))
    BY <1>1, <1>3 DEF Levels, Linked, RevisionsInStep, DeltaExact
  <1>. QED BY <1>2, <1>3 DEF IndInv

\* The parts of the invariant after a step.
LEMMA IndInvAfter ==
  ASSUME TypeOK', ~ failed', WellFormed(Current'),
         Levels(stack', saved', Current', revision')
  PROVE  IndInv'
  <1>1. (WellFormed(Current) /\ Levels(stack, saved, Current, revision))'
    BY DEF WellFormed, Levels, Linked, Delta, Follows, After
  <1>. QED BY <1>1, IndInvByLevels, PTL

\* A change of the current index that the newest undo state records, or that
\* no session has to record.
LEMMA Change ==
  ASSUME IndInv, NEW d \in Snapshot, NEW u,
         WellFormed(d),
         enabled => /\ u \in undo_state
                    /\ u.revision = Top.revision
                    /\ Linked(u, saved[Len(saved)], d),
         idx' = d.contents, next_id' = d.next, stack' = Record(u),
         UNCHANGED <<revision, failed, saved>>
  PROVE  IndInv'
  <1>1. /\ TypeOK
        /\ ~ failed
        /\ Levels(stack, saved, Current, revision)
        /\ Current \in Snapshot
    BY IndInvByLevels DEF TypeOK, Current, Snapshot
  <1>2. Current' = d /\ idx' \in Store /\ next_id' \in 0..MaxId
    BY DEF Current, Snapshot
  <1>3. stack' \in Seq(undo_state) /\ Levels(stack', saved, d, revision)
    <2>1. CASE enabled
      BY <1>1, <2>1, LevelsChangeTop DEF TypeOK, Record, enabled, Top
    <2>2. CASE ~ enabled
      <3>1. stack' = stack /\ stack = <<>> /\ stack \in Seq(undo_state)
        BY <1>1, <2>2 DEF TypeOK, Record, enabled
      <3>. QED BY <1>1, <3>1, NoLevels
    <2>. QED BY <2>1, <2>2
  <1>4. TypeOK'
    BY <1>1, <1>2, <1>3 DEF TypeOK
  <1>. QED BY <1>1, <1>2, <1>3, <1>4, IndInvAfter

\* Init satisfies the invariant.
LEMMA InitInv ==
  ASSUME Init PROVE IndInv
  <1>1. TypeOK
    <2>1. idx \in Store
      BY DEF Init, Nothing, Store, Contents
    <2>2. next_id \in 0..MaxId /\ revision \in Int
      BY BoundsAssumption DEF Init
    <2>3. stack \in Seq(undo_state) /\ saved \in Seq(Snapshot)
      BY DEF Init
    <2>. QED BY <2>1, <2>2, <2>3 DEF TypeOK, Init
  <1>2. WellFormed(Current)
    BY DEF Init, WellFormed, Current, Nothing
  <1>3. Levels(stack, saved, Current, revision)
    BY NoLevels DEF Init
  <1>. QED BY <1>1, <1>2, <1>3, IndInvByLevels DEF Init

\* What the invariant says of the newest level.
LEMMA TopLevel ==
  ASSUME IndInv, enabled
  PROVE  /\ Top \in undo_state
         /\ saved[Len(saved)] \in Snapshot
         /\ Linked(Top, saved[Len(saved)], Current)
         /\ Len(stack) \in Nat \ {0}
         /\ Len(saved) = Len(stack)
  <1>1. TypeOK /\ Levels(stack, saved, Current, revision)
    BY IndInvByLevels
  <1>2. Len(stack) \in Nat \ {0} /\ Len(saved) = Len(stack)
    BY <1>1 DEF TypeOK, enabled, Levels
  <1>3. Linked(Top, saved[Len(saved)], After(saved, Current, Len(stack)))
    BY <1>1, <1>2 DEF Levels, Top
  <1>. QED BY <1>1, <1>2, <1>3 DEF After, TypeOK, Top

\* emplace() gives the new object the next id and a key nobody holds, and the
\* newest undo state records the id.
LEMMA EmplaceInv ==
  ASSUME IndInv, NEW v \in Value, emplace(v)
  PROVE  IndInv'
  <1>. DEFINE d == [contents |-> [idx EXCEPT ![next_id] = v], next |-> next_id + 1]
  <1>1. TypeOK /\ WellFormed(Current) /\ next_id \in Ids /\ Current \in Snapshot
    BY IndInvByLevels, BoundsAssumption
       DEF emplace, TypeOK, Ids, Current, Snapshot
  <1>2. d \in Snapshot
    BY <1>1, BoundsAssumption DEF emplace, TypeOK, Snapshot, Store, Contents, Ids
  <1>3. WellFormed(d)
    <2>1. \A i \in Ids : d.contents[i] # Absent => i < d.next
      BY <1>1, BoundsAssumption DEF WellFormed, Current, TypeOK, Store, Ids
    <2>2. ASSUME KeyUnique, NEW i \in Ids, NEW j \in Ids, i # j,
                 d.contents[i] # Absent, d.contents[j] # Absent
          PROVE  KeyOf(d.contents[i]) # KeyOf(d.contents[j])
      BY <1>1, <2>2 DEF WellFormed, Current, TypeOK, Store, emplace, Clash
    <2>. QED BY <2>1, <2>2 DEF WellFormed
  <1>4. ASSUME enabled
        PROVE  /\ on_create(Top, next_id) \in undo_state
               /\ on_create(Top, next_id).revision = Top.revision
               /\ Linked(on_create(Top, next_id), saved[Len(saved)], d)
    <2>. DEFINE b == saved[Len(saved)]
    <2>1. /\ Top \in undo_state
          /\ b \in Snapshot
          /\ Linked(Top, b, Current)
      BY <1>4, TopLevel
    <2>2. Delta(on_create(Top, next_id), b, d)
      <3>1. Current.next = next_id /\ Current.contents = idx /\ next_id < MaxId
        BY DEF Current, emplace
      <3>. QED BY <1>1, <2>1, <3>1, DeltaOfCreate DEF Linked
    <2>3. Follows(b, d)
      BY <1>1, <2>1, BoundsAssumption, ValueAssumption
         DEF Linked, Follows, Delta, WellFormed, Current, TypeOK, Store, Snapshot, Ids
    <2>4. on_create(Top, next_id) \in undo_state
      BY <1>1, <2>1, UndoStateTypes
    <2>5. on_create(Top, next_id).revision = Top.revision
      BY <1>1, <2>1, RevisionKept
    <2>. QED BY <2>1, <2>2, <2>3, <2>4, <2>5 DEF Linked
  <1>5. /\ idx' = d.contents
        /\ next_id' = d.next
        /\ stack' = Record(on_create(Top, next_id))
        /\ UNCHANGED <<revision, failed, saved>>
    BY DEF emplace
  <1>. HIDE DEF d
  <1>. QED BY <1>2, <1>3, <1>4, <1>5, Change

\* Only here is SafeKeys needed: a modifier that keeps a unique key never
\* clashes, so the container never erases the object.
LEMMA ModifyInv ==
  ASSUME SafeKeys, IndInv, NEW i \in Ids, NEW v \in Value, modify(i, v)
  PROVE  IndInv'
  <1>. DEFINE d == [contents |-> [idx EXCEPT ![i] = v], next |-> next_id]
  <1>1. TypeOK /\ WellFormed(Current) /\ Current \in Snapshot
    BY IndInvByLevels DEF TypeOK, Current, Snapshot
  <1>2. d \in Snapshot
    BY <1>1 DEF TypeOK, Snapshot, Store, Contents
  <1>3. KeyUnique => KeyOf(v) = KeyOf(idx[i])
    BY DEF SafeKeys, modify
  <1>4. ~ Clash(idx, i, v)
    BY <1>1, <1>3 DEF Clash, WellFormed, Current, modify
  <1>5. WellFormed(d)
    <2>1. \A j \in Ids : d.contents[j] # Absent => j < d.next
      BY <1>1 DEF WellFormed, Current, TypeOK, Store, modify
    <2>2. ASSUME KeyUnique, NEW j \in Ids, NEW k \in Ids, j # k,
                 d.contents[j] # Absent, d.contents[k] # Absent
          PROVE  KeyOf(d.contents[j]) # KeyOf(d.contents[k])
      BY <1>1, <1>3, <2>2 DEF WellFormed, Current, TypeOK, Store, modify
    <2>. QED BY <2>1, <2>2 DEF WellFormed
  <1>6. ASSUME enabled
        PROVE  /\ on_modify(Top, i) \in undo_state
               /\ on_modify(Top, i).revision = Top.revision
               /\ Linked(on_modify(Top, i), saved[Len(saved)], d)
    <2>. DEFINE b == saved[Len(saved)]
    <2>1. /\ Top \in undo_state
          /\ b \in Snapshot
          /\ Linked(Top, b, Current)
      BY <1>6, TopLevel
    <2>2. Delta(on_modify(Top, i), b, d)
      BY <1>1, <2>1, DeltaOfModify DEF Linked, modify
    <2>3. Follows(b, d)
      BY <1>1, <1>3, <2>1
         DEF Linked, Follows, Current, TypeOK, Store, Snapshot, modify
    <2>4. on_modify(Top, i) \in undo_state
      BY <1>1, <2>1, UndoStateTypes
    <2>5. on_modify(Top, i).revision = Top.revision
      BY <2>1, RevisionKept
    <2>. QED BY <2>1, <2>2, <2>3, <2>4, <2>5 DEF Linked
  <1>7. /\ idx' = d.contents
        /\ next_id' = d.next
        /\ stack' = Record(on_modify(Top, i))
        /\ UNCHANGED <<revision, failed, saved>>
    BY <1>4 DEF modify
  <1>. HIDE DEF d
  <1>. QED BY <1>2, <1>5, <1>6, <1>7, Change

\* remove() records the object as the session found it.
LEMMA RemoveInv ==
  ASSUME IndInv, NEW i \in Ids, remove(i)
  PROVE  IndInv'
  <1>. DEFINE d == [contents |-> [idx EXCEPT ![i] = Absent], next |-> next_id]
  <1>1. TypeOK /\ WellFormed(Current)
    BY IndInvByLevels
  <1>2. d \in Snapshot
    BY <1>1 DEF TypeOK, Snapshot, Store, Contents
  <1>3. WellFormed(d)
    BY <1>1 DEF WellFormed, Current, TypeOK, Store
  <1>4. ASSUME enabled
        PROVE  /\ on_remove(Top, i) \in undo_state
               /\ on_remove(Top, i).revision = Top.revision
               /\ Linked(on_remove(Top, i), saved[Len(saved)], d)
    <2>. DEFINE b == saved[Len(saved)]
    <2>1. /\ Top \in undo_state
          /\ b \in Snapshot
          /\ Linked(Top, b, Current)
      BY <1>4, TopLevel
    <2>2. Delta(on_remove(Top, i), b, d)
      BY <1>1, <2>1, DeltaOfRemove DEF Linked, remove
    <2>3. Follows(b, d)
      BY <1>1, <2>1 DEF Linked, Follows, Current, TypeOK, Store, Snapshot
    <2>4. on_remove(Top, i) \in undo_state
      BY <1>1, <2>1, UndoStateTypes
    <2>5. on_remove(Top, i).revision = Top.revision
      BY <2>1, RevisionKept
    <2>. QED BY <2>1, <2>2, <2>3, <2>4, <2>5 DEF Linked
  <1>5. /\ idx' = d.contents
        /\ next_id' = d.next
        /\ stack' = Record(on_remove(Top, i))
        /\ UNCHANGED <<revision, failed, saved>>
    BY DEF remove
  <1>. HIDE DEF d
  <1>. QED BY <1>2, <1>3, <1>4, <1>5, Change

\* move_to_external_storage() takes an object no undo state knows out of every
\* version at once.
LEMMA MoveInv ==
  ASSUME IndInv, NEW i \in Ids, move_to_external_storage(i)
  PROVE  IndInv'
  <1>1. /\ TypeOK
        /\ ~ failed
        /\ WellFormed(Current)
        /\ Levels(stack, saved, Current, revision)
        /\ Current \in Snapshot
    BY IndInvByLevels DEF TypeOK, Current, Snapshot
  <1>2. Current' = Without(Current, i)
    BY DEF move_to_external_storage, Current, Without
  <1>3. saved' = [k \in 1..Len(saved) |-> Without(saved[k], i)]
    BY DEF move_to_external_storage, Without
  <1>4. /\ saved' \in Seq(Snapshot)
        /\ Levels(stack, saved', Without(Current, i), revision)
    BY <1>1, <1>3, LevelsWithout, ZenonT(60) DEF move_to_external_storage, TypeOK
  <1>5. idx' \in Store
    BY <1>1 DEF move_to_external_storage, TypeOK, Store, Contents
  <1>6. TypeOK'
    BY <1>1, <1>4, <1>5 DEF move_to_external_storage, TypeOK
  <1>7. WellFormed(Current')
    BY <1>1, <1>2, SMTT(60) DEF WellFormed, Without, Current, TypeOK, Store
  <1>8. /\ ~ failed'
        /\ Levels(stack', saved', Current', revision')
    BY <1>1, <1>2, <1>4 DEF move_to_external_storage
  <1>. QED BY <1>6, <1>7, <1>8, IndInvAfter

\* start_undo_session() adds an empty level.
LEMMA StartInv ==
  ASSUME IndInv, start_undo_session
  PROVE  IndInv'
  <1>. DEFINE u == [old_values     |-> Nothing,
                    removed_values |-> Nothing,
                    new_ids        |-> {},
                    old_next_id    |-> next_id,
                    revision       |-> revision + 1]
  <1>1. /\ TypeOK
        /\ ~ failed
        /\ WellFormed(Current)
        /\ Levels(stack, saved, Current, revision)
        /\ Current \in Snapshot
    BY IndInvByLevels DEF TypeOK, Current, Snapshot
  <1>2. u \in undo_state /\ u.revision = revision + 1
    BY <1>1 DEF TypeOK, undo_state, Nothing, Store, Contents
  <1>3. Linked(u, Current, Current)
    <2>1. Delta(u, Current, Current)
      <3>1. Current.next = next_id /\ revision + 1 \in Int
        BY <1>1 DEF Current, TypeOK
      <3>. QED BY <1>1, <3>1, DeltaOfNewSession
    <2>2. Follows(Current, Current)
      BY DEF Follows
    <2>. QED BY <1>1, <2>1, <2>2 DEF Linked
  <1>4. /\ stack' = Append(stack, u)
        /\ saved' = Append(saved, Current)
        /\ revision' = revision + 1
        /\ Current' = Current
        /\ UNCHANGED <<idx, next_id, failed>>
    BY DEF start_undo_session, Current
  <1>. HIDE DEF u
  <1>5. Levels(stack', saved', Current', revision')
    BY <1>1, <1>2, <1>3, <1>4, LevelsPush DEF TypeOK
  <1>6. TypeOK'
    BY <1>1, <1>2, <1>4 DEF TypeOK
  <1>. QED BY <1>1, <1>4, <1>5, <1>6, IndInvAfter

\* undo() finds an exact difference, so it does not throw and brings back
\* what the session found.
LEMMA UndoInv ==
  ASSUME IndInv, undo
  PROVE  /\ IndInv'
         /\ Current' = saved[Len(saved)]
         /\ saved' = SubSeq(saved, 1, Len(saved) - 1)
  <1>. DEFINE b == saved[Len(saved)]
  <1>1. /\ TypeOK
        /\ ~ failed
        /\ WellFormed(Current)
        /\ Levels(stack, saved, Current, revision)
        /\ Current \in Snapshot
    BY IndInvByLevels DEF TypeOK, Current, Snapshot
  <1>2. /\ Top \in undo_state
        /\ b \in Snapshot
        /\ Linked(Top, b, Current)
    BY TopLevel DEF undo
  <1>3. Restorable(Top) /\ Rollback(Top) = b.contents
    BY <1>1, <1>2, ExactIsRestorable, RollbackRestores DEF Linked
  <1>4. Top.old_next_id = b.next
    BY <1>2 DEF Linked, Delta
  <1>5. /\ idx' = b.contents
        /\ next_id' = b.next
        /\ stack' = SubSeq(stack, 1, Len(stack) - 1)
        /\ saved' = SubSeq(saved, 1, Len(saved) - 1)
        /\ revision' = revision - 1
        /\ failed' = failed
    BY <1>3, <1>4 DEF undo
  <1>6. Current' = b
    BY <1>2, <1>5 DEF Current, Snapshot
  <1>7. /\ stack' \in Seq(undo_state)
        /\ saved' \in Seq(Snapshot)
        /\ Levels(stack', saved', Current', revision')
    BY <1>1, <1>5, <1>6, LevelsPop DEF TypeOK, undo, enabled
  <1>8. TypeOK'
    <2>1. idx' \in Store /\ next_id' \in 0..MaxId
      BY <1>2, <1>5 DEF Snapshot
    <2>. QED BY <1>1, <1>5, <1>7, <2>1 DEF TypeOK
  <1>9. WellFormed(Current') /\ ~ failed'
    BY <1>1, <1>2, <1>5, <1>6 DEF Linked
  <1>. QED BY <1>5, <1>6, <1>7, <1>8, <1>9, IndInvAfter

\* squash() merges the two newest levels, or drops the only one.
LEMMA SquashInv ==
  ASSUME IndInv, squash
  PROVE  IndInv'
  <1>1. /\ TypeOK
        /\ ~ failed
        /\ WellFormed(Current)
        /\ Levels(stack, saved, Current, revision)
        /\ Current \in Snapshot
    BY IndInvByLevels DEF TypeOK, Current, Snapshot
  <1>2. /\ Top \in undo_state
        /\ Len(stack) \in Nat \ {0}
        /\ Len(saved) = Len(stack)
    BY TopLevel DEF squash
  <1>3. /\ Current' = Current
        /\ UNCHANGED <<idx, next_id, failed>>
        /\ saved' = SubSeq(saved, 1, Len(saved) - 1)
    BY DEF squash, Current
  <1>4. saved' \in Seq(Snapshot) /\ Len(saved') = Len(saved) - 1
    BY <1>1, <1>2, <1>3 DEF TypeOK
  <1>5. /\ stack' \in Seq(undo_state)
        /\ revision' \in Int
        /\ Levels(stack', saved', Current, revision')
    <2>1. CASE Len(stack) = 1
      <3>1. stack' = <<>> /\ revision' = revision /\ Len(saved') = 0
        BY <1>2, <1>4, <2>1 DEF squash
      <3>. QED BY <1>1, <3>1, NoLevels DEF TypeOK
    <2>2. CASE Len(stack) # 1
      <3>. DEFINE n == Len(stack)
                  t == [SubSeq(stack, 1, n - 1) EXCEPT ![n - 1] = Merge(@, stack[n])]
      <3>1. n \in Nat /\ n > 1 /\ n - 1 \in 1..n
        BY <1>2, <2>2
      <3>2. stack' = t /\ revision' = revision - 1
        BY <2>2 DEF squash, Top
      <3>3. stack[n - 1] \in undo_state /\ stack[n] \in undo_state
        BY <1>1, <3>1 DEF TypeOK
      <3>4. /\ Merge(stack[n - 1], stack[n]) \in undo_state
            /\ Merge(stack[n - 1], stack[n]).revision = stack[n - 1].revision
        BY <1>1, <3>3, MergeIsUndoState
      <3>5. stack \in Seq(undo_state) /\ saved \in Seq(Snapshot) /\ revision \in Int
        BY <1>1 DEF TypeOK
      <3>6. \A w : w = t =>
              /\ w \in Seq(undo_state)
              /\ Levels(w, SubSeq(saved, 1, Len(saved) - 1), Current, revision - 1)
        BY <1>1, <3>1, <3>4, <3>5, LevelsMerge
      <3>. HIDE DEF t
      <3>. QED BY <1>3, <3>2, <3>5, <3>6
    <2>. QED BY <2>1, <2>2
  <1>6. TypeOK'
    BY <1>1, <1>3, <1>4, <1>5 DEF TypeOK
  <1>. QED BY <1>1, <1>3, <1>5, <1>6, IndInvAfter

\* commit() drops the oldest levels and touches nothing else.
LEMMA CommitInv ==
  ASSUME IndInv, NEW r, commit(r)
  PROVE  IndInv'
  <1>1. /\ TypeOK
        /\ ~ failed
        /\ WellFormed(Current)
        /\ Levels(stack, saved, Current, revision)
        /\ Current \in Snapshot
    BY IndInvByLevels DEF TypeOK, Current, Snapshot
  <1>2. PICK k \in 1..Len(stack) :
          /\ stack' = SubSeq(stack, k + 1, Len(stack))
          /\ saved' = SubSeq(saved, k + 1, Len(saved))
          /\ UNCHANGED <<idx, next_id, revision, failed>>
    BY DEF commit
  <1>3. Current' = Current
    BY <1>2 DEF Current
  <1>4. /\ stack' \in Seq(undo_state)
        /\ saved' \in Seq(Snapshot)
        /\ Levels(stack', saved', Current, revision)
    BY <1>1, <1>2, LevelsDropFront DEF TypeOK
  <1>5. TypeOK'
    BY <1>1, <1>2, <1>4 DEF TypeOK
  <1>. QED BY <1>1, <1>2, <1>3, <1>4, <1>5, IndInvAfter

\* set_revision() is refused while a session is open.
LEMMA SetRevisionInv ==
  ASSUME IndInv, NEW r \in 0..MaxRevision, set_revision(r)
  PROVE  IndInv'
  <1>1. /\ TypeOK
        /\ ~ failed
        /\ WellFormed(Current)
        /\ Levels(stack, saved, Current, revision)
        /\ stack = <<>>
    BY IndInvByLevels DEF set_revision, enabled
  <1>2. Current' = Current /\ UNCHANGED <<idx, next_id, stack, failed, saved>>
    BY DEF set_revision, Current
  <1>3. Levels(stack', saved', Current', revision')
    BY <1>1, <1>2, NoLevels
  <1>4. TypeOK'
    BY <1>1, BoundsAssumption DEF set_revision, TypeOK
  <1>. QED BY <1>1, <1>2, <1>3, <1>4, IndInvAfter

\* Every step preserves the invariant.
LEMMA StepInv ==
  ASSUME SafeKeys, IndInv, [Next]_vars
  PROVE  IndInv'
  <1>1. CASE Next
    BY <1>1, EmplaceInv, ModifyInv, RemoveInv, MoveInv, StartInv, UndoInv,
       SquashInv, CommitInv, SetRevisionInv DEF Next
  <1>2. CASE UNCHANGED vars
    <2>1. Current' = Current /\ UNCHANGED vars
      BY <1>2 DEF vars, Current
    <2>2. /\ TypeOK
          /\ ~ failed
          /\ WellFormed(Current)
          /\ Levels(stack, saved, Current, revision)
      BY IndInvByLevels
    <2>3. TypeOK'
      BY <2>1, <2>2 DEF vars, TypeOK
    <2>4. /\ ~ failed'
          /\ WellFormed(Current')
          /\ Levels(stack', saved', Current', revision')
      BY <2>1, <2>2 DEF vars
    <2>. QED BY <2>3, <2>4, IndInvAfter
  <1>. QED BY <1>1, <1>2

------------------------------------------------------------------------------
(* The theorems. *)

\* The inductive invariant holds throughout.
THEOREM IndInvHolds == ASSUME SafeKeys PROVE Spec => []IndInv
  <1>1. Init => IndInv
    BY InitInv
  <1>2. IndInv /\ [Next]_vars => IndInv'
    BY StepInv
  <1>. QED BY <1>1, <1>2, PTL DEF Spec

\* Every variable keeps its C++ type.
THEOREM TypeCorrect == ASSUME SafeKeys PROVE Spec => []TypeOK
  <1>1. IndInv => TypeOK
    BY DEF IndInv
  <1>. QED BY <1>1, IndInvHolds, PTL

\* undo() never throws, in any sequence of operations, on an index whose
\* unique keys no modifier changes.
THEOREM UndoIsSafe == ASSUME SafeKeys PROVE Spec => []UndoNeverThrows
  <1>1. IndInv => UndoNeverThrows
    BY DEF IndInv, UndoNeverThrows
  <1>. QED BY <1>1, IndInvHolds, PTL

\* Every undo state on the stack is the exact difference between the versions
\* of the index it lies between.
THEOREM DeltasAreExact == ASSUME SafeKeys PROVE Spec => []DeltaExact
  <1>1. IndInv => DeltaExact
    BY DEF IndInv
  <1>. QED BY <1>1, IndInvHolds, PTL

\* The stack's revisions are consecutive and end at the current one.
THEOREM RevisionsAreInStep == ASSUME SafeKeys PROVE Spec => []RevisionsInStep
  <1>1. IndInv => RevisionsInStep
    BY DEF IndInv
  <1>. QED BY <1>1, IndInvHolds, PTL

\* Every step of the index is a step of the stack of snapshots.
LEMMA StepRefines ==
  ASSUME SafeKeys, IndInv, IndInv', [Next]_vars
  PROVE  [Abstract!Next]_(Abstract!vars)
  <1>. USE DEF Abstract!Next, Abstract!vars
  <1>0. /\ TypeOK
        /\ TypeOK'
        /\ Len(saved) = Len(stack)
    BY DEF IndInv, DeltaExact
  <1>1. idx' \in [Ids -> Abstract!Contents] /\ next_id' \in Nat
    BY <1>0, BoundsAssumption DEF TypeOK, Store, Contents, Abstract!Contents
  <1>2. ASSUME NEW v \in Value, emplace(v) PROVE Abstract!Change
    BY <1>1, <1>2 DEF emplace, Abstract!Change
  <1>3. ASSUME NEW i \in Ids, NEW v \in Value, modify(i, v) PROVE Abstract!Change
    BY <1>1, <1>3 DEF modify, Abstract!Change
  <1>4. ASSUME NEW i \in Ids, remove(i) PROVE Abstract!Change
    BY <1>1, <1>4 DEF remove, Abstract!Change
  <1>5. ASSUME NEW i \in Ids, move_to_external_storage(i) PROVE Abstract!Discard
    BY <1>5 DEF move_to_external_storage, Abstract!Discard
  <1>6. ASSUME start_undo_session PROVE Abstract!Save
    BY <1>6 DEF start_undo_session, Abstract!Save, Abstract!Here
  <1>7. ASSUME undo PROVE Abstract!Restore
    <2>1. /\ Current' = saved[Len(saved)]
          /\ saved' = SubSeq(saved, 1, Len(saved) - 1)
      BY <1>7, UndoInv
    <2>2. saved # <<>>
      BY <1>0, <1>7 DEF undo, enabled, TypeOK
    <2>3. /\ idx' = saved[Len(saved)].contents
          /\ next_id' = saved[Len(saved)].next
      BY <2>1 DEF Current
    <2>. QED BY <2>1, <2>2, <2>3 DEF Abstract!Restore
  <1>8. ASSUME squash PROVE Abstract!ForgetNewest
    <2>1. saved # <<>>
      BY <1>0, <1>8 DEF squash, enabled, TypeOK
    <2>. QED BY <1>8, <2>1 DEF squash, Abstract!ForgetNewest
  <1>9. ASSUME NEW r, commit(r) PROVE Abstract!ForgetOldest
    BY <1>0, <1>9 DEF commit, Abstract!ForgetOldest
  <1>10. ASSUME NEW r, set_revision(r) PROVE UNCHANGED <<idx, next_id, saved>>
    BY <1>10 DEF set_revision
  <1>11. CASE UNCHANGED vars
    BY <1>11 DEF vars
  <1>. QED BY <1>2, <1>3, <1>4, <1>5, <1>6, <1>7, <1>8, <1>9, <1>10, <1>11 DEF Next

\* The index with its differences implements the stack of full snapshots: no
\* sequence of changes, sessions, squashes and commits makes undo() bring
\* back anything but what the session found.
THEOREM Refinement == ASSUME SafeKeys PROVE Spec => ImplementsUndoStack
  <1>1. Init => Abstract!Init
    BY BoundsAssumption
       DEF Init, Nothing, Contents, Abstract!Init, Abstract!Contents
  <1>2. IndInv /\ IndInv' /\ [Next]_vars => [Abstract!Next]_(Abstract!vars)
    BY StepRefines
  <1>. QED BY <1>1, <1>2, IndInvHolds, PTL DEF Spec, ImplementsUndoStack, Abstract!Spec
==============================================================================
