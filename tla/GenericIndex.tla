---------------------------- MODULE GenericIndex ----------------------------
(***************************************************************************)
(* chainbase::generic_index: a multi-index container of objects with a     *)
(* stack of undo states.  An undo state holds only what changed since its  *)
(* session began: the old version of modified objects, the removed ones,   *)
(* the ids of created ones and the id counter.                             *)
(*                                                                         *)
(* Every blockchain object lives in such an index; one session per block   *)
(* plus sessions for pending transactions are open at a time, all indexes  *)
(* in step (chainbase.cpp, database::undo, squash, commit, ...), so one    *)
(* index is modelled.  A value stands for all the fields of an object;     *)
(* KeyOf gives the fields a unique secondary key is made of.               *)
(***************************************************************************)
EXTENDS Integers, Sequences

CONSTANTS
  MaxId,       \* bound: number of ids an execution may hand out
  Value,       \* the possible contents of an object
  Absent,      \* no object
  KeyOf(_),    \* the secondary key of a value
  KeyUnique,   \* the secondary key is declared unique
  KeyMutable,  \* a modifier may change the secondary key
  MaxDepth,    \* bound: open undo sessions
  MaxRevision  \* bound: highest revision number

ASSUME BoundsAssumption ==
  /\ MaxId \in Nat
  /\ MaxDepth \in Nat
  /\ MaxRevision \in Nat

ASSUME ValueAssumption ==
  /\ Absent \notin Value
  /\ KeyUnique \in BOOLEAN
  /\ KeyMutable \in BOOLEAN

VARIABLES
  idx,       \* _indices: id -> value or Absent
  next_id,   \* _next_id
  stack,     \* _stack, oldest undo state first
  revision,  \* _revision
  failed,    \* undo() has thrown; the process does not survive it
  saved      \* history: the index as each open session found it

vars == <<idx, next_id, stack, revision, failed, saved>>

Ids == 0..(MaxId - 1)
Contents == Value \cup {Absent}
Store == [Ids -> Contents]

undo_state == [old_values     : Store,
               removed_values : Store,
               new_ids        : SUBSET Ids,
               old_next_id    : 0..MaxId,
               revision       : Int]

Snapshot == [contents : Store, next : 0..MaxId]

Nothing == [i \in Ids |-> Absent]

Top == stack[Len(stack)]
enabled == stack # <<>>

\* v at id i would share a unique key with another object of f.
Clash(f, i, v) ==
  /\ KeyUnique
  /\ \E j \in Ids \ {i} : f[j] # Absent /\ KeyOf(f[j]) = KeyOf(v)

------------------------------------------------------------------------------
(* What the three notifications record in the newest undo state. *)

\* u with its three containers replaced.
With(u, olds, removed, news) == [old_values     |-> olds,
                                 removed_values |-> removed,
                                 new_ids        |-> news,
                                 old_next_id    |-> u.old_next_id,
                                 revision       |-> u.revision]

on_create(u, i) ==
  With(u, u.old_values, u.removed_values, u.new_ids \cup {i})

on_modify(u, i) ==
  IF i \in u.new_ids \/ u.old_values[i] # Absent
  THEN u
  ELSE With(u, [u.old_values EXCEPT ![i] = idx[i]], u.removed_values, u.new_ids)

\* Mutant: an object modified and then removed is recorded as it was when it
\* was removed instead of as the session found it.
on_remove_latest(u, i) ==
  IF i \in u.new_ids
  THEN With(u, u.old_values, u.removed_values, u.new_ids \ {i})
  ELSE With(u, [u.old_values EXCEPT ![i] = Absent],
            [u.removed_values EXCEPT ![i] = idx[i]], u.new_ids)

on_remove(u, i) ==
  IF i \in u.new_ids
  THEN With(u, u.old_values, u.removed_values, u.new_ids \ {i})
  ELSE IF u.old_values[i] # Absent
  THEN With(u, [u.old_values EXCEPT ![i] = Absent],
            [u.removed_values EXCEPT ![i] = u.old_values[i]], u.new_ids)
  ELSE IF u.removed_values[i] # Absent
  THEN u
  ELSE With(u, u.old_values, [u.removed_values EXCEPT ![i] = idx[i]], u.new_ids)

Record(u) == IF enabled THEN [stack EXCEPT ![Len(stack)] = u] ELSE stack

------------------------------------------------------------------------------
Init == /\ idx = Nothing
        /\ next_id = 0
        /\ stack = <<>>
        /\ revision = 0
        /\ failed = FALSE
        /\ saved = <<>>

\* A value that violates uniqueness makes emplace throw with no effect.
emplace(v) ==
  /\ next_id < MaxId
  /\ ~ Clash(idx, next_id, v)
  /\ idx' = [idx EXCEPT ![next_id] = v]
  /\ next_id' = next_id + 1
  /\ stack' = Record(on_create(Top, next_id))
  /\ UNCHANGED <<revision, failed, saved>>

\* The container erases an object whose new key is taken; modify then throws.
modify(i, v) ==
  /\ idx[i] # Absent
  /\ KeyMutable \/ KeyOf(v) = KeyOf(idx[i])
  /\ stack' = Record(on_modify(Top, i))
  /\ idx' = [idx EXCEPT ![i] = IF Clash(idx, i, v) THEN Absent ELSE v]
  /\ UNCHANGED <<next_id, revision, failed, saved>>

remove(i) ==
  /\ idx[i] # Absent
  /\ stack' = Record(on_remove(Top, i))
  /\ idx' = [idx EXCEPT ![i] = Absent]
  /\ UNCHANGED <<next_id, revision, failed, saved>>

\* Erases an object behind the back of the undo states.  Its callers only
\* pass objects of irreversible blocks, whose undo states commit() has
\* already dropped: no remaining undo state knows the object.
move_to_external_storage(i) ==
  /\ idx[i] # Absent
  /\ \A k \in 1..Len(stack) : /\ i \notin stack[k].new_ids
                              /\ stack[k].old_values[i] = Absent
                              /\ stack[k].removed_values[i] = Absent
  /\ idx' = [idx EXCEPT ![i] = Absent]
  /\ saved' = [k \in 1..Len(saved) |->
                 [contents |-> [saved[k].contents EXCEPT ![i] = Absent],
                  next     |-> saved[k].next]]
  /\ UNCHANGED <<next_id, stack, revision, failed>>

------------------------------------------------------------------------------
start_undo_session ==
  /\ Len(stack) < MaxDepth
  /\ revision < MaxRevision
  /\ revision' = revision + 1
  /\ stack' = Append(stack, [old_values     |-> Nothing,
                             removed_values |-> Nothing,
                             new_ids        |-> {},
                             old_next_id    |-> next_id,
                             revision       |-> revision + 1])
  /\ saved' = Append(saved, [contents |-> idx, next |-> next_id])
  /\ UNCHANGED <<idx, next_id, failed>>

\* The index once undo() has put u's changes back.
Rollback(u) ==
  [i \in Ids |-> IF u.removed_values[i] # Absent THEN u.removed_values[i]
                 ELSE IF i \in u.new_ids THEN Absent
                 ELSE IF u.old_values[i] # Absent THEN u.old_values[i]
                 ELSE idx[i]]

\* Mutant: undo() erases the created objects only after it has put back the
\* removed ones.
Restorable_erase_last(u) ==
  /\ \A i \in u.new_ids : idx[i] # Absent
  /\ \A i \in Ids : u.removed_values[i] # Absent =>
       /\ idx[i] = Absent
       /\ ~ Clash(idx, i, u.removed_values[i])

\* None of undo()'s three loops throws.  Old versions go back first, in id
\* order, while the created objects are still there; then the created ids
\* are erased and must be found; then removed objects are emplaced again.
Restorable(u) ==
  /\ \A i \in Ids : u.old_values[i] # Absent =>
       ~ Clash([j \in Ids |-> IF j < i /\ u.old_values[j] # Absent
                              THEN u.old_values[j] ELSE idx[j]],
               i, u.old_values[i])
  /\ \A i \in u.new_ids : idx[i] # Absent
  /\ \A i \in Ids : u.removed_values[i] # Absent =>
       /\ idx[i] = Absent \/ i \in u.new_ids
       /\ ~ Clash(Rollback(u), i, u.removed_values[i])

\* Mutant: the id counter is restored one too low.
undo_counter_off_by_one ==
  /\ enabled
  /\ idx' = Rollback(Top)
  /\ next_id' = Top.old_next_id - 1
  /\ stack' = SubSeq(stack, 1, Len(stack) - 1)
  /\ saved' = SubSeq(saved, 1, Len(saved) - 1)
  /\ revision' = revision - 1
  /\ failed' = failed

\* A throw leaves undo() half done, in most cases inside the destructor of a
\* session: nothing is modelled after it.
undo ==
  /\ enabled
  /\ IF Restorable(Top)
     THEN /\ idx' = Rollback(Top)
          /\ next_id' = Top.old_next_id
          /\ stack' = SubSeq(stack, 1, Len(stack) - 1)
          /\ saved' = SubSeq(saved, 1, Len(saved) - 1)
          /\ revision' = revision - 1
          /\ failed' = failed
     ELSE /\ failed' = TRUE
          /\ UNCHANGED <<idx, next_id, stack, revision, saved>>

\* Mutant: squash() keeps a removal as it is when the older state had already
\* saved an old version of the object.
Merge_keeps_later_version(p, u) ==
  LET news == p.new_ids \cup u.new_ids
      gone(i) == u.removed_values[i] # Absent
  IN  With(p,
        [i \in Ids |-> IF gone(i) /\ i \notin news THEN Absent
                       ELSE IF p.old_values[i] = Absent /\ i \notin p.new_ids
                       THEN u.old_values[i] ELSE p.old_values[i]],
        [i \in Ids |-> IF gone(i) /\ i \notin news /\ p.removed_values[i] = Absent
                       THEN u.removed_values[i] ELSE p.removed_values[i]],
        {i \in news : ~ gone(i)})

\* The composition of two undo states, p before u (the 4x4 matrix): first the
\* old versions and the created ids are merged, then the removals.
Merge(p, u) ==
  LET olds(i) == IF /\ u.old_values[i] # Absent
                    /\ i \notin p.new_ids
                    /\ p.old_values[i] = Absent
                 THEN u.old_values[i] ELSE p.old_values[i]
      news == p.new_ids \cup u.new_ids
      gone(i) == u.removed_values[i] # Absent
  IN  With(p,
        [i \in Ids |-> IF gone(i) /\ i \notin news THEN Absent ELSE olds(i)],
        [i \in Ids |-> IF ~ gone(i) \/ i \in news \/ p.removed_values[i] # Absent
                       THEN p.removed_values[i]
                       ELSE IF olds(i) # Absent THEN olds(i)
                       ELSE u.removed_values[i]],
        {i \in news : ~ gone(i)})

\* Mutant: the revision is not reduced when two undo states become one.
squash_keeps_revision ==
  /\ enabled
  /\ stack' = IF Len(stack) = 1 THEN <<>>
              ELSE [SubSeq(stack, 1, Len(stack) - 1) EXCEPT
                      ![Len(stack) - 1] = Merge(@, Top)]
  /\ saved' = SubSeq(saved, 1, Len(saved) - 1)
  /\ UNCHANGED <<idx, next_id, revision, failed>>

\* With a single undo state its changes just become permanent, and the
\* revision is kept.
squash ==
  /\ enabled
  /\ IF Len(stack) = 1
     THEN stack' = <<>> /\ revision' = revision
     ELSE /\ stack' = [SubSeq(stack, 1, Len(stack) - 1) EXCEPT
                         ![Len(stack) - 1] = Merge(@, Top)]
          /\ revision' = revision - 1
  /\ saved' = SubSeq(saved, 1, Len(saved) - 1)
  /\ UNCHANGED <<idx, next_id, failed>>

\* k undo states, the ones up to revision r, are dropped from the front.
commit(r) ==
  \E k \in 1..Len(stack) :
    /\ \A i \in 1..k : stack[i].revision <= r
    /\ k < Len(stack) => stack[k + 1].revision > r
    /\ stack' = SubSeq(stack, k + 1, Len(stack))
    /\ saved' = SubSeq(saved, k + 1, Len(saved))
    /\ UNCHANGED <<idx, next_id, revision, failed>>

set_revision(r) ==
  /\ ~ enabled
  /\ revision' = r
  /\ UNCHANGED <<idx, next_id, stack, failed, saved>>

Next ==
  /\ ~ failed
  /\ \/ \E v \in Value : emplace(v)
     \/ \E i \in Ids, v \in Value : modify(i, v)
     \/ \E i \in Ids : remove(i)
     \/ \E i \in Ids : move_to_external_storage(i)
     \/ start_undo_session
     \/ undo
     \/ squash
     \/ \E r \in 0..MaxRevision : commit(r)
     \/ \E r \in 0..MaxRevision : set_revision(r)

Spec == Init /\ [][Next]_vars

------------------------------------------------------------------------------
(* Properties *)

\* Every variable holds what the C++ types allow.
TypeOK ==
  /\ idx \in Store
  /\ next_id \in 0..MaxId
  /\ stack \in Seq(undo_state)
  /\ revision \in Int
  /\ failed \in BOOLEAN
  /\ saved \in Seq(Snapshot)

\* undo() never throws: no restored key collides, every created object is
\* found, every removed id is free.
UndoNeverThrows == ~ failed

Current == [contents |-> idx, next |-> next_id]

\* The index at the end of the session of undo state k: what the next
\* session found, or the current index.
Level(k) == IF k < Len(saved) THEN saved[k + 1] ELSE Current

\* u holds exactly the difference between before and after: the ids created
\* in between, the objects removed in between as they were before, and an old
\* version of every object that differs.
Delta(u, before, after) ==
  /\ u.old_next_id = before.next
  /\ before.next <= after.next
  /\ \A i \in Ids :
       /\ i \in u.new_ids <=> /\ before.contents[i] = Absent
                             /\ after.contents[i] # Absent
       /\ u.removed_values[i] = IF after.contents[i] = Absent
                                THEN before.contents[i] ELSE Absent
       /\ u.old_values[i] # Absent => /\ after.contents[i] # Absent
                                      /\ before.contents[i] = u.old_values[i]
       /\ (/\ u.old_values[i] = Absent
           /\ before.contents[i] # Absent
           /\ after.contents[i] # Absent)
            => before.contents[i] = after.contents[i]

\* Each undo state is the exact difference between the index its session
\* found and the one the next session found, whatever mixture of changes,
\* undos, squashes and commits came before.
DeltaExact ==
  /\ Len(saved) = Len(stack)
  /\ \A k \in 1..Len(stack) : Delta(stack[k], saved[k], Level(k))

\* The undo states carry consecutive revisions that end at the current one,
\* so that commit(last irreversible block) drops exactly the blocks meant.
RevisionsInStep ==
  \A k \in 1..Len(stack) :
    stack[k].revision = revision - (Len(stack) - k)

\* Ids are handed out in order, so a present object is below the counter, and
\* no two objects share a unique key.
WellFormed(s) ==
  /\ \A i \in Ids : s.contents[i] # Absent => i < s.next
  /\ KeyUnique => \A i, j \in Ids :
       (i # j /\ s.contents[i] # Absent /\ s.contents[j] # Absent)
         => KeyOf(s.contents[i]) # KeyOf(s.contents[j])

\* Between two sessions no id comes back, and no object changes its key where
\* keys are unique.
Follows(before, after) ==
  \A i \in Ids : after.contents[i] # Absent =>
    IF before.contents[i] = Absent
    THEN i >= before.next
    ELSE KeyUnique => KeyOf(before.contents[i]) = KeyOf(after.contents[i])

\* The inductive invariant: DeltaExact alone is not preserved, because
\* merging two differences needs that ids are not reused in between, and
\* putting keys back needs that the older versions were free of clashes.
IndInv ==
  /\ TypeOK
  /\ ~ failed
  /\ RevisionsInStep
  /\ DeltaExact
  /\ WellFormed(Current)
  /\ \A k \in 1..Len(saved) : /\ WellFormed(saved[k])
                              /\ Follows(saved[k], Level(k))

Abstract == INSTANCE UndoStack WITH contents <- idx, next <- next_id,
                                    snaps <- saved

\* The index implements the stack of snapshots: undo() gives back exactly
\* what the newest session found, squash() merges two sessions without
\* changing what the older one goes back to, commit() forgets the oldest.
ImplementsUndoStack == Abstract!Spec
==============================================================================
