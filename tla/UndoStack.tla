------------------------------ MODULE UndoStack ------------------------------
(***************************************************************************)
(* What an undoable container promises its users, without saying how.      *)
(* A container has contents and a next free id; a stack of snapshots       *)
(* remembers what both were when each open session began.  Undo goes back  *)
(* to the newest snapshot exactly, squash forgets it, commit forgets the   *)
(* oldest ones, and an object moved out of the container is forgotten by   *)
(* every snapshot.  GenericIndex, which stores only differences, is shown  *)
(* to implement this module.                                               *)
(***************************************************************************)
EXTENDS Naturals, Sequences

CONSTANTS Ids,      \* object ids
          Value,    \* what an object may hold
          Absent    \* what an unused id holds

Contents == Value \cup {Absent}

VARIABLES contents, \* [Ids -> Contents]
          next,     \* next free id
          snaps     \* sequence of [contents, next], oldest session first

vars == <<contents, next, snaps>>

Here == [contents |-> contents, next |-> next]

\* The objects of the container before anything was recorded are arbitrary.
Init == /\ contents \in [Ids -> Contents]
        /\ next \in Nat
        /\ snaps = <<>>

\* Objects are created, changed and removed; no snapshot is affected.
Change == /\ contents' \in [Ids -> Contents]
          /\ next' \in Nat
          /\ snaps' = snaps

Save == /\ snaps' = Append(snaps, Here)
        /\ UNCHANGED <<contents, next>>

Restore == /\ snaps # <<>>
           /\ contents' = snaps[Len(snaps)].contents
           /\ next' = snaps[Len(snaps)].next
           /\ snaps' = SubSeq(snaps, 1, Len(snaps) - 1)

ForgetNewest == /\ snaps # <<>>
                /\ snaps' = SubSeq(snaps, 1, Len(snaps) - 1)
                /\ UNCHANGED <<contents, next>>

ForgetOldest == \E k \in 1..Len(snaps) :
                  /\ snaps' = SubSeq(snaps, k + 1, Len(snaps))
                  /\ UNCHANGED <<contents, next>>

\* An object leaves the container and every remembered version of it.
Discard ==
  \E i \in Ids :
    /\ contents' = [contents EXCEPT ![i] = Absent]
    /\ snaps' = [k \in 1..Len(snaps) |->
                   [contents |-> [snaps[k].contents EXCEPT ![i] = Absent],
                    next     |-> snaps[k].next]]
    /\ next' = next

Next == \/ Change
        \/ Save
        \/ Restore
        \/ ForgetNewest
        \/ ForgetOldest
        \/ Discard

Spec == Init /\ [][Next]_vars
==============================================================================
