---------------------------- MODULE ForkDatabase ----------------------------
(***************************************************************************)
(* chain::fork_database: the tree of recent blocks on all forks, with the  *)
(* head of the longest one, and the blocks whose parent is still missing.  *)
(* Every operation is an operator on a fork database f, a record           *)
(*   linked   - the blocks of _index                                       *)
(*   unlinked - the blocks of _unlinked_index                              *)
(*   orphan   - the linked blocks whose weak pointer prev has expired      *)
(*   head     - _head, NoBlock once remove() has met an expired prev       *)
(*   max_size - _max_size                                                  *)
(* A block id stands for the block.  The blocks that will ever be seen     *)
(* form a tree under Root, which is block number 1.                        *)
(***************************************************************************)
EXTENDS Integers, Sequences, FiniteSets

CONSTANTS
  Block,    \* all block ids
  Root,     \* the block every fork descends from
  NoBlock,  \* a null item_ptr
  Num,      \* block -> block number
  Prev,     \* block other than Root -> id of the previous block
  Producer, \* block -> witness who signed it
  MaxSize   \* _max_size of a new fork database

ASSUME TreeAssumption ==
  /\ Root \in Block
  /\ NoBlock \notin Block
  /\ Num \in [Block -> Nat]
  /\ Prev \in [Block \ {Root} -> Block]
  /\ Num[Root] = 1
  /\ \A b \in Block \ {Root} : Num[b] = Num[Prev[b]] + 1
  /\ MaxSize \in Nat

\* No witness signs two blocks of the same number.
ASSUME ProducerAssumption ==
  \A b, c \in Block : Num[b] = Num[c] /\ Producer[b] = Producer[c] => b = c

\* The blocks from Root to b; the position of a block is its number.
Path[b \in Block] == IF b = Root THEN <<Root>> ELSE Append(Path[Prev[b]], b)

Ancestors(b) == {Path[b][n] : n \in 1..Num[b]}

Max0(n) == IF n > 0 THEN n ELSE 0

------------------------------------------------------------------------------
(* Following prev pointers *)

\* prev.lock()
prev(f, b) == IF b = Root \/ b \in f.orphan THEN NoBlock ELSE Prev[b]

\* head_block_num: 0 when there is no head.
HeadNum(f) == IF f.head = NoBlock THEN 0 ELSE Num[f.head]

\* The blocks met when prev is followed from b until it has expired.
Back(f, b) ==
  {Path[b][n] : n \in {k \in 1..Num[b] :
     \A m \in (k + 1)..Num[b] : Path[b][m] \notin f.orphan}}

\* Blocks that are erased are freed once nobody holds them: the prev of their
\* children expires.
Free(f) ==
  [f EXCEPT !.orphan = {b \in f.linked :
     b \in f.orphan \/ (b # Root /\ Prev[b] \notin f.linked)}]

------------------------------------------------------------------------------
(* Operations *)

\* After a start only the head of the block log is known.
start_block(b) == [linked |-> {b}, unlinked |-> {}, orphan |-> {b},
                   head |-> b, max_size |-> MaxSize]

TooOld(f, b) == Num[b] <= Max0(HeadNum(f) - f.max_size)

\* The block's parent is in _index.  Whether the parent itself reaches back
\* is not looked at.  Without a head every block is taken.
Links(f, b) == f.head = NoBlock \/ b = Root \/ Prev[b] \in f.linked

\* A block that links; a known one is not inserted again.  A higher block
\* than the head becomes the head.  Without a head prev is not set.
link_block(f, b) ==
  [f EXCEPT !.linked = @ \cup {b},
            !.orphan = IF f.head = NoBlock THEN @ \cup {b} ELSE @,
            !.head   = IF Num[b] > HeadNum(f) THEN b ELSE @]

\* Mutant: the linked blocks are searched too, where nothing is taken out.
Waiting_in_both(f, b) ==
  {u \in (f.linked \cup f.unlinked) \ {Root} : Prev[u] = b}

\* Blocks are unlinked until their parent comes.
Waiting(f, b) == {u \in f.unlinked \ {Root} : Prev[u] = b}

CanPop(f) == f.head # NoBlock /\ prev(f, f.head) # NoBlock
pop_block(f) == [f EXCEPT !.head = prev(f, @)]
set_head(f, b) == [f EXCEPT !.head = b]

\* Mutant: the head stays on a block that is gone.
remove_keeps_head(f, branch) ==
  [f EXCEPT !.linked = @ \ branch,
            !.orphan = @ \ branch]

\* remove() called for every block of a branch, lowest first, where the
\* lowest is the head if any of them is.
remove(f, branch) ==
  [f EXCEPT !.linked = @ \ branch,
            !.orphan = @ \ branch,
            !.head   = IF @ \in branch THEN prev(f, @) ELSE @]

\* Mutant: the last irreversible block goes as well.
set_max_size_off_by_one(f, s) ==
  LET kept == {b \in Block : Num[b] > Max0(HeadNum(f) - s) + 1}
  IN  [f EXCEPT !.max_size = s,
                !.linked   = @ \cap kept,
                !.orphan   = @ \cap kept,
                !.unlinked = @ \cap kept]

\* Everything at or below the threshold goes, on every fork.
set_max_size(f, s) ==
  LET kept == {b \in Block : Num[b] > Max0(HeadNum(f) - s)}
  IN  [f EXCEPT !.max_size = s,
                !.linked   = @ \cap kept,
                !.orphan   = @ \cap kept,
                !.unlinked = @ \cap kept]

\* The oldest block, taken for the last irreversible one.
get_last_irreversible_block_num(f) ==
  CHOOSE n \in {Num[b] : b \in f.linked} : \A b \in f.linked : n <= Num[b]

fetch_heads(f) == {b \in f.linked : \A c \in f.linked \ {Root} : Prev[c] # b}

last_block_generated_by(f, w) ==
  LET mine == {b \in f.linked : Producer[b] = w}
  IN  IF mine = {} THEN NoBlock
      ELSE CHOOSE b \in mine : \A c \in mine : Num[c] <= Num[b]

\* Mutant: the branch of the head is not followed.
fetch_block_on_any_branch(f, n) ==
  LET found == {b \in f.linked : Num[b] = n}
  IN  IF n > HeadNum(f) \/ found = {} THEN NoBlock
      ELSE CHOOSE b \in found : TRUE

\* A number only one linked block has is not checked to be on the branch of
\* the head.
fetch_block_on_main_branch_by_number(f, n) ==
  LET found == {b \in f.linked : Num[b] = n}
  IN  IF n > HeadNum(f) \/ found = {} THEN NoBlock
      ELSE IF Cardinality(found) = 1 THEN CHOOSE b \in found : TRUE
      ELSE IF Path[f.head][n] \in Back(f, f.head) THEN Path[f.head][n]
      ELSE NoBlock

------------------------------------------------------------------------------
(* fetch_branch_from *)

\* The number of the last block two blocks have in common.
Common(b, c) ==
  CHOOSE n \in 1..Num[b] :
    /\ n <= Num[c]
    /\ Path[b][n] = Path[c][n]
    /\ \A m \in (n + 1)..Num[b] : m <= Num[c] => Path[b][m] # Path[c][m]

\* The numbers of the blocks of b whose prev is followed: those above the
\* other head, then down to the two blocks with the same parent.
Followed(b, c) ==
  {n \in 1..Num[b] : n > Num[c] \/ n > Common(b, c) + 1}

\* Both heads are found and no followed prev has expired.
BranchesExist(f, b, c) ==
  /\ {b, c} \subseteq f.linked
  /\ \A n \in Followed(b, c) : Path[b][n] \notin f.orphan
  /\ \A n \in Followed(c, b) : Path[c][n] \notin f.orphan

\* The branch of b above the blocks it shares with c, lowest block first.
Branch(b, c) == SubSeq(Path[b], Common(b, c) + 1, Num[b])
==============================================================================
