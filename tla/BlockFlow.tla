------------------------------ MODULE BlockFlow ------------------------------
(***************************************************************************)
(* How a node takes blocks and fast confirmations in: the write thread of  *)
(* the chain plugin, the block writer (sync_block_writer) with its fork    *)
(* database, the state database and the block log.                         *)
(*                                                                         *)
(* The write thread serves one request at a time.  A request is a sequence *)
(* of steps, one per block popped or applied, which job keeps track of.    *)
(* Every block the state has applied is on the path from Root to head, so  *)
(* head stands for the whole state; the undo sessions of the blocks above  *)
(* committed are still there.  head, committed, lib and log survive the    *)
(* end of the process, the fork database and the approvals do not.         *)
(***************************************************************************)
EXTENDS ForkDatabase, SequencesExt

CONSTANTS
  Scheduled,             \* the witnesses scheduled for irreversibility
  Bad,                   \* blocks whose application fails, before
                         \* irreversibility is re-evaluated
  Confirmable,           \* bound: the <<witness, block>> approvals ever sent
  MaxUndoHistory,        \* HIVE_MAX_UNDO_HISTORY
  StartMinerVotingBlock, \* HIVE_START_MINER_VOTING_BLOCK
  MaxWitnesses           \* HIVE_MAX_WITNESSES

ASSUME FlowAssumption ==
  /\ Scheduled # {} /\ IsFiniteSet(Scheduled)
  /\ Bad \subseteq Block \ {Root}
  /\ Confirmable \subseteq Scheduled \X Block
  /\ StartMinerVotingBlock \in Nat
  /\ MaxWitnesses \in Nat

VARIABLES
  fdb,        \* the fork database
  head,       \* head_block_id of the state
  committed,  \* number of the newest block without undo session
  lib,        \* last_irreversible_object->_irreversible_block_num
  log,        \* the block log
  approvals,  \* _last_fast_approved_block_by_witness
  notes,      \* the block numbers passed to notify_irreversible_block so far
  up,         \* the process runs and has not been told to stop
  job         \* what the write thread is doing

vars == <<fdb, head, committed, lib, log, approvals, notes, up, job>>

\* phase  - idle; of a push: link, decide; of a fast confirmation: approved,
\*          confirmed; of both: pop, apply, unpop, restore
\* stack  - the blocks whose waiting children are being linked, newest last
\* todo   - the blocks still to apply, lowest first
\* old    - switch_forks: the branch left, lowest first
\* target - the block to pop to
\* mode   - extend or switch
\* orig   - number of the head when the blocks were chosen
\* common - number of the common block of both branches
\* from   - a fast confirmation: the old LIB and the number of the candidate
\* block  - a push: the block pushed
Idle == [phase |-> "idle", stack |-> <<>>, todo |-> <<>>, old |-> <<>>,
         target |-> NoBlock, mode |-> "extend", orig |-> 0, common |-> 0,
         from |-> <<>>, block |-> NoBlock]

NoApprovals == [w \in Scheduled |-> NoBlock]

Lower(m, n) == IF m < n THEN m ELSE n
Higher(m, n) == IF m > n THEN m ELSE n

------------------------------------------------------------------------------
(* Irreversibility *)

\* 75% of the scheduled witnesses, rounded up.
Required == Cardinality(Scheduled)
              - ((10000 - 7500) * Cardinality(Scheduled)) \div 10000

\* The highest block a witness has voted for, by a fast confirmation or by
\* building on it; the one produced if both have the same number.
BestVote(f, ap, w) ==
  LET a == ap[w]
      p == last_block_generated_by(f, w)
  IN  IF a = NoBlock THEN p
      ELSE IF p = NoBlock \/ Num[a] > Num[p] THEN a ELSE p

\* The witnesses whose vote is met on the way from h back to x.
Support(f, ap, h, x) ==
  Cardinality({w \in Scheduled :
    LET v == BestVote(f, ap, w)
    IN  v # NoBlock /\ v \in Ancestors(h) /\ Num[v] >= Num[x]})

\* Mutant: half of the witnesses are enough.
Enough_half(n) == 2 * n >= Cardinality(Scheduled)
Enough(n) == n >= Required

\* One fork looked at: from head h back to the old LIB, or to the candidate
\* found so far.  The highest block with enough support is a new candidate if
\* its fork is the longer one.
Consider(f, ap, old, found, h) ==
  LET ok == {x \in Back(f, h) :
               /\ Num[x] > old
               /\ \/ found.block = NoBlock
                  \/ x = found.block
                  \/ Num[x] > Num[found.block]
               /\ Enough(Support(f, ap, h, x))}
  IN  IF ok # {} /\ (found.block = NoBlock \/ Num[h] > Num[found.head])
      THEN [head  |-> h,
            block |-> CHOOSE x \in ok : \A y \in ok : Num[y] <= Num[x]]
      ELSE found

\* The forks are visited in the order of a hash table.
find_new_last_irreversible_block(f, ap, old) ==
  {FoldLeft(LAMBDA found, h : Consider(f, ap, old, found, h),
            [head |-> NoBlock, block |-> NoBlock], order) :
     order \in SetToSeqs(fetch_heads(f))}

\* Approvals of blocks up to the LIB are dropped.
Relevant(ap, n) ==
  [w \in Scheduled |-> IF ap[w] # NoBlock /\ Num[ap[w]] > n THEN ap[w] ELSE NoBlock]

\* What update_last_irreversible_block may do when the state's head is hd:
\* the LIB and the approvals it leaves, whether it throws, and the fork to
\* switch to with the number of the candidate there.
update_last_irreversible_block(f, ap, hd) ==
  LET same == [lib |-> lib, ap |-> ap, throws |-> FALSE, to |-> NoBlock, cand |-> 0]
      set(n) == IF n < lib THEN [same EXCEPT !.throws = TRUE]
                ELSE [same EXCEPT !.lib = n, !.ap = Relevant(ap, n)]
      outcome(r) ==
        IF r.block = NoBlock THEN same
        ELSE IF r.block = fetch_block_on_main_branch_by_number(f, Num[r.block])
        THEN set(Lower(Num[r.block], Num[hd]))
        ELSE IF Num[r.head] < Num[hd] THEN same
        ELSE [same EXCEPT !.to = r.head, !.cand = Num[r.block]]
  IN  IF Num[hd] < StartMinerVotingBlock
      THEN {[same EXCEPT !.lib = IF Num[hd] > MaxWitnesses
                                 THEN Higher(lib, Num[hd] - MaxWitnesses)
                                 ELSE lib]}
      ELSE IF lib = Num[hd] THEN {same}
      ELSE {outcome(r) : r \in find_new_last_irreversible_block(f, ap, lib)}

\* store_block finds every block it has to write before it writes any.
Storable(f, hd, n) ==
  /\ f.head # NoBlock => Num[f.head] = Num[hd]
  /\ \A k \in (Len(log) + 1)..n : fetch_block_on_main_branch_by_number(f, k) # NoBlock

Stored(f, n) ==
  log \o [k \in 1..(n - Len(log)) |->
            fetch_block_on_main_branch_by_number(f, Len(log) + k)]

\* The memory of a process that has ended.
Down == /\ up' = FALSE
        /\ job' = Idle
        /\ fdb' = start_block(Root)
        /\ approvals' = NoApprovals

\* Mutant: the undo sessions of the new irreversible blocks stay.
migrate_without_commit(f, old, n) ==
  /\ log' = Stored(f, n)
  /\ committed' = committed
  /\ notes' = notes \o [k \in 1..(n - old) |-> old + k]

\* Mutant: only the newest irreversible block is announced.
migrate_notify_last(f, old, n) ==
  /\ log' = Stored(f, n)
  /\ committed' = Higher(committed, n)
  /\ notes' = IF n > old THEN Append(notes, n) ELSE notes

\* store_block, commit and the notifications, with LIB n.
migrate_irreversible_state(f, old, n) ==
  /\ log' = Stored(f, n)
  /\ committed' = Higher(committed, n)
  /\ notes' = notes \o [k \in 1..(n - old) |-> old + k]

------------------------------------------------------------------------------
(* Requests *)

Init == /\ fdb = start_block(Root)
        /\ head = Root
        /\ committed = 1
        /\ lib = 1
        /\ log = <<Root>>
        /\ approvals = NoApprovals
        /\ notes = <<1>>
        /\ up = TRUE
        /\ job = Idle

StateKept == UNCHANGED <<head, committed, lib, log, notes>>

\* A block from the network: a block that is too old is refused, one without
\* a parent waits, and any other is linked.
push_block(b) ==
  /\ up /\ job.phase = "idle"
  /\ ~ TooOld(fdb, b)
  /\ IF Links(fdb, b)
     THEN /\ fdb' = link_block(fdb, b)
          /\ job' = [Idle EXCEPT !.phase = "link", !.stack = <<b>>,
                                     !.block = b]
     ELSE /\ fdb' = [fdb EXCEPT !.unlinked = @ \cup {b}]
          /\ job' = Idle
  /\ StateKept /\ UNCHANGED <<approvals, up>>

\* Depth first, the blocks that were waiting for the one just linked; those
\* that have become too old are dropped.
push_next ==
  /\ up /\ job.phase = "link"
  /\ LET b == Last(job.stack)
     IN  \/ /\ Waiting(fdb, b) = {}
            /\ job' = IF Len(job.stack) = 1
                      THEN [job EXCEPT !.phase = "decide", !.stack = <<>>]
                      ELSE [job EXCEPT !.stack = Front(@)]
            /\ fdb' = fdb
         \/ \E u \in Waiting(fdb, b) :
              LET f == [fdb EXCEPT !.unlinked = @ \ {u}]
              IN  IF TooOld(f, u) THEN fdb' = f /\ job' = job
                  ELSE /\ fdb' = link_block(f, u)
                       /\ job' = [job EXCEPT !.stack = Append(@, u)]
  /\ StateKept /\ UNCHANGED <<approvals, up>>

\* switch_forks up to its first pop.  It throws if the fork does not reach
\* back to the chain of the state; the branch it takes is never empty unless
\* it is told to switch to the state's own head, when it reads past the end
\* of an empty vector.
switch_forks(to, from) ==
  LET quit == IF from = <<>> THEN Idle
              ELSE [Idle EXCEPT !.phase = "confirmed", !.from = <<from[1], 0>>]
  IN  IF to = head THEN Down
      ELSE /\ job' = IF ~ BranchesExist(fdb, to, head) THEN quit
                     ELSE [phase  |-> "pop",
                           stack  |-> <<>>,
                           todo   |-> Branch(to, head),
                           old    |-> Branch(head, to),
                           target |-> Path[to][Common(to, head)],
                           mode   |-> "switch",
                           orig   |-> Num[head],
                           common |-> Common(to, head),
                           from   |-> from,
                           block  |-> job.block]
           /\ UNCHANGED <<fdb, approvals, up>>

\* The end of sync_block_writer::push_block: nothing to do if the fork
\* database has nothing higher than the state.  Otherwise the blocks above the
\* state's head are collected backwards, which ends the process when a prev
\* has expired, and either extend the chain or are on another fork.
extend_or_switch ==
  /\ up /\ job.phase = "decide"
  /\ LET new   == fdb.head
         above == SubSeq(Path[new], Num[head] + 1, Num[new])
     IN  IF above = <<>>
         THEN job' = Idle /\ UNCHANGED <<fdb, approvals, up>>
         ELSE IF Range(above) \cap fdb.orphan # {} THEN Down
         ELSE IF Prev[above[1]] = head
         THEN /\ job' = [job EXCEPT !.phase  = "apply",
                                    !.todo   = above,
                                    !.orig   = Num[head],
                                    !.common = Num[head]]
              /\ UNCHANGED <<fdb, approvals, up>>
         ELSE switch_forks(new, <<>>)
  /\ StateKept

------------------------------------------------------------------------------
(* Steps of a request *)

\* The job after its last step, thrown or not: a push is over, and a fast
\* confirmation goes on.
Ended(thrown) ==
  IF job.from = <<>> THEN Idle
  ELSE [Idle EXCEPT !.phase = "confirmed",
                    !.from = <<job.from[1], IF thrown THEN 0 ELSE job.from[2]>>]

\* Mutant: the session of a block that is committed is undone.
undo_committed == IF head # Root THEN Prev[head] ELSE head

\* The newest undo session is undone, and nothing when there is none.
undo == IF Num[head] > committed THEN Prev[head] ELSE head

\* One pop: the head of the fork database moves back, which throws where its
\* prev has expired, and the newest undo session is undone.
pop_block_extended ==
  /\ up /\ job.phase \in {"pop", "unpop"}
  /\ IF head = job.target /\ job.phase = "pop"
     THEN job' = [job EXCEPT !.phase = "apply"] /\ UNCHANGED <<fdb, head>>
     ELSE IF head = job.target /\ job.old # <<>>
     THEN /\ job' = [job EXCEPT !.phase = "restore", !.todo = job.old]
          /\ UNCHANGED <<fdb, head>>
     ELSE IF head = job.target \/ ~ CanPop(fdb)
     THEN fdb' = Free(fdb) /\ job' = Ended(TRUE) /\ head' = head
     ELSE /\ fdb' = pop_block(fdb)
          /\ head' = undo
          /\ job' = job
  /\ UNCHANGED <<committed, lib, log, approvals, notes, up>>

\* Mutant: a failed fork switch never goes back.
fail_without_return(f) ==
  /\ fdb' = Free(IF job.phase = "restore" THEN f ELSE remove(f, Range(job.todo)))
  /\ job' = Ended(TRUE)
  /\ UNCHANGED <<approvals, up>>

\* A block whose application failed: its state changes are undone.  While
\* extending or applying a new fork, it and the blocks after it leave the
\* fork database, and a fork switch goes back to the old branch if the fork
\* is now shorter and branches off above the oldest block, which ends the
\* process when the fork database has no head left.
fail(f) ==
  LET g     == remove(f, Range(job.todo))
      above == /\ job.mode = "switch"
               /\ get_last_irreversible_block_num(g) < job.common
  IN  IF job.phase = "restore"
      THEN fdb' = Free(f) /\ job' = Ended(TRUE) /\ UNCHANGED <<approvals, up>>
      ELSE IF above /\ g.head = NoBlock THEN Down
      ELSE IF above /\ Num[g.head] < job.orig
      THEN /\ fdb' = g
           /\ job' = [job EXCEPT !.phase = "unpop", !.todo = <<>>]
           /\ UNCHANGED <<approvals, up>>
      ELSE fdb' = Free(g) /\ job' = Ended(TRUE) /\ UNCHANGED <<approvals, up>>

\* The header of a block must refer to the state's head.
validate_block_header(b) == Prev[b] = head

\* The number of blocks that may have to be undone is limited.
UndoHistoryLeft(b) == Num[b] - lib < MaxUndoHistory

\* A block some check or transaction of which fails.
Rejected(b) == b \in Bad \/ ~ validate_block_header(b) \/ ~ UndoHistoryLeft(b)

\* One block applied: the fork database is told, the state is changed in an
\* undo session, irreversibility is re-evaluated and what has become
\* irreversible is moved to the block log.
apply_block_extended ==
  /\ up /\ job.phase \in {"apply", "restore"}
  /\ LET b == Head(job.todo)
         f == set_head(fdb, b)
         last == Len(job.todo) = 1
     IN  \/ /\ Rejected(b)
            /\ fail(f)
            /\ StateKept
         \/ /\ ~ Rejected(b)
            /\ \E r \in update_last_irreversible_block(f, approvals, b) :
                 /\ lib' = r.lib
                 /\ IF r.throws
                    THEN /\ fail(f)
                         /\ UNCHANGED <<head, committed, log, notes>>
                    ELSE IF ~ Storable(f, b, r.lib)
                    THEN Down /\ UNCHANGED <<head, committed, log, notes>>
                    ELSE /\ head' = b
                         /\ approvals' = r.ap
                         /\ migrate_irreversible_state(f, lib, r.lib)
                         /\ LET g == set_max_size(f, Num[b] - r.lib + 1)
                            IN  fdb' = IF job.mode = "switch" /\ ~ last
                                       THEN g ELSE Free(g)
                         /\ job' = IF ~ last THEN [job EXCEPT !.todo = Tail(@)]
                                   ELSE Ended(job.phase = "restore")
                         /\ up' = up

------------------------------------------------------------------------------
(* Fast confirmations *)

\* The LIB becomes n, which throws if that is a step back, and what became
\* irreversible after old is moved.
Conclude(ap, old, n) ==
  IF ~ Storable(fdb, head, n)
  THEN /\ Down
       /\ lib' = n
       /\ UNCHANGED <<head, committed, log, notes>>
  ELSE /\ lib' = n
       /\ approvals' = ap
       /\ migrate_irreversible_state(fdb, old, n)
       /\ fdb' = Free(set_max_size(fdb, Num[head] - n + 1))
       /\ job' = Idle
       /\ UNCHANGED <<head, up>>

\* A fast confirmation of block b by a scheduled witness w is noted unless
\* one of a block at least as high is known.
process_fast_confirm_transaction(w, b) ==
  /\ up /\ job.phase = "idle"
  /\ approvals[w] # NoBlock => Num[b] > Num[approvals[w]]
  /\ approvals' = [approvals EXCEPT ![w] = b]
  /\ job' = [Idle EXCEPT !.phase = "approved"]
  /\ StateKept /\ UNCHANGED <<fdb, up>>

\* Then irreversibility is re-evaluated, which may start a fork switch.
evaluate_fast_confirm ==
  /\ up /\ job.phase = "approved"
  /\ \E r \in update_last_irreversible_block(fdb, approvals, head) :
       IF r.throws
       THEN /\ job' = Idle
            /\ StateKept /\ UNCHANGED <<fdb, approvals, up>>
       ELSE IF r.to = NoBlock THEN Conclude(r.ap, lib, r.lib)
       ELSE StateKept /\ switch_forks(r.to, <<lib, r.cand>>)

\* After the fork switch of a fast confirmation.  The callback hands nothing
\* back when the switch was successful, so the candidate becomes irreversible
\* here, though the blocks applied have moved the LIB already.
finish_fast_confirm ==
  /\ up /\ job.phase = "confirmed"
  /\ LET old == job.from[1]
         n   == Lower(job.from[2], Num[head])
     IN  IF job.from[2] = 0 THEN Conclude(approvals, old, lib)
         ELSE IF n < lib
         THEN /\ job' = Idle
              /\ StateKept /\ UNCHANGED <<fdb, approvals, up>>
         ELSE Conclude(Relevant(approvals, n), old, n)

------------------------------------------------------------------------------
(* Process start and end *)

\* The process ends, between two steps.
stop == up /\ Down /\ StateKept

\* No replay is needed: the block log ends where the state is once all undo
\* sessions are undone.
is_reindex_complete == Len(log) = committed

\* What load_state_initial_data asserts before and after all undo sessions are
\* undone, and that no replay is needed.
Loadable ==
  /\ Num[head] >= lib
  /\ committed >= lib
  /\ is_reindex_complete
  /\ log[committed] = Path[head][committed]

open ==
  /\ ~ up
  /\ Loadable
  /\ head' = Path[head][committed]
  /\ fdb' = start_block(Last(log))
  /\ up' = TRUE
  /\ UNCHANGED <<committed, lib, log, approvals, notes, job>>

\* One step of the request the write thread is serving.
Step == \/ push_next
        \/ extend_or_switch
        \/ pop_block_extended
        \/ apply_block_extended
        \/ evaluate_fast_confirm
        \/ finish_fast_confirm

Next == \/ \E b \in Block \ {Root} : push_block(b)
        \/ \E c \in Confirmable : process_fast_confirm_transaction(c[1], c[2])
        \/ Step
        \/ stop
        \/ open

\* The write thread does not stop in the middle of a request.
Spec == Init /\ [][Next]_vars /\ WF_vars(Step)

------------------------------------------------------------------------------
(* Properties *)

\* Every variable holds what the C++ types allow, a fork database without a
\* head included, and no committed block has been undone.
TypeOK ==
  /\ fdb \in [linked : SUBSET Block, unlinked : SUBSET Block,
              orphan : SUBSET Block, head : Block \cup {NoBlock}, max_size : Nat]
  /\ fdb.orphan \subseteq fdb.linked
  /\ head \in Block
  /\ committed \in 1..Num[head]
  /\ lib \in Nat
  /\ log \in Seq(Block)
  /\ approvals \in [Scheduled -> Block \cup {NoBlock}]
  /\ notes \in Seq(Nat)
  /\ up \in BOOLEAN
  /\ job.phase \in {"idle", "link", "decide", "pop", "apply", "unpop",
                    "restore", "approved", "confirmed"}

\* What the block log holds is what the state was made from: no fork switch,
\* failed or not, takes an irreversible block back, and no block of another
\* fork is written.
LogFollowsState == IsPrefix(log, Path[head])

\* The votes a block gets from witness w: w approved it or a descendant, or
\* produced one.
Votes(x) ==
  {w \in Scheduled : \E v \in fdb.linked \cup {approvals[w]} :
     /\ v # NoBlock
     /\ x \in Ancestors(v)
     /\ v = approvals[w] \/ Producer[v] = w}

\* Once witnesses vote, a block goes to the block log only with the votes of
\* three quarters of the scheduled witnesses for it or for blocks on top of it.
IrreversibleHasQuorum ==
  [][log' # log /\ Num[head'] >= StartMinerVotingBlock
       => Cardinality(Votes(Last(log'))) >= Required]_vars

\* A start would find a state, a LIB and a block log that agree.
Recoverable == Loadable /\ committed = lib

\* Wherever the process ends, between two steps or by itself, it can be started
\* again.  The exception is a fast confirmation while the fork database's head
\* is above the state's: it moves the LIB before store_block's assertion fails.
RecoverableKept ==
  /\ Recoverable
  /\ [][/\ Recoverable
        /\ job.phase \in {"approved", "confirmed"} => HeadNum(fdb) <= Num[head]
        => Recoverable']_vars

\* As long as no block is refused for lack of undo history, between requests
\* the state's head is in the fork database with everything down to the last
\* irreversible block, so that it can be popped.
HeadAnchored ==
  up /\ job.phase = "idle" =>
    /\ head \in fdb.linked
    /\ Path[head][lib] \in Back(fdb, head)

\* A fork switch that fails above the last irreversible block leaves the node
\* at least as high as it was.  The pops of a fast confirmation are left out:
\* where the fork database's head is on a third fork that does not reach back,
\* they throw on the way.
HeadKept ==
  [][(\/ job.phase \in {"apply", "unpop", "restore"}
      \/ job.phase = "pop" /\ job.from = <<>>)
       /\ job'.phase \in {"idle", "confirmed"} /\ up'
       => Num[head'] >= job.orig \/ lib' >= job.common]_vars

\* Irreversible blocks are announced in order and without gaps.
NoNotificationGap ==
  \A k \in 1..(Len(notes) - 1) : notes[k + 1] <= notes[k] + 1

\* The peer that sent a block is told once its transactions have been applied,
\* or when the push ignores the block or throws: a push that applies blocks
\* has the pushed one among them.
PushedBlockServed ==
  [][(job.phase = "decide" /\ job'.phase \in {"pop", "apply"})
       => job.block \in Range(job'.todo)]_vars

\* Every request ends, whatever the forks and wherever blocks fail.
RequestsEnd == job.phase # "idle" ~> job.phase = "idle"

\* The comment in switch_forks on the old branch: blocks are popped until the
\* common block of both branches is reached.
PopsToCommon ==
  [][(job.phase = "pop" /\ up' /\ job'.phase \in {"idle", "confirmed"})
       => head' = job.target]_vars

\* What on_irreversible_block of the account history plugin asserts: every
\* block is announced as irreversible once.
NotifiedOnce ==
  \A k \in 1..(Len(notes) - 1) : notes[k + 1] > notes[k]
==============================================================================
