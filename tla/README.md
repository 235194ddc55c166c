# A TLA+ verification of the Hive node

Hive is a blockchain node (`hived`) in C++. This directory models the part of it
that decides which blocks become part of the chain, how state changes are undone
when the node changes its mind, how the threads that bring blocks and
transactions to the state work together, what happens to transactions that are
not in a block yet, how irreversible blocks are kept on disk across kills and
restarts, and two groups of operations whose results the chain keeps by
differences and never recounts: governance votes and the liquid tokens. TLC
checks the models on small instances; TLAPS proves the theorems of the `...Proofs`
modules for all of them.

All paths below are relative to `src/libraries/`. `PROJECT.json` has the exact
lines for every definition, the runs, the mutants, the findings and the hazards.

## 1. The system

### 1.1 Components

| component | state | operations | modelled in |
|---|---|---|---|
| `chainbase`: `generic_index` | objects by id, unique keys, id counter, stack of undo states, revision | `emplace`, `modify`, `remove`, `move_to_external_storage`, `start_undo_session`, `undo`, `squash`, `commit`, `set_revision` | `GenericIndex`, abstractly `UndoStack` |
| `chain/fork_database` | linked and unlinked blocks, `prev` weak pointers, head, `max_size` | `push_block`, `_push_next`, `pop_block`, `set_head`, `remove`, `set_max_size`, `fetch_branch_from`, `fetch_heads` | `ForkDatabase` |
| `chain/sync_block_writer` | none of its own: the fork database and the block log | `push_block`, `switch_forks`, `store_block`, `find_new_last_irreversible_block` | `BlockFlow` |
| `chain/database` (blocks) | head block, last irreversible block (LIB), undo sessions, approvals of fast confirmations | `apply_block_extended`, `pop_block_extended`, `process_fast_confirm_transaction`, `update_last_irreversible_block`, `migrate_irreversible_state`, `load_state_initial_data` | `BlockFlow` |
| `plugins/chain`: opening, pushing | - | `open`, `push_block`, `push_transaction` | `BlockFlow` |
| `plugins/chain`: write thread | two queues of `write_context*`, sync mode, running flags | `accept_block`, `accept_transaction`, `push_generate_block_request`, the write loop and its visitor | `WriteQueue` |
| `appbase` | interrupt flag, shutdown order | `handle_signal`, `pre_shutdown`, `shutdown`, `shutdown_mgr` | `WriteQueue` |
| `plugins/p2p`, `webserver`, `witness` | tasks, threads, a timer | `handle_block`, `handle_transaction`, API calls, `block_production_loop` | `WriteQueue`, as callers |
| pending transactions (`db_with.hpp`, `database.cpp`, `block_producer.cpp`) | `_pending_tx`, `_popped_tx`, the pending session, `transaction_index`, `runtime_expiration` | `_push_transaction`, `pop_block`, `without_pending_transactions` and its restorer, `apply_pending_transactions` | `PendingTransactions` |
| `block_log_wrapper`, `block_log`, artifacts | part files, artifacts headers and chunks, head blocks, garbage | append, new part, rotation, open, generation of artifacts, replay, reading | `BlockLog`; a sequence in `BlockFlow` |
| governance evaluators and processes | VESTS, proxies, proxied votes, ballots, delayed votes, power down, expiry | nine operations, five processes of `_apply_block` | `Governance` |
| market, escrow, savings, conversions | balances, orders, escrows, requests, supplies | twelve operations, four processes of `_apply_block` | `Ledger` |
| `witness_schedule` | schedule, future schedule | `update_witness_schedule` | planned; a constant in `BlockFlow` |
| `net/node` | peers, inventory, synopsis | sync and inventory messages | planned |
| account history, transaction status | volatile operations, caches | block and irreversibility notifications | planned; its assertion on notifications is a property of `BlockFlow` |
| other evaluators, RC, DHF payouts | comments, authorities, manabars | about thirty operations | a block is valid or not |
| beekeeper, wallet, API plugins, snapshots, queen/colony/debug tools, fc | | | not modelled, see section 7 |

### 1.2 How they interact

The p2p thread, webserver threads and the production loop put a pointer to a
context on their stack into a queue and wait for a promise in it. One write
thread takes contexts, blocks before transactions, and calls the chain plugin.
A block goes to the fork database first. If the fork database then has a higher
head than the state, the new blocks are applied, after popping the old branch if
they are on another fork. Each applied block has its own undo session in every
`generic_index`. After each block, and after each *fast confirmation* (an
operation by which a witness approves a block directly), irreversibility is
re-evaluated: blocks with the votes of 75% of the scheduled witnesses are written
to the block log, their undo sessions are committed, plugins are notified and the
fork database drops everything older. On start all undo sessions are undone and
the state has to agree with the block log.

Every request that changes the chain first puts the pending transactions aside and
ends with a restorer that applies popped and pending ones again. The block log is
split into parts; the write thread appends, opens new parts and drops old ones
while API and p2p threads read. Operations change balances and votes inside the
undo session of their block; processes at the end of each block let fall due what
operations opened.

### 1.3 What is hard

- Undo by differences: nested sessions, squashed, undone and committed in any
  order, restored piecewise under uniqueness constraints.
- Fork switches that fail half way, with blocks of the new fork already
  irreversible, or with the way back already pruned.
- Two heads, of the fork database and of the state, moved by different code and
  assumed to be in step; candidates computed before a switch and used after it.
- Forks visited in hash order; blocks arriving before their parents.
- A process that ends at any step, with some of its state persistent: between
  the block file, the artifacts, the irreversible number and the committed state,
  and during the generation of artifacts.
- Transactions shared by lists and blocks, re-applied in another order on another
  chain within limits of time and number.
- Sums kept by adding differences along a chain of proxies, at the end of several
  routes into and out of each balance, with rounding.
- Contexts on other threads' stacks; promises set before the work is done; a
  shutdown in which the main thread waits for callers that wait for the write
  thread, which has left.

### 1.4 What makes it correct

- Index: undo gives back exactly what the session found and never fails.
- Block flow: the block log never contradicts the state; nothing becomes
  irreversible without a quorum; at any stop the persistent parts agree; a failed
  fork switch does not lose the longer chain; requests end; notifications have no
  gaps.
- Threads: no context is used after its caller has left, no caller is forgotten,
  blocks are not starved, shutdown ends.
- Pending transactions: no transaction is in the chain twice, the producer's own
  block applies, the restorer drops only what is invalid.
- Block log: committed blocks are on disk at every kill, readers find what they
  were promised, a node closed in order starts again.
- Governance and ledger: every running sum equals the recount.

## 2. Modules

| module | role |
|---|---|
| `UndoStack` | abstract specification: a container with a stack of whole snapshots |
| `GenericIndex` | `generic_index` with undo states that hold differences; implements `UndoStack` |
| `GenericIndexProofs` | the theorems about it |
| `ForkDatabase` | operators on a fork database value (constant tree of blocks) |
| `BlockFlow` | write requests on fork database, state and block log; uses `ForkDatabase` |
| `BlockFlowProofs` | the theorems about both |
| `WriteQueue` | callers, queues, write thread, shutdown |
| `WriteQueueProofs` | the theorems about it |
| `PendingTransactions` | transactions beside the chain, and the producer |
| `PendingTransactionsProofs` | the theorems about it |
| `BlockLog` | the split block log, its artifacts, kills, restarts, readers |
| `BlockLogProofs` | the theorems about it |
| `Governance` | VESTS, proxies, votes, delayed votes, power down, expiry |
| `GovernanceProofs` | the theorems about it |
| `Ledger` | HIVE and HBD: market, escrow, savings, conversions |
| `LedgerProofs` | the theorems about it |
| `FoldTheorems` | what the proofs use of folds, sums and sorted sequences |
| `MC...` | instances of each for TLC |

`BlockFlow` and `WriteQueue` meet at the visitor of the write thread: what
`WriteQueue` does in `visit` ... `work_done` is one request of `BlockFlow`.
`GenericIndex` justifies that `BlockFlow` may represent the state by its head
block: undoing a block's session gives the state of the block before; `Governance`
and `Ledger` need it for the same reason: an operation that throws leaves nothing.
`PendingTransactions` and `BlockFlow` split a request at the restorer: pops and
applied blocks, which `BlockFlow` decides, are any mixture in
`PendingTransactions`. `BlockLog` refines the step `migrate_irreversible_state` of
`BlockFlow`: what is atomic there is a dozen steps here, with a kill between any
two.

### 2.1 GenericIndex

`idx` maps an id to the fields of an object or `Absent`. `stack` has one record
per undo state with `old_values`, `removed_values`, `new_ids`, `old_next_id` and
`revision`, as `undo_state` has. `saved` is a history variable: the index as each
session found it; no action reads it. `failed` says that `undo` threw. The
`on_create`, `on_modify` and `on_remove` notifications, `Merge` (the case analysis
of `squash`) and `Rollback` / `Restorable` (the three phases of `undo`, with their
checks) are operators. A modifier may change the secondary key only if
`KeyMutable`; where the new key clashes, the container erases the object and
`modify` throws, as Boost's multi-index does.
All indexes of the database do the same session operations together, so one is
enough. The snapshot loader (`unpack_from_snapshot`) and `clear` are left out.

### 2.2 ForkDatabase and BlockFlow

A block is an element of a constant tree (`Prev`, `Num`, `Producer`). The fork
database is a record: `linked` and `unlinked` are the two indexes, `orphan` the
linked blocks whose `prev` has expired, `head`, `max_size`. `head`, `committed`,
`lib` and `log` survive the end of the process. `job` is the write thread's
position in a request. Steps are one block popped or applied, because a stop
between two blocks is what persistent state can see:

- `push_block`, `push_next`, `extend_or_switch`: linking a block and what was
  waiting for it, then deciding between nothing, extension and `switch_forks`;
- `pop_block_extended`, `apply_block_extended`: the loops of `switch_forks` and
  of the extension, with all three ways a failed switch can end in `fail`;
- `process_fast_confirm_transaction`, `evaluate_fast_confirm`,
  `finish_fast_confirm`: fast confirmations, with a switch in the middle;
- `stop`, `open`: end of the process between two steps, and start.

Decisions worth knowing:

- The set of scheduled witnesses is constant, and no witness produces two blocks
  of the same number.
- Whether a block's transactions are valid is the constant `Bad`. A block fails,
  if it does, before irreversibility is updated (`database.cpp:4052`).
- A repeated push of a block finds the linked item; `_push_block` would replace
  nothing. Where the block becomes the head once more, the code's head is a second
  item of the same block, which the model does not tell apart.
- `remove` may leave the fork database without a head (`NoBlock`); the next block
  pushed is then taken whatever its parent.
- Removed blocks that `switch_forks` still holds in its vectors keep their
  children's `prev` alive until the request ends (`Free`).
- Dereferencing a `prev` that has expired and taking the last element of an empty
  vector are modelled as the end of the process (`Down`).
- A process does not stop inside `migrate_irreversible_state`; `BlockLog` is about
  that window.
- Checkpoints, reindexing, pending transactions and subscribers of the fork
  switch notification are left out.

### 2.3 WriteQueue

A client is a thread or task that calls the chain plugin, and its context is
named by it. `call` says where it is, `writer` is the write thread's position
(`wait`, `visit`, `work`, `rest` after an early promise, `more`, `gone`), `main`
how far the main thread has come in closing. Every access to the queues is one
action, as the queue mutex makes it. `handle_signal` needs the thread the
production loop runs on. `p2p_shutdown` stands for both ways the wait of
`shutdown_mgr` ends: all handlers are back, or 30 seconds are over and the
exception is swallowed; `p2p_quit` then cancels the tasks. A failure to write the
block log requests an interrupt from the write thread (`migrate_failure`), during a
block or a transaction, which may be a fast confirmation. The signal that
`exit_at_block` sends itself is a `handle_signal`. A node
without p2p, the test plugin that queues block generation without waiting, and an
exception that kills the write thread are left out (the visitor catches all).

### 2.4 PendingTransactions

`chain` is the chain with timestamps and transactions, `pending`, `popped` and
`session` are `_pending_tx`, `_popped_tx` and what is applied in
`_pending_tx_session`. `until` is `runtime_expiration` of the shared
`full_transaction` objects, 0 where no object is alive. Blocks of the fork database
and the message cache of p2p may keep an object longer than the lists here do, so a
request ends with any of those not on the chain kept. Whether operations apply is
given by two relations: `Needs` (those without which one fails) and `Clash` (those
after which one fails). Actions: `_push_transaction`, with the privileged ones that
go to the front of `_popped_tx`; `without_pending_transactions`, `pop_block`,
`apply_block` and `restore_pending` for a request; `generate_block` for the
producer. `restore_pending(cut)` is the whole destructor, when its time is over
after `cut` transactions. Left out: failures for lack of resource credits, the
size check of a single transaction, blocks older than a minute except as
`cut = 0`, and `fill_block_with_transactions` of the queen plugin.

### 2.5 BlockLog

Files are `file`, `torn`, `art`, `chunk`; shared memory is `lib` and `base`, the
number set outside the undo history and the head of the committed state. `phase`
is what the main or the write thread does. Starting: `Start` (which parts are
needed), `OpenPart`, `Index`, `GenerateChunk`, `Load`. Appending: one action per
write to a file or to memory, from `Irreversible` to `Commit`. Readers do
`get_block_by_number` in three steps beside it. `Kill` may come at every step,
`Close` is the orderly end, `Refuse` a start that throws. Memory and files keep
what was written (no power failure); a block is one write that a kill may tear. At
most a part's worth of blocks becomes irreversible at once
(`HIVE_MAX_UNDO_HISTORY` is far less than a part). Replay is one step; a node whose
replay ended before the head of the log (`short`) goes on from there, and the flag is
cleared when its state has caught up. Splitting a
monolithic log, the unsplit configuration and artifacts longer than the log are
left out.

What the model shows beside the properties, and how a start then ends:

- a kill after a new part's file is created and before its first block makes
  every later start refuse: the newest part has no head block;
- a torn last block is not repaired, since the log is opened read only first;
- a kill between setting `lib` and the commit, or a block that fails after line
  4052 of `database.cpp` followed by closing, leaves `lib` above the state; only a
  forced replay starts;
- the generation of artifacts, interrupted right at the head block, makes later
  starts refuse; killed before its first note in the header, it leaves blocks
  without a chunk that no start notices (`cut`);
- files of a part that was garbage when the process was killed stay (`leaked`).

`CleanRestart`, `NoStrayFiles` and `ReadServed` except exactly these.

### 2.6 Governance

One variable per field of `account_object`, `witness_object` and the vote, route
and request objects. `adjust_proxied_witness_votes` is the recursion of the code
as one operator: the account at distance *d* adds the difference shifted by *d*,
and the last one passes it to its witnesses. `now` moves with
`clear_null_account_balance`; `phase` is the process of `_apply_block` at work, so
that processes run account by account in the order of the code, and an account that
is changed by one is seen changed by the next. `Init` is a chain some operations
after genesis. HIVE is outside, a VEST is worth a HIVE, nothing is delegated,
proposals do not end, and `delayed_voting` works on one account at a time.

### 2.7 Ledger

Balances, savings, orders, escrows, withdrawals, conversion requests and the two
supplies. An operation that throws is not a step. `apply_order` folds `match` over
the crossing orders by price and age; `fill_order` refunds a rest that is worth
nothing. `Block` moves the time, may change the feed, and ends what is due: since
each process only adds to balances, they are one action. Median, minimum and
market price are one; the print limit on HBD, the treasury, the null account,
`virtual_supply` and recurrent transfers are left out.

## 3. Runs

| run | instance | shows |
|---|---|---|
| `generic_index` | 3 ids, 3 values with 2 keys, 3 sessions, revisions to 4, keys unique and constant | `undo` never throws, undo states are exact differences, revisions are consecutive, and the index implements `UndoStack` |
| `block_flow` | 10 blocks on three forks, one bad; 5 approvals; 4 witnesses, quorum 3; stops anywhere | type, log follows state, recoverable, head anchored, quorum, head kept, no gaps in notifications, pushed block served |
| `progress` | 8 blocks on two forks, one bad; undo history of 3; the change from fixed distance to votes at block 4; a fork database that loses its head | every request ends |
| `fork_below` | a fork from just below the LIB | **violated**: blocks are popped and the common block is never reached |
| `notify_twice` | a fast confirmation that switches forks | **violated**: blocks are announced as irreversible twice |
| `write_queue` | 2 block handlers, a transaction handler, an API call, a producer | contexts match callers, blocks are served, shutdown ends |
| `pending_transactions` | 3 transactions, one needed by another, one privileged that makes the first fail; 3 blocks, 2 pops, 4 pushes | included once, own blocks apply, session held, culled ones are invalid |
| `late_inclusion` | the same, 3 pushes | **violated**: a block is refused by nodes that knew its transaction earlier |
| `block_log` | 10 blocks in 4 parts of 3, one part kept; a reader; a kill anywhere | reads served, committed blocks stored, whole row served, no stray files, clean restart |
| `replay_short` | 7 blocks | **violated**: a replay ends one block before the head of the log |
| `governance` | 3 accounts and null, 2 witnesses, 2 proposals; 3 operations, 3 blocks | proxied and witness votes exact, VESTS counted, delayed votes exact, votes expire |
| `ledger` | 3 accounts, 2 prices, 2 feeds; 3 opening operations and any that follow, 2 blocks | supplies exact, book settled, fills fair, requests settled |

The four violations are described under `findings`, each with the comment it
contradicts.

Some passing properties name an exception, because the code does have the case:

- The theorems on `GenericIndex` assume that modifiers do not change a unique key.
  Where one does, `undo` puts versions back one by one while created objects are
  still there and may clash, throw and lose objects.
- `ShutdownEnds` excludes two ways shutdown hangs (`LeftBehind`): an API call or
  the production loop whose request came after the write thread had ended.
- `HeadKept` allows a failed switch to a fork that branches off at the LIB or
  below to end on a shorter chain (the guard at `sync_block_writer.cpp:237` is
  `<`). It also leaves out the pops of a fast confirmation: `pop_block` moves the
  fork database's head too, and where that head is on a third fork whose `prev` has
  expired it throws on the way. The trees of `block_flow` are too small for it; the
  proof attempt showed it.
- After blocks were linked to the remains of a pruned fork, the switch to them
  fails and the head of the fork database stays above the head of the state; the
  next fast confirmation without a switch then fails the assertion at
  `sync_block_writer.cpp:29` and the node closes. By then
  `update_last_irreversible_block` has set the LIB (`database.cpp:5061`), which no
  undo takes back, while nothing was stored or committed: the next start rewinds to
  the committed block and fails the assertion at `database.cpp:257`. The comment at
  `database.cpp:5075` has the side effects at the end "to minize the chance that
  state invariants will be violated"; the LIB is set before. `RecoverableKept`
  names this as its one exception. It needs a fork that goes on for two blocks
  above a bad one: blocks 2 and 3 that apply, a bad block 2 with two children 3,
  and a block 4. The proof attempt led to it and TLC confirms it on that tree,
  which is not one of the runs; the tree of `block_flow` does not reach it.
- `HeadAnchored` needs that no block is refused for lack of undo history
  (`database.cpp:4829`). Such a block leaves the fork database, while a child that
  came with it stays, its `prev` expired. When the block comes again and is taken,
  the child is next on its chain and is applied, since `fetch_branch_from` compares
  ids: the state's head then cannot be popped, though
  `fork_database.cpp:69` says that every linked block reaches back. A run with undo
  history 2 and two forks of blocks 4 and 5 shows it; on the trees of `block_flow`
  the limit is not met. `HeadKept`, `PushedBlockServed` and `RecoverableKept` rest on
  the same condition; in the theorems (5.6) it is the hypothesis
  `[]UndoHistorySuffices`. A Hive node meets the limit after thousands of blocks
  without irreversibility.
- `CulledAreInvalid` excepts privileged transactions, which the code puts in front
  newest first: of two that depend on each other the later one may be dropped.
- The exceptions of `BlockLog` are in 2.5.

### Bounds

- `GenericIndex`: three ids are needed for a modification, a removal and a
  creation in one session; three sessions for a squash below which another session
  remains; two values with one key and one with another for changes with and
  without a key change. The proofs remove these bounds.
- `BlockFlow`: the trees have a fork from the root (below any later LIB), one from
  block 2 (at the LIB once block 2 is irreversible), and, in `progress`, one above.
  Four witnesses make the quorum three, so that two forks can both lack one; the
  approvals put votes on two forks. `MaxUndoHistory` is 10 where it should not
  matter and 3 where it should. The notifications (`notes`) are as many as the
  tree allows, so no further bound is needed.
- `WriteQueue`: two block handlers, so that one can starve another or come back
  with a second block; one client of each other kind. `MaxLateCalls` is the number
  of API calls that begin after the interrupt: an endless stream of API calls can
  keep the inner loop of the write thread draining for ever, since that loop looks
  at the running flag and not at the interrupt. A real client stream is not
  endless.
- `PendingTransactions`: a transaction that may be included long after it is first
  seen (expiration 9, mempool age 2), one that needs it, and a privileged one that
  makes it fail; blocks and mempool of two, so that every limit is reached; two
  pops, so that popped blocks are put in order; four pushes, so that one comes
  back.
- `BlockLog`: parts of three blocks have a first, an inner and a last one; four
  parts with one kept give two rotations, so that garbage of one is disposed by
  the next; interrupts of the generation are unlimited and one kill may come at
  any step, with any number of starts after it.
- `Governance`: `Depth` 2 with four accounts makes a chain of proxies longer than
  votes are passed; a removal limit of 1 with two proposals is exceeded; with two
  witnesses, one of them `Elected` at first, the limit of one vote is met; periods of
  1 to 3 blocks make withdrawal, decline, maturity and expiry fall in one block.
- `Ledger`: prices 2:3 and 3:2 and amounts 2 and 5 round and leave dust, and two
  orders of one size meet one of the other; feeds of 3:2 and 1:3 make collateral
  short or abundant; the escrow holds both tokens and a fee; interest is paid.
  `MaxOps` counts what opens something; approvals, disputes, releases and
  cancellations are free. Accounts are symmetric.

### Fairness

- `BlockFlow`: weak fairness of `Step`. The write thread goes on with the request
  it has until it is done; nothing says that blocks arrive, that the process is
  stopped or that it is started again.
- `WriteQueue`: weak fairness of the write thread, of the main thread, and of each
  caller that is inside a call. These are threads the operating system schedules.
  There is none on new calls, on signals, or on the write thread's failures.

The other modules state no liveness: they describe what requests and blocks do to
data, and nothing obliges a client to send one.

Deadlock is checked in all runs but three: in `WriteQueue` a closed application has
nothing more to do, and in `Governance` and `Ledger` the chain ends at the bounds
on time and operations.

## 4. Properties

`GenericIndex`: `UndoNeverThrows`, `DeltaExact`, `RevisionsInStep`,
`ImplementsUndoStack`.
`BlockFlow`: `LogFollowsState`, `IrreversibleHasQuorum`, `RecoverableKept`,
`HeadAnchored`, `HeadKept`, `NoNotificationGap`, `PushedBlockServed`,
`RequestsEnd`; from comments `PopsToCommon`, `NotifiedOnce`.
`WriteQueue`: `ContextsMatchCallers`, `BlocksServed`, `ShutdownEnds`.
`PendingTransactions`: `IncludedOnce`, `ProducedApplies`, `SessionHeld`,
`CulledAreInvalid`; from a comment `BlocksJudgedAlike`.
`BlockLog`: `ReadServed`, `CommittedStored`, `ServesWhole`, `NoStrayFiles`,
`CleanRestart`; from a comment `ReplayComplete`.
`Governance`: `ProxiedExact`, `WitnessVotesExact`, `VestsCounted`, `DelayedExact`,
`GovernanceExpires`.
`Ledger`: `SuppliesExact`, `BookSettled`, `FillsFair`, `RequestsSettled`.

Each has a comment at its definition, and each one of a passing run has a mutant:
a variant of one definition, next to it in the module, with the kind of slip the
code might have had, under which the property fails.

## 5. Proofs

### 5.1 GenericIndex

`GenericIndexProofs` proves, for every number of ids, sets of values, key
functions, depths and revisions:

| theorem | statement |
|---|---|
| `IndInvHolds` | `SafeKeys => (Spec => []IndInv)` |
| `TypeCorrect` | `TypeOK` is an invariant |
| `UndoIsSafe` | `UndoNeverThrows` |
| `DeltasAreExact` | `DeltaExact` |
| `RevisionsAreInStep` | `RevisionsInStep` |
| `Refinement` | `Spec` implements `UndoStack` |

Assumptions: those of `GenericIndex` (natural bounds; `Absent` is no value), and
`SafeKeys == KeyUnique => ~ KeyMutable`, without which they are false (section 3).

Argument. `DeltaExact` says that undo state *k* is exactly the difference between
what session *k* found and what session *k* + 1 found. It is not inductive: merging
two differences in `squash` needs that an id removed in the older session is not
created again in the newer one, which follows from ids being handed out in order;
and `undo` puts objects back one by one, which needs that the version it goes back
to had no clashing keys and that keys did not change since. `IndInv` adds both as
`WellFormed` and `Follows` at every level of the stack. The proof has three layers:
lemmas about one undo state (`DeltaOfCreate`, `DeltaOfModify`, `DeltaOfRemove`,
`DeltaOfMerge`, `RollbackRestores`, `ExactIsRestorable`), lemmas about the whole
stack (`LevelsPush`, `LevelsPop`, `LevelsMerge`, `LevelsDropFront`,
`LevelsWithout`), and one lemma per operation. The refinement uses that `undo` gives
back exactly `saved[Len(saved)]`.

### 5.2 WriteQueue

`WriteQueueProofs` proves, for any set of callers of each kind:

| theorem | statement |
|---|---|
| `IndInvHolds` | `Spec => []IndInv` |
| `TypeCorrect` | `TypeOK` is an invariant |
| `NoDanglingContext` | `ContextsMatchCallers` is an invariant |

No assumption on the constants is used, not even that the kinds of callers are
disjoint. `ContextsMatchCallers` counts how often a caller's context is in the
queues or in the hands of the write thread. It is not inductive by itself:
cancelling the p2p tasks takes waiting callers away, so the invariant has to add
`ClosingAfterWriter`, that the main thread leaves its first stage only when the
write thread has ended. The lemmas `OccurrencesPush` and `OccurrencesPop` say what
a push and a pop do to the counts; `PopKeepsPending` and `AcceptKeepsMatch` lift
them to both queues; `MatchStep` has one step per action.

### 5.3 BlockLog

`BlockLogProofs` proves, for any size of a part, any number of parts kept, of
blocks, readers, generator threads and kills (assumption: `BlockLogAssumption`):

| theorem | statement |
|---|---|
| `BlockLogInvariant` | `Spec => []IInv` |
| `TypeCorrect` | `TypeOK` is an invariant |
| `StoredTheorem` | `CommittedStored` |
| `WholeTheorem` | `ServesWhole` |
| `StrayTheorem` | `NoStrayFiles` |
| `ReadTheorem` | `ReadServed` |
| `RestartInvariant` | `Spec => []RInv` |
| `RestartTheorem` | `CleanRestart`, an action property |

`CommittedStored` by itself is not inductive: whether a kill loses a block depends
on where in `append`, `rotate` or an artifacts generation it comes. `IInv` has one
part per situation of the process: `DownOK` (what files a process may leave
behind), `StartingOK` (what the start has found so far), `ServingOK` (all parts
there, full but the last), `WritingOK` (one clause for each phase of writing a
block), `ArtifactsOK`, `HeadersOK` and `GeneratingOK` (artifacts and the threads
that write them), `GarbageOK` and `StrayOK` (what is left of older parts),
`ReaderOK` (a reader's part stays at its place or is found missing). A node whose
replay ended short appends while its state is behind the log: `ServingOK` says that
the state then ends with the part below the newest one, and since at most a part's
worth of blocks becomes irreversible at once, it catches up before the newest part
is full and another begins. The proof has a lemma for each action and under it one
step per part that it can disturb.

`CleanRestart` needs more, because a start fails when a file is torn or a chunk of
artifacts is missing: `RInv` adds `TornOK`, `MissingOK` and `OrderlyOK`. A stored
block without its chunk was being written when a process was killed, so it lies
above `base`, and a start either refuses it or replays and reads every chunk; an
orderly close leaves the newest part ending at the committed block with complete
artifacts.

### 5.4 PendingTransactions

`PendingTransactionsProofs` proves, for any set of transactions, expirations,
sizes, dependencies, mempool limit, and any mixture of pops and blocks
(assumption: `PendingAssumption`):

| theorem | statement |
|---|---|
| `PendingInvariant` | `Spec => []IInv` |
| `TypeCorrect` | `TypeOK` is an invariant |
| `OnceTheorem` | `IncludedOnce` |
| `ProducedTheorem` | `ProducedApplies` |
| `HeldTheorem` | `SessionHeld` |
| `OrderedInvariant` | `Spec => []Ordered` |
| `CulledTheorem` | `CulledAreInvalid`, an action property |

`IncludedOnce` holds although the deduplication index forgets: an entry leaves it
when the head time reaches the transaction's expiration, and then the transaction
is refused for being expired, provided no validated object is used beyond the
expiration its signers chose. That is `UntilOK`; `SessionAside` says that during a
request nothing is applied on top of the head block, and the chain's times grow
(`ChainOK`). The producer and the restorer are folds over the pending list:
`FoldSteps` turns `FoldLeft` into the sequence of its states, and `ChosenApply` and
`RestoredBuilt` carry an invariant along them: what was chosen so far applies in
its order (`Chosen`), what was restored so far is listed and counted (`Built`).

`CulledAreInvalid` is about the order of a list in which a transaction may stand
several times, some of the places behind the limit of time, and some too early: a
privileged transaction is in front of what it needs, and so may be another one that
was postponed. `Ordered` does not ask that every place is good but that every
transaction that was applied before has one that is: a set of places such that what
the transaction there needs is on the chain, has a place of the set before it, or
stands only before it (`Rooted`). It is kept because popped blocks come first, in
their own order (`RootedBehind`; `ChainRooted` says that the chain is in the order
of needs), because a pushed transaction comes last and applies after the session,
and because what the restorer has applied is listed first, in that order
(`LoopKept`). `NeverLater` is the use of it: by induction on such places, a
transaction that is not applied at one would not apply at any later moment of the
loop, since whatever it lacks there does not enter the session behind it. TLC checked
`Ordered` on the instance of `pending_transactions` and on one with a chain of three
needs before it was proved.

### 5.5 Ledger

`LedgerProofs` proves, for any finite set of accounts, any prices, feeds, amounts,
delays and limits (assumption: `LedgerAssumption`):

| theorem | statement |
|---|---|
| `LedgerInvariant` | `Spec => []IInv` |
| `TypeCorrect` | `TypeOK` is an invariant |
| `SuppliesTheorem` | `SuppliesExact` |
| `BookTheorem` | `BookSettled` |
| `FillsTheorem` | `FillsFair` |
| `RequestsTheorem` | `RequestsSettled` |

`IInv` adds to these the types of the tables, that their rows are told apart by
their keys (a modified row replaces itself and no other), and that the accrual of
interest is never ahead of the clock. The argument has three parts.

Sums. `SuppliesExact` is an equation between sums over tables. `FoldTheorems` proves
what a sum does when an element is added, removed or changed (`SumChange`,
`RowsChange`), and that rows divided among their owners add up to the whole
(`SumByOwner`), which a block needs: it gives back everything that is due in one
assignment. `EscrowFrame`, `SavingsFrame` and `ConversionFrame` reduce each operation
to the two sums it moves something between.

The market. `apply_order` folds `match` over the orders that cross the new one, best
price first. `CandidatesAre` shows that such a list exists and holds each of them
once, `ApplySteps` turns the fold into its states, and `GoodLoop` is the invariant
along them: the orders not yet looked at are still there unchanged, everything else
is settled, and balances and orders together hold what they held. At the end
(`LoopEnds`) either the new order is over or no crossing order is left: an order that
is left over after `match` has used up the other one, and `fill_order` cancels it if
the rest is worth nothing at its own price.

Rounding. `BoughtUp` and `SoldOut` are the arithmetic of `match`: whichever side is
used up, both pay at least one unit and each gets its price to within one unit of
rounding. `Products` and `Division` are all they use.

### 5.6 BlockFlow

`BlockFlowProofs` proves, for any tree of blocks, scheduled witnesses, blocks that
fail, approvals and limits (assumptions: `TreeAssumption`, `FlowAssumption`; that no
witness signs two blocks of one number is not used):

| theorem | statement |
|---|---|
| `FlowInvariant` | `Spec => []IInv` |
| `TypeCorrect` | `TypeOK` is an invariant |
| `LogTheorem` | `LogFollowsState` |
| `NotificationTheorem` | `NoNotificationGap` |
| `RecoverableWhileUp` | `Spec => [](up => Recoverable)` |
| `ConfirmingInvariant` | `Spec => []Confirming` |
| `IrreversibleKept` | the log, the LIB and `committed` only grow, an action property |
| `QuorumTheorem` | `IrreversibleHasQuorum`, an action property |
| `SteadyInvariant` | `Spec /\ []UndoHistorySuffices => []Steady` |
| `HeadAnchoredTheorem` | `Spec /\ []UndoHistorySuffices => []HeadAnchored` |
| `PushedBlockServedTheorem` | `PushedBlockServed` under the same hypothesis, an action property |
| `HeadKeptTheorem` | `HeadKept` under the same hypothesis, an action property |
| `RecoverableKeptTheorem` | `RecoverableKept` under the same hypothesis: initially and along every step |

`LogFollowsState` is not inductive: `store_block` asks the fork database for blocks
by number, which answers with whatever single block has that number, on any fork.
The answer is right because the state's own reversible blocks are linked
(`Anchored`): a single block of a number the state has is then the state's. So the
proof has to follow what every operation of the fork database keeps, through pops,
removals and pruning in the middle of a fork switch. The other parts of `IInv` are
what this needs: `Logged` (log, `committed` and the notifications end at the same
block, which is on the state's path), `HeadsAgree` (the fork database is at the
state's head or above it, or nothing can be undone), `Applying` and `Reaching` (the
blocks still to apply are the next ones and linked), `Leaving` (so is the branch that
may have to be restored, as far as it is not irreversible), `Linking` and `Returning`
(where the fork database has a head). None of them says that `prev` pointers reach
back: without the hypothesis below that is not so (section 3).

Paths come first: `PathUnique` and `PathIsPath` give the recursive function `Path`
its meaning by a descent on block numbers (`BlockInduction`), and `PathOn`,
`PathOfChild`, `CommonIs` and `Branches` are what the steps use of it.
`FetchOnBranch` is the argument above; `FindType` and `UpdateResult` say what
`update_last_irreversible_block` may answer for every order of the forks, as a fold
along that order. Then one lemma per action.

`QuorumTheorem` needs one more invariant, because a fast confirmation that switches
forks uses its candidate after the blocks of the new fork have been applied, when
the LIB, the approvals and the fork database have changed: `Confirming` says that
the candidate is still on the fork and, unless it is irreversible by then, that its
votes are all still there (`VotesKept`). `SupportVotes` goes from what the code counts
to votes for the block, `FoundOnPath` from the candidate to the block written.

The last five have the hypothesis `UndoHistorySuffices`: no block about to be applied
is refused for lack of undo history. It limits `MaxUndoHistory` and the distance of
the LIB, not the forks, failures or approvals, and every behaviour of `block_flow`
meets it. What can then be said about `prev` pointers is the heart of `Steady`:

- `Sound`: the state is not built on a bad block, and whatever lost its `prev` above
  the LIB is built on one. So an expired `prev` can only be met on a fork that cannot
  be applied anyway. `ForkKept` is the step common to all actions: what leaves the
  fork database is below the LIB or, failed or after a block that failed, built on a
  bad block; the hypothesis is needed exactly here, since a refused block leaves
  too and is not bad. `HeadReaches` and `NextReaches` turn it into what the code
  relies on: the state's path and the block to apply next reach back to the LIB.
- `Switching`: a fork switch knows its way back. The old branch is not bad and ends at
  the old head, the new one is long enough, and the fork database's head is on the
  new branch while a push pops. From this `PopNotLower` shows that no pop throws above
  the LIB, and `SteadyApply` that blocks put back do not fail, which is `HeadKept`.
- `Pushing`: between requests the head of the fork database is not above the state's
  or does not reach back (`Settled`); while a block is linked it may also be on top of
  that block, which is then on the branch that is applied (`OnBranch`). That is
  `PushedBlockServed`. No block waits for a parent that is already linked.

`RecoverableWhileUp` leaves open in which state a process closes by itself.
`EndKeeps` says that such a step changes nothing that a start looks at: re-evaluating
irreversibility never throws (`NeverThrows`), what an applied block makes irreversible
is always found in the fork database by its number (`FetchFinds`, `AppliedStorable`),
and so is what a fast confirmation makes irreversible when the fork database's head is
not above the state's (`ConcludeKeeps`). The failed attempt at the remaining case gave
the exception in `RecoverableKept` (section 3).

### 5.7 Governance

`GovernanceProofs` proves, for any finite sets of accounts, witnesses and proposals,
any depth of proxies, periods, limits and amounts (assumption:
`GovernanceAssumption`):

| theorem | statement |
|---|---|
| `GovernanceInvariant` | `Spec => []IInv` |
| `GovernanceTypes` | `TypeOK` is an invariant |
| `ProxiedVotesExact` | `ProxiedExact` |
| `WitnessVotesCounted` | `WitnessVotesExact` |
| `EveryVestCounted` | `VestsCounted` |
| `DelayedVotesExact` | `DelayedExact` |
| `VotesExpire` | `GovernanceExpires` |

`IInv` is `Types`, `TallyInv` (the votes proxied to each account and those of each
witness are a recount over a map of proxies without cycles, and only accounts
without proxy hold ballots), `BallotsInv`, `VestsInv` (`total_vesting_shares` is the
sum of all VESTS), `DelaysInv` and `MaturedInv` (entries add up, are apart, and none
is due after a block), `RoutesInv` (one route from an account to another, without
which a withdrawal could give back more than it takes), `NullInv` and
`GovernanceExpires`. `NullInv` is needed because `clear_null_account_balance` burns
VESTS and tells no proxy: that is right only because all the null account holds is
delayed and of the current block, so none of it votes.

Chains. `Acyclic` says that no set of accounts is closed under `proxy`. From it follows
that a chain meets an account at most once (`Once`), so each of the sums in
`adjust_proxied_witness_votes` has at most one term (`ShiftIs`, `PassedIs`).
`GraftAcyclic` shows that the walk of `account_witness_proxy` keeps it: a cycle would
go through the new proxy and on along a chain that ends.

Tallies. Three lemmas carry all operations: `TallyGain` (an account gets *n* more of
its own), `TallyCut` (its votes are taken from its proxies, and with them its proxy
and ballots go) and `TallyGraft` (they are given to a new proxy). A step below *a* is
one more step below everybody above *a*, as long as it is within `Depth`
(`CutAbove`, `CutAside`, `CutRows`); what passes beyond is lost at the top, where the
account that votes gets only the first `Depth - d` places (`Gain`, `PassedOn`).
`VestsCounted` counts every account at the one place where its chain ends or becomes
too long (`TopExists`, `TopOnce`, `CountAll`).

Delayed votes. `AddedIs`, `ErasedIs` and `TailIs` say what the three operations of
`delayed_voting_processor` do to the list; `CutPoint` finds the entry at which
`erase` stops. `FewEntries` bounds the length from the distances.

Blocks. `NobodyDue` says what the end of a process's loop shows, and `GuardSpent`
that a removal that does not take all of an account's proposal votes has used up the
limit. Then one lemma per action.

### 5.8 Only model-checked

The liveness properties `RequestsEnd`, `BlocksServed` and `ShutdownEnds`, which depend
on fairness and stay with TLC. Every other property of a passing run is stated by a
theorem.

## 6. Plan

Done: `UndoStack`, `GenericIndex` and its proofs; `ForkDatabase`, `BlockFlow`;
`WriteQueue`, `PendingTransactions`, `BlockLog`, `Ledger`, `Governance` and their
proofs, and those of `BlockFlow`. Next:

1. `WitnessSchedule` with production: schedules that change between fork switches,
   and slots; `BlockFlow`'s constant `Scheduled` becomes its result.
2. `AccountHistory`: volatile operations driven by `BlockFlow`'s notifications.
3. `Synopsis` (`net/node.cpp`, `p2p_plugin.cpp`): two nodes that compare chains.
4. Resource credits: the manabar against a reference definition.

## 7. Not modelled, and why

- Comments, rewards, accounts and authorities, witness properties, delegations,
  recurrent transfers, resource credits, proposal payouts: deterministic rules of
  single operations with little interaction; for the block flow a block succeeds or
  fails.
- Sockets, HTTP, JSON, RocksDB, memory mapping, logging: I/O.
- State snapshots: done while the node is stopped.
- Queen, colony, debug and pacemaker plugins: test drivers of the write thread.
- fc: vendored; its promises and task cancellation appear in `WriteQueue`.
- Wallet, beekeeper and command line tools: separate programs; beekeeper's sessions
  are a candidate for a module of their own.
- Locks of `chainbase` and of the fork database: every writer is the write thread;
  what API readers see is not modelled.
