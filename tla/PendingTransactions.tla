------------------------- MODULE PendingTransactions -------------------------
(***************************************************************************)
(* The transactions a live node keeps beside its chain: those accepted and *)
(* not yet in a block (_pending_tx), those of blocks taken back            *)
(* (_popped_tx), and the undo session on top of the head block in which    *)
(* they are applied (_pending_tx_session).                                 *)
(*                                                                         *)
(* Every request that changes the chain runs inside                        *)
(* without_pending_transactions: the pending transactions are put aside,   *)
(* blocks are popped and applied, and the restorer's destructor applies    *)
(* again what was popped and put aside, within a limit of time.  What the  *)
(* request pops and applies is any mixture here: the block writer chooses  *)
(* it (module BlockFlow), successfully or not, and the restorer runs after *)
(* either.                                                                 *)
(*                                                                         *)
(* A transaction is one shared object, found again through the transaction *)
(* cache when it arrives in a block, so runtime_expiration, set when it is *)
(* first validated, is kept by the node and not by the chain.  All         *)
(* hardforks are active and blocks are younger than a minute.              *)
(***************************************************************************)
EXTENDS Integers, FiniteSets, SequencesExt

CONSTANTS
  Tx,             \* transaction ids
  Expiration,     \* signed_transaction::expiration
  Needs,          \* the transactions without which one fails
  Clash,          \* the transactions after which one fails
  WitnessTx,      \* a single witness operation of an elected witness
  Size,           \* get_transaction_size
  MaxAge,         \* HIVE_MAX_TIME_UNTIL_EXPIRATION
  MaxSigAge,      \* HIVE_MAX_TIME_UNTIL_SIGNATURE_EXPIRATION
  MaxMempool,     \* _max_mempool_size
  MaxBlockSize,   \* maximum_block_size, without the header
  FloodLevel,     \* flood_level of resource credits
  PostponedLimit, \* HIVE_BLOCK_GENERATION_POSTPONED_TX_LIMIT
  MaxTime,        \* bound: timestamp of the last block
  MaxHeight,      \* bound: length of the chain
  MaxPops,        \* bound: blocks popped
  MaxPushes       \* bound: transactions accepted

ASSUME PendingAssumption ==
  /\ Expiration \in [Tx -> Nat \ {0}] /\ Size \in [Tx -> Nat \ {0}]
  /\ Needs \in [Tx -> SUBSET Tx] /\ Clash \in [Tx -> SUBSET Tx]
  /\ WitnessTx \subseteq Tx
  /\ MaxAge \in Nat \ {0} /\ MaxSigAge \in Nat /\ MaxMempool \in Nat
  /\ MaxBlockSize \in Nat \ {0} /\ FloodLevel \in Nat /\ PostponedLimit \in Nat
  /\ MaxTime \in Nat \ {0} /\ MaxHeight \in Nat /\ MaxPops \in Nat /\ MaxPushes \in Nat

VARIABLES
  chain,     \* the blocks of the chain, [time, txs], the genesis block first
  pending,   \* _pending_tx
  size,      \* _pending_tx_size
  popped,    \* _popped_tx
  session,   \* what is applied in _pending_tx_session
  aside,     \* pending_transactions_restorer::_pending_transactions
  until,     \* runtime_expiration, 0 when no object of the id is validated
  phase,     \* idle; or inside a request: open, done (producer's own block)
  pops,      \* blocks popped so far
  pushes,    \* transactions accepted so far
  shown,     \* what the session held when this request began
  favoured,  \* transactions that were put in front of _popped_tx
  faults     \* refused: a block every other node takes was refused;
             \* misproduced: the producer's own block did not apply

vars == <<chain, pending, size, popped, session, aside, until, phase, pops,
          pushes, shown, favoured, faults>>

------------------------------------------------------------------------------
(* The state *)

head_block_time(ch) == Last(ch).time
Included(ch) == UNION {Range(ch[i].txs) : i \in DOMAIN ch}

\* Mutant of Deduplicated: entries are removed MaxAge before the expiration.
DeduplicatedEarly(ch) ==
  {x \in Included(ch) : ~(head_block_time(ch) > Expiration[x] - MaxAge)}

\* The entries of transaction_index: those of blocks, until the head is past
\* their expiration, and those of the pending session.
Deduplicated(ch) == {x \in Included(ch) : ~(head_block_time(ch) > Expiration[x])}
is_known_transaction(x, ch, ses) == x \in Deduplicated(ch) \cup Range(ses)

Lower(m, n) == IF m < n THEN m ELSE n

\* runtime_expiration after validate_transaction.
RuntimeExpiration(u, x, now) ==
  IF u # 0 THEN u ELSE Lower(Expiration[x], now + MaxAge)

\* _apply_transaction succeeds on the head block and the session.
Applies(x, ch, ses, u) ==
  LET now == head_block_time(ch)
      before == Included(ch) \cup Range(ses)
  IN  /\ ~is_known_transaction(x, ch, ses)
      /\ u = 0 => Expiration[x] <= now + MaxSigAge
      /\ now < RuntimeExpiration(u, x, now)
      /\ Needs[x] \subseteq before
      /\ Clash[x] \cap before = {}

\* A block's transactions apply one after the other, with the node's own
\* objects or with fresh ones.
BlockApplies(txs, ch, own) ==
  \A i \in DOMAIN txs :
    Applies(txs[i], ch, SubSeq(txs, 1, i - 1), IF own THEN until[txs[i]] ELSE 0)

\* Objects live as long as a list or a block of the chain holds them, and may
\* live longer: the fork database keeps the blocks of other branches, and the
\* p2p plugin the transactions it has passed on.
Alive(u, held) == [x \in Tx |-> IF x \in held THEN u[x] ELSE 0]
TotalSize(s) == FoldLeft(LAMBDA n, x : n + Size[x], 0, s)

------------------------------------------------------------------------------
(* Transactions *)

\* use_account_rcs: a witness transaction during a flood is privileged.
IsPrivileged(x) == x \in WitnessTx /\ size \div MaxBlockSize > FloodLevel

\* process_non_fast_confirm_transaction with a transaction that applies; one
\* that does not leaves nothing behind.
_push_transaction(x) ==
  /\ phase = "idle"
  /\ pushes < MaxPushes
  /\ Applies(x, chain, session, until[x])
  /\ until' = [until EXCEPT ![x] =
                 RuntimeExpiration(until[x], x, head_block_time(chain))]
  /\ session' = Append(session, x)
  /\ pushes' = pushes + 1
  /\ IF IsPrivileged(x)
     THEN /\ popped' = <<x>> \o popped
          /\ favoured' = favoured \cup {x}
          /\ UNCHANGED <<pending, size>>
     ELSE /\ pending' = Append(pending, x)
          /\ size' = size + Size[x]
          /\ UNCHANGED <<popped, favoured>>
  /\ UNCHANGED <<chain, aside, phase, pops, shown, faults>>

------------------------------------------------------------------------------
(* Requests that change the chain *)

\* Mutant of Aside: the session is kept.
AsideKeepingSession ==
  /\ aside' = pending
  /\ pending' = <<>>
  /\ size' = 0
  /\ UNCHANGED session
  /\ shown' = Range(session)

\* without_pending_transactions: the pending transactions are moved out and
\* clear_pending undoes the session.
Aside ==
  /\ aside' = pending
  /\ pending' = <<>>
  /\ size' = 0
  /\ session' = <<>>
  /\ shown' = Range(session)

without_pending_transactions ==
  /\ phase = "idle"
  /\ Aside
  /\ phase' = "open"
  /\ UNCHANGED <<chain, popped, until, pops, pushes, favoured, faults>>

\* Mutant of pop_block: the transactions of the block come last.
pop_block_behind ==
  /\ phase = "open"
  /\ pops < MaxPops
  /\ Len(chain) > 1
  /\ popped' = popped \o Last(chain).txs
  /\ chain' = Front(chain)
  /\ pops' = pops + 1
  /\ UNCHANGED <<pending, size, session, aside, until, phase, pushes, shown,
                 favoured, faults>>

\* pop_block: the transactions of the block come before those popped earlier.
pop_block ==
  /\ phase = "open"
  /\ pops < MaxPops
  /\ Len(chain) > 1
  /\ popped' = Last(chain).txs \o popped
  /\ chain' = Front(chain)
  /\ pops' = pops + 1
  /\ UNCHANGED <<pending, size, session, aside, until, phase, pushes, shown,
                 favoured, faults>>

\* Mutant of Blocks: a block may have the timestamp of its predecessor.
BlocksNotEarlier ==
  [time : {n \in 1..MaxTime : n >= head_block_time(chain)},
   txs : {s \in BoundedSeq(Tx, 1) : BlockApplies(s, chain, FALSE)}]

\* The blocks other witnesses may send: valid on this chain for a node that
\* has not seen their transactions.
Blocks ==
  [time : {n \in 1..MaxTime : n > head_block_time(chain)},
   txs : {s \in BoundedSeq(Tx, 2) :
            TotalSize(s) < MaxBlockSize /\ BlockApplies(s, chain, FALSE)}]

\* _apply_block validates and stamps the objects of its transactions.
Stamped(b) ==
  [x \in Tx |-> IF x \in Range(b.txs)
                THEN RuntimeExpiration(until[x], x, head_block_time(chain))
                ELSE until[x]]

apply_block(b) ==
  /\ phase = "open"
  /\ Len(chain) < MaxHeight
  /\ IF BlockApplies(b.txs, chain, TRUE)
     THEN chain' = Append(chain, b) /\ until' = Stamped(b) /\ UNCHANGED faults
     ELSE faults' = faults \cup {"refused"} /\ UNCHANGED <<chain, until>>
  /\ UNCHANGED <<pending, size, popped, session, aside, phase, pops, pushes,
                 shown, favoured>>

\* Mutant of Candidate: transactions go into the block without being applied
\* first, as fill_block_with_transactions of the queen plugin may do.
CandidateUnchecked(s, x, when) ==
  IF s.unused > PostponedLimit \/ until[x] < when
       \/ TotalSize(s.full) + Size[x] >= MaxBlockSize
  THEN s
  ELSE [s EXCEPT !.full = Append(s.full, x)]

\* The producer: apply_pending_transactions on the head block at time when.
\* full - the transactions chosen, unused - those that did not fit.
Candidate(s, x, when) ==
  IF s.unused > PostponedLimit \/ until[x] < when THEN s
  ELSE IF TotalSize(s.full) + Size[x] >= MaxBlockSize
  THEN [s EXCEPT !.unused = s.unused + 1]
  ELSE IF Applies(x, chain, s.full, until[x])
  THEN [s EXCEPT !.full = Append(s.full, x)]
  ELSE s

apply_pending_transactions(when) ==
  FoldLeft(LAMBDA s, x : Candidate(s, x, when),
           [full |-> <<>>, unused |-> 0], pending).full

\* generate_block and the push_block it ends with.
generate_block(when) ==
  LET new == [time |-> when, txs |-> apply_pending_transactions(when)]
  IN  /\ phase = "idle"
      /\ Len(chain) < MaxHeight
      /\ Aside
      /\ phase' = "done"
      /\ IF BlockApplies(new.txs, chain, TRUE)
         THEN chain' = Append(chain, new) /\ until' = Stamped(new) /\ UNCHANGED faults
         ELSE faults' = faults \cup {"misproduced"} /\ UNCHANGED <<chain, until>>
      /\ UNCHANGED <<popped, pops, pushes, favoured>>

\* handle_tx of ~pending_transactions_restorer for the i-th transaction, when
\* the first cut ones are applied before time is over.  r is what the restorer
\* has built: pending, size, session, stop.
handle_tx(r, x, i, cut) ==
  IF r.stop THEN r
  ELSE IF i > cut
  THEN IF r.size >= MaxMempool THEN [r EXCEPT !.stop = TRUE]
       ELSE [r EXCEPT !.pending = Append(r.pending, x), !.size = r.size + Size[x]]
  ELSE IF /\ until[x] > head_block_time(chain)
          /\ ~is_known_transaction(x, chain, r.session)
          /\ Applies(x, chain, r.session, until[x])
  THEN [r EXCEPT !.pending = Append(r.pending, x), !.size = r.size + Size[x],
                 !.session = Append(r.session, x)]
  ELSE r

Restored(cut) ==
  LET todo == popped \o aside
  IN  FoldLeft(LAMBDA r, i : handle_tx(r, todo[i], i, cut),
               [pending |-> <<>>, size |-> 0, session |-> <<>>, stop |-> FALSE],
               [i \in 1..Len(todo) |-> i])

\* ~pending_transactions_restorer.  cut is 0 when the block is too old; kept
\* are the objects somebody else holds.
restore_pending(cut) ==
  LET r == Restored(cut)
  IN  /\ phase # "idle"
      /\ pending' = r.pending
      /\ size' = r.size
      /\ session' = r.session
      /\ popped' = <<>>
      /\ aside' = <<>>
      /\ phase' = "idle"
      /\ \E kept \in SUBSET ({x \in Tx : until[x] # 0} \ Included(chain)) :
           until' = Alive(until, Range(r.pending) \cup Included(chain) \cup kept)
      /\ shown' = {}
      /\ UNCHANGED <<chain, pops, pushes, favoured, faults>>

------------------------------------------------------------------------------
Init ==
  /\ chain = <<[time |-> 1, txs |-> <<>>]>>
  /\ pending = <<>> /\ size = 0 /\ popped = <<>> /\ session = <<>>
  /\ aside = <<>>
  /\ until = [x \in Tx |-> 0]
  /\ phase = "idle" /\ pops = 0 /\ pushes = 0
  /\ shown = {} /\ favoured = {} /\ faults = {}

Next ==
  \/ \E x \in Tx : _push_transaction(x)
  \/ without_pending_transactions
  \/ pop_block
  \/ \E b \in Blocks : apply_block(b)
  \/ \E t \in head_block_time(chain) + 1..MaxTime : generate_block(t)
  \/ \E cut \in 0..Len(popped \o aside) : restore_pending(cut)

Spec == Init /\ [][Next]_vars

------------------------------------------------------------------------------
(* Properties *)

\* The lists hold transactions, the chain's timestamps grow, and outside a
\* request nothing is put aside (without_pending_transactions).
TypeOK ==
  /\ \A i \in DOMAIN chain :
       /\ chain[i].time \in 1..MaxTime /\ chain[i].txs \in Seq(Tx)
       /\ i > 1 => chain[i - 1].time < chain[i].time
  /\ pending \in Seq(Tx) /\ popped \in Seq(Tx) /\ session \in Seq(Tx)
  /\ aside \in Seq(Tx)
  /\ size \in Nat
  /\ until \in [Tx -> Nat]
  /\ phase \in {"idle", "open", "done"}
  /\ phase = "idle" => aside = <<>>
  /\ pops \in 0..MaxPops /\ pushes \in 0..MaxPushes
  /\ phase = "idle" => shown = {}
  /\ shown \subseteq Tx /\ favoured \subseteq WitnessTx
  /\ faults \subseteq {"refused", "misproduced"}

\* No transaction is on the chain twice, though its entry in the
\* deduplication index is removed once it has expired and its runtime
\* expiration may be earlier than that (clear_expired_transactions,
\* validate_transaction).
IncludedOnce ==
  \A i, j \in DOMAIN chain :
    \A p \in DOMAIN chain[i].txs, q \in DOMAIN chain[j].txs :
      chain[i].txs[p] = chain[j].txs[q] => i = j /\ p = q

\* The block a producer makes from the pending list, with transactions that
\* were postponed, are listed twice or have expired in it, applies
\* (block_producer::apply_pending_transactions and the push_block after it).
ProducedApplies == "misproduced" \notin faults

\* What clients see applied on top of the head block is held by a list: no
\* accepted transaction is only in the session, which the next block undoes,
\* and none is in it and on the chain.  _pending_tx_size, which the limit of the
\* mempool and the surcharge during a flood are computed from, is their size.
SessionHeld ==
  /\ size = TotalSize(pending)
  /\ Range(session) \subseteq Range(pending) \cup Range(popped)
  /\ Range(session) \cap Deduplicated(chain) = {}

\* When the restorer drops a transaction that was applied before the request,
\* in the session or in a block popped, and no limit is reached, it is on the
\* chain, expired, or does not apply after the ones that were kept: none fails
\* because those it needs are restored behind it
\* (~pending_transactions_restorer, pop_block).  Privileged transactions,
\* listed newest first, are excepted.
CulledAreInvalid ==
  [][phase # "idle" /\ phase' = "idle" =>
       \A x \in (shown \cup Range(popped)) \ (Range(pending') \cup favoured) :
         \/ x \in Included(chain)
         \/ until[x] <= head_block_time(chain)
         \/ size' >= MaxMempool
         \/ ~Applies(x, chain, session', until[x])]_vars

\* A block that applies for a node that has not seen its transactions applies
\* for this one.
BlocksJudgedAlike == "refused" \notin faults
==============================================================================
