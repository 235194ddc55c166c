------------------------------ MODULE WriteQueue ------------------------------
(***************************************************************************)
(* The threads around the write queues of the chain plugin: the handlers   *)
(* of the p2p plugin, API calls and the block producer hand requests to    *)
(* the write thread and wait for a promise; the main thread closes them    *)
(* all when the application is interrupted.                                *)
(*                                                                         *)
(* A client stands for the thread or task of a caller.  Its write_context  *)
(* lives on its stack, so a context is named by its client, and it is      *)
(* gone once the client has returned.                                      *)
(***************************************************************************)
EXTENDS Integers, Sequences, FiniteSets

CONSTANTS
  BlockClient, \* handle_block of the p2p plugin
  TxClient,    \* handle_transaction of the p2p plugin
  ApiClient,   \* webserver threads in accept_transaction
  Producer,    \* the production loop of the witness plugin
  NoClient,
  StopAtBlock, \* whether --stop-at-block is given
  MaxLateCalls \* bound: the API calls that begin after the interrupt request

P2pClient == BlockClient \cup TxClient
PriorityClient == BlockClient \cup Producer
Client == P2pClient \cup ApiClient \cup Producer

ASSUME ClientAssumption ==
  /\ NoClient \notin Client
  /\ BlockClient \cap (TxClient \cup ApiClient \cup Producer) = {}
  /\ TxClient \cap (ApiClient \cup Producer) = {}
  /\ ApiClient \cap Producer = {}
  /\ IsFiniteSet(Producer) /\ Cardinality(Producer) <= 1
  /\ StopAtBlock \in BOOLEAN
  /\ MaxLateCalls \in Nat

VARIABLES
  priority_write_queue, \* contexts of blocks, and of blocks to generate
  write_queue,          \* contexts of transactions
  call,       \* where each client is: out, entered, waiting or answered
  writer,     \* the write thread: its position and the context it has
  is_syncing, \* sync mode, where the write lock is never given up early
  interrupt,  \* _is_interrupt_request of the application
  stopped,    \* stop_at_block_interrupt_request
  main,       \* how far the main thread is in closing the application
  timer,      \* the production loop is scheduled
  late        \* how many API calls have begun after the interrupt request

queues == <<priority_write_queue, write_queue>>
vars == <<priority_write_queue, write_queue, call, writer, is_syncing,
          interrupt, stopped, main, timer, late>>

\* Until stop_write_processing clears it.
running == main \notin {"chain", "handler", "closed"}

is_interrupt_request == interrupt \/ stopped
is_running == running /\ ~ is_interrupt_request

\* finish.status, set when the write thread ends.
is_finished_write_processing == writer.at = "gone"

\* shutdown_mgr::is_running of the p2p plugin.
p2p_is_running ==
  /\ main \in {"run", "webserver"}
  /\ ~ interrupt
  /\ ~ is_finished_write_processing

Init == /\ priority_write_queue = <<>>
        /\ write_queue = <<>>
        /\ call = [c \in Client |-> "out"]
        /\ writer = [at |-> "wait", cxt |-> NoClient]
        /\ is_syncing = TRUE
        /\ interrupt = FALSE
        /\ stopped = FALSE
        /\ main = "run"
        /\ timer = (Producer # {})
        /\ late = 0

------------------------------------------------------------------------------
(* Callers *)

\* A handler of the p2p plugin begins, which its action_catcher counts.
p2p_handle(c) ==
  /\ call[c] = "out"
  /\ p2p_is_running
  /\ call' = [call EXCEPT ![c] = "entered"]
  /\ UNCHANGED <<queues, writer, is_syncing, interrupt, stopped, main, timer,
                 late>>

\* A thread of the webserver begins an API call; whether the write thread
\* still runs is not looked at.
api_call(c) ==
  /\ call[c] = "out"
  /\ main = "run"
  /\ interrupt => late < MaxLateCalls
  /\ late' = IF interrupt THEN late + 1 ELSE late
  /\ call' = [call EXCEPT ![c] = "entered"]
  /\ UNCHANGED <<queues, writer, is_syncing, interrupt, stopped, main, timer>>

\* The production loop finds that it has to produce a block.  It looks at the
\* interrupt request only afterwards.
block_production_loop(c) ==
  /\ call[c] = "out"
  /\ timer
  /\ \/ /\ call' = [call EXCEPT ![c] = "entered"]
        /\ timer' = FALSE
     \/ /\ interrupt
        /\ call' = call
        /\ timer' = FALSE
  /\ UNCHANGED <<queues, writer, is_syncing, interrupt, stopped, main, late>>

\* accept_block and push_generate_block_request.
accept_block(c) ==
  /\ c \in PriorityClient
  /\ call[c] = "entered"
  /\ priority_write_queue' = Append(priority_write_queue, c)
  /\ call' = [call EXCEPT ![c] = "waiting"]
  /\ UNCHANGED <<write_queue, writer, is_syncing, interrupt, stopped, main,
                 timer, late>>

\* Mutant: into the queue of the blocks.
accept_transaction_first(c) ==
  /\ c \in TxClient \cup ApiClient
  /\ call[c] = "entered"
  /\ priority_write_queue' = Append(priority_write_queue, c)
  /\ call' = [call EXCEPT ![c] = "waiting"]
  /\ UNCHANGED <<write_queue, writer, is_syncing, interrupt, stopped, main,
                 timer, late>>

accept_transaction(c) ==
  /\ c \in TxClient \cup ApiClient
  /\ call[c] = "entered"
  /\ write_queue' = Append(write_queue, c)
  /\ call' = [call EXCEPT ![c] = "waiting"]
  /\ UNCHANGED <<priority_write_queue, writer, is_syncing, interrupt, stopped,
                 main, timer, late>>

\* The promise is set and the caller goes on; the production loop schedules
\* itself again.
return(c) ==
  /\ call[c] = "answered"
  /\ call' = [call EXCEPT ![c] = "out"]
  /\ timer' = IF c \in Producer THEN ~ interrupt ELSE timer
  /\ UNCHANGED <<queues, writer, is_syncing, interrupt, stopped, main, late>>

------------------------------------------------------------------------------
(* The write thread *)

Empty == priority_write_queue = <<>> /\ write_queue = <<>>

\* Mutant: transactions first.
pop_transactions_first ==
  IF write_queue # <<>>
  THEN /\ writer' = [at |-> "visit", cxt |-> Head(write_queue)]
       /\ write_queue' = Tail(write_queue)
       /\ priority_write_queue' = priority_write_queue
  ELSE /\ writer' = [at |-> "visit", cxt |-> Head(priority_write_queue)]
       /\ priority_write_queue' = Tail(priority_write_queue)
       /\ write_queue' = write_queue

pop ==
  IF priority_write_queue # <<>>
  THEN /\ writer' = [at |-> "visit", cxt |-> Head(priority_write_queue)]
       /\ priority_write_queue' = Tail(priority_write_queue)
       /\ write_queue' = write_queue
  ELSE /\ writer' = [at |-> "visit", cxt |-> Head(write_queue)]
       /\ write_queue' = Tail(write_queue)
       /\ priority_write_queue' = priority_write_queue

\* The outer loop: the thread ends when it is not to run any more, whatever
\* is in the queues, and otherwise takes a context.
wake ==
  /\ writer.at = "wait"
  /\ \/ /\ ~ is_running
        /\ writer' = [at |-> "gone", cxt |-> NoClient]
        /\ UNCHANGED queues
     \/ /\ is_running
        /\ ~ Empty
        /\ pop
  /\ UNCHANGED <<call, is_syncing, interrupt, stopped, main, timer, late>>

\* The visitor: nothing is done once an interrupt is requested, but the
\* caller gets its answer.
visit ==
  /\ writer.at = "visit"
  /\ IF is_interrupt_request
     THEN /\ call' = [call EXCEPT ![writer.cxt] = "answered"]
          /\ writer' = [writer EXCEPT !.at = "more"]
     ELSE /\ call' = call
          /\ writer' = [writer EXCEPT !.at = "work"]
  /\ UNCHANGED <<queues, is_syncing, interrupt, stopped, main, timer, late>>

\* The caller of a block is answered before all the work for it is done; the
\* context may be gone from now on.
trigger_promise ==
  /\ writer.at = "work"
  /\ writer.cxt \in PriorityClient
  /\ call' = [call EXCEPT ![writer.cxt] = "answered"]
  /\ writer' = [writer EXCEPT !.at = "rest"]
  /\ UNCHANGED <<queues, is_syncing, interrupt, stopped, main, timer, late>>

\* The work is done or has failed: the caller has its answer now at the
\* latest.  The block may be the one to stop at.
work_done ==
  /\ writer.at \in {"work", "rest"}
  /\ call' = IF writer.at = "work"
             THEN [call EXCEPT ![writer.cxt] = "answered"] ELSE call
  /\ writer' = [writer EXCEPT !.at = "more"]
  /\ \/ UNCHANGED <<is_syncing, stopped>>
     \/ /\ StopAtBlock /\ ~ stopped /\ writer.cxt \in PriorityClient
        /\ stopped' = TRUE
        /\ is_syncing' \in {is_syncing, FALSE}
  /\ UNCHANGED <<queues, interrupt, main, timer, late>>

\* The block log cannot follow a block, or a fast confirmation that arrived
\* as a transaction: the application is to stop.
migrate_failure ==
  /\ writer.at \in {"work", "rest"}
  /\ ~ interrupt
  /\ interrupt' = TRUE
  /\ UNCHANGED <<queues, call, writer, is_syncing, stopped, main, timer, late>>

\* In live mode the write lock is given up after a while.
give_up_lock ==
  /\ writer.at = "more"
  /\ ~ is_syncing
  /\ is_running
  /\ writer' = [at |-> "wait", cxt |-> NoClient]
  /\ UNCHANGED <<queues, call, is_syncing, interrupt, stopped, main, timer,
                 late>>

\* The inner loop goes on until the queues are empty.
drain ==
  /\ writer.at = "more"
  /\ IF ~ running \/ Empty
     THEN /\ writer' = [at |-> "wait", cxt |-> NoClient]
          /\ is_syncing' \in {is_syncing, FALSE}
          /\ UNCHANGED queues
     ELSE pop /\ UNCHANGED is_syncing
  /\ UNCHANGED <<call, interrupt, stopped, main, timer, late>>

------------------------------------------------------------------------------
(* The main thread *)

\* SIGINT, handled by the thread the production loop runs on.
handle_signal ==
  /\ ~ interrupt
  /\ \A c \in Producer : call[c] = "out"
  /\ interrupt' = TRUE
  /\ UNCHANGED <<queues, call, writer, is_syncing, stopped, main, timer, late>>

\* Mutant: the write thread is not waited for.
finish_request_at_once ==
  /\ main = "run"
  /\ interrupt
  /\ main' = "webserver"
  /\ UNCHANGED <<queues, call, writer, is_syncing, interrupt, stopped, timer,
                 late>>

\* Closing starts after the write thread has ended.
finish_request ==
  /\ main = "run"
  /\ interrupt
  /\ is_finished_write_processing
  /\ main' = "webserver"
  /\ UNCHANGED <<queues, call, writer, is_syncing, interrupt, stopped, timer,
                 late>>

\* The threads of the webserver are joined.
stop_webserver ==
  /\ main = "webserver"
  /\ \A c \in ApiClient : call[c] = "out"
  /\ main' = "p2p"
  /\ UNCHANGED <<queues, call, writer, is_syncing, interrupt, stopped, timer,
                 late>>

\* Mutant: no limit on the time the handlers are waited for.
p2p_shutdown_unlimited ==
  /\ main = "p2p"
  /\ \A c \in P2pClient : call[c] = "out"
  /\ main' = "quit"
  /\ UNCHANGED <<queues, call, writer, is_syncing, interrupt, stopped, timer,
                 late>>

\* shutdown_mgr::shutdown: the handlers have returned, or the time is over
\* and the exception is swallowed.
p2p_shutdown ==
  /\ main = "p2p"
  /\ main' = "quit"
  /\ UNCHANGED <<queues, call, writer, is_syncing, interrupt, stopped, timer,
                 late>>

\* The tasks of the p2p thread are cancelled, those that wait for a promise
\* too: their contexts are gone.
p2p_quit ==
  /\ main = "quit"
  /\ call' = [c \in Client |-> IF c \in P2pClient THEN "out" ELSE call[c]]
  /\ main' = "chain"
  /\ UNCHANGED <<queues, writer, is_syncing, interrupt, stopped, timer, late>>

\* The witness plugin cancels its timer and the chain plugin joins the write
\* thread.
plugin_shutdown ==
  /\ main = "chain"
  /\ is_finished_write_processing
  /\ timer' = FALSE
  /\ main' = "handler"
  /\ UNCHANGED <<queues, call, writer, is_syncing, interrupt, stopped, late>>

\* The thread of the signal handler is joined.
wait4stop ==
  /\ main = "handler"
  /\ \A c \in Producer : call[c] = "out"
  /\ main' = "closed"
  /\ UNCHANGED <<queues, call, writer, is_syncing, interrupt, stopped, timer,
                 late>>

Caller(c) == accept_block(c) \/ accept_transaction(c) \/ return(c)
Writer == wake \/ visit \/ trigger_promise \/ work_done \/ give_up_lock \/ drain
Main == \/ finish_request \/ stop_webserver \/ p2p_shutdown \/ p2p_quit
        \/ plugin_shutdown \/ wait4stop

Next == \/ \E c \in P2pClient : p2p_handle(c)
        \/ \E c \in ApiClient : api_call(c)
        \/ \E c \in Producer : block_production_loop(c)
        \/ \E c \in Client : Caller(c)
        \/ Writer
        \/ migrate_failure
        \/ handle_signal
        \/ Main

\* Threads that can go on do.
Spec == /\ Init /\ [][Next]_vars
        /\ WF_vars(Writer)
        /\ WF_vars(Main)
        /\ \A c \in Client : WF_vars(Caller(c))

------------------------------------------------------------------------------
(* Properties *)

\* Every variable holds what its C++ counterpart can.
TypeOK ==
  /\ priority_write_queue \in Seq(PriorityClient)
  /\ write_queue \in Seq(TxClient \cup ApiClient)
  /\ call \in [Client -> {"out", "entered", "waiting", "answered"}]
  /\ writer \in [at  : {"wait", "visit", "work", "rest", "more", "gone"},
                cxt : Client \cup {NoClient}]
  /\ writer.at \in {"visit", "work", "rest", "more"} => writer.cxt \in Client
  /\ is_syncing \in BOOLEAN
  /\ interrupt \in BOOLEAN
  /\ stopped \in BOOLEAN
  /\ timer \in BOOLEAN
  /\ main \in {"run", "webserver", "p2p", "quit", "chain", "handler", "closed"}
  /\ late \in Nat

Occurrences(c, q) == Cardinality({i \in 1..Len(q) : q[i] = c})

\* How many times the write thread has or will meet the context of c.
Pending(c) == Occurrences(c, priority_write_queue) + Occurrences(c, write_queue)
                + IF writer.at \in {"visit", "work"} /\ writer.cxt = c
                  THEN 1 ELSE 0

\* As long as the write thread lives, it never meets a context whose caller
\* has returned, and no caller waits for an answer nobody will give.
ContextsMatchCallers ==
  writer.at # "gone" =>
    \A c \in Client : Pending(c) = IF call[c] = "waiting" THEN 1 ELSE 0

\* A block, received or to be generated, is not starved by transactions: its
\* caller is answered unless the write thread is to stop.
BlocksServed ==
  \A c \in PriorityClient :
    call[c] = "waiting" ~> call[c] # "waiting" \/ is_interrupt_request

\* An API call or the production loop waits and the write thread has ended.
LeftBehind ==
  /\ is_finished_write_processing
  /\ \E c \in ApiClient \cup Producer : call[c] = "waiting"

\* Once interrupted the application closes, whatever the p2p handlers have in
\* the queues; only an API call or a block to generate that came too late for
\* the write thread can keep it from closing.
ShutdownEnds == interrupt ~> main = "closed" \/ LeftBehind
==============================================================================
