--------------------------- MODULE WriteQueueProofs ---------------------------
(***************************************************************************)
(* For any number of callers: the write thread never meets a context whose *)
(* caller has returned, and forgets no caller while it lives.              *)
(***************************************************************************)
EXTENDS WriteQueue, FiniteSetTheorems, FunctionTheorems, SequenceTheorems, TLAPS

------------------------------------------------------------------------------
(* Counting in a queue. *)

\* A queue holds a client finitely often.
LEMMA OccurrencesNat ==
  ASSUME NEW S, NEW q \in Seq(S), NEW c
  PROVE  /\ IsFiniteSet({i \in 1..Len(q) : q[i] = c})
         /\ Occurrences(c, q) \in Nat
  <1>1. IsFiniteSet(1..Len(q))
    BY FS_Interval, LenProperties
  <1>2. {i \in 1..Len(q) : q[i] = c} \in SUBSET (1..Len(q))
    OBVIOUS
  <1>3. IsFiniteSet({i \in 1..Len(q) : q[i] = c})
    BY <1>1, <1>2, FS_Subset
  <1>. QED  BY <1>3, FS_CardinalityType DEF Occurrences

\* Pushing d into a queue adds one to the count of d only.
LEMMA OccurrencesPush ==
  ASSUME NEW C, NEW q \in Seq(C), NEW d \in C, NEW c
  PROVE  Occurrences(c, Append(q, d)) = Occurrences(c, q) + IF c = d THEN 1 ELSE 0
  <1>. DEFINE S == {i \in 1..Len(q) : q[i] = c}
              T == {i \in 1..Len(Append(q, d)) : Append(q, d)[i] = c}
  <1>1. /\ Occurrences(c, q) = Cardinality(S)
        /\ Occurrences(c, Append(q, d)) = Cardinality(T)
    BY Zenon DEF Occurrences
  <1>2. IsFiniteSet(S) /\ Cardinality(S) \in Nat
    BY <1>1, OccurrencesNat, Zenon
  <1>3. CASE c = d
    <2>1. T = S \cup {Len(q) + 1}
      BY <1>3
    <2>2. Len(q) + 1 \notin S
      OBVIOUS
    <2>. HIDE DEF S, T
    <2>3. Cardinality(T) = Cardinality(S) + 1
      BY <1>2, <2>1, <2>2, FS_AddElement
    <2>. QED  BY <1>1, <1>3, <2>3
  <1>4. CASE c # d
    <2>1. T = S
      BY <1>4
    <2>. HIDE DEF S, T
    <2>. QED  BY <1>1, <1>2, <1>4, <2>1
  <1>. QED  BY <1>3, <1>4

\* Popping a queue takes one from the count of its first element only.
LEMMA OccurrencesPop ==
  ASSUME NEW C, NEW q \in Seq(C), q # <<>>, NEW c
  PROVE  Occurrences(c, q) = Occurrences(c, Tail(q)) + IF c = Head(q) THEN 1 ELSE 0
  <1>. DEFINE t == Tail(q)
              S == {i \in 1..Len(t) : t[i] = c}
              U == {i \in 2..Len(q) : q[i] = c}
              T == {i \in 1..Len(q) : q[i] = c}
              f == [i \in S |-> i + 1]
  <1>1. /\ t \in Seq(C)
        /\ Len(t) = Len(q) - 1
        /\ Len(q) \in Nat \ {0}
        /\ \A i \in 1..Len(t) : t[i] = q[i + 1]
        /\ Head(q) = q[1]
    BY HeadTailProperties, EmptySeq
  <1>2. /\ Occurrences(c, q) = Cardinality(T)
        /\ Occurrences(c, Tail(q)) = Cardinality(S)
    BY Zenon DEF Occurrences
  <1>3. IsFiniteSet(S) /\ Cardinality(S) \in Nat
    BY <1>1, <1>2, OccurrencesNat, Zenon
  <1>4. f \in Bijection(S, U)
    <2>1. f \in [S -> U]
      BY <1>1
    <2>2. \A a, b \in S : f[a] = f[b] => a = b
      BY <1>1
    <2>3. \A u \in U : \E s \in S : f[s] = u
      <3>. SUFFICES ASSUME NEW u \in U PROVE \E s \in S : f[s] = u
        OBVIOUS
      <3>1. u - 1 \in S /\ f[u - 1] = u
        BY <1>1
      <3>. QED  BY <3>1
    <2>. HIDE DEF f, S, U
    <2>. QED  BY <2>1, <2>2, <2>3, Fun_IsBij
  <1>5. IsFiniteSet(U) /\ Cardinality(U) = Cardinality(S)
    <2>. HIDE DEF f, S, U
    <2>1. ExistsBijection(S, U)
      BY <1>4 DEF ExistsBijection
    <2>. QED  BY <1>3, <2>1, FS_Bijection
  <1>6. CASE c = Head(q)
    <2>1. T = U \cup {1}
      BY <1>1, <1>6
    <2>2. 1 \notin U
      OBVIOUS
    <2>. HIDE DEF S, T, U
    <2>3. Cardinality(T) = Cardinality(S) + 1
      BY <1>3, <1>5, <2>1, <2>2, FS_AddElement
    <2>. QED  BY <1>2, <1>6, <2>3
  <1>7. CASE c # Head(q)
    <2>1. T = U
      BY <1>1, <1>7
    <2>. HIDE DEF S, T, U
    <2>. QED  BY <1>2, <1>3, <1>5, <1>7, <2>1
  <1>. QED  BY <1>6, <1>7
------------------------------------------------------------------------------
(* The inductive invariant. *)

\* Closing begins only after the write thread has ended, so nothing the main
\* thread does to the callers happens under the eyes of the write thread.
ClosingAfterWriter == main # "run" => is_finished_write_processing

IndInv == TypeOK /\ ClosingAfterWriter /\ ContextsMatchCallers

LEMMA InitInv == Init => IndInv
  <1>. SUFFICES ASSUME Init PROVE IndInv
    OBVIOUS
  <1>1. TypeOK
    <2>1. timer \in BOOLEAN
      BY Zenon DEF Init
    <2>2. /\ priority_write_queue = <<>>
          /\ write_queue = <<>>
          /\ call = [c \in Client |-> "out"]
          /\ writer = [at |-> "wait", cxt |-> NoClient]
          /\ is_syncing = TRUE
          /\ interrupt = FALSE
          /\ stopped = FALSE
          /\ main = "run"
          /\ late = 0
      BY Zenon DEF Init
    <2>3. call \in [Client -> {"out", "entered", "waiting", "answered"}]
      BY <2>2
    <2>4. /\ priority_write_queue \in Seq(PriorityClient)
          /\ write_queue \in Seq(TxClient \cup ApiClient)
      BY <2>2, EmptySeq
    <2>. QED  BY <2>1, <2>2, <2>3, <2>4 DEF TypeOK
  <1>2. ClosingAfterWriter
    BY DEF Init, ClosingAfterWriter
  <1>3. \A c : Occurrences(c, <<>>) = 0
    <2>. SUFFICES ASSUME NEW c PROVE Occurrences(c, <<>>) = 0
      OBVIOUS
    <2>1. {i \in 1..Len(<<>>) : <<>>[i] = c} = {}
      OBVIOUS
    <2>. QED  BY <2>1, FS_EmptySet, Zenon DEF Occurrences
  <1>4. ContextsMatchCallers
    BY <1>3 DEF Init, ContextsMatchCallers, Pending
  <1>. QED  BY <1>1, <1>2, <1>4 DEF IndInv

\* A queue without its first element is a queue, and has a first element
\* unless it is empty.
LEMMA PopTypes ==
  ASSUME TypeOK, ~ Empty, pop
  PROVE  /\ priority_write_queue' \in Seq(PriorityClient)
         /\ write_queue' \in Seq(TxClient \cup ApiClient)
         /\ writer'.at = "visit"
         /\ writer'.cxt \in Client
         /\ writer' \in [at : {"visit"}, cxt : Client]
  <1>1. CASE priority_write_queue # <<>>
    <2>1. /\ Head(priority_write_queue) \in PriorityClient
          /\ Tail(priority_write_queue) \in Seq(PriorityClient)
      BY <1>1, HeadTailProperties DEF TypeOK
    <2>2. PriorityClient \subseteq Client
      BY DEF PriorityClient, P2pClient, Client
    <2>. QED  BY <1>1, <2>1, <2>2, SMTT(60) DEF TypeOK, pop
  <1>2. CASE priority_write_queue = <<>>
    <2>1. write_queue # <<>>
      BY <1>2 DEF Empty
    <2>2. /\ Head(write_queue) \in TxClient \cup ApiClient
          /\ Tail(write_queue) \in Seq(TxClient \cup ApiClient)
      BY <2>1, HeadTailProperties DEF TypeOK
    <2>3. TxClient \cup ApiClient \subseteq Client
      BY DEF P2pClient, Client
    <2>. QED  BY <1>2, <2>2, <2>3, SMTT(60) DEF TypeOK, pop
  <1>. QED  BY <1>1, <1>2

LEMMA TypeStep ==
  ASSUME TypeOK, [Next]_vars
  PROVE  TypeOK'
  <1>1. ASSUME NEW c \in P2pClient, p2p_handle(c) PROVE TypeOK'
    BY <1>1 DEF TypeOK, p2p_handle, queues
  <1>2. ASSUME NEW c \in ApiClient, api_call(c) PROVE TypeOK'
    <2>1. late' \in Nat
      <3>1. late' = late + 1 \/ late' = late
        BY <1>2, Zenon DEF api_call
      <3>. QED  BY <3>1 DEF TypeOK
    <2>2. UNCHANGED <<queues, writer, is_syncing, interrupt, stopped, main, timer>>
      BY <1>2 DEF api_call
    <2>3. call' = [call EXCEPT ![c] = "entered"]
      BY <1>2 DEF api_call
    <2>. QED  BY <2>1, <2>2, <2>3 DEF TypeOK, queues
  <1>3. ASSUME NEW c \in Producer, block_production_loop(c) PROVE TypeOK'
    BY <1>3 DEF TypeOK, block_production_loop, queues
  <1>4. ASSUME NEW c \in Client, Caller(c) PROVE TypeOK'
    <2>1. CASE accept_block(c)
      BY <2>1 DEF TypeOK, accept_block
    <2>2. CASE accept_transaction(c)
      BY <2>2 DEF TypeOK, accept_transaction
    <2>3. CASE return(c)
      BY <2>3 DEF TypeOK, return, queues
    <2>. QED  BY <1>4, <2>1, <2>2, <2>3 DEF Caller
  <1>5. ASSUME Writer PROVE TypeOK'
    <2>1. CASE wake
      <3>1. CASE pop /\ ~ Empty
        BY <2>1, <3>1, PopTypes DEF TypeOK, wake
      <3>2. CASE writer' = [at |-> "gone", cxt |-> NoClient] /\ UNCHANGED queues
        BY <2>1, <3>2 DEF TypeOK, wake, queues
      <3>. QED  BY <2>1, <3>1, <3>2 DEF wake
    <2>2. CASE visit
      BY <2>2 DEF TypeOK, visit, queues
    <2>3. CASE trigger_promise
      BY <2>3 DEF TypeOK, trigger_promise, queues
    <2>4. CASE work_done
      BY <2>4 DEF TypeOK, work_done, queues
    <2>5. CASE give_up_lock
      BY <2>5 DEF TypeOK, give_up_lock, queues
    <2>6. CASE drain
      <3>1. CASE ~ running \/ Empty
        <4>1. /\ writer' = [at |-> "wait", cxt |-> NoClient]
              /\ is_syncing' \in {is_syncing, FALSE}
              /\ UNCHANGED <<queues, call, interrupt, stopped, main, timer, late>>
          BY <2>6, <3>1, Zenon DEF drain
        <4>2. is_syncing' \in BOOLEAN
          BY <4>1, Zenon DEF TypeOK
        <4>. QED  BY <4>1, <4>2 DEF TypeOK, queues
      <3>2. CASE ~ (~ running \/ Empty)
        <4>1. pop /\ ~ Empty
          BY <2>6, <3>2 DEF drain
        <4>. QED  BY <2>6, <3>2, <4>1, PopTypes DEF TypeOK, drain
      <3>. QED  BY <3>1, <3>2
    <2>. QED  BY <1>5, <2>1, <2>2, <2>3, <2>4, <2>5, <2>6 DEF Writer
  <1>6. CASE migrate_failure
    BY <1>6 DEF TypeOK, migrate_failure, queues
  <1>7. CASE handle_signal
    BY <1>7 DEF TypeOK, handle_signal, queues
  <1>8. CASE Main
    BY <1>8 DEF TypeOK, Main, finish_request, stop_webserver, p2p_shutdown,
                p2p_quit, plugin_shutdown, wait4stop, queues
  <1>9. CASE UNCHANGED vars
    BY <1>9 DEF TypeOK, vars
  <1>. QED  BY <1>1, <1>2, <1>3, <1>4, <1>5, <1>6, <1>7, <1>8, <1>9 DEF Next
\* Closing starts when the write thread has ended, and it never starts again.
LEMMA ClosingStep ==
  ASSUME TypeOK, ClosingAfterWriter, [Next]_vars
  PROVE  ClosingAfterWriter'
  <1>1. main' = main \/ is_finished_write_processing
    BY DEF Next, vars, p2p_handle, api_call, block_production_loop, Caller,
           accept_block, accept_transaction, return, Writer, wake, visit,
           trigger_promise, work_done, give_up_lock, drain, migrate_failure,
           handle_signal, Main, finish_request, stop_webserver, p2p_shutdown,
           p2p_quit, plugin_shutdown, wait4stop, ClosingAfterWriter
  <1>2. is_finished_write_processing => writer' = writer
    BY DEF Next, vars, p2p_handle, api_call, block_production_loop, Caller,
           accept_block, accept_transaction, return, Writer, wake, visit,
           trigger_promise, work_done, give_up_lock, drain, migrate_failure,
           handle_signal, Main, finish_request, stop_webserver, p2p_shutdown,
           p2p_quit, plugin_shutdown, wait4stop, is_finished_write_processing
  <1>. QED  BY <1>1, <1>2 DEF ClosingAfterWriter, is_finished_write_processing

\* The counts of the two queues.
LEMMA CountTypes ==
  ASSUME TypeOK, NEW c
  PROVE  /\ Occurrences(c, priority_write_queue) \in Nat
         /\ Occurrences(c, write_queue) \in Nat
  BY OccurrencesNat DEF TypeOK

\* Taking a context out of a queue moves it into the hands of the write
\* thread.
LEMMA PopKeepsPending ==
  ASSUME TypeOK, ~ Empty, pop, writer.at \in {"wait", "more"}, NEW c
  PROVE  Pending(c)' = Pending(c)
  <1>1. writer'.at = "visit"
    BY DEF pop
  <1>2. /\ Occurrences(c, priority_write_queue) \in Nat
        /\ Occurrences(c, write_queue) \in Nat
    BY CountTypes
  <1>3. CASE priority_write_queue # <<>>
    <2>1. Occurrences(c, priority_write_queue)
            = Occurrences(c, Tail(priority_write_queue))
                + IF c = Head(priority_write_queue) THEN 1 ELSE 0
      BY <1>3, OccurrencesPop DEF TypeOK
    <2>2. Occurrences(c, Tail(priority_write_queue)) \in Nat
      BY <1>3, OccurrencesNat, HeadTailProperties DEF TypeOK
    <2>3. /\ priority_write_queue' = Tail(priority_write_queue)
          /\ write_queue' = write_queue
          /\ writer'.cxt = Head(priority_write_queue)
      BY <1>3 DEF pop
    <2>. QED  BY <1>1, <1>2, <2>1, <2>2, <2>3 DEF Pending
  <1>4. CASE priority_write_queue = <<>>
    <2>. write_queue # <<>>
      BY <1>4 DEF Empty
    <2>1. Occurrences(c, write_queue)
            = Occurrences(c, Tail(write_queue))
                + IF c = Head(write_queue) THEN 1 ELSE 0
      BY OccurrencesPop DEF TypeOK
    <2>2. Occurrences(c, Tail(write_queue)) \in Nat
      BY OccurrencesNat, HeadTailProperties DEF TypeOK
    <2>3. /\ write_queue' = Tail(write_queue)
          /\ priority_write_queue' = priority_write_queue
          /\ writer'.cxt = Head(write_queue)
      BY <1>4 DEF pop
    <2>. QED  BY <1>1, <1>2, <2>1, <2>2, <2>3 DEF Pending
  <1>. QED  BY <1>3, <1>4

\* A caller that enters a queue is pending, and nobody else is affected.
LEMMA AcceptKeepsMatch ==
  ASSUME TypeOK, ContextsMatchCallers, NEW d \in Client,
         accept_block(d) \/ accept_transaction(d)
  PROVE  ContextsMatchCallers'
  <1>. SUFFICES ASSUME writer'.at # "gone", NEW c \in Client
                PROVE  Pending(c)' = IF call'[c] = "waiting" THEN 1 ELSE 0
    BY DEF ContextsMatchCallers
  <1>1. /\ writer' = writer
        /\ call[d] = "entered"
        /\ call' = [call EXCEPT ![d] = "waiting"]
    BY DEF accept_block, accept_transaction
  <1>2. /\ Occurrences(c, priority_write_queue) \in Nat
        /\ Occurrences(c, write_queue) \in Nat
    BY CountTypes
  <1>3. Pending(c) = IF call[c] = "waiting" THEN 1 ELSE 0
    BY <1>1 DEF ContextsMatchCallers
  <1>4. Pending(c)' = Pending(c) + IF c = d THEN 1 ELSE 0
    <2>1. CASE accept_block(d)
      <3>1. /\ priority_write_queue' = Append(priority_write_queue, d)
            /\ write_queue' = write_queue
            /\ d \in PriorityClient
        BY <2>1 DEF accept_block
      <3>2. Occurrences(c, Append(priority_write_queue, d))
              = Occurrences(c, priority_write_queue) + IF c = d THEN 1 ELSE 0
        BY <3>1, OccurrencesPush DEF TypeOK
      <3>. QED  BY <1>1, <1>2, <3>1, <3>2 DEF Pending
    <2>2. CASE accept_transaction(d)
      <3>1. /\ write_queue' = Append(write_queue, d)
            /\ priority_write_queue' = priority_write_queue
            /\ d \in TxClient \cup ApiClient
        BY <2>2 DEF accept_transaction
      <3>2. Occurrences(c, Append(write_queue, d))
              = Occurrences(c, write_queue) + IF c = d THEN 1 ELSE 0
        BY <3>1, OccurrencesPush DEF TypeOK
      <3>. QED  BY <1>1, <1>2, <3>1, <3>2 DEF Pending
    <2>. QED  BY <2>1, <2>2
  <1>. QED  BY <1>1, <1>3, <1>4 DEF TypeOK
\* Every step keeps contexts and callers matched.
LEMMA MatchStep ==
  ASSUME IndInv, [Next]_vars
  PROVE  ContextsMatchCallers'
  <1>. USE DEF IndInv
  <1>1. ASSUME NEW c \in Client, accept_block(c) \/ accept_transaction(c)
        PROVE  ContextsMatchCallers'
    BY <1>1, AcceptKeepsMatch
  <1>2. CASE UNCHANGED <<queues, writer>>
             /\ \A c \in Client : call'[c] = "waiting" <=> call[c] = "waiting"
    BY <1>2 DEF ContextsMatchCallers, Pending, queues
  <1>3. ASSUME NEW c \in Client,
               call[c] # "waiting",
               \E s \in {"out", "entered"} : call' = [call EXCEPT ![c] = s],
               UNCHANGED <<queues, writer>>
        PROVE  ContextsMatchCallers'
    <2>1. \A d \in Client : call'[d] = "waiting" <=> call[d] = "waiting"
      BY <1>3 DEF TypeOK
    <2>. QED  BY <1>2, <1>3, <2>1
  <1>4. ASSUME NEW c \in P2pClient, p2p_handle(c) PROVE ContextsMatchCallers'
    BY <1>3, <1>4 DEF p2p_handle, Client
  <1>5. ASSUME NEW c \in ApiClient, api_call(c) PROVE ContextsMatchCallers'
    BY <1>3, <1>5 DEF api_call, Client
  <1>6. ASSUME NEW c \in Producer, block_production_loop(c)
        PROVE  ContextsMatchCallers'
    BY <1>2, <1>3, <1>6 DEF block_production_loop, Client
  <1>7. ASSUME NEW c \in Client, return(c) PROVE ContextsMatchCallers'
    BY <1>3, <1>7 DEF return
  <1>8. ASSUME Writer PROVE ContextsMatchCallers'
    <2>1. CASE pop /\ ~ Empty /\ writer.at \in {"wait", "more"} /\ call' = call
      BY <2>1, PopKeepsPending DEF ContextsMatchCallers
    <2>2. CASE UNCHANGED <<queues, call>>
               /\ writer.at \notin {"visit", "work", "gone"}
               /\ writer'.at \notin {"visit", "work"}
      BY <2>2, CountTypes DEF ContextsMatchCallers, Pending, queues
    <2>3. CASE /\ UNCHANGED queues
               /\ writer.at \in {"visit", "work"}
               /\ writer'.at \notin {"visit", "work"}
               /\ call' = [call EXCEPT ![writer.cxt] = "answered"]
      <3>. SUFFICES ASSUME NEW c \in Client
                    PROVE  Pending(c)' = IF call'[c] = "waiting" THEN 1 ELSE 0
        BY DEF ContextsMatchCallers
      <3>1. Pending(c) = IF call[c] = "waiting" THEN 1 ELSE 0
        BY <2>3 DEF ContextsMatchCallers
      <3>2. Pending(c) = Pending(c)' + IF c = writer.cxt THEN 1 ELSE 0
        BY <2>3, CountTypes DEF Pending, queues
      <3>3. Pending(c)' \in Nat
        BY <2>3, CountTypes DEF Pending, queues
      <3>4. writer.cxt \in Client
        BY <2>3 DEF TypeOK
      <3>5. CASE c = writer.cxt
        <4>1. call'[c] = "answered"
          BY <2>3, <3>4, <3>5 DEF TypeOK
        <4>. QED  BY <3>1, <3>2, <3>3, <3>5, <4>1
      <3>6. CASE c # writer.cxt
        <4>1. call'[c] = call[c]
          BY <2>3, <3>4, <3>6 DEF TypeOK
        <4>. QED  BY <3>1, <3>2, <3>3, <3>6, <4>1
      <3>. QED  BY <3>5, <3>6
    <2>4. CASE wake
      BY <2>1, <2>2, <2>4 DEF wake, Empty
    <2>5. CASE visit
      <3>1. CASE is_interrupt_request
        BY <2>3, <2>5, <3>1 DEF visit, TypeOK
      <3>2. CASE ~ is_interrupt_request
        <4>1. UNCHANGED <<queues, call>> /\ writer' = [writer EXCEPT !.at = "work"]
          BY <2>5, <3>2 DEF visit
        <4>2. \A c \in Client : Pending(c)' = Pending(c)
          BY <2>5, <4>1 DEF Pending, queues, visit, TypeOK
        <4>. QED  BY <2>5, <4>1, <4>2 DEF ContextsMatchCallers, visit
      <3>. QED  BY <3>1, <3>2
    <2>6. CASE trigger_promise
      BY <2>3, <2>6 DEF trigger_promise, TypeOK
    <2>7. CASE work_done
      BY <2>2, <2>3, <2>7 DEF work_done, TypeOK
    <2>8. CASE give_up_lock
      BY <2>2, <2>8 DEF give_up_lock
    <2>9. CASE drain
      <3>1. CASE ~ running \/ Empty
        <4>1. writer' = [at |-> "wait", cxt |-> NoClient] /\ UNCHANGED queues
          BY <2>9, <3>1, Zenon DEF drain
        <4>. QED  BY <2>2, <2>9, <4>1 DEF drain
      <3>2. CASE ~ (~ running \/ Empty)
        <4>1. pop /\ ~ Empty
          BY <2>9, <3>2 DEF drain
        <4>. QED  BY <2>1, <2>9, <4>1 DEF drain
      <3>. QED  BY <3>1, <3>2
    <2>. QED  BY <1>8, <2>4, <2>5, <2>6, <2>7, <2>8, <2>9 DEF Writer
  <1>9. CASE migrate_failure
    BY <1>2, <1>9 DEF migrate_failure
  <1>10. CASE handle_signal
    BY <1>2, <1>10 DEF handle_signal
  <1>11. CASE Main
    <2>1. writer' = writer /\ is_finished_write_processing
      BY <1>11 DEF Main, finish_request, stop_webserver, p2p_shutdown, p2p_quit,
                   plugin_shutdown, wait4stop, ClosingAfterWriter
    <2>. QED  BY <2>1 DEF ContextsMatchCallers, is_finished_write_processing
  <1>12. CASE UNCHANGED vars
    BY <1>2, <1>12 DEF vars, queues
  <1>. QED  BY <1>1, <1>4, <1>5, <1>6, <1>7, <1>8, <1>9, <1>10, <1>11, <1>12
            DEF Next, Caller

------------------------------------------------------------------------------
(* The theorems. *)

\* The inductive invariant holds in every reachable state of the callers, the
\* write thread and the main thread.
THEOREM IndInvHolds == Spec => []IndInv
  <1>1. IndInv /\ [Next]_vars => IndInv'
    BY TypeStep, ClosingStep, MatchStep DEF IndInv
  <1>. QED  BY InitInv, <1>1, PTL DEF Spec

\* Queues, callers and threads are well typed; in particular the write thread
\* always has the context of a client when it works.
THEOREM TypeCorrect == Spec => []TypeOK
  BY IndInvHolds, PTL DEF IndInv

\* However many callers there are and whenever the application is closed: as
\* long as the write thread lives it meets the context of each waiting caller
\* exactly once and of no other.
THEOREM NoDanglingContext == Spec => []ContextsMatchCallers
  BY IndInvHolds, PTL DEF IndInv
==============================================================================
