---------------------------- MODULE ClientQueue ----------------------------
(***************************************************************************)
(* Informing other instances: the batch of client.c, which the action      *)
(* thread fills and flushes, one queue with a worker thread per peer       *)
(* (clientqueue.c), and main starting and stopping them.                   *)
(*                                                                         *)
(* A record is the number of its call of client_queue_record.  The peers   *)
(* are external: a connection attempt, an SSL handshake and a write may    *)
(* fail at any time.  client_queue_append and the worker's taking of the   *)
(* queue hold the queue's mutex from end to end and are one step each.     *)
(***************************************************************************)
EXTENDS Integers, Sequences, FiniteSets

CONSTANTS
    NumQueues,     \* number of inform_agents, a queue and a worker each
    BatchLen,      \* HOSTRECORDVECTORLEN
    InformRetry,   \* inform_retry
    MaxRecords,    \* bound: calls of client_queue_record
    Stops          \* main may leave follow() and call client_stop

ASSUME ClientConfig == /\ NumQueues \in Nat
                       /\ BatchLen \in Nat \ {0}
                       /\ InformRetry \in Nat
                       /\ MaxRecords \in Nat
                       /\ Stops \in BOOLEAN

Queues == 1..NumQueues
Records == 1..MaxRecords

VARIABLES
    client_started,  \* client.c
    temp,            \* temp_hr_vector up to temp_hr_vector_fill
    calls,           \* number of calls of client_queue_record so far
    refused,         \* records that came while client_started was 0
    flush,           \* 0, or the loop variable of a running client_queue_flush
    pending,         \* the record that forced this flush, 0 if none
    head,            \* per queue: queue->head
    worker,          \* per queue: where its worker is
    taken,           \* per queue: the entries the worker has taken off it
    retries,         \* per queue: failed attempts to connect, 0 when not connecting
    sockfd,          \* per queue: whether the descriptor in sockfd is open
    lost,            \* per queue: open descriptors that sockfd has forgotten
    received,        \* per queue: what its peer has received, in order
    dropped,         \* per queue: entries freed without being received
    leaked,          \* per queue: entries nobody points to any more
    destroyed,       \* number of queues client_stop has freed
    main,            \* where main is
    misuse           \* freed memory has been used, or freed again

vars == <<client_started, temp, calls, refused, flush, pending, head, worker, taken,
          retries, sockfd, lost, received, dropped, leaked, destroyed, main, misuse>>

client == <<client_started, temp, calls, refused, flush, pending>>
peers == <<received, dropped, leaked>>
sockets == <<sockfd, lost>>
stopping == <<destroyed, main, misuse>>

TypeOK ==
    /\ client_started \in BOOLEAN
    /\ temp \in Seq(Records) /\ Len(temp) <= BatchLen
    /\ calls \in 0..MaxRecords
    /\ refused \subseteq Records
    /\ flush \in 0..(NumQueues + 1)
    /\ pending \in Records \cup {0}
    /\ head \in [Queues -> Seq(Records)]
    /\ worker \in [Queues -> {"none", "lock", "wait", "connect", "ssl", "send",
                              "dead"}]
    /\ taken \in [Queues -> Seq(Records)]
    /\ retries \in [Queues -> 0..InformRetry]
    /\ sockfd \in [Queues -> BOOLEAN]
    /\ lost \in [Queues -> Nat]
    /\ received \in [Queues -> Seq(Records)]
    /\ dropped \in [Queues -> SUBSET Records]
    /\ leaked \in [Queues -> SUBSET Records]
    /\ destroyed \in 0..NumQueues
    /\ main \in {"start", "follow", "stop", "stopped"}
    /\ misuse \in BOOLEAN

Init ==
    /\ client_started = FALSE
    /\ temp = <<>>
    /\ calls = 0
    /\ refused = {}
    /\ flush = 0
    /\ pending = 0
    /\ head = [q \in Queues |-> <<>>]
    /\ worker = [q \in Queues |-> "none"]
    /\ taken = [q \in Queues |-> <<>>]
    /\ retries = [q \in Queues |-> 0]
    /\ sockfd = [q \in Queues |-> FALSE]
    /\ lost = [q \in Queues |-> 0]
    /\ received = [q \in Queues |-> <<>>]
    /\ dropped = [q \in Queues |-> {}]
    /\ leaked = [q \in Queues |-> {}]
    /\ destroyed = 0
    /\ main = "start"
    /\ misuse = FALSE

Elems(s) == {s[i] : i \in DOMAIN s}
-----------------------------------------------------------------------------
(* The action thread; threads_start has started it before client_start *)

\* Mutant: the bound of the batch is off by one.
MutRecord ==
    /\ flush = 0
    /\ client_started
    /\ calls < MaxRecords
    /\ calls' = calls + 1
    /\ IF Len(temp) <= BatchLen
       THEN temp' = Append(temp, calls + 1) /\ UNCHANGED <<flush, pending>>
       ELSE flush' = 1 /\ pending' = calls + 1 /\ UNCHANGED temp
    /\ UNCHANGED <<client_started, refused, head, worker, taken, retries, sockets, peers,
                   stopping>>

\* client_queue_record, called by _do_action: before client_start and after
\* client_stop the record is refused; into a full batch it goes after a flush.
client_queue_record ==
    /\ flush = 0
    /\ calls < MaxRecords
    /\ calls' = calls + 1
    /\ \/ /\ ~client_started
          /\ refused' = refused \cup {calls + 1}
          /\ UNCHANGED <<temp, flush, pending>>
       \/ /\ client_started
          /\ Len(temp) < BatchLen
          /\ temp' = Append(temp, calls + 1)
          /\ UNCHANGED <<refused, flush, pending>>
       \/ /\ client_started
          /\ Len(temp) >= BatchLen
          /\ flush' = 1
          /\ pending' = calls + 1
          /\ UNCHANGED <<temp, refused>>
    /\ UNCHANGED <<client_started, head, worker, taken, retries, sockets, peers, stopping>>

\* client_queue_flush, called at the end of each round of action_thread.
client_queue_flush ==
    /\ flush = 0
    /\ client_started
    /\ temp # <<>>
    /\ flush' = 1
    /\ UNCHANGED <<client_started, temp, calls, refused, pending, head, worker, taken,
                   retries, sockets, peers, stopping>>

\* Mutant: the entries are appended and the worker is not signalled.
MutAppend(q) ==
    /\ flush = q
    /\ flush' = q + 1
    /\ head' = [head EXCEPT ![q] = @ \o temp]
    /\ UNCHANGED <<client_started, temp, calls, refused, pending, worker, taken,
                   retries, sockets, peers, stopping>>

\* Mutant: a batch that finds entries in the queue is put in front of them.
MutPrepend(q) ==
    /\ flush = q
    /\ flush' = q + 1
    /\ head' = [head EXCEPT ![q] = temp \o @]
    /\ worker' = IF worker[q] = "wait" THEN [worker EXCEPT ![q] = "lock"] ELSE worker
    /\ UNCHANGED <<client_started, temp, calls, refused, pending, taken, retries, sockets,
                   peers, stopping>>

\* client_queue_append: the batch goes to the end of the queue and a waiting
\* worker is signalled.  client_stop frees a queue, and its dead worker frees
\* the entries, without taking them out of queues[] and queue->head.
client_queue_append(q) ==
    /\ flush = q
    /\ flush' = q + 1
    /\ IF q <= destroyed \/ (worker[q] = "dead" /\ head[q] # <<>>)
       THEN /\ misuse' = TRUE
            /\ UNCHANGED <<head, worker>>
       ELSE /\ head' = [head EXCEPT ![q] = @ \o temp]
            /\ worker' = IF worker[q] = "wait"
                         THEN [worker EXCEPT ![q] = "lock"] ELSE worker
            /\ UNCHANGED misuse
    /\ UNCHANGED <<client_started, temp, calls, refused, pending, taken, retries, sockets,
                   peers, destroyed, main>>

\* The end of client_queue_flush: the batch is freed, and the record that
\* forced it is put into the next one.  client_stop may have freed the batch.
FlushEnd ==
    /\ flush = NumQueues + 1
    /\ flush' = 0
    /\ misuse' = (misuse \/ main = "stopped")
    /\ temp' = IF pending # 0 /\ client_started THEN <<pending>> ELSE <<>>
    /\ refused' = IF pending # 0 /\ ~client_started THEN refused \cup {pending}
                  ELSE refused
    /\ pending' = 0
    /\ UNCHANGED <<client_started, calls, head, worker, taken, retries, sockets, peers,
                   destroyed, main>>
-----------------------------------------------------------------------------
(* _client_queue_worker *)

At(q, pc) == worker[q] = pc
Goto(q, pc) == worker' = [worker EXCEPT ![q] = pc]

\* The queue is empty: pthread_cond_wait, which may also return for no reason.
WorkerWait(q) ==
    /\ At(q, "lock")
    /\ head[q] = <<>>
    /\ Goto(q, "wait")
    /\ UNCHANGED <<client, head, taken, retries, sockets, peers, stopping>>

WorkerWakesUp(q) ==
    /\ At(q, "wait")
    /\ Goto(q, "lock")
    /\ UNCHANGED <<client, head, taken, retries, sockets, peers, stopping>>

\* Mutant: the queue is not marked empty.
MutTake(q) ==
    /\ At(q, "lock")
    /\ head[q] # <<>>
    /\ taken' = [taken EXCEPT ![q] = head[q]]
    /\ Goto(q, "connect")
    /\ UNCHANGED <<client, head, retries, sockets, peers, stopping>>

\* The worker takes the entire queue.
WorkerTake(q) ==
    /\ At(q, "lock")
    /\ head[q] # <<>>
    /\ taken' = [taken EXCEPT ![q] = head[q]]
    /\ head' = [head EXCEPT ![q] = <<>>]
    /\ Goto(q, "connect")
    /\ UNCHANGED <<client, retries, sockets, peers, stopping>>

\* socket and connect: an attempt that fails is repeated after a pause.  What
\* a failed connect leaves in sockfd is overwritten by the next attempt.
WorkerConnect(q) ==
    /\ At(q, "connect")
    /\ retries[q] < InformRetry
    /\ lost' = [lost EXCEPT ![q] = IF sockfd[q] THEN @ + 1 ELSE @]
    /\ \/ /\ sockfd' = [sockfd EXCEPT ![q] = TRUE]
          /\ retries' = [retries EXCEPT ![q] = 0]
          /\ Goto(q, "ssl")
       \/ /\ \E socket \in BOOLEAN : sockfd' = [sockfd EXCEPT ![q] = socket]
          /\ retries' = [retries EXCEPT ![q] = @ + 1]
          /\ UNCHANGED worker
    /\ UNCHANGED <<client, head, taken, peers, stopping>>

Close(q) == sockfd' = [sockfd EXCEPT ![q] = FALSE] /\ UNCHANGED lost

\* Mutant: the socket of the last attempt is not closed.
MutGiveUp(q) ==
    /\ At(q, "connect")
    /\ retries[q] >= InformRetry
    /\ dropped' = [dropped EXCEPT ![q] = @ \cup Elems(taken[q])]
    /\ taken' = [taken EXCEPT ![q] = <<>>]
    /\ retries' = [retries EXCEPT ![q] = 0]
    /\ Goto(q, "lock")
    /\ UNCHANGED <<client, head, sockets, received, leaked, stopping>>

\* Out of attempts: what was taken is discarded, the last socket closed.
WorkerGiveUp(q) ==
    /\ At(q, "connect")
    /\ retries[q] >= InformRetry
    /\ dropped' = [dropped EXCEPT ![q] = @ \cup Elems(taken[q])]
    /\ taken' = [taken EXCEPT ![q] = <<>>]
    /\ Close(q)
    /\ retries' = [retries EXCEPT ![q] = 0]
    /\ Goto(q, "lock")
    /\ UNCHANGED <<client, head, received, leaked, stopping>>

\* netssl_client: after a failure the worker goes to SHUTDOWNCONN and on to the
\* next round, where the pointer to what it had taken is overwritten.
WorkerSSL(q) ==
    /\ At(q, "ssl")
    /\ \/ /\ Goto(q, "send")
          /\ UNCHANGED <<taken, leaked, sockets>>
       \/ /\ Close(q)
          /\ leaked' = [leaked EXCEPT ![q] = @ \cup Elems(taken[q])]
          /\ taken' = [taken EXCEPT ![q] = <<>>]
          /\ Goto(q, "lock")
    /\ UNCHANGED <<client, head, retries, received, dropped, stopping>>

\* SSL_write of one entry, which is freed whether it was sent or not.
WorkerSend(q) ==
    /\ At(q, "send")
    /\ taken[q] # <<>>
    /\ taken' = [taken EXCEPT ![q] = Tail(@)]
    /\ \/ /\ received' = [received EXCEPT ![q] = Append(@, Head(taken[q]))]
          /\ UNCHANGED dropped
       \/ /\ dropped' = [dropped EXCEPT ![q] = @ \cup {Head(taken[q])}]
          /\ UNCHANGED received
    /\ UNCHANGED <<client, head, worker, retries, sockets, leaked, stopping>>

\* SSL_shutdown and close.
WorkerClose(q) ==
    /\ At(q, "send")
    /\ taken[q] = <<>>
    /\ Close(q)
    /\ Goto(q, "lock")
    /\ UNCHANGED <<client, head, taken, retries, peers, stopping>>
-----------------------------------------------------------------------------
(* main *)

client_start ==
    /\ main = "start"
    /\ temp' = <<>>
    /\ worker' = [q \in Queues |-> "lock"]
    /\ client_started' = TRUE
    /\ main' = "follow"
    /\ UNCHANGED <<calls, refused, flush, pending, head, taken, retries, sockets, peers,
                   destroyed, misuse>>

\* The end of follow(); main calls threads_stop only after client_stop.
BeginStop ==
    /\ Stops
    /\ main = "follow"
    /\ main' = "stop"
    /\ UNCHANGED <<client, head, worker, taken, retries, sockets, peers, destroyed, misuse>>

\* Mutant: a worker that waits for entries is not cancelled.
MutCancelled(q) ==
    /\ main = "stop"
    /\ q = destroyed + 1
    /\ worker[q] = "send"
    /\ Goto(q, "dead")
    /\ dropped' = [dropped EXCEPT ![q] = @ \cup Elems(head[q])]
    /\ leaked' = [leaked EXCEPT ![q] = @ \cup Elems(taken[q])]
    /\ taken' = [taken EXCEPT ![q] = <<>>]
    /\ retries' = [retries EXCEPT ![q] = 0]
    /\ UNCHANGED <<client, head, sockets, received, stopping>>

\* client_queue_destroy cancels a worker.  It ends at its next cancellation
\* point (every place but "lock"); _client_queue_worker_cleanup frees the
\* entries of the queue, which queue->head still points to.  That is one step:
\* an append that comes in between walks freed entries, as one after it does.
WorkerCancelled(q) ==
    /\ main = "stop"
    /\ q = destroyed + 1
    /\ worker[q] \in {"wait", "connect", "ssl", "send"}
    /\ Goto(q, "dead")
    /\ dropped' = [dropped EXCEPT ![q] = @ \cup Elems(head[q])]
    /\ leaked' = [leaked EXCEPT ![q] = @ \cup Elems(taken[q])]
    /\ taken' = [taken EXCEPT ![q] = <<>>]
    /\ retries' = [retries EXCEPT ![q] = 0]
    /\ UNCHANGED <<client, head, sockets, received, stopping>>

\* client_queue_destroy: the worker has been joined, the queue is freed.
client_queue_destroy(q) ==
    /\ main = "stop"
    /\ q = destroyed + 1
    /\ At(q, "dead")
    /\ destroyed' = q
    /\ UNCHANGED <<client, head, worker, taken, retries, sockets, peers, main, misuse>>

\* client_stop, its end: the batch is freed and client_started cleared.
client_stop ==
    /\ main = "stop"
    /\ destroyed = NumQueues
    /\ main' = "stopped"
    /\ client_started' = FALSE
    /\ UNCHANGED <<temp, calls, refused, flush, pending, head, worker, taken, retries, sockets,
                   peers, destroyed, misuse>>

Work(q) == \/ WorkerWait(q) \/ WorkerTake(q) \/ WorkerConnect(q)
           \/ WorkerGiveUp(q) \/ WorkerSSL(q) \/ WorkerSend(q) \/ WorkerClose(q)

Next ==
    \/ client_queue_record \/ client_queue_flush \/ FlushEnd
    \/ \E q \in Queues : \/ client_queue_append(q)
                         \/ Work(q) \/ WorkerWakesUp(q)
                         \/ WorkerCancelled(q) \/ client_queue_destroy(q)
    \/ client_start \/ BeginStop \/ client_stop

Spec == Init /\ [][Next]_vars

\* Every thread goes on when it can; a peer may refuse for ever, but a call to
\* it returns.  action_thread flushes at the end of each of its rounds.  A
\* cancellation stays pending, hence strong fairness: a worker that comes to
\* cancellation points again and again is ended at one of them.
FairSpec ==
    /\ Spec
    /\ WF_vars(client_queue_flush) /\ WF_vars(FlushEnd)
    /\ WF_vars(client_start) /\ WF_vars(client_stop)
    /\ \A q \in Queues : /\ WF_vars(client_queue_append(q)) /\ WF_vars(Work(q))
                         /\ SF_vars(WorkerCancelled(q))
                         /\ WF_vars(client_queue_destroy(q))
-----------------------------------------------------------------------------
(* Properties *)

\* The batch as far as queue q is concerned: client_queue_flush keeps it until
\* it has been appended to the last queue.
BatchFor(q) == IF flush > q THEN <<>> ELSE temp

Waiting == IF pending = 0 THEN {} ELSE {pending}

\* For every queue each record that _do_action has handed over is in exactly
\* one place: refused, waiting for a flush, in the batch, in the queue, with
\* the worker, received, dropped or leaked.  client_queue_append copies a batch
\* that client_queue_flush keeps, the worker takes the list away under the
\* mutex: a record is neither lost on the way nor queued twice.
NothingLostOrDoubled ==
    main \in {"start", "follow"} =>
        \A q \in Queues :
            LET lists == received[q] \o taken[q] \o head[q] \o BatchFor(q)
                sets  == <<refused, Waiting, dropped[q], leaked[q]>>
            IN  /\ \A i, j \in DOMAIN lists : lists[i] = lists[j] => i = j
                /\ \A i, j \in DOMAIN sets : i # j => sets[i] \cap sets[j] = {}
                /\ \A i \in DOMAIN sets : sets[i] \cap Elems(lists) = {}
                /\ Elems(lists) \cup UNION Elems(sets) = 1..calls

\* A peer receives records in the order in which the action thread reported
\* them, whatever was dropped in between, however often the worker had to
\* connect and whatever was queued in the meantime (client_queue_append walks
\* to the last entry, the worker takes the list from its head).
ReceivedInOrder ==
    \A q \in Queues : \A i, j \in DOMAIN received[q] :
        i < j => received[q][i] < received[q][j]

Settled(r, q) == \/ r \in Elems(received[q])
                 \/ r \in dropped[q] \cup leaked[q]

\* No wakeup is lost: what is in the batch is in the end sent or given up for
\* every peer, whenever client_queue_append runs between the worker's steps,
\* unless client_stop comes first.
EveryRecordSettled ==
    \A r \in Records :
        (r \in Elems(temp)) ~> ((\A q \in Queues : Settled(r, q)) \/ main # "follow")

\* A worker between two batches has no open socket in hand, and has lost at
\* most inform_retry - 1 of them per batch it took (clientqueue.c: an attempt
\* overwrites the socket of the failed one before it, only the last one is
\* closed).  A batch has a record at least, so an instance whose peer is down
\* runs out of descriptors no sooner than after that many records.
DescriptorLossBounded ==
    main \in {"start", "follow"} =>
        \A q \in Queues :
            /\ worker[q] \in {"none", "lock", "wait"} => ~sockfd[q]
            /\ (lost[q] > 0) =>
                 lost[q] <= (InformRetry - 1) *
                              (Len(received[q]) + Len(taken[q])
                               + Cardinality(dropped[q] \cup leaked[q]))

\* client_stop returns: each worker reaches a cancellation point wherever it
\* is, so that the joins end.
ClientStopReturns == (main = "stop") ~> (main = "stopped")

\* agentsmith terminates gracefully: client_stop frees no queue, entry or
\* batch that the action thread still uses.
NoUseAfterFree == ~misuse
=============================================================================
