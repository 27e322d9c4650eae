------------------------------- MODULE Server -------------------------------
(***************************************************************************)
(* The server side: the listener thread (server.c), which accepts          *)
(* connections and spawns a detached worker for each, the workers          *)
(* (worker.c), which share worker_semaphore, and the cancellation of the   *)
(* listener by threads_stop.                                               *)
(*                                                                         *)
(* The clients are external: a client may connect, send, close, or fall    *)
(* silent at any time.  What an ADD command does to the records is         *)
(* records_add_record of Enforcement and RecordVector.                     *)
(***************************************************************************)
EXTENDS Integers, FiniteSets

CONSTANTS
    Conns,              \* the connections that clients may open
    NumFds,             \* used_fds, the number of listening sockets
    FdOf,               \* the listening socket each connection comes in on
    MaxInConnections,   \* maxinconnections
    MaxWaitWorker,      \* MAXWAITWORKER
    MaxCommands,        \* bound: commands per connection
    ResourcesFail       \* accept, pthread_create and select may fail

ASSUME ServerConfig == /\ IsFiniteSet(Conns)
                       /\ NumFds \in Nat
                       /\ FdOf \in [Conns -> 1..NumFds]
                       /\ MaxInConnections \in Nat \ {0}
                       /\ MaxWaitWorker \in Nat \ {0}
                       /\ MaxCommands \in Nat
                       /\ ResourcesFail \in BOOLEAN

VARIABLES
    conn,            \* per connection: where it is
    commands,        \* per connection: commands read
    sem,             \* the value of worker_semaphore
    listener,        \* where the listener thread is
    rset,            \* listening sockets of rset that the loop has to look at
    fd,              \* the listening socket the loop is at
    n,               \* how many times the listener has found no room
    cancelled,       \* threads_stop has cancelled the listener
    sem_destroyed    \* sem_destroy has been called

vars == <<conn, commands, sem, listener, rset, fd, n, cancelled, sem_destroyed>>
loop == <<listener, rset, fd, n, cancelled, sem_destroyed>>

TypeOK ==
    /\ conn \in [Conns -> {"none", "backlog", "spawned", "select", "ssl", "read",
                           "shutdown", "closed", "unserved", "orphan", "reset"}]
    /\ commands \in [Conns -> 0..MaxCommands]
    /\ sem \in 0..MaxInConnections
    /\ listener \in {"select", "loop", "check", "accept", "cleanup", "done"}
    /\ rset \subseteq 1..NumFds
    /\ fd \in 0..NumFds
    /\ n \in 1..MaxWaitWorker
    /\ cancelled \in BOOLEAN
    /\ sem_destroyed \in BOOLEAN

\* network_start_server: sem_init and _network_start_listening.
Init ==
    /\ conn = [c \in Conns |-> "none"]
    /\ commands = [c \in Conns |-> 0]
    /\ sem = MaxInConnections
    /\ listener = "select"
    /\ rset = {}
    /\ fd = 0
    /\ n = 1
    /\ cancelled = FALSE
    /\ sem_destroyed = FALSE

Move(c, pc) == conn' = [conn EXCEPT ![c] = pc]

Backlog(f) == {c \in Conns : conn[c] = "backlog" /\ FdOf[c] = f}
-----------------------------------------------------------------------------
(* A client connects; the kernel queues the connection *)

ClientConnects(c) ==
    /\ conn[c] = "none"
    /\ listener \notin {"cleanup", "done"}
    /\ Move(c, "backlog")
    /\ UNCHANGED <<commands, sem, loop>>
-----------------------------------------------------------------------------
(* The listener, network_start_server *)

\* select() on the listening sockets.
ListenerSelect ==
    /\ listener = "select"
    /\ \E f \in 1..NumFds : Backlog(f) # {}
    /\ rset' = {f \in 1..NumFds : Backlog(f) # {}}
    /\ listener' = "loop"
    /\ UNCHANGED <<conn, commands, sem, fd, n, cancelled, sem_destroyed>>

\* _network_server_shutdown_and_cleanup begins: closing the sockets resets the
\* backlog.
StartsCleanup ==
    /\ listener' = "cleanup"
    /\ n' = 1
    /\ conn' = [c \in Conns |-> IF conn[c] = "backlog" THEN "reset" ELSE conn[c]]

\* select() fails, not with EINTR: pthread_exit, although nobody cancelled.
ListenerFails ==
    /\ listener = "select"
    /\ ResourcesFail
    /\ StartsCleanup
    /\ UNCHANGED <<commands, sem, rset, fd, cancelled, sem_destroyed>>

\* for (i = 0; i < used_fds; i++): on to the next socket that is ready.
ListenerLoop ==
    /\ listener = "loop"
    /\ \/ /\ rset = {}
          /\ listener' = "select"
          /\ UNCHANGED <<rset, fd, n>>
       \/ \E f \in rset :
             /\ \A g \in rset : f <= g
             /\ fd' = f
             /\ rset' = rset \ {f}
             /\ n' = 1
             /\ listener' = "check"
    /\ UNCHANGED <<conn, commands, sem, cancelled, sem_destroyed>>

\* sem_getvalue gives 1 or more: there is room for a worker.
ListenerRoom ==
    /\ listener = "check"
    /\ sem >= 1
    /\ listener' = "accept"
    /\ UNCHANGED <<conn, commands, sem, rset, fd, n, cancelled, sem_destroyed>>

\* Mutant: the listener waits until there is room.
MutWait ==
    /\ listener = "check"
    /\ sem < 1
    /\ n < MaxWaitWorker
    /\ n' = n + 1
    /\ UNCHANGED <<conn, commands, sem, listener, rset, fd, cancelled, sem_destroyed>>

\* sem_getvalue gives 0: a second is spent, and after MAXWAITWORKER of them the
\* worker is spawned anyway.
ListenerWait ==
    /\ listener = "check"
    /\ sem < 1
    /\ \/ /\ n >= MaxWaitWorker
          /\ listener' = "accept"
          /\ UNCHANGED n
       \/ /\ n < MaxWaitWorker
          /\ n' = n + 1
          /\ UNCHANGED listener
    /\ UNCHANGED <<conn, commands, sem, rset, fd, cancelled, sem_destroyed>>

\* accept() and pthread_create().  When no thread can be created nobody closes
\* the connection.
ListenerAccept ==
    /\ listener = "accept"
    /\ \/ \E c \in Backlog(fd) :
             \/ Move(c, "spawned")
             \/ ResourcesFail /\ Move(c, "orphan")
       \/ ResourcesFail /\ UNCHANGED conn
    /\ listener' = "loop"
    /\ UNCHANGED <<commands, sem, rset, fd, n, cancelled, sem_destroyed>>
-----------------------------------------------------------------------------
(* network_server_worker *)

\* A worker has a slot from its sem_wait to its sem_post.
Holding == {c \in Conns : conn[c] \in {"select", "ssl", "read"}}

\* sem_wait.
WorkerStart(c) ==
    /\ conn[c] = "spawned"
    /\ sem > 0
    /\ sem' = sem - 1
    /\ Move(c, "select")
    /\ UNCHANGED <<commands, loop>>

\* sem_wait fails: a signal has interrupted it.  ENDNOPOST: the connection is
\* closed without a slot having been taken.
WorkerInterrupted(c) ==
    /\ conn[c] = "spawned"
    /\ Move(c, "unserved")
    /\ UNCHANGED <<commands, sem, loop>>

\* END: sem_post; an SSL connection is shut down, any other is just closed.
Post(c, pc) ==
    /\ sem' = sem + 1
    /\ Move(c, pc)

\* Mutant: a worker that ran into the time out does not post.
MutSelect(c) ==
    /\ conn[c] = "select"
    /\ \/ Move(c, "ssl") /\ UNCHANGED sem
       \/ Move(c, "unserved") /\ UNCHANGED sem
    /\ UNCHANGED <<commands, loop>>

\* select() with server_timeout: there is data, or the worker gives up.
WorkerSelect(c) ==
    /\ conn[c] = "select"
    /\ \/ Move(c, "ssl") /\ UNCHANGED sem
       \/ Post(c, "unserved")
    /\ UNCHANGED <<commands, loop>>

\* netssl_server waits for the client's handshake, which may fail.
WorkerSSL(c) ==
    /\ conn[c] = "ssl"
    /\ \/ Move(c, "read") /\ UNCHANGED sem
       \/ Post(c, "unserved")
    /\ UNCHANGED <<commands, loop>>

\* SSL_read gives a command that is understood; it is carried out.
WorkerCommand(c) ==
    /\ conn[c] = "read"
    /\ commands[c] < MaxCommands
    /\ commands' = [commands EXCEPT ![c] = @ + 1]
    /\ UNCHANGED <<conn, sem, loop>>

\* Mutant: the slot is given back twice.
MutEnd(c) ==
    /\ conn[c] = "read"
    /\ sem' = sem + 2
    /\ Move(c, "shutdown")
    /\ UNCHANGED <<commands, loop>>

\* SSL_read gives the end of the connection, an error, a short read or a
\* command that is not understood.
WorkerEnd(c) ==
    /\ conn[c] = "read"
    /\ Post(c, "shutdown")
    /\ UNCHANGED <<commands, loop>>

\* SSL_shutdown and close.
WorkerClose(c) ==
    /\ conn[c] = "shutdown"
    /\ Move(c, "closed")
    /\ UNCHANGED <<commands, sem, loop>>
-----------------------------------------------------------------------------
(* threads_stop *)

\* pthread_cancel; main then joins the listener.
CancelServer ==
    /\ ~cancelled
    /\ cancelled' = TRUE
    /\ UNCHANGED <<conn, commands, sem, listener, rset, fd, n, sem_destroyed>>

\* The listener is cancelled in select, nanosleep or accept.
ListenerCancelled ==
    /\ cancelled
    /\ listener \in {"select", "check", "accept"}
    /\ listener = "check" => sem < 1
    /\ StartsCleanup
    /\ UNCHANGED <<commands, sem, rset, fd, cancelled, sem_destroyed>>

\* Mutant: the listener waits until every worker has ended.
MutCleanupWait ==
    /\ listener = "cleanup"
    /\ sem < MaxInConnections
    /\ n < MaxWaitWorker
    /\ n' = n + 1
    /\ UNCHANGED <<conn, commands, sem, listener, rset, fd, cancelled, sem_destroyed>>

\* Workers are active: a second is spent, MAXWAITWORKER times at most.
CleanupWait ==
    /\ listener = "cleanup"
    /\ sem < MaxInConnections
    /\ \/ /\ n >= MaxWaitWorker
          /\ listener' = "done"
          /\ sem_destroyed' = TRUE
          /\ UNCHANGED n
       \/ /\ n < MaxWaitWorker
          /\ n' = n + 1
          /\ UNCHANGED <<listener, sem_destroyed>>
    /\ UNCHANGED <<conn, commands, sem, rset, fd, cancelled>>

\* All slots are free: sem_destroy.
CleanupDone ==
    /\ listener = "cleanup"
    /\ sem >= MaxInConnections
    /\ listener' = "done"
    /\ sem_destroyed' = TRUE
    /\ UNCHANGED <<conn, commands, sem, rset, fd, n, cancelled>>

Listener == \/ ListenerSelect \/ ListenerLoop \/ ListenerRoom \/ ListenerWait
            \/ ListenerAccept \/ CleanupWait \/ CleanupDone

Worker(c) == \/ WorkerStart(c) \/ WorkerInterrupted(c) \/ WorkerSelect(c)
             \/ WorkerSSL(c) \/ WorkerCommand(c) \/ WorkerEnd(c) \/ WorkerClose(c)

Next == \/ Listener \/ ListenerFails \/ CancelServer \/ ListenerCancelled
        \/ \E c \in Conns : ClientConnects(c) \/ Worker(c)

Spec == Init /\ [][Next]_vars

\* The server's own steps are taken when they can be.  Nothing is asked of the
\* clients: WorkerSSL, WorkerCommand and WorkerEnd wait for them, and nothing of
\* the signals and errors.  select with a time out returns.  A pending cancellation takes effect.  A process that is
\* short of descriptors is not so for ever: of the accepts it tries again and
\* again, one gets a connection.
FairSpec ==
    /\ Spec
    /\ WF_vars(Listener) /\ SF_vars(ListenerCancelled)
    /\ SF_vars(ListenerAccept /\ conn' # conn)
    /\ \A c \in Conns : /\ WF_vars(WorkerStart(c)) /\ WF_vars(WorkerSelect(c))
                        /\ WF_vars(WorkerClose(c))

\* Every client goes on and in the end closes its connection.
ClientsGoOn ==
    \A c \in Conns : /\ WF_vars(WorkerSSL(c))
                     /\ WF_vars(WorkerCommand(c) \/ WorkerEnd(c))
-----------------------------------------------------------------------------
(* Properties *)

\* Every slot is either free or held by one worker that is between its sem_wait
\* and its sem_post: however a connection ends (time out, failed handshake,
\* short read, unknown command), its slot comes back exactly once.
SlotsConserved == sem + Cardinality(Holding) = MaxInConnections

\* Workers that clients keep busy cannot keep the listener from accepting: it
\* waits for a slot no longer than MAXWAITWORKER rounds.  A connection is reset
\* instead only because the listener has ended, cancelled or after an error.
EveryConnectionAccepted ==
    \A c \in Conns : (conn[c] = "backlog") ~>
        \/ conn[c] \notin {"backlog", "reset"}
        \/ conn[c] = "reset" /\ listener \in {"cleanup", "done"}

\* When clients go on, each connection that got a worker is served until its
\* client closes it and is then closed, those accepted beyond maxinconnections
\* included: nobody waits for ever in sem_wait, as no slot gets lost on the way.
\* What ends unserved was interrupted by a signal in that sem_wait, sent nothing
\* in server_timeout or failed the handshake.  Where the server thread destroys
\* the semaphore first, nothing is promised to those still waiting for it.
EveryConnectionServed ==
    ClientsGoOn =>
        \A c \in Conns : (conn[c] = "spawned") ~>
            \/ conn[c] \in {"closed", "unserved"}
            \/ sem_destroyed

\* threads_stop does not hang on the server: the join returns although clients
\* keep workers busy (the shutdown waits for MAXWAITWORKER rounds at most).
ServerThreadStops == cancelled ~> (listener = "done")
=============================================================================
