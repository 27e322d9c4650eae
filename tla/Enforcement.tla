---------------------------- MODULE Enforcement ----------------------------
(***************************************************************************)
(* What agentsmith promises about each offending host: an abstract store   *)
(* with at most one record per address, changed one host at a time by the  *)
(* log follower, the server workers, the action thread, the maintenance    *)
(* thread and SIGUSR2, and the calls of the action script this causes.     *)
(*                                                                         *)
(* The host record vector, its lock and the order in which the threads     *)
(* walk it are in RecordVector, which implements this module.              *)
(***************************************************************************)
EXTENDS HostRecord, FiniteSets

CONSTANTS
    Inform,         \* inform = 1 and there is an inform_agent
    UserPurge,      \* SIGUSR2 may arrive
    AccessMayFail,  \* access() on the action script may fail
    BatchLen,       \* HOSTRECORDVECTORLEN, the room for records not yet flushed
    MaxCalls        \* bound: calls of one kind the other kind has not made up for

ASSUME SwitchType == /\ Inform \in BOOLEAN
                     /\ UserPurge \in BOOLEAN
                     /\ AccessMayFail \in BOOLEAN
                     /\ BatchLen \in Nat \ {0}
                     /\ MaxCalls \in Nat \ {0}

VARIABLES
    now,      \* time(NULL)
    store,    \* the record of each host, or NULL
    blocked,  \* per host: calls of the script with "new" less those with "remove"
    outbox,   \* records handed to client_queue_record and not yet flushed
    running,  \* FALSE once records_destroy has run
    usr2      \* TRUE once SIGUSR2 has arrived

vars == <<now, store, blocked, outbox, running, usr2>>

TypeOK ==
    /\ now \in Time
    /\ store \in [Ip -> HostRecord \cup {NULL}]
    /\ \A ip \in Ip : store[ip] # NULL => store[ip].ipaddr = ip
    /\ blocked \in [Ip -> -MaxCalls..MaxCalls]
    /\ outbox \subseteq HostRecord
    /\ running \in BOOLEAN
    /\ usr2 \in BOOLEAN

Init ==
    /\ now = 1
    /\ store = [ip \in Ip |-> NULL]
    /\ blocked = [ip \in Ip |-> 0]
    /\ outbox = {}
    /\ running = TRUE
    /\ usr2 = FALSE

Known(ip) == store[ip] # NULL

\* The outcomes of access() on the action script.
Accessible == IF AccessMayFail THEN {TRUE, FALSE} ELSE {TRUE}
-----------------------------------------------------------------------------
Tick ==
    /\ running
    /\ now < MaxTime
    /\ now' = now + 1
    /\ UNCHANGED <<store, blocked, outbox, running, usr2>>

\* The outcome of records_add_ip for a host.
Sighted(ip) == IF Known(ip) THEN Seen(store[ip], now) ELSE NewRecord(ip, now)

\* regex_do: a line of the log names the host.
records_add_ip(ip) ==
    /\ running
    /\ Sighted(ip).occurrences <= MaxOccurrences
    /\ store' = [store EXCEPT ![ip] = Sighted(ip)]
    /\ UNCHANGED <<now, blocked, outbox, running, usr2>>

\* The outcome of records_add_record for the record hr of a peer.
Received(hr) ==
    IF Known(hr.ipaddr) THEN Merge(store[hr.ipaddr], hr, now) ELSE hr

\* network_server_worker: a peer sends the record hr.
records_add_record(hr) ==
    /\ running
    /\ Received(hr).occurrences <= MaxOccurrences
    /\ store' = [store EXCEPT ![hr.ipaddr] = Received(hr)]
    /\ UNCHANGED <<now, blocked, outbox, running, usr2>>

\* client_queue_record: a full batch is flushed before the record goes in.
Queued(r) == IF Cardinality(outbox) >= BatchLen THEN {r} ELSE outbox \cup {r}

\* Mutant: records received from a peer are relayed as well.
MutRelayAll(ip) ==
    /\ blocked[ip] < MaxCalls
    /\ blocked' = [blocked EXCEPT ![ip] = @ + 1]
    /\ outbox' = IF Inform THEN Queued(store[ip]) ELSE outbox

\* _do_action(ptr, NEW): an inaccessible script skips the relay as well.
do_action_new(ip) ==
    \E ok \in Accessible :
        /\ ok => blocked[ip] < MaxCalls
        /\ blocked' = IF ok THEN [blocked EXCEPT ![ip] = @ + 1] ELSE blocked
        /\ outbox' = IF ok /\ Inform /\ store[ip].origin = LOCALHOST
                       THEN Queued(store[ip]) ELSE outbox

\* Mutant: expiry is looked at before the threshold.
MutExpiryFirst(ip) ==
    /\ running
    /\ Known(ip)
    /\ IF Stale(store[ip], now)
         THEN /\ store' = [store EXCEPT ![ip].remove = 1]
              /\ UNCHANGED <<blocked, outbox>>
         ELSE /\ IsOffender(store[ip]) /\ store[ip].processed = 0
              /\ do_action_new(ip)
              /\ store' = [store EXCEPT ![ip].processed = 1]
    /\ UNCHANGED <<now, running, usr2>>

\* Mutant: the script runs but processed is not set.
MutNotProcessed(ip) ==
    /\ running
    /\ Known(ip)
    /\ IF IsOffender(store[ip]) /\ store[ip].processed = 0
         THEN do_action_new(ip) /\ UNCHANGED store
         ELSE /\ Stale(store[ip], now)
              /\ store' = [store EXCEPT ![ip].remove = 1]
              /\ UNCHANGED <<blocked, outbox>>
    /\ UNCHANGED <<now, running, usr2>>

\* Mutant: only hosts seen more than once expire.
MutOneTimeKept(ip) ==
    /\ running
    /\ Known(ip)
    /\ IF IsOffender(store[ip]) /\ store[ip].processed = 0
         THEN /\ do_action_new(ip)
              /\ store' = [store EXCEPT ![ip].processed = 1]
         ELSE /\ store[ip].lastseen # 0
              /\ Stale(store[ip], now)
              /\ store' = [store EXCEPT ![ip].remove = 1]
              /\ UNCHANGED <<blocked, outbox>>
    /\ UNCHANGED <<now, running, usr2>>

\* Mutant: the threshold has to be exceeded.
MutExceeded(ip) ==
    /\ running
    /\ Known(ip)
    /\ IF /\ store[ip].occurrences > ActionThreshold[store[ip].origin]
          /\ store[ip].processed = 0
         THEN /\ do_action_new(ip)
              /\ store' = [store EXCEPT ![ip].processed = 1]
         ELSE /\ Stale(store[ip], now)
              /\ store' = [store EXCEPT ![ip].remove = 1]
              /\ UNCHANGED <<blocked, outbox>>
    /\ UNCHANGED <<now, running, usr2>>

\* _records_callback_action_new on the record of one host.
callback_action_new(ip) ==
    /\ running
    /\ Known(ip)
    /\ IF IsOffender(store[ip]) /\ store[ip].processed = 0
         THEN /\ do_action_new(ip)
              /\ store' = [store EXCEPT ![ip].processed = 1]
         ELSE /\ Stale(store[ip], now)
              /\ store' = [store EXCEPT ![ip].remove = 1]
              /\ UNCHANGED <<blocked, outbox>>
    /\ UNCHANGED <<now, running, usr2>>

\* action_thread: client_queue_flush takes the batch away.
Flush ==
    /\ running
    /\ outbox' = {}
    /\ UNCHANGED <<now, store, blocked, running, usr2>>

\* signalhandler_usr2: all records are to be removed.
signalhandler_usr2 ==
    /\ UserPurge
    /\ running
    /\ usr2' = TRUE
    /\ UNCHANGED <<now, store, blocked, outbox, running>>

\* The thread it creates: _records_callback_remove_all on the record of one host.
callback_remove_all(ip) ==
    /\ usr2
    /\ running
    /\ Known(ip)
    /\ store' = [store EXCEPT ![ip].remove = 1]
    /\ UNCHANGED <<now, blocked, outbox, running, usr2>>

\* threads_records_callback_action_removal on the hosts in S: the script is
\* called for the processed ones it is accessible for.
action_removal(S) ==
    \E denied \in IF AccessMayFail THEN SUBSET S ELSE {{}} :
        LET called == {ip \in S \ denied : Known(ip) /\ store[ip].processed # 0}
        IN  /\ \A ip \in called : blocked[ip] > -MaxCalls
            /\ blocked' = [ip \in Ip |-> IF ip \in called THEN blocked[ip] - 1
                                                        ELSE blocked[ip]]

\* records_maintenance frees the record of a host marked for removal.
Purge(ip) ==
    /\ running
    /\ Known(ip)
    /\ store[ip].remove # 0
    /\ action_removal({ip})
    /\ store' = [store EXCEPT ![ip] = NULL]
    /\ UNCHANGED <<now, outbox, running, usr2>>

\* main: records_destroy once the threads have been stopped.
records_destroy ==
    /\ running
    /\ action_removal(Ip)
    /\ store' = [ip \in Ip |-> NULL]
    /\ running' = FALSE
    /\ UNCHANGED <<now, outbox, usr2>>

Next ==
    \/ Tick
    \/ \E ip \in Ip : \/ records_add_ip(ip)
                      \/ callback_action_new(ip)
                      \/ callback_remove_all(ip)
                      \/ Purge(ip)
    \/ \E hr \in RemoteRecord : records_add_record(hr)
    \/ Flush
    \/ signalhandler_usr2
    \/ records_destroy

Spec == Init /\ [][Next]_vars

\* The action thread and the maintenance thread loop for ever.
FairSpec == Spec /\ \A ip \in Ip : /\ WF_vars(callback_action_new(ip))
                                   /\ WF_vars(Purge(ip))
-----------------------------------------------------------------------------
\* agentsmith.man "The action script is only called once for each offending
\* host": the script has seen one more "new" than "remove" exactly for the
\* hosts whose record says processed, and none is left over after the end of
\* the program (threads.c, the processed flag and the two callbacks).
ScriptsMatchMemory ==
    \A ip \in Ip :
        blocked[ip] = IF Known(ip) /\ store[ip].processed = 1 THEN 1 ELSE 0

\* What is relayed was found in the local log, so two instances informing
\* each other do not send a host to and fro (threads.c, origin test), and has
\* the count that the receiving worker asserts (worker.c).
RelayedAreLocalOffenders ==
    \A r \in outbox : r.origin = LOCALHOST /\ IsOffender(r)

\* As long as the user does not ask for it (SIGUSR2), a host that has reached
\* the threshold is not marked for expiry before the script has been run for
\* it.  It takes time_interval <= purge_after, which the configuration does
\* not enforce (threads.c, the mark; records.c, the mark is kept when the host
\* is seen again).
OffenderNotForgotten ==
    ~usr2 => \A ip \in Ip :
                 Known(ip) /\ store[ip].remove = 1 /\ IsOffender(store[ip])
                     => store[ip].processed = 1

\* A host that has reached the threshold is acted upon (action_thread),
\* unless SIGUSR2 or the end of the program removes it first.
OffenderActedUpon ==
    \A ip \in Ip :
        (Known(ip) /\ IsOffender(store[ip]) /\ store[ip].processed = 0)
            ~> (~Known(ip) \/ store[ip].processed = 1)

\* agentsmith.conf.man, purge_after: a host not seen for purge_after seconds
\* leaves memory, unless it is seen again (action_thread marks it,
\* maintenance_thread frees it).
StaleHostPurged ==
    \A ip \in Ip :
        (Known(ip) /\ Stale(store[ip], now))
            ~> (~Known(ip) \/ ~Stale(store[ip], now))
=============================================================================
