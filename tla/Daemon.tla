------------------------------- MODULE Daemon -------------------------------
(***************************************************************************)
(* The life of the process, main() of main.c: the configuration (Config),  *)
(* what the parts need before they start, the signal handlers, the threads *)
(* and the stop (Shutdown), and the way back.                              *)
(*                                                                         *)
(* live is what has been initialised and not been freed.  Three kinds of   *)
(* threads are detached and nobody waits for them: the workers of the      *)
(* server, the readers of the exclude file and the walkers of Shutdown.    *)
(* The batch and the queues of the client are one member of live, freed by *)
(* client_stop; how they are used is in ClientQueue.  The end of the       *)
(* server thread, in Server, is part of BeginStop.                         *)
(***************************************************************************)
EXTENDS Config, Shutdown

CONSTANTS
    Unusable,   \* files that OpenSSL cannot load, expressions PCRE refuses
    Modes       \* "daemon", "foreground" (-d), "test" (-t)

ASSUME DaemonConfig == Modes \subseteq {"daemon", "foreground", "test"}

VARIABLES
    mode,      \* from the command line
    phase,     \* where main is
    outcome,   \* how the process ended, and who brought it down; or "alive"
    pidfile,   \* the pid file: there is none, it is there, or unlink failed
    live,      \* the shared state that exists
    stop,      \* of follow.c
    client_started,  \* of client.c
    informing, \* the action thread has found client_started set and is in the client
    worker     \* a worker of the server: "none", "handshake", "session"

clientVars == <<client_started, informing>>
processVars == <<mode, phase, outcome, pidfile, live, stop, clientVars, worker>>
daemonVars == <<processVars, configVars, vars>>

Phases == {"config", "pidfile", "regex", "vector", "ssl", "exclude", "handlers",
           "action_thread", "maintenance_thread", "server_thread", "client", "open",
           "follow", "client_stop", "threads_stop", "exclude_destroy",
           "disintegrate", "unlink"}
UpToFollow == Phases \ {"client_stop", "threads_stop", "exclude_destroy", "disintegrate",
                        "unlink"}
Outcomes == {"alive", "ok", "failed", "killed", "assertion", "action crash",
             "detached crash"}
Shared == {"vector", "client_ctx", "server_ctx", "exclude", "regex", "client"}

DaemonTypeOK ==
    /\ TypeOK /\ ConfigTypeOK
    /\ mode \in Modes
    /\ phase \in Phases
    /\ outcome \in Outcomes
    /\ pidfile \in {"none", "there", "left"}
    /\ live \subseteq Shared
    /\ stop \in BOOLEAN
    /\ client_started \in BOOLEAN
    /\ informing \in BOOLEAN
    /\ worker \in {"none", "handshake", "session"}

DaemonInit ==
    /\ Init /\ ConfigInit
    /\ mode \in Modes
    /\ phase = "config"
    /\ outcome = "alive"
    /\ pidfile = "none"
    /\ live = {}
    /\ stop = FALSE
    /\ client_started = FALSE
    /\ informing = FALSE
    /\ worker = "none"

Goes(from, to) == outcome = "alive" /\ phase = from /\ phase' = to /\ UNCHANGED outcome
Fails(from) == outcome = "alive" /\ phase = from /\ outcome' = "failed" /\ UNCHANGED phase
-----------------------------------------------------------------------------
(* main, up to follow() *)

\* config_read; an exit() or a failing assertion in it ends the process.
ReadConfig ==
    /\ outcome = "alive" /\ phase = "config"
    /\ config_read
    /\ phase' = IF reading' = "done" THEN "pidfile" ELSE phase
    /\ outcome' = CASE reading' = "exit" -> "failed"
                    [] reading' = "abort" -> "assertion"
                    [] OTHER -> outcome
    /\ UNCHANGED <<mode, pidfile, live, stop, clientVars, worker, vars>>

\* Only the daemon has a pid file, and ends if it cannot be written.
WritePidFile ==
    /\ \/ Goes("pidfile", "regex") /\ pidfile' = IF mode = "daemon" THEN "there" ELSE "none"
       \/ mode = "daemon" /\ Fails("pidfile") /\ UNCHANGED pidfile
    /\ UNCHANGED <<mode, live, stop, clientVars, worker, configVars, vars>>

\* An expression without exactly one capture is refused, too; -t ends here.
regex_prepare ==
    /\ \/ /\ CONFIG["regex"] \notin Unusable
          /\ mode # "test"
          /\ Goes("regex", "vector")
          /\ live' = live \cup {"regex"}
       \/ /\ CONFIG["regex"] \notin Unusable
          /\ mode = "test"
          /\ phase = "regex" /\ outcome = "alive"
          /\ outcome' = "ok"
          /\ UNCHANGED <<phase, live>>
       \/ CONFIG["regex"] \in Unusable /\ Fails("regex") /\ UNCHANGED live
    /\ UNCHANGED <<mode, pidfile, stop, clientVars, worker, configVars, vars>>

records_init ==
    /\ Goes("vector", "ssl")
    /\ live' = live \cup {"vector"}
    /\ UNCHANGED <<mode, pidfile, stop, clientVars, worker, configVars, vars>>

Roles == {role \in {"inform", "server"} : CONFIG[role] = 1}
ContextOf(role) == IF role = "inform" THEN "client_ctx" ELSE "server_ctx"
FilesOf(role) ==
    {"ssl_ca_file", "ssl_crl_file"} \cup
        (IF role = "inform" THEN {"ssl_client_cert", "ssl_client_key"}
         ELSE {"ssl_server_cert", "ssl_server_key"})

\* Mutant: a context is made for the client only.
MutInitialize ==
    /\ Goes("ssl", "exclude")
    /\ live' = live \cup {ContextOf(role) : role \in Roles \cap {"inform"}}
    /\ UNCHANGED <<mode, pidfile, stop, clientVars, worker, configVars, vars>>

\* netssl_initialize, with client_verification and server_verification.
netssl_initialize ==
    /\ LET loads == \A role \in Roles : \A o \in FilesOf(role) :
                        CONFIG[o] \notin Unusable \cup {""}
       IN  \/ loads /\ Goes("ssl", "exclude") /\ live' = live \cup {ContextOf(role) : role \in Roles}
           \/ ~loads /\ Fails("ssl") /\ UNCHANGED live
    /\ UNCHANGED <<mode, pidfile, stop, clientVars, worker, configVars, vars>>

\* exclude_init and exclude_readfile, whose reader is as one of SIGHUP.
InitExclude ==
    /\ Goes("exclude", "handlers")
    /\ live' = live \cup {"exclude"}
    /\ UNCHANGED <<mode, pidfile, stop, clientVars, worker, configVars, vars>>

signalhandler_setup ==
    /\ Goes("handlers", "action_thread")
    /\ UNCHANGED <<mode, pidfile, live, stop, clientVars, worker, configVars, vars>>

\* One thread after the other; the first that cannot be created ends the process,
\* although those before it run already.
threads_start ==
    /\ \/ Goes("action_thread", "maintenance_thread")
       \/ Goes("maintenance_thread", "server_thread")
       \/ Goes("server_thread", "client")
       \/ Fails("action_thread") \/ Fails("maintenance_thread")
       \/ CONFIG["server"] = 1 /\ Fails("server_thread")
    /\ UNCHANGED <<mode, pidfile, live, stop, clientVars, worker, configVars, vars>>

Informs == CONFIG["inform"] = 1 /\ CONFIG["inform_agent"] > 0

\* The queues, and last client_started.
client_start ==
    /\ \/ /\ Informs
          /\ Goes("client", "open")
          /\ live' = live \cup {"client"}
          /\ client_started' = TRUE
       \/ /\ (~Informs /\ Goes("client", "open")) \/ (Informs /\ Fails("client"))
          /\ UNCHANGED <<live, client_started>>
    /\ UNCHANGED <<mode, pidfile, stop, informing, worker, configVars, vars>>

\* Mutant: follow() begins with stop = 0.
MutOpen ==
    /\ \/ Goes("open", "follow") /\ stop' = FALSE
       \/ Fails("open") /\ UNCHANGED stop
    /\ UNCHANGED <<mode, pidfile, live, clientVars, worker, configVars, vars>>

\* follow() up to its loop: the log file may be gone by now.
OpenLog ==
    /\ Goes("open", "follow") \/ Fails("open")
    /\ UNCHANGED <<mode, pidfile, live, stop, clientVars, worker, configVars, vars>>
-----------------------------------------------------------------------------
(* Signals *)

HandlersSet == phase \notin {"config", "pidfile", "regex", "vector", "ssl",
                             "exclude", "handlers"}

\* A thread that uses what has been freed may go on or bring down the process.
Uses(needs, end) == outcome' \in {"alive"} \cup (IF needs \subseteq live THEN {} ELSE {end})

\* A termination signal sets stop; before signalhandler_setup any signal kills.
\* Nobody reads stop after follow(), so later signals are left out.
signalhandler_termination ==
    /\ outcome = "alive" /\ phase \in UpToFollow
    /\ IF HandlersSet THEN stop' = TRUE /\ UNCHANGED outcome
       ELSE outcome' = "killed" /\ UNCHANGED stop
    /\ UNCHANGED <<mode, phase, pidfile, live, clientVars, worker, configVars, vars>>

\* SIGHUP: exclude_readfile starts a reader of the exclude file.  What it does
\* to the list is in ExcludeList; here, it may come after exclude_destroy.
signalhandler_hup ==
    /\ outcome = "alive" /\ HandlersSet
    /\ Uses({"exclude"}, "detached crash")
    /\ UNCHANGED <<mode, phase, pidfile, live, stop, clientVars, worker, configVars, vars>>
-----------------------------------------------------------------------------
(* The threads *)

\* What the action thread and the maintenance thread do.
Works(t) ==
    \/ Wake(t) \/ UnlockVector(t)
    \/ t = "action" /\ (ActionScriptDone \/ (\E h \in Hosts : ActionVisit(h)))
    \/ t = "maintenance" /\ (MaintenanceScriptDone \/ (\E h \in Hosts : MaintenanceVisit(h)))

\* The thread has been created, and the vector is still in use.
Exists(t) ==
    /\ outcome = "alive"
    /\ \/ phase \in {"server_thread", "client", "open", "follow", "client_stop",
                     "threads_stop"}
       \/ phase = "maintenance_thread" /\ t = "action"

Runs(t) == Exists(t) /\ ~(t = "action" /\ informing)

\* The step A of thread t.  Before the script runs with new, client_queue_record
\* is called for a host of the local log, and after a round client_queue_flush;
\* both return at once unless client_started is set.
ThreadDoes(t, A) ==
    /\ Runs(t)
    /\ A
    /\ informing' \in {informing} \cup
          (IF /\ t = "action" /\ client_started
              /\ pc[t] = "walk" /\ pc'[t] \in {"script", "sleep"}
           THEN {TRUE} ELSE {})
    /\ UNCHANGED <<mode, phase, outcome, pidfile, live, stop, client_started, worker,
                   configVars>>

ThreadsStep == \E t \in Threads : ThreadDoes(t, Works(t) \/ LockVector(t))

\* The action thread is done with the batch and the queues.
LeavesClient ==
    /\ outcome = "alive" /\ informing
    /\ Uses({"client"}, "action crash")
    /\ informing' = FALSE
    /\ UNCHANGED <<mode, phase, pidfile, live, stop, client_started, worker, configVars,
                   vars>>

\* SIGUSR1 and SIGUSR2; the thread may come to the vector after its end.
WalkerStep ==
    /\ outcome = "alive" /\ HandlersSet
    /\ \E w \in Walkers : Wake(w) \/ WalkerLock(w) \/ WalkerWalk(w)
    /\ Uses({"vector"}, "detached crash")
    /\ UNCHANGED <<mode, phase, pidfile, live, stop, clientVars, worker, configVars>>

\* The server thread accepts as long as it has not been cancelled.
Accept ==
    /\ outcome = "alive" /\ phase \in {"client", "open", "follow", "client_stop"}
    /\ CONFIG["server"] = 1
    /\ worker = "none"
    /\ worker' = "handshake"
    /\ UNCHANGED <<mode, phase, outcome, pidfile, live, stop, clientVars, configVars, vars>>

\* netssl_server asserts that there is a context.
netssl_server ==
    /\ outcome = "alive" /\ worker = "handshake"
    /\ IF "server_ctx" \in live THEN worker' \in {"session", "none"} /\ UNCHANGED outcome
       ELSE outcome' = "detached crash" /\ UNCHANGED worker
    /\ UNCHANGED <<mode, phase, pidfile, live, stop, clientVars, configVars, vars>>

\* The worker stores an offender it received; a record that exists is
\* overwritten, its remove flag included.  records_destroy does not take the
\* mutex, so that from then on nothing is stored or the process crashes.
WorkerAdds(h) ==
    /\ outcome = "alive" /\ worker = "session"
    /\ vector_mutex = "none"
    /\ IF main \in {"destroy", "exit"}
       THEN outcome' \in {"alive", "detached crash"} /\ UNCHANGED <<record, marked>>
       ELSE /\ record' = [record EXCEPT ![h] = IF @ = "none" THEN "new" ELSE @]
            /\ marked' = marked \ {h}
            /\ UNCHANGED outcome
    /\ UNCHANGED <<mode, phase, pidfile, live, stop, clientVars, worker, configVars,
                   scripts, vector_mutex, pc, todo, host, main>>

WorkerEnds ==
    /\ outcome = "alive" /\ worker = "session"
    /\ worker' = "none"
    /\ UNCHANGED <<mode, phase, outcome, pidfile, live, stop, clientVars, configVars, vars>>
-----------------------------------------------------------------------------
(* main, in follow() and after it *)

Follow ==
    /\ outcome = "alive" /\ phase = "follow"
    /\ \E h \in Hosts : Offends(h)
    /\ UNCHANGED <<processVars, configVars>>

\* follow() returns, with stop reset.
LeaveFollow ==
    /\ Goes("follow", IF Informs THEN "client_stop" ELSE "threads_stop")
    /\ stop
    /\ stop' = FALSE
    /\ IF Informs THEN UNCHANGED vars ELSE BeginStop
    /\ UNCHANGED <<mode, pidfile, live, client_started, informing, worker, configVars>>

\* client_stop frees the queues and the batch ...
FreeClient ==
    /\ outcome = "alive" /\ phase = "client_stop"
    /\ "client" \in live
    /\ live' = live \ {"client"}
    /\ UNCHANGED <<mode, phase, outcome, pidfile, stop, clientVars, worker, configVars, vars>>

\* ... and resets client_started only then; threads_stop begins.
ClientStopped ==
    /\ Goes("client_stop", "threads_stop")
    /\ "client" \notin live
    /\ client_started' = FALSE
    /\ BeginStop
    /\ UNCHANGED <<mode, pidfile, live, stop, informing, worker, configVars>>

\* threads_stop: the action thread is not cancelled while it is in the client.
JoinThread(t) ==
    /\ outcome = "alive" /\ phase = "threads_stop"
    /\ t = "action" => ~informing
    /\ Cancelled(t)
    /\ UNCHANGED <<processVars, configVars>>

\* The loop of records_destroy.
DestroyRecord ==
    /\ outcome = "alive" /\ phase = "threads_stop"
    /\ \E h \in Hosts : Destroy(h)
    /\ UNCHANGED <<processVars, configVars>>

\* The end of records_destroy: the vector and the mutex are gone.
FreeVector ==
    /\ Goes("threads_stop", "exclude_destroy")
    /\ Exit
    /\ live' = live \ {"vector"}
    /\ UNCHANGED <<mode, pidfile, stop, clientVars, worker, configVars>>

exclude_destroy ==
    /\ Goes("exclude_destroy", "disintegrate")
    /\ live' = live \ {"exclude"}
    /\ UNCHANGED <<mode, pidfile, stop, clientVars, worker, configVars, vars>>

netssl_disintegrate ==
    /\ Goes("disintegrate", "unlink")
    /\ live' = live \ {"client_ctx", "server_ctx"}
    /\ UNCHANGED <<mode, pidfile, stop, clientVars, worker, configVars, vars>>

\* The pid file is removed, unless unlink fails; the process ends with 0.
MainExit ==
    /\ outcome = "alive" /\ phase = "unlink"
    /\ pidfile' \in IF mode = "daemon" THEN {"none", "left"} ELSE {pidfile}
    /\ outcome' = "ok"
    /\ UNCHANGED <<mode, phase, live, stop, clientVars, worker, configVars, vars>>

Startup ==
    \/ ReadConfig \/ WritePidFile \/ regex_prepare \/ records_init
    \/ netssl_initialize \/ InitExclude \/ signalhandler_setup
    \/ threads_start \/ client_start \/ OpenLog

Stopping == LeaveFollow \/ FreeClient \/ ClientStopped \/ DestroyRecord

Ending == FreeVector \/ exclude_destroy \/ netssl_disintegrate \/ MainExit

DaemonNext ==
    \/ Startup
    \/ signalhandler_termination \/ signalhandler_hup
    \/ ThreadsStep \/ LeavesClient \/ WalkerStep
    \/ Accept \/ netssl_server \/ (\E h \in Hosts : WorkerAdds(h)) \/ WorkerEnds
    \/ Follow \/ Stopping \/ (\E t \in Threads : JoinThread(t)) \/ Ending

DaemonSpec == DaemonInit /\ [][DaemonNext]_daemonVars

\* main and the threads go on, and scripts return; as in Shutdown, a thread
\* that waits for the mutex gets it if it is free again and again, and a
\* cancellation stays pending.  Nothing is assumed of a thread that uses freed
\* memory.
DaemonFairSpec ==
    /\ DaemonSpec
    /\ WF_daemonVars(Startup \/ Stopping \/ Ending)
    /\ \A t \in Threads : /\ WF_daemonVars(ThreadDoes(t, Works(t)))
                          /\ SF_daemonVars(ThreadDoes(t, LockVector(t)))
                          /\ SF_daemonVars(JoinThread(t))
    /\ WF_daemonVars("client" \in live /\ LeavesClient)
    /\ WF_daemonVars(WalkerStep /\ \E w \in Walkers : pc[w] = "walk")
-----------------------------------------------------------------------------
(* Properties *)

\* Whoever main waits for finds what it uses: the action and the maintenance
\* thread the vector, the server thread and the clients their contexts, follow()
\* the expression, the vector and the exclude list, and the action thread the
\* client.  There are three exceptions: a second listen line (cfg.c), the
\* action thread in the client that client_stop frees before threads_stop, and
\* the detached threads after the action thread has been joined.
NothingUsedTooEarlyOrLate ==
    /\ \A t \in Threads : Exists(t) /\ pc[t] # "dead" => "vector" \in live
    /\ outcome = "alive" /\ phase \in {"client", "open", "follow", "client_stop"} =>
           /\ {ContextOf(role) : role \in Roles} \subseteq live
           /\ {"regex", "vector", "exclude"} \subseteq live
    /\ informing => "client" \in live \/ phase \in {"client_stop", "threads_stop"}
    /\ outcome = "assertion" => reading = "abort"
    /\ outcome = "action crash" =>
           "client" \notin live /\ phase \in {"client_stop", "threads_stop"}
    /\ outcome = "detached crash" => main \in {"destroy", "exit"}

\* A process that ends with 0 has tried to remove its pid file, and has called
\* the script for every host it has blocked, to unblock it: a host stays blocked
\* only where the stop killed its script half-way, or the script could not be
\* run with remove (main, records_destroy, _do_action).  One that fails after
\* threads_start may leave hosts blocked, but only those that other agents have
\* reported (server = 1).
CleanExit ==
    /\ outcome = "ok" => pidfile # "there" /\ blocked \subseteq interrupted \cup skipped
    /\ outcome = "failed" => blocked = {} \/ CONFIG["server"] = 1

\* SIGTERM is never lost once the handlers are set, also when it comes before
\* follow() (which does not reset stop at its beginning): the process ends, or
\* it hangs in one of two ways.  Either the maintenance thread has been
\* cancelled in the script of a purge with vector_mutex locked, or the action
\* thread is in the client while client_stop frees it.  No walk under way,
\* detached thread or script of the action thread holds up the stop.
TermEndsDaemon ==
    stop ~> \/ outcome # "alive"
            \/ pc["maintenance"] = "dead" /\ vector_mutex = "maintenance"
            \/ informing /\ "client" \notin live
=============================================================================
