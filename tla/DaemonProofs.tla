---------------------------- MODULE DaemonProofs ----------------------------
(***************************************************************************)
(* The life of the process, for any number of offenders, of detached       *)
(* threads and of configuration files.                                     *)
(*                                                                         *)
(* The proofs rest on what is true in each phase of main: which parts are  *)
(* live, where the stop has come to, and whether any thread can have acted *)
(* upon a host.  What the scripts have done is accounted for throughout:   *)
(* a host that is blocked has a processed record, had its script killed or *)
(* was skipped.                                                            *)
(***************************************************************************)
EXTENDS Daemon, ConfigProofs

-----------------------------------------------------------------------------
(* The threads and the stop: every step of Shutdown, and the worker that    *)
(* stores a record                                                          *)

\* Of a host that is blocked either the record says so, or a script was killed
\* or could not be run.
BlockedAccounted ==
    \A h \in blocked : h \in interrupted \cup skipped \/ record[h] = "processed"

VectorInv == TypeOK /\ OneInVector /\ BlockedAccounted

\* The worker overwrites a record, or creates one.
WorkerStores(h) ==
    /\ vector_mutex = "none"
    /\ record' = [record EXCEPT ![h] = IF @ = "none" THEN "new" ELSE @]
    /\ marked' = marked \ {h}
    /\ UNCHANGED <<scripts, vector_mutex, pc, todo, host, main>>

\* A script runs for one host or none.
LEMMA OneHost ==
    ASSUME NEW t \in Threads, NEW hs \in SUBSET Hosts, Cardinality(hs) <= 1,
           host \in [Threads -> SUBSET Hosts],
           \A u \in Threads : Cardinality(host[u]) <= 1
    PROVE  LET new == [host EXCEPT ![t] = hs]
           IN  /\ new \in [Threads -> SUBSET Hosts]
               /\ \A u \in Threads : Cardinality(new[u]) <= 1
  OBVIOUS

LEMMA FewHosts == /\ Cardinality({}) <= 1
                  /\ \A h \in Hosts : Cardinality({h}) <= 1
<1>1. Cardinality({}) = 0
  BY FS_EmptySet
<1>2. \A h \in Hosts : Cardinality({h}) = 1
  BY FS_Singleton
<1>3. QED BY <1>1, <1>2

\* What the scripts may have done to hs accounts for who is blocked.
LEMMA ScriptsTyped ==
    ASSUME TypeOK, NEW hs \in SUBSET Hosts,
           Blocks(hs) \/ Unblocks(hs) \/ Skips(hs) \/ UNCHANGED scripts
    PROVE  /\ blocked' \subseteq Hosts
           /\ interrupted' \subseteq Hosts
           /\ skipped' \subseteq Hosts
  BY DEF TypeOK, Blocks, Unblocks, Skips, scripts

\* The names of the threads are not those of the walkers.
LEMMA Apart ==
    /\ "action" \in Threads /\ "maintenance" \in Threads
    /\ Threads \cap Walkers = {}
    /\ "none" \notin Threads \cup Walkers
  BY WalkersAreOthers DEF Threads

LEMMA VectorInit == Init => VectorInv
<1> SUFFICES ASSUME Init PROVE VectorInv
  OBVIOUS
<1>1. \A t \in Threads : Cardinality(host[t]) <= 1
  BY FS_EmptySet DEF Init
<1>2. TypeOK
  BY <1>1 DEF Init, TypeOK
<1>3. OneInVector /\ BlockedAccounted
  BY DEF Init, OneInVector, BlockedAccounted
<1>4. QED BY <1>2, <1>3 DEF VectorInv

\* The loops of the action and the maintenance thread.
LEMMA LoopStep ==
    ASSUME VectorInv, NEW t \in Threads \cup Walkers,
           \/ Wake(t)
           \/ t \in Threads /\ Loop(t)
           \/ t \in Walkers /\ (WalkerLock(t) \/ WalkerWalk(t))
    PROVE  VectorInv'
<1> USE DEF VectorInv
<1>1. /\ UNCHANGED <<record, blocked, interrupted, skipped, host, main>>
      /\ marked' \subseteq Hosts
      /\ todo' \in [Threads -> SUBSET Hosts]
      /\ pc' \in [Threads \cup Walkers -> {"sleep", "lock", "walk", "script", "dead"}]
      /\ vector_mutex' \in Threads \cup Walkers \cup {"none"}
  <2>1. UNCHANGED <<record, blocked, interrupted, skipped, host, main>>
    BY DEF Wake, Loop, LockVector, UnlockVector, WalkerLock, WalkerWalk, scripts
  <2>2. marked' = marked \/ marked' = marked \cup Known
    BY DEF Wake, Loop, LockVector, UnlockVector, WalkerLock, WalkerWalk
  <2>3. todo' = todo \/ todo' = [todo EXCEPT ![t] = Known]
    BY DEF Wake, Loop, LockVector, UnlockVector, WalkerLock, WalkerWalk
  <2>4. \E place \in {"sleep", "lock", "walk", "dead"} : pc' = [pc EXCEPT ![t] = place]
    BY DEF Wake, Loop, LockVector, UnlockVector, WalkerLock, WalkerWalk, Goto
  <2>5. vector_mutex' \in {vector_mutex, t, "none"}
    BY DEF Wake, Loop, LockVector, UnlockVector, WalkerLock, WalkerWalk
  <2>6. Known \subseteq Hosts
    BY DEF Known
  <2>7. marked' \subseteq Hosts
    BY <2>2, <2>6 DEF TypeOK
  <2>8. todo' \in [Threads -> SUBSET Hosts]
    BY <2>3, <2>6 DEF TypeOK
  <2>9. pc' \in [Threads \cup Walkers -> {"sleep", "lock", "walk", "script", "dead"}]
    BY <2>4 DEF TypeOK
  <2>10. vector_mutex' \in Threads \cup Walkers \cup {"none"}
    BY <2>5 DEF TypeOK
  <2>11. QED BY <2>1, <2>7, <2>8, <2>9, <2>10
<1>2. TypeOK'
  BY <1>1 DEF TypeOK
<1>3. BlockedAccounted'
  BY <1>1 DEF BlockedAccounted
<1>4. OneInVector'
  BY Apart DEF OneInVector, Wake, Loop, LockVector, UnlockVector, WalkerLock, WalkerWalk,
               Goto, TypeOK
<1>5. QED BY <1>2, <1>3, <1>4

\* The callbacks of the action and the maintenance thread, and their scripts.
LEMMA ScriptStep ==
    ASSUME VectorInv,
           \/ \E h \in Hosts : ActionVisit(h) \/ MaintenanceVisit(h)
           \/ ActionScriptDone \/ MaintenanceScriptDone
    PROVE  VectorInv'
<1> USE DEF VectorInv
<1>1. ASSUME NEW h \in Hosts, ActionVisit(h)
      PROVE  VectorInv'
  <2>1. /\ UNCHANGED <<blocked, interrupted, skipped, vector_mutex, main>>
        /\ record' = record \/ record' = [record EXCEPT ![h] = "processed"]
        /\ marked' \subseteq Hosts
        /\ todo' \in [Threads -> SUBSET Hosts]
        /\ host' = host \/ host' = [host EXCEPT !["action"] = {h}]
        /\ pc["action"] = "walk"
        /\ pc' = pc \/ pc' = [pc EXCEPT !["action"] = "script"]
    BY <1>1, Apart DEF ActionVisit, Goto, TypeOK, scripts
  <2>2. /\ host' \in [Threads -> SUBSET Hosts]
        /\ \A u \in Threads : Cardinality(host'[u]) <= 1
    <3>1. CASE host' = host
      BY <3>1 DEF TypeOK
    <3>2. CASE host' = [host EXCEPT !["action"] = {h}]
      <4>1. {h} \in SUBSET Hosts /\ Cardinality({h}) <= 1
        BY FewHosts
      <4>2. /\ host \in [Threads -> SUBSET Hosts]
            /\ \A u \in Threads : Cardinality(host[u]) <= 1
        BY DEF TypeOK
      <4>3. QED BY <3>2, <4>1, <4>2, Apart, OneHost, Zenon
    <3>3. QED BY <2>1, <3>1, <3>2
  <2>3. TypeOK'
    <3>1. record' \in [Hosts -> {"none", "new", "processed"}]
      BY <2>1 DEF TypeOK
    <3>2. pc' \in [Threads \cup Walkers -> {"sleep", "lock", "walk", "script", "dead"}]
      BY <2>1, Apart DEF TypeOK
    <3>3. QED BY <2>1, <2>2, <3>1, <3>2 DEF TypeOK
  <2>4. BlockedAccounted'
    BY <2>1 DEF BlockedAccounted, TypeOK
  <2>5. QED BY <2>1, <2>3, <2>4, Apart DEF OneInVector, TypeOK
<1>2. ASSUME NEW h \in Hosts, MaintenanceVisit(h)
      PROVE  VectorInv'
  <2>1. /\ UNCHANGED <<vector_mutex, main>>
        /\ record' \in [Hosts -> {"none", "new", "processed"}]
        /\ marked' \subseteq Hosts
        /\ todo' \in [Threads -> SUBSET Hosts]
        /\ host' = host \/ host' = [host EXCEPT !["maintenance"] = {h}]
        /\ pc["maintenance"] = "walk"
        /\ pc' = pc \/ pc' = [pc EXCEPT !["maintenance"] = "script"]
    BY <1>2, Apart DEF MaintenanceVisit, Goto, TypeOK
  <2>2. /\ host' \in [Threads -> SUBSET Hosts]
        /\ \A u \in Threads : Cardinality(host'[u]) <= 1
    <3>1. CASE host' = host
      BY <3>1 DEF TypeOK
    <3>2. CASE host' = [host EXCEPT !["maintenance"] = {h}]
      <4>1. {h} \in SUBSET Hosts /\ Cardinality({h}) <= 1
        BY FewHosts
      <4>2. /\ host \in [Threads -> SUBSET Hosts]
            /\ \A u \in Threads : Cardinality(host[u]) <= 1
        BY DEF TypeOK
      <4>3. QED BY <3>2, <4>1, <4>2, Apart, OneHost, Zenon
    <3>3. QED BY <2>1, <3>1, <3>2
  <2>3. \/ record' = record /\ UNCHANGED scripts
        \/ /\ record' = [record EXCEPT ![h] = "none"]
           /\ IF record[h] = "processed" THEN Skips({h}) ELSE UNCHANGED scripts
    BY <1>2 DEF MaintenanceVisit
  <2>4. blocked' \subseteq Hosts /\ interrupted' \subseteq Hosts /\ skipped' \subseteq Hosts
    BY <2>3, ScriptsTyped
  <2>5. TypeOK'
    <3>1. pc' \in [Threads \cup Walkers -> {"sleep", "lock", "walk", "script", "dead"}]
      BY <2>1, Apart DEF TypeOK
    <3>2. QED BY <2>1, <2>2, <2>4, <3>1 DEF TypeOK
  <2>6. BlockedAccounted'
    <3>1. CASE record' = record /\ UNCHANGED scripts
      BY <3>1 DEF BlockedAccounted, scripts
    <3>2. CASE record' = [record EXCEPT ![h] = "none"] /\ record[h] = "processed" /\ Skips({h})
      BY <3>2 DEF BlockedAccounted, TypeOK, Skips
    <3>3. CASE record' = [record EXCEPT ![h] = "none"] /\ record[h] # "processed" /\ UNCHANGED scripts
      BY <3>3 DEF BlockedAccounted, TypeOK, scripts
    <3>4. QED BY <2>3, <3>1, <3>2, <3>3
  <2>7. QED BY <2>1, <2>5, <2>6, Apart DEF OneInVector, TypeOK
<1>3. CASE ActionScriptDone
  <2>1. /\ UNCHANGED <<marked, vector_mutex, todo, main>>
        /\ host["action"] \subseteq Hosts
        /\ host' = [host EXCEPT !["action"] = {}]
        /\ Blocks(host["action"]) \/ UNCHANGED scripts
        /\ record' = [h \in Hosts |-> IF h \in host["action"] THEN "processed" ELSE record[h]]
        /\ pc["action"] = "script"
        /\ pc' = [pc EXCEPT !["action"] = "walk"]
    BY <1>3, Apart DEF ActionScriptDone, Goto, TypeOK
  <2>2. TypeOK'
    <3>1. blocked' \subseteq Hosts /\ interrupted' \subseteq Hosts /\ skipped' \subseteq Hosts
      BY <2>1, ScriptsTyped
    <3>2. /\ host' \in [Threads -> SUBSET Hosts]
          /\ \A u \in Threads : Cardinality(host'[u]) <= 1
      BY <2>1, Apart, OneHost, FewHosts DEF TypeOK
    <3>3. record' \in [Hosts -> {"none", "new", "processed"}] /\ marked' \subseteq Hosts
      BY <2>1 DEF TypeOK
    <3>4. pc' \in [Threads \cup Walkers -> {"sleep", "lock", "walk", "script", "dead"}]
      BY <2>1, Apart DEF TypeOK
    <3>5. QED BY <2>1, <3>1, <3>2, <3>3, <3>4 DEF TypeOK
  <2>3. BlockedAccounted'
    BY <2>1 DEF BlockedAccounted, TypeOK, Blocks, scripts
  <2>4. QED BY <2>1, <2>2, <2>3, Apart DEF OneInVector, TypeOK
<1>4. CASE MaintenanceScriptDone
  <2>1. /\ UNCHANGED <<vector_mutex, todo, main>>
        /\ host["maintenance"] \subseteq Hosts
        /\ host' = [host EXCEPT !["maintenance"] = {}]
        /\ Unblocks(host["maintenance"]) \/ Skips(host["maintenance"])
        /\ marked' = marked \ host["maintenance"]
        /\ record' = [h \in Hosts |-> IF h \in host["maintenance"] THEN "none" ELSE record[h]]
        /\ pc["maintenance"] = "script"
        /\ pc' = [pc EXCEPT !["maintenance"] = "walk"]
    BY <1>4, Apart DEF MaintenanceScriptDone, Goto, TypeOK
  <2>2. TypeOK'
    <3>1. blocked' \subseteq Hosts /\ interrupted' \subseteq Hosts /\ skipped' \subseteq Hosts
      BY <2>1, ScriptsTyped
    <3>2. /\ host' \in [Threads -> SUBSET Hosts]
          /\ \A u \in Threads : Cardinality(host'[u]) <= 1
      BY <2>1, Apart, OneHost, FewHosts DEF TypeOK
    <3>3. record' \in [Hosts -> {"none", "new", "processed"}] /\ marked' \subseteq Hosts
      BY <2>1 DEF TypeOK
    <3>4. pc' \in [Threads \cup Walkers -> {"sleep", "lock", "walk", "script", "dead"}]
      BY <2>1, Apart DEF TypeOK
    <3>5. QED BY <2>1, <3>1, <3>2, <3>3, <3>4 DEF TypeOK
  <2>3. BlockedAccounted'
    BY <2>1 DEF BlockedAccounted, TypeOK, Unblocks, Skips
  <2>4. QED BY <2>1, <2>2, <2>3, Apart DEF OneInVector, TypeOK
<1>5. QED BY <1>1, <1>2, <1>3, <1>4

\* main: a new offender, the stop and records_destroy.
LEMMA MainStep ==
    ASSUME VectorInv,
           \/ \E h \in Hosts : Offends(h) \/ Destroy(h)
           \/ \E t \in Threads : Cancelled(t)
           \/ BeginStop \/ Exit
    PROVE  VectorInv'
<1> USE DEF VectorInv
<1>1. ASSUME NEW h \in Hosts, Offends(h)
      PROVE  VectorInv'
  <2>1. record[h] = "none" /\ record' = [record EXCEPT ![h] = "new"]
    BY <1>1 DEF Offends
  <2>2. UNCHANGED <<marked, blocked, interrupted, skipped, vector_mutex, pc, todo, host, main>>
    BY <1>1 DEF Offends, scripts
  <2>3. TypeOK'
    BY <2>1, <2>2 DEF TypeOK
  <2>4. BlockedAccounted' /\ OneInVector'
    BY <2>1, <2>2 DEF BlockedAccounted, OneInVector, TypeOK
  <2>5. QED BY <2>3, <2>4
<1>2. ASSUME NEW h \in Hosts, Destroy(h)
      PROVE  VectorInv'
  <2>1. /\ record' = [record EXCEPT ![h] = "none"]
        /\ marked' = marked \ {h}
        /\ IF record[h] = "processed" THEN Unblocks({h}) \/ Skips({h}) ELSE UNCHANGED scripts
        /\ UNCHANGED <<vector_mutex, pc, todo, host, main>>
    BY <1>2 DEF Destroy
  <2>2. TypeOK'
    <3>1. blocked' \subseteq Hosts /\ interrupted' \subseteq Hosts /\ skipped' \subseteq Hosts
      <4>1. Unblocks({h}) \/ Skips({h}) \/ UNCHANGED scripts
        BY <2>1
      <4>2. {h} \in SUBSET Hosts
        OBVIOUS
      <4>3. QED BY <4>1, <4>2, ScriptsTyped
    <3>2. record' \in [Hosts -> {"none", "new", "processed"}] /\ marked' \subseteq Hosts
      BY <2>1 DEF TypeOK
    <3>3. QED BY <2>1, <3>1, <3>2 DEF TypeOK
  <2>3. BlockedAccounted' /\ OneInVector'
    <3>1. OneInVector'
      BY <2>1 DEF OneInVector
    <3>2. CASE record[h] = "processed"
      BY <2>1, <3>1, <3>2 DEF BlockedAccounted, TypeOK, Unblocks, Skips
    <3>3. CASE record[h] # "processed"
      BY <2>1, <3>1, <3>3 DEF BlockedAccounted, TypeOK, scripts
    <3>4. QED BY <3>1, <3>2, <3>3
  <2>4. QED BY <2>2, <2>3
<1>3. ASSUME NEW t \in Threads, Cancelled(t)
      PROVE  VectorInv'
  <2>1. /\ UNCHANGED <<record, marked, skipped, vector_mutex>>
        /\ pc' = [pc EXCEPT ![t] = "dead"]
        /\ todo' = [todo EXCEPT ![t] = {}]
        /\ host' = [host EXCEPT ![t] = {}]
        /\ main' \in {"join action", "destroy"}
        /\ host[t] \subseteq Hosts
        /\ \/ UNCHANGED <<blocked, interrupted>>
           \/ /\ blocked' \in {blocked, blocked \cup host[t], blocked \ host[t]}
              /\ interrupted' = interrupted \cup host[t]
    BY <1>3 DEF Cancelled, Ends, Goto, TypeOK
  <2>2. TypeOK'
    <3>1. /\ host' \in [Threads -> SUBSET Hosts]
          /\ \A u \in Threads : Cardinality(host'[u]) <= 1
      BY <2>1, OneHost, FewHosts DEF TypeOK
    <3>2. QED BY <2>1, <3>1 DEF TypeOK
  <2>3. BlockedAccounted' /\ OneInVector'
    BY <2>1 DEF BlockedAccounted, OneInVector, TypeOK
  <2>4. QED BY <2>2, <2>3
<1>4. CASE BeginStop \/ Exit
  BY <1>4 DEF BeginStop, Exit, TypeOK, BlockedAccounted, OneInVector, scripts
<1>5. QED BY <1>1, <1>2, <1>3, <1>4

LEMMA WorkerStoresStep ==
    ASSUME VectorInv, NEW h \in Hosts, WorkerStores(h)
    PROVE  VectorInv'
<1>1. /\ record' \in [Hosts -> {"none", "new", "processed"}]
      /\ \A i \in Hosts : record[i] = "processed" => record'[i] = "processed"
      /\ marked' \subseteq Hosts
  BY DEF WorkerStores, VectorInv, TypeOK
<1>2. UNCHANGED <<blocked, interrupted, skipped, vector_mutex, pc, todo, host, main>>
  BY DEF WorkerStores, scripts
<1>3. TypeOK'
  BY <1>1, <1>2 DEF VectorInv, TypeOK
<1>4. BlockedAccounted' /\ OneInVector'
  BY <1>1, <1>2 DEF VectorInv, BlockedAccounted, OneInVector, TypeOK
<1>5. QED BY <1>3, <1>4 DEF VectorInv

\* The stop alone: every step of Shutdown.
LEMMA ShutdownStep == VectorInv /\ [Next]_vars => VectorInv'
<1> SUFFICES ASSUME VectorInv, [Next]_vars PROVE VectorInv'
  OBVIOUS
<1>1. CASE Next
  BY <1>1, LoopStep, ScriptStep, MainStep DEF Next
<1>2. CASE UNCHANGED vars
  BY <1>2 DEF vars, scripts, VectorInv, TypeOK, OneInVector, BlockedAccounted
<1>3. QED BY <1>1, <1>2

\* While main stops the threads, two threads never walk the vector or run a
\* script at the same time (threads_stop, records_enumerate).
THEOREM ShutdownOneInVector == Spec => []OneInVector
<1>1. VectorInv => OneInVector
  BY DEF VectorInv
<1>2. QED BY <1>1, VectorInit, ShutdownStep, PTL DEF Spec

-----------------------------------------------------------------------------
(* The phases of main *)

Contexts == {ContextOf(role) : role \in Roles}

\* Nobody brings an offender yet.
BeforeServer == {"config", "pidfile", "regex", "vector", "ssl", "exclude", "handlers",
                 "action_thread", "maintenance_thread", "server_thread"}
BeforeFollow == BeforeServer \cup {"client", "open"}
AfterRecords == {"exclude_destroy", "disintegrate", "unlink"}

ProcessTypeOK ==
    /\ mode \in Modes
    /\ phase \in Phases
    /\ outcome \in Outcomes
    /\ pidfile \in {"none", "there", "left"}
    /\ live \subseteq Shared
    /\ stop \in BOOLEAN
    /\ client_started \in BOOLEAN
    /\ informing \in BOOLEAN
    /\ worker \in {"none", "handshake", "session"}

\* How far the stop has come.
MainInPhase ==
    /\ phase \in BeforeFollow \cup {"follow", "client_stop"} => main = "follow"
    /\ phase = "threads_stop" => main # "exit"
    /\ phase \in AfterRecords => main = "exit"

\* From where to where a part is live.
LiveInPhase ==
    /\ phase \notin {"config", "pidfile", "regex"} \cup AfterRecords => "regex" \in live
    /\ phase \notin {"config", "pidfile", "regex", "vector"} \cup AfterRecords =>
           "vector" \in live
    /\ phase \notin {"config", "pidfile", "regex", "vector", "ssl", "exclude",
                     "disintegrate", "unlink"} => "exclude" \in live
    /\ phase \notin {"config", "pidfile", "regex", "vector", "ssl", "unlink"} =>
           Contexts \subseteq live

\* The action thread is in the client only after client_start, and main joins
\* it only when it has left.
ClientInPhase ==
    /\ client_started => /\ phase \notin BeforeServer \cup {"client"}
                         /\ "client" \in live \/ phase \notin {"open", "follow"}
    /\ informing => /\ phase \in {"open", "follow", "client_stop", "threads_stop"}
                    /\ "client" \in live \/ phase \in {"client_stop", "threads_stop"}
    /\ main \in {"destroy", "exit"} => pc["action"] = "dead" /\ ~informing

\* Only a server has workers.
WorkerServed == worker # "none" => CONFIG["server"] = 1 /\ phase \notin BeforeServer

\* No host is known, and no script can run.
Quiet ==
    /\ blocked = {}
    /\ \A h \in Hosts : record[h] = "none"
    /\ \A t \in Threads : todo[t] = {} /\ pc[t] # "script"

\* Before follow() only the server brings offenders.
QuietBefore ==
    /\ phase \in BeforeServer => Quiet
    /\ phase \in BeforeFollow /\ CONFIG["server"] # 1 => Quiet

RecordsGone == main = "exit" => \A h \in Hosts : record[h] = "none"

PidFileOfDaemon == pidfile = "there" => mode = "daemon"

\* How the process may have ended.
Ended ==
    /\ outcome = "ok" => pidfile # "there" /\ blocked \subseteq interrupted \cup skipped
    /\ outcome = "failed" => blocked = {} \/ CONFIG["server"] = 1
    /\ outcome = "assertion" => reading = "abort"
    /\ outcome = "action crash" =>
           "client" \notin live /\ phase \in {"client_stop", "threads_stop"}
    /\ outcome = "detached crash" => main \in {"destroy", "exit"}

PhaseInv ==
    /\ MainInPhase /\ LiveInPhase /\ ClientInPhase /\ WorkerServed /\ QuietBefore
    /\ RecordsGone /\ PidFileOfDaemon /\ Ended

DaemonInv == VectorInv /\ ConfigInv /\ ProcessTypeOK /\ PhaseInv

LEMMA DaemonInvInit == DaemonInit => DaemonInv
<1> SUFFICES ASSUME DaemonInit PROVE DaemonInv
  OBVIOUS
<1>1. VectorInv /\ ConfigInv
  BY VectorInit, ConfigInvInit DEF DaemonInit
<1>2. ProcessTypeOK
  BY DEF DaemonInit, ProcessTypeOK, Phases, Outcomes
<1>3. Quiet
  BY DEF DaemonInit, Init, Quiet
<1>4. /\ phase = "config" /\ outcome = "alive" /\ main = "follow" /\ worker = "none"
      /\ pidfile = "none" /\ ~client_started /\ ~informing
  BY DEF DaemonInit, Init
<1>5. PhaseInv
  BY <1>3, <1>4 DEF PhaseInv, MainInPhase, LiveInPhase, ClientInPhase, WorkerServed,
     QuietBefore, RecordsGone, PidFileOfDaemon, Ended, AfterRecords
<1>6. QED BY <1>1, <1>2, <1>5 DEF DaemonInv

\* Only ReadConfig changes the configuration.
LEMMA DaemonConfigStep ==
    ASSUME ConfigInv, [DaemonNext]_daemonVars
    PROVE  ConfigInv'
<1>1. [config_read]_configVars
  <2>1. CASE ReadConfig
    BY <2>1 DEF ReadConfig
  <2>2. CASE DaemonNext /\ ~ReadConfig
    BY <2>2 DEF DaemonNext, Startup, Stopping, Ending, WritePidFile, regex_prepare,
       records_init, netssl_initialize, InitExclude, signalhandler_setup, threads_start,
       client_start, OpenLog, signalhandler_termination, signalhandler_hup, ThreadsStep,
       ThreadDoes, LeavesClient, WalkerStep, Accept, netssl_server, WorkerAdds, WorkerEnds,
       Follow, LeaveFollow, FreeClient, ClientStopped, DestroyRecord, JoinThread,
       FreeVector, exclude_destroy, netssl_disintegrate, MainExit
  <2>3. CASE UNCHANGED daemonVars
    BY <2>3 DEF daemonVars
  <2>4. QED BY <2>1, <2>2, <2>3
<1>2. QED BY <1>1, ConfigInvStep

\* A step of a thread is one of Shutdown.
LEMMA ThreadStepIsNext ==
    ASSUME NEW t \in Threads, ThreadDoes(t, Works(t) \/ LockVector(t))
    PROVE  Next
  BY DEF ThreadDoes, Works, Next, Loop

\* A step of the process is one of the threads, of the worker, or of neither.
LEMMA DaemonVectorStep ==
    ASSUME VectorInv, [DaemonNext]_daemonVars
    PROVE  VectorInv'
<1>1. \/ [Next]_vars
      \/ \E h \in Hosts : WorkerStores(h)
  <2>1. CASE Startup
    BY <2>1 DEF Startup, ReadConfig, WritePidFile, regex_prepare, records_init,
       netssl_initialize, InitExclude, signalhandler_setup, threads_start, client_start,
       OpenLog
  <2>2. CASE signalhandler_termination \/ signalhandler_hup \/ LeavesClient \/ Accept
             \/ netssl_server \/ WorkerEnds
    BY <2>2 DEF signalhandler_termination, signalhandler_hup, LeavesClient, Accept,
       netssl_server, WorkerEnds
  <2>3. CASE ThreadsStep
    BY <2>3, ThreadStepIsNext DEF ThreadsStep
  <2>4. CASE WalkerStep
    BY <2>4 DEF WalkerStep, Next
  <2>5. ASSUME NEW h \in Hosts, WorkerAdds(h)
        PROVE  UNCHANGED vars \/ WorkerStores(h)
    BY <2>5 DEF WorkerAdds, WorkerStores, vars
  <2>6. CASE Follow \/ Stopping \/ (\E t \in Threads : JoinThread(t)) \/ FreeVector
    BY <2>6 DEF Follow, Stopping, LeaveFollow, FreeClient, ClientStopped, DestroyRecord,
       JoinThread, FreeVector, Next
  <2>7. CASE exclude_destroy \/ netssl_disintegrate \/ MainExit
    BY <2>7 DEF exclude_destroy, netssl_disintegrate, MainExit
  <2>8. CASE UNCHANGED daemonVars
    BY <2>8 DEF daemonVars
  <2>9. QED BY <2>1, <2>2, <2>3, <2>4, <2>5, <2>6, <2>7, <2>8 DEF DaemonNext, Ending
<1>2. QED BY <1>1, ShutdownStep, WorkerStoresStep

\* config_read: nothing else runs yet.
LEMMA ReadConfigStep ==
    ASSUME DaemonInv, ReadConfig
    PROVE  ProcessTypeOK' /\ PhaseInv'
<1> USE DEF DaemonInv, PhaseInv
<1>1. /\ phase = "config" /\ outcome = "alive"
      /\ phase' \in {"config", "pidfile"}
      /\ outcome' = "alive" \/ outcome' = "failed"
         \/ (outcome' = "assertion" /\ reading' = "abort")
      /\ UNCHANGED <<mode, pidfile, live, stop, client_started, informing, worker, vars>>
  BY DEF ReadConfig, clientVars
<1>2. ProcessTypeOK'
  BY <1>1 DEF ProcessTypeOK, Phases, Outcomes
<1>3. Quiet /\ main = "follow" /\ worker = "none" /\ ~client_started /\ ~informing
  BY <1>1 DEF QuietBefore, MainInPhase, BeforeFollow, BeforeServer, WorkerServed,
     ClientInPhase
<1>4. Quiet' /\ main' = "follow" /\ worker' = "none" /\ ~client_started' /\ ~informing'
  BY <1>1, <1>3 DEF Quiet, vars, scripts
<1>5. /\ MainInPhase' /\ LiveInPhase' /\ ClientInPhase' /\ WorkerServed' /\ QuietBefore'
  BY <1>1, <1>4 DEF MainInPhase, AfterRecords, LiveInPhase, ClientInPhase, WorkerServed,
     QuietBefore
<1>6. RecordsGone' /\ PidFileOfDaemon' /\ Ended'
  BY <1>1, <1>4 DEF RecordsGone, PidFileOfDaemon, Ended, Quiet
<1>7. QED BY <1>2, <1>5, <1>6

\* The other steps of main up to follow(): one phase, or the end of the process.
LEMMA StartupStep ==
    ASSUME DaemonInv, Startup, ~ReadConfig
    PROVE  ProcessTypeOK' /\ PhaseInv'
<1> USE DEF DaemonInv, PhaseInv
<1>1. /\ outcome = "alive"
      /\ UNCHANGED <<mode, stop, informing, worker, configVars, vars>>
  BY DEF Startup, WritePidFile, regex_prepare, records_init, netssl_initialize, InitExclude,
     signalhandler_setup, threads_start, client_start, OpenLog, clientVars, Goes, Fails
<1>2. Contexts' = Contexts /\ (Quiet <=> Quiet') /\ main' = main /\ CONFIG' = CONFIG
      /\ blocked' = blocked /\ reading' = reading /\ record' = record
      /\ interrupted' = interrupted /\ skipped' = skipped /\ pc' = pc
  BY <1>1 DEF Contexts, ContextOf, Roles, Quiet, vars, scripts, configVars
<1>3. \/ /\ phase = "pidfile" /\ phase' \in {"pidfile", "regex"}
         /\ pidfile' = pidfile \/ pidfile' = "none" \/ (pidfile' = "there" /\ mode = "daemon")
         /\ live' = live /\ client_started' = client_started
         /\ outcome' \in {"alive", "failed"}
      \/ /\ phase = "regex" /\ phase' = "vector" /\ outcome' = "alive"
         /\ pidfile' = pidfile /\ live' = live \cup {"regex"}
         /\ client_started' = client_started
      \/ /\ phase = "regex" /\ phase' = phase
         /\ outcome' = "failed" \/ (outcome' = "ok" /\ mode = "test")
         /\ pidfile' = pidfile /\ live' = live /\ client_started' = client_started
      \/ /\ phase = "vector" /\ phase' = "ssl" /\ outcome' = "alive"
         /\ pidfile' = pidfile /\ live' = live \cup {"vector"}
         /\ client_started' = client_started
      \/ /\ phase = "ssl" /\ phase' = "exclude" /\ outcome' = "alive"
         /\ pidfile' = pidfile /\ live' = live \cup Contexts
         /\ client_started' = client_started
      \/ /\ phase = "exclude" /\ phase' = "handlers" /\ outcome' = "alive"
         /\ pidfile' = pidfile /\ live' = live \cup {"exclude"}
         /\ client_started' = client_started
      \/ /\ phase \in {"handlers", "action_thread", "maintenance_thread", "server_thread",
                       "client", "open"}
         /\ phase = "handlers" => phase' = "action_thread"
         /\ phase = "action_thread" => phase' = "maintenance_thread"
         /\ phase = "maintenance_thread" => phase' = "server_thread"
         /\ phase = "server_thread" => phase' = "client"
         /\ phase = "client" => phase' = "open"
         /\ phase = "open" => phase' = "follow"
         /\ outcome' = "alive" /\ pidfile' = pidfile
         /\ \/ live' = live /\ client_started' = client_started
            \/ phase = "client" /\ live' = live \cup {"client"} /\ client_started' = TRUE
      \/ /\ phase \in {"ssl", "action_thread", "maintenance_thread", "server_thread",
                       "client", "open"}
         /\ phase' = phase /\ outcome' = "failed"
         /\ pidfile' = pidfile /\ live' = live /\ client_started' = client_started
  <2>1. CASE WritePidFile
    BY <2>1 DEF WritePidFile, Goes, Fails, clientVars
  <2>2. CASE regex_prepare
    BY <2>2 DEF regex_prepare, Goes, Fails, clientVars
  <2>3. CASE netssl_initialize
    BY <2>3 DEF netssl_initialize, Goes, Fails, Contexts, clientVars
  <2>4. CASE records_init \/ InitExclude
    BY <2>4 DEF records_init, InitExclude, Goes, clientVars
  <2>5. CASE signalhandler_setup \/ threads_start \/ OpenLog
    BY <2>5 DEF signalhandler_setup, threads_start, OpenLog, Goes, Fails, clientVars
  <2>6. CASE client_start
    BY <2>6 DEF client_start, Goes, Fails
  <2>7. QED BY <2>1, <2>2, <2>3, <2>4, <2>5, <2>6 DEF Startup
<1>4. Contexts \subseteq Shared
  BY DEF Contexts, ContextOf, Shared
<1>5. ProcessTypeOK'
  <2>1. ProcessTypeOK
    OBVIOUS
  <2>2. phase' \in Phases
    BY <1>3, <2>1 DEF ProcessTypeOK, Phases
  <2>3. outcome' \in Outcomes
    BY <1>3 DEF Outcomes
  <2>4. pidfile' \in {"none", "there", "left"}
    BY <1>3, <2>1 DEF ProcessTypeOK
  <2>5. live' \subseteq Shared
    <3>1. live \subseteq Shared /\ {"regex", "vector", "exclude", "client"} \subseteq Shared
      BY <2>1 DEF ProcessTypeOK, Shared
    <3>2. \/ live' = live
          \/ \E S \in SUBSET Shared : live' = live \cup S
      <4>1. \/ live' = live \/ live' = live \cup Contexts
            \/ \E x \in {"regex", "vector", "exclude", "client"} : live' = live \cup {x}
        BY <1>3
      <4>2. QED BY <1>4, <3>1, <4>1
    <3>3. QED BY <3>1, <3>2
  <2>6. client_started' \in BOOLEAN
    BY <1>3, <2>1 DEF ProcessTypeOK
  <2>7. QED BY <1>1, <2>1, <2>2, <2>3, <2>4, <2>5, <2>6 DEF ProcessTypeOK
<1>6. phase \in BeforeFollow /\ main = "follow"
  BY <1>3 DEF BeforeFollow, BeforeServer, MainInPhase
<1>7. MainInPhase'
  BY <1>2, <1>3, <1>6 DEF MainInPhase, BeforeFollow, BeforeServer, AfterRecords
<1>8. LiveInPhase'
  BY <1>2, <1>3 DEF LiveInPhase, AfterRecords
<1>9. WorkerServed' /\ ClientInPhase'
  <2>1. WorkerServed'
    BY <1>1, <1>2, <1>3 DEF WorkerServed, BeforeServer
  <2>2. informing' = informing /\ live \subseteq live'
    BY <1>1, <1>3
  <2>3. ClientInPhase'
    BY <1>2, <1>3, <1>6, <2>2 DEF ClientInPhase, BeforeServer
  <2>4. QED BY <2>1, <2>3
<1>10. QuietBefore'
  BY <1>2, <1>3 DEF QuietBefore, BeforeFollow, BeforeServer
<1>11. RecordsGone' /\ PidFileOfDaemon'
  BY <1>1, <1>2, <1>3, <1>6 DEF RecordsGone, PidFileOfDaemon
<1>12. Ended'
  <2>1. outcome' = "failed" => blocked' = {} \/ CONFIG'["server"] = 1
    BY <1>2, <1>6 DEF QuietBefore, Quiet
  <2>2. ASSUME outcome' = "ok"
        PROVE  pidfile' # "there" /\ blocked' = {}
    <3>1. phase = "regex" /\ mode = "test" /\ pidfile' = pidfile
      BY <1>3, <2>2
    <3>2. QED BY <1>2, <3>1 DEF QuietBefore, Quiet, BeforeServer, PidFileOfDaemon
  <2>3. outcome' \in {"alive", "failed", "ok"}
    BY <1>3
  <2>4. QED BY <2>1, <2>2, <2>3 DEF Ended
<1>13. QED BY <1>5, <1>7, <1>8, <1>9, <1>10, <1>11, <1>12

\* A thread without records finds none.
LEMMA QuietStays ==
    ASSUME VectorInv, Quiet, NEW t \in Threads, Works(t) \/ LockVector(t)
    PROVE  Quiet'
<1> USE DEF VectorInv
<1>1. Wake(t) \/ UnlockVector(t) \/ LockVector(t)
  <2>1. \A h \in Hosts : ~ActionVisit(h) /\ ~MaintenanceVisit(h)
    BY Apart DEF Quiet, ActionVisit, MaintenanceVisit
  <2>2. ~ActionScriptDone /\ ~MaintenanceScriptDone
    BY Apart DEF Quiet, ActionScriptDone, MaintenanceScriptDone
  <2>3. QED BY <2>1, <2>2 DEF Works
<1>2. Known = {}
  BY DEF Quiet, Known
<1>3. /\ UNCHANGED <<blocked, record>>
      /\ todo' = todo \/ todo' = [todo EXCEPT ![t] = {}]
      /\ \E place \in {"sleep", "lock", "walk"} : pc' = [pc EXCEPT ![t] = place]
  BY <1>1, <1>2 DEF Wake, LockVector, UnlockVector, Goto, scripts
<1>4. QED BY <1>3 DEF Quiet, TypeOK

\* The action and the maintenance thread.
LEMMA ThreadsStepKeeps ==
    ASSUME DaemonInv, ThreadsStep
    PROVE  ProcessTypeOK' /\ PhaseInv'
<1> USE DEF DaemonInv, PhaseInv
<1>0. PICK t \in Threads : ThreadDoes(t, Works(t) \/ LockVector(t))
  BY DEF ThreadsStep
<1>1. /\ outcome = "alive"
      /\ phase \in {"maintenance_thread", "server_thread", "client", "open", "follow",
                    "client_stop", "threads_stop"}
      /\ UNCHANGED <<mode, phase, outcome, pidfile, live, stop, client_started, worker>>
      /\ UNCHANGED <<CONFIG, reading>>
      /\ Works(t) \/ LockVector(t)
      /\ \/ informing' = informing
         \/ informing' = TRUE /\ client_started /\ t = "action" /\ pc[t] = "walk"
  BY <1>0 DEF ThreadDoes, Runs, Exists, configVars
<1>2. /\ main' = main
      /\ pc[t] \in {"sleep", "lock", "walk", "script"}
      /\ \A u \in Threads : u # t => pc'[u] = pc[u]
  <2>1. CASE Wake(t) \/ UnlockVector(t) \/ LockVector(t)
    BY <2>1 DEF Wake, LockVector, UnlockVector, Goto, VectorInv, TypeOK
  <2>2. CASE t = "action" /\ (ActionScriptDone \/ \E h \in Hosts : ActionVisit(h))
    BY <2>2 DEF ActionVisit, ActionScriptDone, Goto, VectorInv, TypeOK
  <2>3. CASE t = "maintenance"
             /\ (MaintenanceScriptDone \/ \E h \in Hosts : MaintenanceVisit(h))
    BY <2>3 DEF MaintenanceVisit, MaintenanceScriptDone, Goto, VectorInv, TypeOK
  <2>4. QED BY <1>1, <2>1, <2>2, <2>3 DEF Works
<1>3. Contexts' = Contexts
  BY <1>1 DEF Contexts, ContextOf, Roles
<1>4. ProcessTypeOK'
  BY <1>1 DEF ProcessTypeOK
<1>5. MainInPhase' /\ LiveInPhase' /\ WorkerServed'
  BY <1>1, <1>2, <1>3 DEF MainInPhase, LiveInPhase, WorkerServed
<1>6. QuietBefore'
  BY <1>1, QuietStays DEF QuietBefore
<1>7. main # "exit"
  BY <1>1 DEF MainInPhase, BeforeFollow, BeforeServer
<1>8. RecordsGone' /\ PidFileOfDaemon' /\ Ended'
  BY <1>1, <1>2, <1>7 DEF RecordsGone, PidFileOfDaemon, Ended
<1>9. ClientInPhase'
  <2>1. main \in {"destroy", "exit"} => t = "maintenance"
    BY <1>2 DEF ClientInPhase, Threads
  <2>2. main' \in {"destroy", "exit"} => pc'["action"] = "dead" /\ ~informing'
    BY <1>1, <1>2, <2>1, Apart DEF ClientInPhase
  <2>3. CASE informing' = informing
    BY <1>1, <2>2, <2>3 DEF ClientInPhase
  <2>4. CASE informing' = TRUE /\ client_started
    BY <1>1, <2>2, <2>4 DEF ClientInPhase, BeforeServer
  <2>5. QED BY <1>1, <2>3, <2>4
<1>10. QED BY <1>4, <1>5, <1>6, <1>8, <1>9

\* Steps that leave the records, the threads and main alone: signals, the
\* walkers, the worker before the records, and the action thread in the client.
LEMMA AsideStep ==
    ASSUME DaemonInv, outcome = "alive",
           outcome' \in {"alive", "killed", "action crash", "detached crash"},
           outcome' = "detached crash" => main = "exit",
           outcome' = "action crash" => "client" \notin live /\ informing,
           worker' \in {"none", "handshake", "session"}, stop' \in BOOLEAN,
           worker' # "none" => CONFIG["server"] = 1 /\ phase \notin BeforeServer,
           \A t \in Threads : pc'[t] = pc[t],
           informing' \in {informing, FALSE},
           UNCHANGED <<mode, phase, pidfile, live, client_started, configVars, record,
                       scripts, todo, main>>
    PROVE  ProcessTypeOK' /\ PhaseInv'
<1> USE DEF DaemonInv, PhaseInv
<1>1. CONFIG' = CONFIG /\ Contexts' = Contexts /\ reading' = reading
      /\ UNCHANGED <<blocked, interrupted, skipped>>
  BY DEF Contexts, ContextOf, Roles, configVars, scripts
<1>2. Quiet => Quiet'
  BY <1>1 DEF Quiet
<1>3. ProcessTypeOK'
  BY DEF ProcessTypeOK, Outcomes
<1>4. MainInPhase' /\ LiveInPhase' /\ WorkerServed'
  BY <1>1 DEF MainInPhase, LiveInPhase, WorkerServed
<1>5. QuietBefore'
  BY <1>1, <1>2 DEF QuietBefore
<1>6. RecordsGone' /\ PidFileOfDaemon'
  BY DEF RecordsGone, PidFileOfDaemon
<1>7. ClientInPhase'
  <2>1. informing' => informing
    BY DEF ProcessTypeOK
  <2>2. pc'["action"] = pc["action"]
    BY Apart
  <2>3. QED BY <2>1, <2>2 DEF ClientInPhase
<1>8. Ended'
  BY <1>1 DEF Ended, ClientInPhase
<1>9. QED BY <1>3, <1>4, <1>5, <1>6, <1>7, <1>8

\* What has been freed was freed at the end of the stop.
LEMMA FreedLate ==
    ASSUME DaemonInv, HandlersSet
    PROVE  /\ "vector" \notin live => main = "exit"
           /\ "exclude" \notin live => main = "exit"
           /\ ~(Contexts \subseteq live) => main = "exit"
  BY DEF DaemonInv, PhaseInv, LiveInPhase, MainInPhase, AfterRecords, HandlersSet,
     ProcessTypeOK, Phases

\* The signal handlers, and the threads they start.
LEMMA SignalStep ==
    ASSUME DaemonInv, signalhandler_termination \/ signalhandler_hup \/ WalkerStep
    PROVE  ProcessTypeOK' /\ PhaseInv'
<1> USE DEF DaemonInv
<1>0. worker # "none" => CONFIG["server"] = 1 /\ phase \notin BeforeServer
  BY DEF PhaseInv, WorkerServed
<1>1. CASE signalhandler_termination
  <2>1. stop' \in BOOLEAN /\ outcome' \in {"alive", "killed"}
    BY <1>1 DEF signalhandler_termination, ProcessTypeOK
  <2>2. QED BY <1>0, <1>1, <2>1, AsideStep DEF signalhandler_termination, vars, clientVars,
               ProcessTypeOK
<1>2. CASE signalhandler_hup
  <2>1. outcome' \in {"alive", "detached crash"}
        /\ (outcome' = "detached crash" => main = "exit")
    BY <1>2, FreedLate DEF signalhandler_hup, Uses
  <2>2. QED BY <1>0, <1>2, <2>1, AsideStep DEF signalhandler_hup, vars, clientVars,
               ProcessTypeOK
<1>3. CASE WalkerStep
  <2>1. outcome' \in {"alive", "detached crash"}
        /\ (outcome' = "detached crash" => main = "exit")
    BY <1>3, FreedLate DEF WalkerStep, Uses
  <2>2. PICK w \in Walkers : Wake(w) \/ WalkerLock(w) \/ WalkerWalk(w)
    BY <1>3 DEF WalkerStep
  <2>3. /\ UNCHANGED <<record, scripts, todo, main>>
        /\ \E place \in {"lock", "walk", "dead"} : pc' = [pc EXCEPT ![w] = place]
    BY <2>2 DEF Wake, WalkerLock, WalkerWalk, Goto
  <2>4. \A t \in Threads : pc'[t] = pc[t]
    BY <2>3, Apart DEF VectorInv, TypeOK
  <2>5. QED BY <1>0, <1>3, <2>1, <2>3, <2>4, AsideStep DEF WalkerStep, clientVars,
               ProcessTypeOK
<1>4. QED BY <1>1, <1>2, <1>3

\* The action thread in the client.
LEMMA LeavesClientStep ==
    ASSUME DaemonInv, LeavesClient
    PROVE  ProcessTypeOK' /\ PhaseInv'
<1>1. /\ outcome = "alive" /\ informing /\ informing' = FALSE
      /\ outcome' \in {"alive", "action crash"}
      /\ outcome' = "action crash" => "client" \notin live
  BY DEF LeavesClient, Uses
<1>2. worker # "none" => CONFIG["server"] = 1 /\ phase \notin BeforeServer
  BY DEF DaemonInv, PhaseInv, WorkerServed
<1>3. QED BY <1>1, <1>2, AsideStep DEF LeavesClient, vars, DaemonInv, ProcessTypeOK

\* The worker of the server, from accept to its end.
LEMMA WorkerStep ==
    ASSUME DaemonInv,
           Accept \/ netssl_server \/ WorkerEnds \/ \E h \in Hosts : WorkerAdds(h)
    PROVE  ProcessTypeOK' /\ PhaseInv'
<1> USE DEF DaemonInv
<1>0. worker # "none" => CONFIG["server"] = 1 /\ phase \notin BeforeServer
  BY DEF PhaseInv, WorkerServed
<1>1. CASE Accept
  <2>1. /\ worker' = "handshake" /\ CONFIG["server"] = 1 /\ phase \notin BeforeServer
        /\ outcome = "alive" /\ outcome' = "alive"
    BY <1>1 DEF Accept, BeforeServer
  <2>2. QED BY <1>1, <2>1, AsideStep DEF Accept, vars, clientVars, ProcessTypeOK
<1>2. CASE netssl_server
  <2>1. /\ worker = "handshake" /\ worker' \in {"none", "handshake", "session"}
        /\ outcome = "alive" /\ outcome' \in {"alive", "detached crash"}
        /\ outcome' = "detached crash" => "server_ctx" \notin live
    BY <1>2 DEF netssl_server
  <2>2. HandlersSet /\ "server_ctx" \in Contexts
    <3>1. CONFIG["server"] = 1 /\ phase \notin BeforeServer
      BY <1>0, <2>1
    <3>2. "server" \in Roles /\ ContextOf("server") = "server_ctx"
      BY <3>1 DEF Roles, ContextOf
    <3>3. QED BY <3>1, <3>2 DEF HandlersSet, BeforeServer, Contexts
  <2>3. outcome' = "detached crash" => main = "exit"
    BY <2>1, <2>2, FreedLate
  <2>4. QED BY <1>0, <1>2, <2>1, <2>3, AsideStep DEF netssl_server, vars, clientVars,
               ProcessTypeOK
<1>3. CASE WorkerEnds
  BY <1>3, AsideStep DEF WorkerEnds, vars, clientVars, ProcessTypeOK
<1>4. ASSUME NEW h \in Hosts, WorkerAdds(h)
      PROVE  ProcessTypeOK' /\ PhaseInv'
  <2> USE DEF PhaseInv
  <2>1. /\ outcome = "alive" /\ worker = "session"
        /\ outcome' \in {"alive", "detached crash"}
        /\ outcome' = "detached crash" => main \in {"destroy", "exit"}
        /\ main = "exit" => record' = record
        /\ UNCHANGED <<mode, phase, pidfile, live, stop, client_started, informing, worker,
                       CONFIG, reading, blocked, interrupted, skipped, pc, main>>
    BY <1>4 DEF WorkerAdds, configVars, clientVars, scripts
  <2>2. Contexts' = Contexts
    BY <2>1 DEF Contexts, ContextOf, Roles
  <2>3. CONFIG["server"] = 1 /\ phase \notin BeforeServer
    BY <1>0, <2>1
  <2>4. ProcessTypeOK' /\ MainInPhase' /\ LiveInPhase' /\ ClientInPhase' /\ WorkerServed'
    <3>1. ProcessTypeOK'
      BY <2>1 DEF ProcessTypeOK, Outcomes
    <3>2. MainInPhase' /\ ClientInPhase' /\ WorkerServed'
      BY <2>1 DEF MainInPhase, ClientInPhase, WorkerServed
    <3>3. LiveInPhase'
      BY <2>1, <2>2 DEF LiveInPhase
    <3>4. QED BY <3>1, <3>2, <3>3
  <2>5. QuietBefore'
    BY <2>1, <2>3 DEF QuietBefore
  <2>6. RecordsGone' /\ PidFileOfDaemon' /\ Ended'
    BY <2>1 DEF RecordsGone, PidFileOfDaemon, Ended
  <2>7. QED BY <2>4, <2>5, <2>6
<1>5. QED BY <1>1, <1>2, <1>3, <1>4

\* main from follow() to the end of records_destroy.
LEMMA FollowStep ==
    ASSUME DaemonInv, Follow \/ Stopping \/ \E t \in Threads : JoinThread(t)
    PROVE  ProcessTypeOK' /\ PhaseInv'
<1> USE DEF DaemonInv, PhaseInv
<1>1. /\ outcome = "alive" /\ outcome' = outcome /\ stop' \in BOOLEAN
      /\ UNCHANGED <<mode, pidfile, informing, worker, CONFIG, reading>>
      /\ live' \in {live, live \ {"client"}}
      /\ client_started' \in {client_started, FALSE}
      /\ phase \in {"follow", "client_stop", "threads_stop"}
      /\ phase' \in {"follow", "client_stop", "threads_stop"}
      /\ phase = "follow" => live' = live
      /\ phase # "follow" => phase' # "follow"
  BY DEF Follow, Stopping, LeaveFollow, FreeClient, ClientStopped, DestroyRecord, JoinThread,
     Goes, processVars, clientVars, configVars, ProcessTypeOK
<1>2. Contexts' = Contexts /\ "client" \notin Contexts
  BY <1>1 DEF Contexts, ContextOf, Roles
<1>3. /\ main' # "exit"
      /\ phase' \in {"follow", "client_stop"} => main' = "follow"
      /\ \/ main' \notin {"destroy", "exit"}
         \/ main \in {"destroy", "exit"} /\ pc' = pc
         \/ pc'["action"] = "dead" /\ ~informing
  <2>1. /\ phase \in {"follow", "client_stop"} => main = "follow"
        /\ main # "exit"
    BY <1>1 DEF MainInPhase, BeforeFollow
  <2>2. CASE Follow
    BY <2>1, <2>2 DEF Follow, Offends, processVars
  <2>3. CASE LeaveFollow
    BY <2>1, <2>3 DEF LeaveFollow, BeginStop, Goes, vars
  <2>4. CASE FreeClient
    BY <2>1, <2>4 DEF FreeClient, vars
  <2>5. CASE ClientStopped
    BY <2>5 DEF ClientStopped, BeginStop, Goes
  <2>6. CASE DestroyRecord
    BY <2>1, <2>6 DEF DestroyRecord, Destroy, processVars
  <2>7. ASSUME NEW t \in Threads, JoinThread(t)
        PROVE  <1>3!:
    BY <2>7, Apart DEF JoinThread, Cancelled, Ends, Goto, processVars, VectorInv, TypeOK
  <2>8. QED BY <2>2, <2>3, <2>4, <2>5, <2>6, <2>7 DEF Stopping
<1>4. ProcessTypeOK'
  BY <1>1 DEF ProcessTypeOK, Phases
<1>5. MainInPhase' /\ WorkerServed' /\ QuietBefore'
  BY <1>1, <1>3 DEF MainInPhase, WorkerServed, QuietBefore, BeforeFollow, BeforeServer,
     AfterRecords
<1>6. LiveInPhase'
  BY <1>1, <1>2 DEF LiveInPhase, AfterRecords
<1>7. ClientInPhase'
  <2>1. client_started' => client_started
    BY <1>1 DEF ProcessTypeOK
  <2>2. phase' = "follow" => phase = "follow" /\ live' = live
    BY <1>1
  <2>3. main' \in {"destroy", "exit"} => pc'["action"] = "dead" /\ ~informing'
    BY <1>1, <1>3 DEF ClientInPhase
  <2>4. QED BY <1>1, <2>1, <2>2, <2>3 DEF ClientInPhase, BeforeServer
<1>8. RecordsGone' /\ PidFileOfDaemon' /\ Ended'
  BY <1>1, <1>3 DEF RecordsGone, PidFileOfDaemon, Ended
<1>9. QED BY <1>4, <1>5, <1>6, <1>7, <1>8

\* main after records_destroy.
LEMMA EndingStep ==
    ASSUME DaemonInv, Ending
    PROVE  ProcessTypeOK' /\ PhaseInv'
<1> USE DEF DaemonInv, PhaseInv
<1>1. /\ outcome = "alive" /\ outcome' \in {"alive", "ok"}
      /\ UNCHANGED <<mode, stop, client_started, informing, worker, CONFIG, reading, record,
                     blocked, interrupted, skipped, pc>>
      /\ main \in {"destroy", "exit"} /\ main' = "exit" /\ live' \subseteq live
      /\ \A h \in Hosts : record[h] = "none"
      /\ \/ /\ phase = "threads_stop" /\ phase' = "exclude_destroy" /\ outcome' = "alive"
            /\ live' = live \ {"vector"} /\ pidfile' = pidfile
         \/ /\ phase = "exclude_destroy" /\ phase' = "disintegrate" /\ outcome' = "alive"
            /\ live' = live \ {"exclude"} /\ pidfile' = pidfile
         \/ /\ phase = "disintegrate" /\ phase' = "unlink" /\ outcome' = "alive"
            /\ pidfile' = pidfile
         \/ /\ phase = "unlink" /\ phase' = phase /\ outcome' = "ok"
            /\ \/ mode = "daemon" /\ pidfile' \in {"none", "left"}
               \/ mode # "daemon" /\ pidfile' = pidfile
  <2>1. CASE FreeVector
    BY <2>1 DEF FreeVector, Goes, Exit, Known, configVars, clientVars, scripts
  <2>2. CASE exclude_destroy \/ netssl_disintegrate
    BY <2>2 DEF exclude_destroy, netssl_disintegrate, Goes, configVars, clientVars, vars,
       scripts, MainInPhase, AfterRecords, RecordsGone
  <2>3. CASE MainExit
    BY <2>3 DEF MainExit, configVars, clientVars, vars, scripts, MainInPhase, AfterRecords,
       RecordsGone
  <2>4. QED BY <2>1, <2>2, <2>3 DEF Ending
<1>2. Contexts' = Contexts /\ Contexts \subseteq {"client_ctx", "server_ctx"}
  BY <1>1 DEF Contexts, ContextOf, Roles
<1>3. ProcessTypeOK'
  BY <1>1 DEF ProcessTypeOK, Phases, Outcomes
<1>4. MainInPhase' /\ QuietBefore' /\ WorkerServed' /\ ClientInPhase'
  BY <1>1 DEF MainInPhase, QuietBefore, WorkerServed, ClientInPhase, BeforeFollow,
     BeforeServer
<1>5. LiveInPhase'
  BY <1>1, <1>2 DEF LiveInPhase, AfterRecords
<1>6. RecordsGone' /\ PidFileOfDaemon'
  BY <1>1 DEF RecordsGone, PidFileOfDaemon
<1>7. Ended'
  <2>1. blocked \subseteq interrupted \cup skipped
    BY <1>1 DEF VectorInv, BlockedAccounted, TypeOK
  <2>2. QED BY <1>1, <2>1 DEF Ended, PidFileOfDaemon
<1>8. QED BY <1>3, <1>4, <1>5, <1>6, <1>7

\* The inductive invariant of the process.
LEMMA DaemonInvariant == DaemonSpec => []DaemonInv
<1>1. DaemonInv /\ [DaemonNext]_daemonVars => DaemonInv'
  <2> SUFFICES ASSUME DaemonInv, [DaemonNext]_daemonVars PROVE DaemonInv'
    OBVIOUS
  <2>1. VectorInv' /\ ConfigInv'
    BY DaemonVectorStep, DaemonConfigStep DEF DaemonInv
  <2>2. CASE DaemonNext
    <3>1. ProcessTypeOK' /\ PhaseInv'
      BY <2>2, ReadConfigStep, StartupStep, SignalStep, ThreadsStepKeeps, LeavesClientStep,
         WorkerStep, FollowStep, EndingStep DEF DaemonNext
    <3>2. QED BY <2>1, <3>1 DEF DaemonInv
  <2>3. CASE UNCHANGED daemonVars
    <3>1. /\ UNCHANGED <<mode, phase, outcome, pidfile, live, stop, client_started, informing,
                         worker>>
          /\ UNCHANGED <<CONFIG, reading>>
          /\ UNCHANGED <<record, blocked, interrupted, skipped, pc, todo, main>>
      BY <2>3 DEF daemonVars, processVars, clientVars, configVars, vars, scripts
    <3>2. ProcessTypeOK' /\ PhaseInv'
      <4>1. ProcessTypeOK'
        BY <3>1 DEF DaemonInv, ProcessTypeOK
      <4>2. MainInPhase' /\ ClientInPhase' /\ WorkerServed'
        BY <3>1 DEF DaemonInv, PhaseInv, MainInPhase, ClientInPhase, WorkerServed
      <4>3. LiveInPhase'
        <5>1. Contexts' = Contexts
          BY <3>1 DEF Contexts, ContextOf, Roles
        <5>2. QED BY <3>1, <5>1 DEF DaemonInv, PhaseInv, LiveInPhase
      <4>4. QuietBefore' /\ RecordsGone' /\ PidFileOfDaemon'
        BY <3>1 DEF DaemonInv, PhaseInv, QuietBefore, Quiet, RecordsGone, PidFileOfDaemon
      <4>5. Ended'
        BY <3>1 DEF DaemonInv, PhaseInv, Ended
      <4>6. QED BY <4>1, <4>2, <4>3, <4>4, <4>5 DEF PhaseInv
    <3>3. QED BY <2>1, <3>2 DEF DaemonInv
  <2>4. QED BY <2>2, <2>3
<1>2. QED BY <1>1, DaemonInvInit, PTL DEF DaemonSpec

-----------------------------------------------------------------------------
(* Theorems *)

\* The variables of the process keep their types.
THEOREM DaemonTypes == DaemonSpec => []DaemonTypeOK
<1>1. DaemonInv => DaemonTypeOK
  BY DEF DaemonInv, VectorInv, ConfigInv, ProcessTypeOK, DaemonTypeOK
<1>2. QED BY <1>1, DaemonInvariant, PTL

\* In the whole process, too, one thread at a time is in the vector.
THEOREM DaemonOneInVector == DaemonSpec => []OneInVector
<1>1. DaemonInv => OneInVector
  BY DEF DaemonInv, VectorInv
<1>2. QED BY <1>1, DaemonInvariant, PTL

\* The options that main and the threads run with are sound, for every file.
THEOREM DaemonConfigSound == DaemonSpec => []ConfigSound
<1>1. ConfigInv => ConfigSound
  BY DEF ConfigInv, ConfigSound, Typed, Sane, ListOption
<1>2. QED BY <1>1, DaemonInvariant, PTL DEF DaemonInv

\* main initialises each part before anyone uses it and frees it after everyone
\* it waits for has ended, save the batch and the queues of the client, which
\* client_stop frees under the action thread (main.c).
THEOREM NothingUsedTooEarlyOrLateHolds == DaemonSpec => []NothingUsedTooEarlyOrLate
<1>1. ASSUME DaemonInv
      PROVE  NothingUsedTooEarlyOrLate
  <2>1. \A t \in Threads : Exists(t) => "vector" \in live
    BY <1>1 DEF DaemonInv, PhaseInv, LiveInPhase, Exists, AfterRecords
  <2>2. phase \in {"client", "open", "follow", "client_stop"} =>
            {"regex", "vector", "exclude"} \cup Contexts \subseteq live
    BY <1>1 DEF DaemonInv, PhaseInv, LiveInPhase, AfterRecords
  <2>3. informing => "client" \in live \/ phase \in {"client_stop", "threads_stop"}
    BY <1>1 DEF DaemonInv, PhaseInv, ClientInPhase
  <2>4. QED BY <1>1, <2>1, <2>2, <2>3 DEF DaemonInv, PhaseInv, Ended, Contexts,
                                          NothingUsedTooEarlyOrLate
<1>2. QED BY <1>1, DaemonInvariant, PTL

\* A process that ends with 0 has tried to remove its pid file and leaves no host
\* blocked, save where a script was killed or could not be run (main.c,
\* records_destroy, _do_action).
THEOREM CleanExitHolds == DaemonSpec => []CleanExit
<1>1. DaemonInv => CleanExit
  BY DEF DaemonInv, PhaseInv, Ended, CleanExit
<1>2. QED BY <1>1, DaemonInvariant, PTL
=============================================================================
