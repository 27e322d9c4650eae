------------------------------ MODULE Shutdown ------------------------------
(***************************************************************************)
(* How the daemon stops: main leaves follow(), threads_stop cancels and    *)
(* joins the maintenance thread and then the action thread, and            *)
(* records_destroy calls the script for every host acted upon.             *)
(*                                                                         *)
(* A thread holds vector_mutex while it runs the action script, and        *)
(* system() is a cancellation point; pthread_mutex_lock is none.  What the *)
(* scripts have done is kept in blocked.  _do_action tells nobody when the *)
(* script could not be run.  client_stop and the end of the server thread, *)
(* which come first, are in ClientQueue and Server.                        *)
(***************************************************************************)
EXTENDS Naturals, FiniteSets

CONSTANTS
    Hosts,      \* offenders
    Walkers,    \* detached threads that walk the vector (SIGUSR1 and SIGUSR2)
    MayPurge    \* records expire, or SIGUSR2 marks them, before the stop

ASSUME ShutdownConfig == /\ IsFiniteSet(Hosts)
                         /\ MayPurge \in BOOLEAN

Threads == {"action", "maintenance"}

ASSUME WalkersAreOthers == Walkers \cap (Threads \cup {"none"}) = {}

VARIABLES
    record,        \* per host: no record, unprocessed, processed
    marked,        \* hosts whose remove flag is set
    blocked,       \* hosts the script has been called for with new, not remove
    interrupted,   \* hosts whose script was killed when its thread ended
    skipped,       \* hosts left blocked, as no script could be run with remove
    vector_mutex,  \* the owner, or "none"
    pc,            \* per thread and walker: where it is
    todo,          \* per thread: the hosts its walk has still to visit
    host,          \* per thread: the host its script runs for
    main           \* where main is

scripts == <<blocked, interrupted, skipped>>
vars == <<record, marked, scripts, vector_mutex, pc, todo, host, main>>

TypeOK ==
    /\ record \in [Hosts -> {"none", "new", "processed"}]
    /\ marked \subseteq Hosts
    /\ blocked \subseteq Hosts
    /\ interrupted \subseteq Hosts
    /\ skipped \subseteq Hosts
    /\ vector_mutex \in Threads \cup Walkers \cup {"none"}
    /\ pc \in [Threads \cup Walkers -> {"sleep", "lock", "walk", "script", "dead"}]
    /\ todo \in [Threads -> SUBSET Hosts]
    /\ host \in [Threads -> SUBSET Hosts]
    /\ \A t \in Threads : Cardinality(host[t]) <= 1
    /\ main \in {"follow", "join maintenance", "join action", "destroy", "exit"}

Init ==
    /\ record = [h \in Hosts |-> "none"]
    /\ marked = {}
    /\ blocked = {}
    /\ interrupted = {}
    /\ skipped = {}
    /\ vector_mutex = "none"
    /\ pc = [t \in Threads \cup Walkers |-> "sleep"]
    /\ todo = [t \in Threads |-> {}]
    /\ host = [t \in Threads |-> {}]
    /\ main = "follow"

Goto(t, place) == pc' = [pc EXCEPT ![t] = place]
Known == {h \in Hosts : record[h] # "none"}
-----------------------------------------------------------------------------
(* _do_action: access() or system() may fail, and the caller is not told *)

\* The script has run with new.
Blocks(hs) ==
    /\ blocked' = blocked \cup hs
    /\ UNCHANGED <<interrupted, skipped>>

\* The script has run with remove, which makes up for one killed before.
Unblocks(hs) ==
    /\ blocked' = blocked \ hs
    /\ interrupted' = interrupted \ hs
    /\ skipped' = skipped \ hs

\* The script could not be run with remove: who is blocked stays so.
Skips(hs) ==
    /\ skipped' = skipped \cup (hs \cap blocked)
    /\ UNCHANGED <<blocked, interrupted>>
-----------------------------------------------------------------------------
(* main, in follow() *)

\* A host reaches action_threshold (records_add_ip).
Offends(h) ==
    /\ main = "follow"
    /\ vector_mutex = "none"
    /\ record[h] = "none"
    /\ record' = [record EXCEPT ![h] = "new"]
    /\ UNCHANGED <<marked, scripts, vector_mutex, pc, todo, host, main>>
-----------------------------------------------------------------------------
(* The loops of action_thread and maintenance_thread *)

Wake(t) ==
    /\ pc[t] = "sleep"
    /\ Goto(t, "lock")
    /\ UNCHANGED <<record, marked, scripts, vector_mutex, todo, host, main>>

\* Mutant: the thread does not wait for the mutex.
MutLock(t) ==
    /\ pc[t] = "lock"
    /\ vector_mutex' = t
    /\ todo' = [todo EXCEPT ![t] = Known]
    /\ Goto(t, "walk")
    /\ UNCHANGED <<record, marked, scripts, host, main>>

LockVector(t) ==
    /\ pc[t] = "lock"
    /\ vector_mutex = "none"
    /\ vector_mutex' = t
    /\ todo' = [todo EXCEPT ![t] = Known]
    /\ Goto(t, "walk")
    /\ UNCHANGED <<record, marked, scripts, host, main>>

UnlockVector(t) ==
    /\ pc[t] = "walk"
    /\ todo[t] = {}
    /\ vector_mutex' = "none"
    /\ Goto(t, "sleep")
    /\ UNCHANGED <<record, marked, scripts, todo, host, main>>

\* _records_callback_action_new: for an unprocessed offender the script is
\* started, or cannot be accessed; a processed one may have expired.
ActionVisit(h) ==
    /\ pc["action"] = "walk"
    /\ h \in todo["action"]
    /\ todo' = [todo EXCEPT !["action"] = @ \ {h}]
    /\ \/ /\ record[h] = "new"
          /\ host' = [host EXCEPT !["action"] = {h}]
          /\ Goto("action", "script")
          /\ UNCHANGED <<record, marked>>
       \/ /\ record[h] = "new"
          /\ record' = [record EXCEPT ![h] = "processed"]
          /\ UNCHANGED <<marked, host, pc>>
       \/ /\ record[h] = "processed"
          /\ marked' \in {marked} \cup (IF MayPurge THEN {marked \cup {h}} ELSE {})
          /\ UNCHANGED <<record, host, pc>>
    /\ UNCHANGED <<scripts, vector_mutex, main>>

\* Mutant: the record is not noted as processed.
MutScriptDone ==
    /\ pc["action"] = "script"
    /\ Blocks(host["action"])
    /\ host' = [host EXCEPT !["action"] = {}]
    /\ Goto("action", "walk")
    /\ UNCHANGED <<record, marked, vector_mutex, todo, main>>

\* system() returns, with an error if it could not run the script; processed is
\* set only now, and in either case.
ActionScriptDone ==
    /\ pc["action"] = "script"
    /\ Blocks(host["action"]) \/ UNCHANGED scripts
    /\ record' = [h \in Hosts |-> IF h \in host["action"] THEN "processed"
                                  ELSE record[h]]
    /\ host' = [host EXCEPT !["action"] = {}]
    /\ Goto("action", "walk")
    /\ UNCHANGED <<marked, vector_mutex, todo, main>>

\* records_maintenance: a marked record goes; before that the script is started
\* for a processed one, or cannot be accessed.
MaintenanceVisit(h) ==
    /\ pc["maintenance"] = "walk"
    /\ h \in todo["maintenance"]
    /\ todo' = [todo EXCEPT !["maintenance"] = @ \ {h}]
    /\ \/ /\ h \notin marked
          /\ UNCHANGED <<record, marked, scripts, host, pc>>
       \/ /\ h \in marked
          /\ record[h] = "processed"
          /\ host' = [host EXCEPT !["maintenance"] = {h}]
          /\ Goto("maintenance", "script")
          /\ UNCHANGED <<record, marked, scripts>>
       \/ /\ h \in marked
          /\ IF record[h] = "processed" THEN Skips({h}) ELSE UNCHANGED scripts
          /\ record' = [record EXCEPT ![h] = "none"]
          /\ marked' = marked \ {h}
          /\ UNCHANGED <<host, pc>>
    /\ UNCHANGED <<vector_mutex, main>>

\* system() returns, and the record is freed whether or not the script has run.
MaintenanceScriptDone ==
    /\ pc["maintenance"] = "script"
    /\ Unblocks(host["maintenance"]) \/ Skips(host["maintenance"])
    /\ record' = [h \in Hosts |-> IF h \in host["maintenance"] THEN "none"
                                  ELSE record[h]]
    /\ marked' = marked \ host["maintenance"]
    /\ host' = [host EXCEPT !["maintenance"] = {}]
    /\ Goto("maintenance", "walk")
    /\ UNCHANGED <<vector_mutex, todo, main>>
-----------------------------------------------------------------------------
(* A detached thread of records_enumerate(ASYNC) *)

WalkerLock(w) ==
    /\ pc[w] = "lock"
    /\ vector_mutex = "none"
    /\ vector_mutex' = w
    /\ Goto(w, "walk")
    /\ UNCHANGED <<record, marked, scripts, todo, host, main>>

WalkerWalk(w) ==
    /\ pc[w] = "walk"
    /\ marked' \in {marked} \cup (IF MayPurge THEN {marked \cup Known} ELSE {})
    /\ vector_mutex' = "none"
    /\ Goto(w, "dead")
    /\ UNCHANGED <<record, scripts, todo, host, main>>
-----------------------------------------------------------------------------
(* main, after follow() *)

\* SIGTERM: follow() returns, threads_stop cancels the maintenance thread.
BeginStop ==
    /\ main = "follow"
    /\ main' = "join maintenance"
    /\ UNCHANGED <<record, marked, scripts, vector_mutex, pc, todo, host>>

\* A cancelled thread ends in nanosleep, or in system(): its script is killed
\* with an unknown part of its work done, and the mutex stays locked.
Ends(t) ==
    /\ Goto(t, "dead")
    /\ todo' = [todo EXCEPT ![t] = {}]
    /\ host' = [host EXCEPT ![t] = {}]
    /\ UNCHANGED skipped
    /\ \/ /\ pc[t] = "sleep"
          /\ UNCHANGED <<blocked, interrupted>>
       \/ /\ pc[t] = "script"
          /\ blocked' \in {blocked, blocked \cup host[t], blocked \ host[t]}
          /\ interrupted' = interrupted \cup host[t]

\* The cancelled thread ends and the join returns: after the maintenance thread
\* comes the action thread, then records_destroy.
Cancelled(t) ==
    /\ \/ t = "maintenance" /\ main = "join maintenance"
       \/ t = "action" /\ main = "join action"
    /\ Ends(t)
    /\ main' = IF t = "maintenance" THEN "join action" ELSE "destroy"
    /\ UNCHANGED <<record, marked, vector_mutex>>

\* records_destroy, without vector_mutex: each record is freed, a processed one
\* after its script, if that can be run.
Destroy(h) ==
    /\ main = "destroy"
    /\ record[h] # "none"
    /\ IF record[h] = "processed" THEN Unblocks({h}) \/ Skips({h})
       ELSE UNCHANGED scripts
    /\ record' = [record EXCEPT ![h] = "none"]
    /\ marked' = marked \ {h}
    /\ UNCHANGED <<vector_mutex, pc, todo, host, main>>

Exit ==
    /\ main = "destroy"
    /\ Known = {}
    /\ main' = "exit"
    /\ UNCHANGED <<record, marked, scripts, vector_mutex, pc, todo, host>>

Loop(t) == Wake(t) \/ LockVector(t) \/ UnlockVector(t)

Next ==
    \/ \E h \in Hosts : \/ Offends(h) \/ ActionVisit(h) \/ MaintenanceVisit(h)
                        \/ Destroy(h)
    \/ \E t \in Threads : Loop(t) \/ Cancelled(t)
    \/ ActionScriptDone \/ MaintenanceScriptDone
    \/ \E w \in Walkers : Wake(w) \/ WalkerLock(w) \/ WalkerWalk(w)
    \/ BeginStop \/ Exit

Spec == Init /\ [][Next]_vars

\* Threads go on and scripts return.  The threads sleep between their rounds,
\* so one that waits for the mutex gets it if it is free again and again; a
\* cancellation stays pending until the thread comes to a cancellation point.
FairSpec ==
    /\ Spec
    /\ WF_vars(\E h \in Hosts : ActionVisit(h) \/ MaintenanceVisit(h))
    /\ WF_vars(ActionScriptDone) /\ WF_vars(MaintenanceScriptDone)
    /\ \A t \in Threads : /\ WF_vars(Wake(t)) /\ SF_vars(LockVector(t))
                          /\ WF_vars(UnlockVector(t)) /\ SF_vars(Cancelled(t))
    /\ \A w \in Walkers : WF_vars(WalkerWalk(w))
    /\ WF_vars(\E h \in Hosts : Destroy(h)) /\ WF_vars(Exit)
-----------------------------------------------------------------------------
(* Properties *)

\* The mutex is held by whoever is in the vector: two threads never walk it, or
\* run scripts, at the same time, also while main is stopping them.
OneInVector ==
    \A t \in DOMAIN pc : pc[t] \in {"walk", "script"} => vector_mutex = t

\* SIGTERM terminates agentsmith "gracefully": the stop comes to its end.
ShutdownCompletes == (main = "join maintenance") ~> (main = "exit")
=============================================================================
