----------------------------- MODULE HostRecord -----------------------------
(***************************************************************************)
(* The host record of agentsmith (hostrecord_t, records.h) and the pure    *)
(* changes the program makes to one: a first sighting, a further sighting, *)
(* the merge of a record received from a peer, and the expiry test of the  *)
(* action thread.                                                          *)
(*                                                                         *)
(* A record carries the action_threshold, time_interval and purge_after of *)
(* the instance that created it.  These never change without its origin    *)
(* changing too, so they are functions of the origin here.                 *)
(***************************************************************************)
EXTENDS Integers

CONSTANTS
    Ip,               \* addresses of offending hosts
    Peers,            \* remote instances that may send records
    LOCALHOST,        \* origin of a record created from the local log
    NULL,             \* an unused slot
    ActionThreshold,  \* action_threshold configured at each origin
    TimeInterval,     \* time_interval configured at each origin
    PurgeAfter,       \* purge_after configured at each origin
    MaxTime,          \* bound: the clock stops here
    MaxOccurrences    \* bound: no counter goes beyond this

Origin == Peers \cup {LOCALHOST}

Time == 1..MaxTime

\* lastseen = 0 says "seen once" (records_add_ip), so the clock starts at 1.
HostRecord == [ipaddr      : Ip,
               origin      : Origin,
               firstseen   : Time,
               lastseen    : 0..MaxTime,
               occurrences : 0..MaxOccurrences,
               remove      : {0, 1},
               processed   : {0, 1}]

ASSUME LocalhostIsNoPeer == LOCALHOST \notin Peers
ASSUME NullIsNoRecord == NULL \notin HostRecord
ASSUME ConfigType == /\ ActionThreshold \in [Origin -> Nat]
                     /\ TimeInterval \in [Origin -> Nat]
                     /\ PurgeAfter \in [Origin -> Nat]
ASSUME BoundsType == /\ MaxTime \in Nat \ {0}
                     /\ MaxOccurrences \in Nat \ {0}
-----------------------------------------------------------------------------
\* The host has reached the threshold its record carries.
IsOffender(r) == r.occurrences >= ActionThreshold[r.origin]

\* The time the host was last seen, be it the first or a later sighting.
LastSighting(r) == IF r.lastseen = 0 THEN r.firstseen ELSE r.lastseen

\* No sighting for purge_after seconds.
Stale(r, t) == t - LastSighting(r) > PurgeAfter[r.origin]
-----------------------------------------------------------------------------
\* Mutant: remove holds what malloc left there.
MutNewRecord(ip, t) ==
    [ipaddr |-> ip, origin |-> LOCALHOST, firstseen |-> t, lastseen |-> 0,
     occurrences |-> 1, remove |-> 2, processed |-> 0]

\* records_add_ip: the record of a host seen for the first time.
NewRecord(ip, t) ==
    [ipaddr |-> ip, origin |-> LOCALHOST, firstseen |-> t, lastseen |-> 0,
     occurrences |-> 1, remove |-> 0, processed |-> 0]

\* One more occurrence, if still within time_interval of the first sighting.
Counted(r, t) == IF t - r.firstseen <= TimeInterval[r.origin] THEN 1 ELSE 0

\* records_add_ip: a further sighting of a host in memory.
Seen(r, t) ==
    [r EXCEPT !.lastseen = t, !.occurrences = @ + Counted(r, t)]

\* records_add_record: the record hr of a peer laid over the record r.
Merge(r, hr, t) ==
    [hr EXCEPT !.processed   = r.processed,
               !.occurrences = @ + r.occurrences + Counted(hr, t),
               !.lastseen    = t]

\* The record a peer can make the worker insert: fresh flags, the peer as
\* its origin, and the count the worker asserts.
RemoteRecord == {r \in HostRecord : /\ r.origin \in Peers
                                    /\ r.remove = 0
                                    /\ r.processed = 0
                                    /\ IsOffender(r)}
=============================================================================
