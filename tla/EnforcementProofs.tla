------------------------- MODULE EnforcementProofs -------------------------
(***************************************************************************)
(* Type correctness of Enforcement, the correspondence of script calls and *)
(* memory, what may be relayed, and that no offender is forgotten.         *)
(***************************************************************************)
EXTENDS Enforcement, TLAPS

\* A record the program creates or changes is a host record again
\* (records_add_ip, records_add_record).
LEMMA NewRecordType ==
    ASSUME NEW ip \in Ip, NEW t \in Time
    PROVE  NewRecord(ip, t) \in HostRecord
  BY BoundsType DEF NewRecord, HostRecord, Origin, Time

\* A further sighting (records_add_ip) gives a host record.
LEMMA SeenType ==
    ASSUME NEW r \in HostRecord, NEW t \in Time,
           Seen(r, t).occurrences <= MaxOccurrences
    PROVE  /\ Seen(r, t) \in HostRecord
           /\ Seen(r, t).ipaddr = r.ipaddr
           /\ Seen(r, t).processed = r.processed
  <1>1. Counted(r, t) \in {0, 1}
    BY DEF Counted
  <1> DEFINE n == r.occurrences + Counted(r, t)
             r1 == [r EXCEPT !.lastseen = t]
  <1>2. /\ r1 \in HostRecord
        /\ r1.ipaddr = r.ipaddr /\ r1.processed = r.processed
        /\ r1.occurrences = r.occurrences
    BY BoundsType DEF HostRecord, Time
  <1>3. n \in Nat
    BY <1>1 DEF HostRecord
  <1>4. Seen(r, t) = [r1 EXCEPT !.occurrences = n]
    BY DEF Seen
  <1> HIDE DEF r1, n
  <1>5. QED
    BY <1>2, <1>3, <1>4, BoundsType DEF HostRecord

\* A record laid over another (records_add_record) gives a host record.
LEMMA MergeType ==
    ASSUME NEW r \in HostRecord, NEW hr \in RemoteRecord, NEW t \in Time,
           Merge(r, hr, t).occurrences <= MaxOccurrences
    PROVE  /\ Merge(r, hr, t) \in HostRecord
           /\ Merge(r, hr, t).ipaddr = hr.ipaddr
           /\ Merge(r, hr, t).processed = r.processed
           /\ Merge(r, hr, t).remove = 0
           /\ Merge(r, hr, t).origin \in Peers
           /\ IsOffender(Merge(r, hr, t))
  <1>1. Counted(hr, t) \in {0, 1}
    BY DEF Counted
  <1>2. hr \in HostRecord /\ hr.origin \in Peers /\ hr.remove = 0
        /\ hr.occurrences >= ActionThreshold[hr.origin]
    BY DEF RemoteRecord, IsOffender
  <1>3. ActionThreshold[hr.origin] \in Nat
    BY <1>2, ConfigType DEF HostRecord
  <1> DEFINE n == hr.occurrences + r.occurrences + Counted(hr, t)
             r1 == [hr EXCEPT !.processed = r.processed]
             r2 == [r1 EXCEPT !.occurrences = n]
  <1>4. n \in Nat /\ n >= ActionThreshold[hr.origin]
    BY <1>1, <1>2, <1>3 DEF HostRecord
  <1>5. /\ r1 \in HostRecord
        /\ r1.ipaddr = hr.ipaddr /\ r1.processed = r.processed
        /\ r1.origin = hr.origin /\ r1.remove = 0
    BY <1>2 DEF HostRecord
  <1>6. Merge(r, hr, t) = [r2 EXCEPT !.lastseen = t]
    BY DEF Merge
  <1> HIDE DEF r1, n
  <1>7. /\ r2.ipaddr = hr.ipaddr /\ r2.processed = r.processed
        /\ r2.origin = hr.origin /\ r2.remove = 0 /\ r2.occurrences = n
        /\ n <= MaxOccurrences => r2 \in HostRecord
        /\ r2 \in [ipaddr : Ip, origin : Origin, firstseen : Time,
                   lastseen : 0..MaxTime, occurrences : Nat,
                   remove : {0, 1}, processed : {0, 1}]
    BY <1>4, <1>5, BoundsType DEF HostRecord
  <1> HIDE DEF r2
  <1>8. n <= MaxOccurrences
    BY <1>6, <1>7, BoundsType DEF HostRecord, Time
  <1>9. QED
    BY <1>2, <1>3, <1>4, <1>6, <1>7, <1>8, BoundsType
       DEF HostRecord, Time, IsOffender

\* Enforcement keeps its types: one record per host, filed under its address.
THEOREM EnforcementTypeOK == Spec => []TypeOK
<1>1. Init => TypeOK
  <2>1. Init => running \in BOOLEAN /\ usr2 \in BOOLEAN
    BY DEF Init
  <2>2. QED
    BY <2>1, BoundsType, SwitchType DEF Init, TypeOK, Time
<1>2. TypeOK /\ [Next]_vars => TypeOK'
  <2> SUFFICES ASSUME TypeOK, [Next]_vars
               PROVE  TypeOK'
    OBVIOUS
  <2> USE DEF TypeOK
  <2>1. CASE Tick
    BY <2>1, BoundsType DEF Tick, Time
  <2>2. ASSUME NEW ip \in Ip, records_add_ip(ip)
        PROVE  TypeOK'
    <3>1. Sighted(ip) \in HostRecord /\ Sighted(ip).ipaddr = ip
      <4>1. CASE Known(ip)
        BY <2>2, <4>1, SeenType DEF records_add_ip, Sighted, Known
      <4>2. CASE ~Known(ip)
        BY <2>2, <4>2, NewRecordType DEF Sighted, NewRecord
      <4>3. QED BY <4>1, <4>2
    <3>2. QED
      BY <2>2, <3>1, NullIsNoRecord DEF records_add_ip
  <2>3. ASSUME NEW hr \in RemoteRecord, records_add_record(hr)
        PROVE  TypeOK'
    <3>1. hr \in HostRecord /\ hr.ipaddr \in Ip
      BY DEF RemoteRecord, HostRecord
    <3>2. Received(hr) \in HostRecord /\ Received(hr).ipaddr = hr.ipaddr
      BY <2>3, <3>1, MergeType DEF records_add_record, Received, Known
    <3>3. QED
      BY <2>3, <3>1, <3>2, NullIsNoRecord DEF records_add_record
  <2>4. ASSUME NEW ip \in Ip, callback_action_new(ip)
        PROVE  TypeOK'
    <3>1. store[ip] \in HostRecord
      BY <2>4 DEF callback_action_new, Known
    <3>2. /\ [store[ip] EXCEPT !.processed = 1] \in HostRecord
          /\ [store[ip] EXCEPT !.remove = 1] \in HostRecord
          /\ [store[ip] EXCEPT !.processed = 1].ipaddr = store[ip].ipaddr
          /\ [store[ip] EXCEPT !.remove = 1].ipaddr = store[ip].ipaddr
      BY <3>1 DEF HostRecord
    <3>3. CASE IsOffender(store[ip]) /\ store[ip].processed = 0
      <4>1. store' = [store EXCEPT ![ip].processed = 1] /\ do_action_new(ip)
        BY <2>4, <3>3 DEF callback_action_new
      <4>2. blocked' \in [Ip -> -MaxCalls..MaxCalls] /\ outbox' \subseteq HostRecord
        BY <3>1, <4>1, SwitchType DEF do_action_new, Queued
      <4>3. QED
        BY <2>4, <3>2, <4>1, <4>2, NullIsNoRecord DEF callback_action_new, Known
    <3>4. CASE ~(IsOffender(store[ip]) /\ store[ip].processed = 0)
      BY <2>4, <3>2, <3>4, NullIsNoRecord DEF callback_action_new, Known
    <3>5. QED BY <3>3, <3>4
  <2>5. ASSUME NEW ip \in Ip, callback_remove_all(ip)
        PROVE  TypeOK'
    <3>1. store[ip] \in HostRecord
      BY <2>5 DEF callback_remove_all, Known
    <3>2. /\ [store[ip] EXCEPT !.remove = 1] \in HostRecord
          /\ [store[ip] EXCEPT !.remove = 1].ipaddr = store[ip].ipaddr
      BY <3>1 DEF HostRecord
    <3>3. QED
      BY <2>5, <3>2, NullIsNoRecord DEF callback_remove_all, Known
  <2>6. ASSUME NEW ip \in Ip, Purge(ip)
        PROVE  TypeOK'
    <3>1. blocked' \in [Ip -> -MaxCalls..MaxCalls]
      BY <2>6, SwitchType DEF Purge, action_removal
    <3>2. QED BY <2>6, <3>1 DEF Purge
  <2>7. CASE Flush
    BY <2>7 DEF Flush
  <2>8. CASE records_destroy
    <3>1. blocked' \in [Ip -> -MaxCalls..MaxCalls]
      BY <2>8, SwitchType DEF records_destroy, action_removal
    <3>2. QED BY <2>8, <3>1 DEF records_destroy
  <2>9. CASE UNCHANGED vars
    BY <2>9 DEF vars
  <2>10. CASE signalhandler_usr2
    BY <2>10 DEF signalhandler_usr2
  <2>11. QED
    BY <2>1, <2>2, <2>3, <2>4, <2>5, <2>6, <2>7, <2>8, <2>9, <2>10 DEF Next
<1>3. QED
  BY <1>1, <1>2, PTL DEF Spec

\* While access() on the script succeeds, each host has heard one "new" more
\* than "remove" exactly while its record says processed: the script is called
\* once per stay in memory, and undone at the end of the stay or the program.
THEOREM ScriptsMatchMemoryHolds ==
    ASSUME AccessMayFail = FALSE
    PROVE  Spec => []ScriptsMatchMemory
<1>1. Init => ScriptsMatchMemory
  BY DEF Init, ScriptsMatchMemory, Known
<1>2. TypeOK /\ TypeOK' /\ ScriptsMatchMemory /\ [Next]_vars => ScriptsMatchMemory'
  <2> SUFFICES ASSUME TypeOK, TypeOK', ScriptsMatchMemory, [Next]_vars
               PROVE  ScriptsMatchMemory'
    OBVIOUS
  <2> USE DEF ScriptsMatchMemory
  <2>1. CASE Tick
    BY <2>1 DEF Tick, Known
  <2>2. ASSUME NEW ip \in Ip, records_add_ip(ip)
        PROVE  ScriptsMatchMemory'
    <3>1. CASE Known(ip)
      <4>1. store[ip] \in HostRecord /\ now \in Time
        BY <3>1 DEF TypeOK, Known
      <4>2. Sighted(ip).processed = store[ip].processed /\ Sighted(ip) # NULL
        BY <2>2, <3>1, <4>1, SeenType, NullIsNoRecord DEF records_add_ip, Sighted
      <4>3. QED
        BY <2>2, <3>1, <4>2 DEF records_add_ip, Known, TypeOK
    <3>2. CASE ~Known(ip)
      <4>1. Sighted(ip).processed = 0
        BY <3>2 DEF Sighted, NewRecord
      <4>2. QED
        BY <2>2, <3>2, <4>1 DEF records_add_ip, Known, TypeOK
    <3>3. QED BY <3>1, <3>2
  <2>3. ASSUME NEW hr \in RemoteRecord, records_add_record(hr)
        PROVE  ScriptsMatchMemory'
    <3>1. hr \in HostRecord /\ hr.ipaddr \in Ip /\ hr.processed = 0
      BY DEF RemoteRecord, HostRecord
    <3>2. CASE Known(hr.ipaddr)
      <4>1. store[hr.ipaddr] \in HostRecord /\ now \in Time
        BY <3>1, <3>2 DEF TypeOK, Known
      <4>2. /\ Received(hr).processed = store[hr.ipaddr].processed
            /\ Received(hr) # NULL
        BY <2>3, <3>2, <4>1, MergeType, NullIsNoRecord
           DEF records_add_record, Received
      <4>3. QED
        BY <2>3, <3>1, <3>2, <4>2 DEF records_add_record, Known, TypeOK
    <3>3. CASE ~Known(hr.ipaddr)
      BY <2>3, <3>1, <3>3 DEF records_add_record, Received, Known, TypeOK
    <3>4. QED BY <3>2, <3>3
  <2>4. ASSUME NEW ip \in Ip, callback_action_new(ip)
        PROVE  ScriptsMatchMemory'
    <3>1. store[ip] \in HostRecord /\ Known(ip)
      BY <2>4 DEF callback_action_new, Known, TypeOK
    <3>2. /\ [store[ip] EXCEPT !.processed = 1].processed = 1
          /\ [store[ip] EXCEPT !.remove = 1].processed = store[ip].processed
      BY <3>1 DEF HostRecord
    <3>3. CASE IsOffender(store[ip]) /\ store[ip].processed = 0
      <4>1. /\ store' = [store EXCEPT ![ip].processed = 1]
            /\ blocked' = [blocked EXCEPT ![ip] = @ + 1]
        BY <2>4, <3>3 DEF callback_action_new, do_action_new, Accessible
      <4>2. store'[ip].processed = 1 /\ \A j \in Ip \ {ip} : store'[j] = store[j]
        BY <3>2, <4>1 DEF TypeOK
      <4>3. store'[ip] # NULL
        BY <3>1, <4>1, NullIsNoRecord DEF HostRecord, TypeOK
      <4>4. blocked[ip] = 0
        BY <3>3
      <4>5. blocked'[ip] = 1 /\ \A j \in Ip \ {ip} : blocked'[j] = blocked[j]
        BY <4>1, <4>4 DEF TypeOK
      <4>6. QED
        BY <4>2, <4>3, <4>5 DEF Known
    <3>4. CASE ~(IsOffender(store[ip]) /\ store[ip].processed = 0)
      <4>1. /\ store' = [store EXCEPT ![ip].remove = 1]
            /\ blocked' = blocked
        BY <2>4, <3>4 DEF callback_action_new
      <4>2. /\ store'[ip].processed = store[ip].processed
            /\ \A j \in Ip \ {ip} : store'[j] = store[j]
        BY <3>2, <4>1 DEF TypeOK
      <4>3. store'[ip] # NULL
        BY <3>1, <4>1, NullIsNoRecord DEF HostRecord, TypeOK
      <4>4. QED
        BY <3>1, <4>1, <4>2, <4>3 DEF Known
    <3>5. QED BY <3>3, <3>4
  <2>5. ASSUME NEW ip \in Ip, callback_remove_all(ip)
        PROVE  ScriptsMatchMemory'
    <3>1. store[ip] \in HostRecord /\ Known(ip)
      BY <2>5 DEF callback_remove_all, Known, TypeOK
    <3>2. /\ store'[ip].processed = store[ip].processed
          /\ \A j \in Ip \ {ip} : store'[j] = store[j]
      BY <2>5, <3>1 DEF callback_remove_all, TypeOK, HostRecord
    <3>3. store'[ip] # NULL
      BY <2>5, <3>1, NullIsNoRecord DEF callback_remove_all, TypeOK, HostRecord
    <3>4. QED
      BY <2>5, <3>1, <3>2, <3>3 DEF callback_remove_all, Known
  <2>6. ASSUME NEW ip \in Ip, Purge(ip)
        PROVE  ScriptsMatchMemory'
    <3>1. store[ip] \in HostRecord /\ Known(ip)
      BY <2>6 DEF Purge, Known, TypeOK
    <3>2. blocked' = [j \in Ip |-> IF j = ip /\ store[ip].processed # 0
                                     THEN blocked[j] - 1 ELSE blocked[j]]
      BY <2>6, <3>1 DEF Purge, action_removal
    <3>3. store'[ip] = NULL /\ \A j \in Ip \ {ip} : store'[j] = store[j]
      BY <2>6 DEF Purge, TypeOK
    <3>4. blocked'[ip] = 0
      BY <3>1, <3>2 DEF HostRecord
    <3>5. QED
      BY <3>2, <3>3, <3>4 DEF Known
  <2>7. CASE Flush
    BY <2>7 DEF Flush, Known
  <2>8. CASE records_destroy
    <3>1. blocked' = [j \in Ip |-> IF Known(j) /\ store[j].processed # 0
                                     THEN blocked[j] - 1 ELSE blocked[j]]
      BY <2>8 DEF records_destroy, action_removal
    <3>2. ASSUME NEW j \in Ip
          PROVE  blocked'[j] = 0 /\ ~Known(j)'
      <4>1. Known(j) => store[j].processed \in {0, 1}
        BY DEF Known, TypeOK, HostRecord
      <4>2. QED
        BY <2>8, <3>1, <4>1 DEF records_destroy, Known
    <3>3. QED BY <3>2
  <2>9. CASE UNCHANGED vars
    BY <2>9 DEF vars, Known
  <2>10. CASE signalhandler_usr2
    BY <2>10 DEF signalhandler_usr2, Known
  <2>11. QED
    BY <2>1, <2>2, <2>3, <2>4, <2>5, <2>6, <2>7, <2>8, <2>9, <2>10 DEF Next
<1>3. QED
  BY <1>1, <1>2, EnforcementTypeOK, PTL DEF Spec

\* What is relayed was found here and has reached the threshold.
THEOREM RelayedAreLocalOffendersHolds == Spec => []RelayedAreLocalOffenders
<1>1. Init => RelayedAreLocalOffenders
  BY DEF Init, RelayedAreLocalOffenders
<1>2. RelayedAreLocalOffenders /\ [Next]_vars => RelayedAreLocalOffenders'
  <2> SUFFICES ASSUME RelayedAreLocalOffenders, [Next]_vars
               PROVE  RelayedAreLocalOffenders'
    OBVIOUS
  <2> USE DEF RelayedAreLocalOffenders
  <2>1. ASSUME NEW ip \in Ip, callback_action_new(ip)
        PROVE  RelayedAreLocalOffenders'
    <3>1. CASE IsOffender(store[ip]) /\ store[ip].processed = 0
      BY <2>1, <3>1 DEF callback_action_new, do_action_new, Queued
    <3>2. CASE ~(IsOffender(store[ip]) /\ store[ip].processed = 0)
      BY <2>1, <3>2 DEF callback_action_new
    <3>3. QED BY <3>1, <3>2
  <2>2. CASE Flush
    BY <2>2 DEF Flush
  <2>3. CASE outbox' = outbox
    BY <2>3
  <2>4. QED
    BY <2>1, <2>2, <2>3 DEF Next, Tick, records_add_ip, records_add_record,
       callback_remove_all, signalhandler_usr2, Purge, records_destroy, vars
<1>3. QED
  BY <1>1, <1>2, PTL DEF Spec

-----------------------------------------------------------------------------
\* What makes OffenderNotForgotten inductive, for a record r at time t: a
\* record that came from a peer has reached its threshold; one created here
\* has its times in order; and an unprocessed record is marked only once its
\* time_interval is over, so that no later sighting makes it an offender.
Expiring(r, t) ==
    /\ r.origin # LOCALHOST => IsOffender(r)
    /\ r.origin = LOCALHOST => r.firstseen <= t /\ r.firstseen <= LastSighting(r)
    /\ r.remove = 1 /\ r.processed = 0 =>
          /\ r.origin = LOCALHOST
          /\ t - r.firstseen > TimeInterval[LOCALHOST]
          /\ ~IsOffender(r)

ExpiryInv == ~usr2 => \A ip \in Ip : Known(ip) => Expiring(store[ip], now)

\* The configuration the theorem needs.
IntervalWithinPurge == \A o \in Origin : TimeInterval[o] <= PurgeAfter[o]

\* Time passes.
LEMMA ExpiringTick ==
    ASSUME NEW r \in HostRecord, NEW t \in Time, Expiring(r, t)
    PROVE  Expiring(r, t + 1)
  BY ConfigType, BoundsType DEF Expiring, HostRecord, Time, LastSighting, Origin

\* A first sighting.
LEMMA ExpiringNew ==
    ASSUME NEW ip \in Ip, NEW t \in Time
    PROVE  Expiring(NewRecord(ip, t), t)
  BY BoundsType DEF Expiring, NewRecord, LastSighting, Time

\* A further sighting does not count after time_interval.
LEMMA ExpiringSeen ==
    ASSUME NEW r \in HostRecord, NEW t \in Time, Expiring(r, t),
           Seen(r, t).occurrences <= MaxOccurrences
    PROVE  Expiring(Seen(r, t), t)
  <1> DEFINE n == r.occurrences + Counted(r, t)
             r1 == [r EXCEPT !.lastseen = t]
  <1>1. /\ r1 \in HostRecord /\ r1.lastseen = t
        /\ r1.origin = r.origin /\ r1.firstseen = r.firstseen
        /\ r1.remove = r.remove /\ r1.processed = r.processed
    BY BoundsType DEF HostRecord, Time
  <1>2. Seen(r, t) = [r1 EXCEPT !.occurrences = n]
    BY DEF Seen
  <1>3. Counted(r, t) \in {0, 1} /\ n \in Nat /\ n >= r.occurrences
    BY DEF Counted, HostRecord
  <1>4. t - r.firstseen > TimeInterval[r.origin] => n = r.occurrences
    <2>1. t - r.firstseen \in Int /\ TimeInterval[r.origin] \in Int
      BY ConfigType, BoundsType DEF HostRecord, Time
    <2>2. t - r.firstseen > TimeInterval[r.origin] => Counted(r, t) = 0
      BY <2>1 DEF Counted
    <2>3. r.occurrences \in Int
      BY DEF HostRecord
    <2>4. QED BY <2>2, <2>3
  <1> HIDE DEF r1, n
  <1>5. /\ Seen(r, t).origin = r.origin /\ Seen(r, t).firstseen = r.firstseen
        /\ Seen(r, t).remove = r.remove /\ Seen(r, t).processed = r.processed
        /\ Seen(r, t).lastseen = t /\ Seen(r, t).occurrences = n
    BY <1>1, <1>2 DEF HostRecord
  <1>6. /\ r.occurrences \in Nat /\ t \in Nat /\ t # 0 /\ r.firstseen \in Nat
        /\ ActionThreshold[r.origin] \in Nat /\ TimeInterval[r.origin] \in Nat
    BY ConfigType, BoundsType DEF HostRecord, Time
  <1>7. QED
    BY <1>3, <1>4, <1>5, <1>6 DEF Expiring, IsOffender, LastSighting

\* A record received from a peer carries no mark.
LEMMA ExpiringRemote ==
    ASSUME NEW hr \in RemoteRecord, NEW t \in Time
    PROVE  Expiring(hr, t)
  BY LocalhostIsNoPeer DEF Expiring, RemoteRecord

\* A merged record has a peer as its origin, and so has reached its threshold
\* (records_add_record).
LEMMA ExpiringMerge ==
    ASSUME NEW r \in HostRecord, NEW hr \in RemoteRecord, NEW t \in Time,
           Merge(r, hr, t).occurrences <= MaxOccurrences
    PROVE  Expiring(Merge(r, hr, t), t)
  BY MergeType, LocalhostIsNoPeer DEF Expiring

\* The action thread has run the script.
LEMMA ExpiringProcessed ==
    ASSUME NEW r \in HostRecord, NEW t \in Time, Expiring(r, t)
    PROVE  Expiring([r EXCEPT !.processed = 1], t)
  <1> DEFINE p == [r EXCEPT !.processed = 1]
  <1>1. /\ p.origin = r.origin /\ p.firstseen = r.firstseen
        /\ p.lastseen = r.lastseen /\ p.occurrences = r.occurrences
        /\ p.processed = 1
    BY DEF HostRecord
  <1> HIDE DEF p
  <1>2. QED BY <1>1 DEF Expiring, IsOffender, LastSighting, p

\* The action thread has found the record stale.
LEMMA ExpiringMarked ==
    ASSUME NEW r \in HostRecord, NEW t \in Time, Expiring(r, t),
           IntervalWithinPurge, Stale(r, t),
           ~(IsOffender(r) /\ r.processed = 0)
    PROVE  Expiring([r EXCEPT !.remove = 1], t)
  <1> DEFINE m == [r EXCEPT !.remove = 1]
  <1>1. /\ m.origin = r.origin /\ m.firstseen = r.firstseen
        /\ m.lastseen = r.lastseen /\ m.occurrences = r.occurrences
        /\ m.processed = r.processed
    BY DEF HostRecord
  <1>2. r.origin = LOCALHOST => t - r.firstseen > TimeInterval[LOCALHOST]
    <2>1. SUFFICES ASSUME r.origin = LOCALHOST
                   PROVE  t - r.firstseen > TimeInterval[LOCALHOST]
      OBVIOUS
    <2>2. /\ TimeInterval[LOCALHOST] \in Nat /\ PurgeAfter[LOCALHOST] \in Nat
          /\ TimeInterval[LOCALHOST] <= PurgeAfter[LOCALHOST]
      BY ConfigType DEF Origin, IntervalWithinPurge
    <2>3. /\ r.firstseen <= LastSighting(r)
          /\ t - LastSighting(r) > PurgeAfter[LOCALHOST]
      BY <2>1 DEF Expiring, Stale
    <2>4. LastSighting(r) \in Nat /\ r.firstseen \in Nat /\ t \in Nat
      BY BoundsType DEF LastSighting, HostRecord, Time
    <2>5. QED BY <2>2, <2>3, <2>4
  <1> HIDE DEF m
  <1>3. QED
    BY <1>1, <1>2 DEF Expiring, IsOffender, LastSighting, m

\* With time_interval <= purge_after at every origin, and before SIGUSR2, a host
\* that has reached the threshold is never marked for expiry before its script has been run,
\* whatever sightings, merges and walks of the threads come in between.
THEOREM OffenderNotForgottenHolds ==
    ASSUME IntervalWithinPurge
    PROVE  Spec => []OffenderNotForgotten
<1>1. Init => ExpiryInv
  BY DEF Init, ExpiryInv, Known
<1>2. TypeOK /\ ExpiryInv /\ [Next]_vars => ExpiryInv'
  <2> SUFFICES ASSUME TypeOK, ExpiryInv, [Next]_vars, ~usr2', NEW ip \in Ip, Known(ip)'
               PROVE  Expiring(store'[ip], now')
    BY DEF ExpiryInv
  <2>0. ~usr2
    BY DEF Next, Tick, records_add_ip, records_add_record, callback_action_new,
       callback_remove_all, Purge, Flush, signalhandler_usr2, records_destroy, vars,
       TypeOK
  <2>1. /\ store \in [Ip -> HostRecord \cup {NULL}] /\ now \in Time
        /\ store[ip] # NULL => store[ip] \in HostRecord /\ Expiring(store[ip], now)
    BY <2>0 DEF TypeOK, ExpiryInv, Known
  <2>2. CASE Tick
    BY <2>1, <2>2, ExpiringTick DEF Tick, Known
  <2>3. CASE now' = now /\ store'[ip] = store[ip]
    BY <2>1, <2>3 DEF Known
  <2>4. ASSUME NEW j \in Ip, records_add_ip(j)
        PROVE  Expiring(store'[ip], now')
    <3>1. CASE j # ip
      BY <2>1, <2>3, <2>4, <3>1 DEF records_add_ip
    <3>2. CASE j = ip
      BY <2>1, <2>4, <3>2, ExpiringSeen, ExpiringNew
         DEF records_add_ip, Sighted, Known
    <3>3. QED BY <3>1, <3>2
  <2>5. ASSUME NEW hr \in RemoteRecord, records_add_record(hr)
        PROVE  Expiring(store'[ip], now')
    <3>1. CASE hr.ipaddr # ip
      BY <2>1, <2>3, <2>5, <3>1 DEF records_add_record
    <3>2. CASE hr.ipaddr = ip
      BY <2>1, <2>5, <3>2, ExpiringMerge, ExpiringRemote
         DEF records_add_record, Received, Known
    <3>3. QED BY <3>1, <3>2
  <2>6. ASSUME NEW j \in Ip, callback_action_new(j)
        PROVE  Expiring(store'[ip], now')
    <3>1. CASE j # ip
      BY <2>1, <2>3, <2>6, <3>1 DEF callback_action_new
    <3>2. CASE j = ip
      <4>1. store[ip] # NULL /\ now' = now
        BY <2>6, <3>2 DEF callback_action_new, Known
      <4>2. CASE IsOffender(store[ip]) /\ store[ip].processed = 0
        <5>1. store'[ip] = [store[ip] EXCEPT !.processed = 1]
          BY <2>1, <2>6, <3>2, <4>2 DEF callback_action_new
        <5>2. QED BY <2>1, <4>1, <5>1, ExpiringProcessed
      <4>3. CASE ~(IsOffender(store[ip]) /\ store[ip].processed = 0)
        <5>1. store'[ip] = [store[ip] EXCEPT !.remove = 1] /\ Stale(store[ip], now)
          BY <2>1, <2>6, <3>2, <4>3 DEF callback_action_new
        <5>2. QED BY <2>1, <4>1, <4>3, <5>1, ExpiringMarked
      <4>4. QED BY <4>2, <4>3
    <3>3. QED BY <3>1, <3>2
  <2>7. ASSUME NEW j \in Ip, Purge(j)
        PROVE  Expiring(store'[ip], now')
    BY <2>1, <2>3, <2>7 DEF Purge, Known
  <2>8. CASE Flush
    BY <2>3, <2>8 DEF Flush
  <2>9. CASE records_destroy
    BY <2>9 DEF records_destroy, Known
  <2>10. CASE UNCHANGED vars
    BY <2>3, <2>10 DEF vars
  <2>11. QED
    BY <2>0, <2>2, <2>4, <2>5, <2>6, <2>7, <2>8, <2>9, <2>10
       DEF Next, callback_remove_all, signalhandler_usr2
<1>3. TypeOK /\ ExpiryInv => OffenderNotForgotten
  BY DEF TypeOK, ExpiryInv, Expiring, OffenderNotForgotten, Known, HostRecord
<1>4. QED
  BY <1>1, <1>2, <1>3, EnforcementTypeOK, PTL DEF Spec
=============================================================================
