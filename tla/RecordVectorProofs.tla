------------------------- MODULE RecordVectorProofs -------------------------
(***************************************************************************)
(* The shape of the host record vector, for any chunk size, any number of  *)
(* hosts and any interleaving of the walks: every record is found by a     *)
(* lookup, no host has two, and the size is a whole number of chunks.      *)
(* From this shape follows that the vector implements the abstract store,  *)
(* and with it what EnforcementProofs shows of every host.                 *)
(***************************************************************************)
EXTENDS RecordVector, WellFoundedInduction, TLAPS

-----------------------------------------------------------------------------
(* Facts about numbers *)

\* LeastOf yields the least element of a set of natural numbers.
LEMMA LeastOfIsLeast ==
    ASSUME NEW S, S \subseteq Nat, S # {}
    PROVE  LeastOf(S) \in S /\ \A j \in S : LeastOf(S) <= j
<1>1. PICK m \in S : \A n \in S : ~(<<n, m>> \in OpToRel(<, Nat))
  BY NatLessThanWellFounded, WFMin
<1>2. ASSUME NEW n \in S
      PROVE  m <= n
  <2>1. <<n, m>> \in Nat \X Nat
    OBVIOUS
  <2>2. (<<n, m>> \in OpToRel(<, Nat)) <=> n < m
    BY <2>1 DEF OpToRel
  <2>3. ~(n < m)
    BY <1>1, <2>2
  <2>4. n \in Nat /\ m \in Nat
    OBVIOUS
  <2> HIDE <1>1
  <2>5. QED BY <2>3, <2>4
<1>3. \E i \in S : \A j \in S : i <= j
  BY <1>2
<1>4. QED BY <1>3 DEF LeastOf

\* Division with remainder.
LEMMA DivBounds ==
    ASSUME NEW c \in Nat, c # 0, NEW x \in Nat
    PROVE  x \div c \in Nat /\ (x \div c) * c <= x /\ x < (x \div c) * c + c
  OBVIOUS

\* Rounding up to whole chunks loses no slot and adds less than a chunk.
LEMMA ChunksForBounds ==
    ASSUME NEW n \in Nat
    PROVE  /\ \E k \in Nat : ChunksFor(n) = k * ChunkSize
           /\ ChunksFor(n) \in Nat
           /\ ChunksFor(n) >= n
           /\ ChunksFor(n) < n + ChunkSize
<1> DEFINE c == ChunkSize
           q == (n + c - 1) \div c
<1>1. c \in Nat /\ c # 0
  BY VectorConfigType
<1> HIDE DEF c
<1>2. n + c - 1 \in Nat
  BY <1>1
<1>3. q \in Nat /\ q * c <= n + c - 1 /\ n + c - 1 < q * c + c
  BY <1>1, <1>2, DivBounds
<1>4. ChunksFor(n) = q * c
  BY DEF ChunksFor, c
<1> HIDE DEF q
<1>5. q * c \in Nat
  BY <1>1, <1>3
<1>6. q * c >= n /\ q * c < n + c
  BY <1>1, <1>3, <1>5
<1>7. QED BY <1>3, <1>4, <1>5, <1>6 DEF c

-----------------------------------------------------------------------------
(* Lookup, free slots and the last slot in use *)

\* _records_find returns one of the matches.
LEMMA FindIsMatch ==
    ASSUME TypeOK, NEW ip, Matches(ip) # {}
    PROVE  records_find(ip) \in Matches(ip)
<1>1. Matches(ip) \subseteq Nat
  BY DEF Matches, Slots, TypeOK
<1>2. QED BY <1>1, LeastOfIsLeast DEF records_find

\* The slot for a new record is free and inside the vector as it is then.
LEMMA FreeSlotIsFree ==
    ASSUME TypeOK
    PROVE  /\ GrownSize \in Nat /\ GrownSize >= hr_vector_size
           /\ FreeSlot \in 0..(GrownSize - 1)
           /\ FreeSlot \in Slots => ~Used(FreeSlot)
<1>1. hr_vector_size \in Nat /\ ChunkSize \in Nat /\ ChunkSize > 0
  BY VectorConfigType DEF TypeOK
<1>2. CASE FreeSlots # {}
  <2>1. FreeSlots \subseteq Nat
    BY <1>1 DEF FreeSlots, Slots
  <2>2. FreeSlot \in FreeSlots
    BY <1>2, <2>1, LeastOfIsLeast DEF FreeSlot
  <2>3. QED BY <1>1, <1>2, <2>2 DEF GrownSize, FreeSlots, Slots
<1>3. CASE FreeSlots = {}
  BY <1>1, <1>3 DEF GrownSize, FreeSlot, Slots
<1>4. QED BY <1>2, <1>3

\* last_used is one past the last slot in use.
LEMMA LastUsedIsLast ==
    ASSUME TypeOK
    PROVE  /\ LastUsed \in 0..hr_vector_size
           /\ \A i \in Slots : Used(i) => i < LastUsed
           /\ LastUsed > 0 => Used(LastUsed - 1)
<1> DEFINE T == {n \in 0..hr_vector_size :
                    \A i \in n..(hr_vector_size - 1) : ~Used(i)}
           m == LeastOf(T)
<1>1. hr_vector_size \in Nat
  BY DEF TypeOK
<1>2. hr_vector_size \in T
  BY <1>1
<1>3. m \in T /\ \A j \in T : m <= j
  BY <1>1, <1>2, LeastOfIsLeast
<1> HIDE DEF m
<1>4. m > 0 => Used(m - 1)
  <2> SUFFICES ASSUME m > 0, ~Used(m - 1)
               PROVE  FALSE
    OBVIOUS
  <2>1. m - 1 \in T
    BY <1>1, <1>3
  <2>2. QED BY <1>1, <1>3, <2>1
<1>5. /\ LastUsed \in 0..hr_vector_size
      /\ \A i \in LastUsed..(hr_vector_size - 1) : ~Used(i)
      /\ LastUsed > 0 => Used(LastUsed - 1)
  BY <1>3, <1>4 DEF LastUsed
<1>6. \A i \in Slots : Used(i) => i < LastUsed
  BY <1>1, <1>5 DEF Slots
<1>7. QED BY <1>5, <1>6

-----------------------------------------------------------------------------
(* Type correctness *)

\* A first sighting (records_add_ip) gives a host record.
LEMMA NewRecordType ==
    ASSUME NEW ip \in Ip, NEW t \in Time
    PROVE  NewRecord(ip, t) \in HostRecord /\ NewRecord(ip, t).ipaddr = ip
  BY BoundsType DEF NewRecord, HostRecord, Origin, Time

\* A further sighting (records_add_ip) gives a host record.
LEMMA SeenType ==
    ASSUME NEW r \in HostRecord, NEW t \in Time,
           Seen(r, t).occurrences <= MaxOccurrences
    PROVE  Seen(r, t) \in HostRecord /\ Seen(r, t).ipaddr = r.ipaddr
<1> DEFINE n == r.occurrences + Counted(r, t)
           r1 == [r EXCEPT !.lastseen = t]
<1>1. r1 \in HostRecord /\ r1.ipaddr = r.ipaddr
  BY BoundsType DEF HostRecord, Time
<1>2. n \in Nat
  BY DEF Counted, HostRecord
<1>3. Seen(r, t) = [r1 EXCEPT !.occurrences = n]
  BY DEF Seen
<1> HIDE DEF r1, n
<1>4. QED BY <1>1, <1>2, <1>3, BoundsType DEF HostRecord

\* A record laid over another (records_add_record) gives a host record.
LEMMA MergeType ==
    ASSUME NEW r \in HostRecord, NEW hr \in RemoteRecord, NEW t \in Time,
           Merge(r, hr, t).occurrences <= MaxOccurrences
    PROVE  Merge(r, hr, t) \in HostRecord /\ Merge(r, hr, t).ipaddr = hr.ipaddr
<1> DEFINE n == hr.occurrences + r.occurrences + Counted(hr, t)
           r1 == [hr EXCEPT !.processed = r.processed]
           r2 == [r1 EXCEPT !.lastseen = t]
<1>1. hr \in HostRecord
  BY DEF RemoteRecord
<1>2. r1 \in HostRecord /\ r1.ipaddr = hr.ipaddr
  BY <1>1 DEF HostRecord
<1> HIDE DEF r1
<1>3. r2 \in HostRecord /\ r2.ipaddr = hr.ipaddr
  BY <1>2, BoundsType DEF HostRecord, Time
<1>4. n \in Nat
  BY <1>1 DEF Counted, HostRecord
<1>5. Merge(r, hr, t) = [r2 EXCEPT !.occurrences = n]
  BY <1>1 DEF Merge, HostRecord, r1
<1> HIDE DEF r2, n
<1>6. QED BY <1>3, <1>4, <1>5, BoundsType DEF HostRecord

-----------------------------------------------------------------------------
(* The shape of the vector *)

Shape == FillCoversRecords /\ OneRecordPerHost /\ WholeChunks

\* A used slot that is emptied, or gets a record of the same host, keeps the
\* shape: what the walks, a further sighting and a merge do.
LEMMA SlotUpdate ==
    ASSUME TypeOK, Shape,
           NEW i \in Slots, Used(i),
           NEW x \in HostRecord \cup {NULL},
           x # NULL => x.ipaddr = hr_vector[i].ipaddr,
           hr_vector' = [hr_vector EXCEPT ![i] = x],
           UNCHANGED <<hr_vector_size, hr_vector_fill>>
    PROVE  /\ Shape'
           /\ hr_vector' \in [0..(hr_vector_size' - 1) -> HostRecord \cup {NULL}]
<1>1. hr_vector' \in [0..(hr_vector_size' - 1) -> HostRecord \cup {NULL}]
  BY DEF TypeOK, Slots
<1>2. FillCoversRecords'
  BY DEF Shape, FillCoversRecords, Slots, Used, TypeOK
<1>3. OneRecordPerHost'
  BY DEF Shape, OneRecordPerHost, Slots, Used, TypeOK
<1>4. WholeChunks'
  BY DEF Shape, WholeChunks
<1>5. QED BY <1>1, <1>2, <1>3, <1>4 DEF Shape

\* A record of a host that has none keeps the shape, with or without growth,
\* and so does the failure to allocate it.
LEMMA InsertShape ==
    ASSUME TypeOK, Shape, NEW r \in HostRecord, Matches(r.ipaddr) = {}, Insert(r)
    PROVE  /\ Shape'
           /\ hr_vector_size' \in Nat /\ hr_vector_fill' \in Nat
           /\ hr_vector' \in [0..(hr_vector_size' - 1) -> HostRecord \cup {NULL}]
<1>1. /\ GrownSize \in Nat /\ GrownSize >= hr_vector_size
      /\ FreeSlot \in 0..(GrownSize - 1)
      /\ FreeSlot \in Slots => ~Used(FreeSlot)
  BY FreeSlotIsFree
<1>2. /\ hr_vector_size \in Nat /\ hr_vector_fill \in Nat
      /\ hr_vector \in [Slots -> HostRecord \cup {NULL}]
      /\ hr_vector_fill <= hr_vector_size
      /\ \A i \in Slots : Used(i) => i < hr_vector_fill
  BY DEF TypeOK, Slots, Shape, FillCoversRecords
<1>3. \A i \in Slots : Used(i) => hr_vector[i].ipaddr # r.ipaddr
  BY <1>2 DEF Matches
<1>4. /\ Grown \in [0..(GrownSize - 1) -> HostRecord \cup {NULL}]
      /\ \A i \in 0..(GrownSize - 1) :
            Grown[i] # NULL => i \in Slots /\ Grown[i] = hr_vector[i] /\ Used(i)
  BY <1>1, <1>2 DEF Grown, Used
<1>5. hr_vector_size' = GrownSize
  BY DEF Insert
<1>6. WholeChunks'
  <2>1. PICK k \in 1..hr_vector_size : hr_vector_size = k * ChunkSize
    BY DEF Shape, WholeChunks
  <2>2. ChunkSize \in Nat /\ ChunkSize # 0 /\ k \in Nat
    BY <1>2, <2>1, VectorConfigType
  <2>3. CASE GrownSize = hr_vector_size
    BY <1>5, <2>1, <2>3 DEF WholeChunks
  <2>4. CASE GrownSize = hr_vector_size + ChunkSize
    <3>1. hr_vector_size + ChunkSize = (k + 1) * ChunkSize
      BY <2>1, <2>2
    <3>2. k + 1 \in 1..(hr_vector_size + ChunkSize)
      BY <1>2, <2>1, <2>2
    <3>3. QED BY <1>5, <2>4, <3>1, <3>2 DEF WholeChunks
  <2>5. QED BY <2>3, <2>4 DEF GrownSize
<1>7. CASE /\ hr_vector' = [Grown EXCEPT ![FreeSlot] = r]
           /\ hr_vector_fill' = Larger(FreeSlot + 1, hr_vector_fill)
  <2>1. /\ hr_vector'[FreeSlot] = r
        /\ \A i \in 0..(GrownSize - 1) : i # FreeSlot => hr_vector'[i] = Grown[i]
        /\ hr_vector' \in [0..(GrownSize - 1) -> HostRecord \cup {NULL}]
    BY <1>1, <1>4, <1>7
  <2>2. /\ hr_vector_fill' \in Nat /\ hr_vector_fill' <= GrownSize
        /\ FreeSlot < hr_vector_fill' /\ hr_vector_fill <= hr_vector_fill'
    BY <1>1, <1>2, <1>7 DEF Larger
  <2>3. FillCoversRecords'
    <3> SUFFICES ASSUME NEW i \in 0..(GrownSize - 1), hr_vector'[i] # NULL
                 PROVE  i < hr_vector_fill'
      BY <1>5, <2>2 DEF FillCoversRecords, Slots, Used
    <3>1. CASE i = FreeSlot
      BY <2>2, <3>1
    <3>2. CASE i # FreeSlot
      BY <1>2, <1>4, <2>1, <2>2, <3>2 DEF Slots
    <3>3. QED BY <3>1, <3>2
  <2>4. OneRecordPerHost'
    <3> SUFFICES ASSUME NEW i \in 0..(GrownSize - 1), NEW j \in 0..(GrownSize - 1),
                        hr_vector'[i] # NULL, hr_vector'[j] # NULL,
                        hr_vector'[i].ipaddr = hr_vector'[j].ipaddr
                 PROVE  i = j
      BY <1>5 DEF OneRecordPerHost, Slots, Used
    <3>1. CASE i # FreeSlot /\ j # FreeSlot
      BY <1>4, <2>1, <3>1 DEF Shape, OneRecordPerHost
    <3>2. CASE i = FreeSlot /\ j # FreeSlot
      BY <1>3, <1>4, <2>1, <3>2
    <3>3. CASE i # FreeSlot /\ j = FreeSlot
      BY <1>3, <1>4, <2>1, <3>3
    <3>4. QED BY <3>1, <3>2, <3>3
  <2>5. QED BY <1>1, <1>5, <1>6, <2>1, <2>2, <2>3, <2>4 DEF Shape
<1>8. CASE hr_vector' = Grown /\ UNCHANGED hr_vector_fill
  <2>1. FillCoversRecords'
    BY <1>1, <1>2, <1>4, <1>5, <1>8 DEF FillCoversRecords, Slots, Used
  <2>2. OneRecordPerHost'
    BY <1>4, <1>5, <1>8 DEF Shape, OneRecordPerHost, Slots, Used
  <2>3. QED BY <1>1, <1>2, <1>4, <1>5, <1>6, <1>8, <2>1, <2>2 DEF Shape
<1>9. QED BY <1>7, <1>8 DEF Insert

\* The size after the cut: whole chunks, no record beyond it, and less than a
\* chunk too many unless one chunk is all there is.
LEMMA NewSizeFits ==
    ASSUME TypeOK, Shape, LastUsed # hr_vector_size
    PROVE  /\ NewSize \in Nat /\ NewSize >= LastUsed /\ NewSize <= hr_vector_size
           /\ NewSize < LastUsed + ChunkSize \/ NewSize = ChunkSize
           /\ \E k \in 1..NewSize : NewSize = k * ChunkSize
<1>1. LastUsed \in 0..hr_vector_size /\ hr_vector_size \in Nat
  BY LastUsedIsLast DEF TypeOK
<1>2. LastUsed \in Nat /\ LastUsed < hr_vector_size
  BY <1>1
<1>3. PICK k \in 1..hr_vector_size : hr_vector_size = k * ChunkSize
  BY DEF Shape, WholeChunks
<1>4. PICK q \in Nat : ChunksFor(LastUsed) = q * ChunkSize
  BY <1>2, ChunksForBounds
<1>5. /\ ChunkSize \in Nat /\ ChunkSize # 0 /\ k \in Nat /\ k # 0
      /\ ChunksFor(LastUsed) \in Nat
      /\ ChunksFor(LastUsed) >= LastUsed
      /\ ChunksFor(LastUsed) < LastUsed + ChunkSize
  BY <1>1, <1>2, <1>3, ChunksForBounds, VectorConfigType
<1>6. ChunksFor(LastUsed) <= hr_vector_size
  <2>1. q * ChunkSize < k * ChunkSize + ChunkSize
    BY <1>1, <1>2, <1>3, <1>4, <1>5
  <2>2. q < k + 1
    <3> SUFFICES ASSUME q >= k + 1
                 PROVE  FALSE
      BY <1>4, <1>5
    <3>1. q * ChunkSize >= (k + 1) * ChunkSize
      BY <1>4, <1>5
    <3>2. (k + 1) * ChunkSize = k * ChunkSize + ChunkSize
      BY <1>5
    <3>3. q * ChunkSize \in Nat /\ k * ChunkSize \in Nat
      BY <1>4, <1>5
    <3>4. QED BY <1>5, <2>1, <3>1, <3>2, <3>3
  <2>3. QED BY <1>3, <1>4, <1>5, <2>2
<1>7. ChunkSize <= hr_vector_size
  BY <1>3, <1>5
<1>8. /\ NewSize \in Nat /\ NewSize >= LastUsed /\ NewSize <= hr_vector_size
      /\ NewSize < LastUsed + ChunkSize \/ NewSize = ChunkSize
  BY <1>2, <1>5, <1>6, <1>7 DEF NewSize, Larger
<1>9. \E j \in 1..NewSize : NewSize = j * ChunkSize
  <2>1. CASE NewSize = ChunkSize
    <3>1. ChunkSize = 1 * ChunkSize /\ 1 \in 1..ChunkSize
      BY <1>5
    <3>2. QED BY <2>1, <3>1
  <2>2. CASE NewSize = q * ChunkSize /\ NewSize > ChunkSize
    <3>1. q # 0 /\ q <= q * ChunkSize
      BY <1>4, <1>5, <2>2
    <3>2. QED BY <1>4, <1>8, <2>2, <3>1
  <2>3. QED BY <1>4, <1>5, <2>1, <2>2 DEF NewSize, Larger
<1>10. QED BY <1>8, <1>9

\* The cut at the end of a maintenance run loses no record.
LEMMA MaintenanceEndShape ==
    ASSUME TypeOK, Shape, MaintenanceEnd
    PROVE  /\ Shape'
           /\ hr_vector_size' \in Nat /\ hr_vector_fill' \in Nat
           /\ hr_vector' \in [0..(hr_vector_size' - 1) -> HostRecord \cup {NULL}]
<1>1. CASE LastUsed = hr_vector_size
  <2>1. UNCHANGED vector
    BY <1>1 DEF MaintenanceEnd
  <2>2. QED
    BY <2>1 DEF vector, Shape, FillCoversRecords, OneRecordPerHost, WholeChunks,
                Slots, Used, TypeOK
<1>2. CASE LastUsed # hr_vector_size
  <2>1. /\ hr_vector_size' = NewSize /\ hr_vector_fill' = LastUsed
        /\ hr_vector' = [i \in 0..(NewSize - 1) |-> hr_vector[i]]
    BY <1>2 DEF MaintenanceEnd
  <2>2. /\ LastUsed \in Nat /\ hr_vector_size \in Nat
        /\ \A i \in Slots : Used(i) => i < LastUsed
    BY LastUsedIsLast DEF TypeOK
  <2>3. /\ NewSize \in Nat /\ NewSize >= LastUsed /\ NewSize <= hr_vector_size
        /\ \E k \in 1..NewSize : NewSize = k * ChunkSize
    BY <1>2, NewSizeFits
  <2>4. WholeChunks'
    BY <2>1, <2>3 DEF WholeChunks
  <2>5. /\ hr_vector' \in [0..(NewSize - 1) -> HostRecord \cup {NULL}]
        /\ \A i \in 0..(NewSize - 1) : i \in Slots /\ hr_vector'[i] = hr_vector[i]
    BY <2>1, <2>2, <2>3 DEF TypeOK, Slots
  <2>6. FillCoversRecords'
    BY <2>1, <2>2, <2>3, <2>5 DEF FillCoversRecords, Slots, Used
  <2>7. OneRecordPerHost'
    BY <2>1, <2>5 DEF Shape, OneRecordPerHost, Slots, Used
  <2>8. QED BY <2>1, <2>2, <2>3, <2>4, <2>5, <2>6, <2>7 DEF Shape
<1>3. QED BY <1>1, <1>2

-----------------------------------------------------------------------------
(* The invariant *)

\* The action script's balance and the batch stay well typed in a walk.
LEMMA DoActionType ==
    ASSUME TypeOK, NEW r \in HostRecord
    PROVE  /\ do_action_new(r) => /\ blocked' \in [Ip -> -MaxCalls..MaxCalls]
                                 /\ outbox' \subseteq HostRecord
           /\ do_action_remove(r) => blocked' \in [Ip -> -MaxCalls..MaxCalls]
<1>1. r.ipaddr \in Ip
  BY DEF HostRecord
<1>2. do_action_new(r) => outbox' \subseteq HostRecord
  BY DEF do_action_new, Queued, TypeOK
<1>3. do_action_new(r) => blocked' \in [Ip -> -MaxCalls..MaxCalls]
  BY <1>1, VectorConfigType DEF do_action_new, TypeOK
<1>4. do_action_remove(r) => blocked' \in [Ip -> -MaxCalls..MaxCalls]
  BY <1>1, VectorConfigType DEF do_action_remove, TypeOK
<1>5. QED BY <1>2, <1>3, <1>4

\* A step that leaves the vector alone keeps its shape.
LEMMA SameVector ==
    ASSUME Shape, UNCHANGED vector
    PROVE  Shape'
  BY DEF vector, Shape, FillCoversRecords, OneRecordPerHost, WholeChunks, Slots, Used

\* The thread that walks for SIGUSR2 is one of those counted in purges.
WalkerCounted == vector_mutex = "enumerate" => purges > 0

\* A SIGUSR2 walk that holds the mutex is among the walks started.
LEMMA WalkerCountedStep ==
    ASSUME TypeOK, WalkerCounted, [Next]_vars
    PROVE  WalkerCounted'
<1> USE DEF WalkerCounted, threads
<1>1. CASE Next
  BY <1>1 DEF Next, Tick, records_add_ip, records_add_record, records_remove,
     ActionLock, ActionStep, ActionUnlock, ActionFlush, MaintenanceLock,
     MaintenanceStep, MaintenanceEnd, signalhandler_usr2, EnumerateLock,
     EnumerateStep, EnumerateUnlock, records_destroy, Lock, Unlock, TypeOK
<1>2. CASE UNCHANGED vars
  BY <1>2 DEF vars
<1>3. QED BY <1>1, <1>2

\* Every step keeps the types and the shape of the vector.
LEMMA VectorStep ==
    ASSUME TypeOK, Shape, WalkerCounted, [Next]_vars
    PROVE  TypeOK' /\ Shape'
<1> USE DEF threads
<1>1. CASE Tick
  <2>1. Shape'
    BY <1>1, SameVector DEF Tick
  <2>2. TypeOK'
    BY <1>1, BoundsType DEF Tick, vector, TypeOK, Time
  <2>3. QED BY <2>1, <2>2
<1>2. ASSUME NEW ip \in Ip, records_add_ip(ip)
      PROVE  TypeOK' /\ Shape'
  <2>1. now \in Time
    BY DEF TypeOK
  <2>2. CASE Matches(ip) # {}
    <3> DEFINE i == records_find(ip)
    <3>1. i \in Slots /\ Used(i) /\ hr_vector[i] \in HostRecord
      BY <2>2, FindIsMatch DEF Matches, TypeOK, Slots, Used
    <3>2. Replace(i, Seen(hr_vector[i], now))
      BY <1>2, <2>2 DEF records_add_ip
    <3> HIDE DEF i
    <3>3. /\ Seen(hr_vector[i], now) \in HostRecord
          /\ Seen(hr_vector[i], now).ipaddr = hr_vector[i].ipaddr
      BY <2>1, <3>1, <3>2, SeenType DEF Replace
    <3>4. /\ Shape'
          /\ hr_vector' \in [0..(hr_vector_size' - 1) -> HostRecord \cup {NULL}]
      BY <3>1, <3>2, <3>3, SlotUpdate DEF Replace
    <3>5. QED BY <1>2, <3>2, <3>4 DEF records_add_ip, Replace, TypeOK
  <2>3. CASE Matches(ip) = {}
    <3>1. NewRecord(ip, now) \in HostRecord /\ NewRecord(ip, now).ipaddr = ip
      BY <2>1, NewRecordType
    <3>2. Insert(NewRecord(ip, now))
      BY <1>2, <2>3 DEF records_add_ip
    <3>3. /\ Shape'
          /\ hr_vector_size' \in Nat /\ hr_vector_fill' \in Nat
          /\ hr_vector' \in [0..(hr_vector_size' - 1) -> HostRecord \cup {NULL}]
      BY <2>3, <3>1, <3>2, InsertShape
    <3>4. QED BY <1>2, <3>3 DEF records_add_ip, TypeOK
  <2>4. QED BY <2>2, <2>3
<1>3. ASSUME NEW hr \in RemoteRecord, records_add_record(hr)
      PROVE  TypeOK' /\ Shape'
  <2>1. now \in Time /\ hr \in HostRecord
    BY DEF TypeOK, RemoteRecord
  <2>2. CASE Matches(hr.ipaddr) # {}
    <3> DEFINE i == records_find(hr.ipaddr)
    <3>1. /\ i \in Slots /\ Used(i) /\ hr_vector[i] \in HostRecord
          /\ hr_vector[i].ipaddr = hr.ipaddr
      BY <2>2, FindIsMatch DEF Matches, TypeOK, Slots, Used
    <3>2. Replace(i, Merge(hr_vector[i], hr, now))
      BY <1>3, <2>2 DEF records_add_record
    <3> HIDE DEF i
    <3>3. /\ Merge(hr_vector[i], hr, now) \in HostRecord
          /\ Merge(hr_vector[i], hr, now).ipaddr = hr_vector[i].ipaddr
      BY <2>1, <3>1, <3>2, MergeType DEF Replace
    <3>4. /\ Shape'
          /\ hr_vector' \in [0..(hr_vector_size' - 1) -> HostRecord \cup {NULL}]
      BY <3>1, <3>2, <3>3, SlotUpdate DEF Replace
    <3>5. QED BY <1>3, <3>2, <3>4 DEF records_add_record, Replace, TypeOK
  <2>3. CASE Matches(hr.ipaddr) = {}
    <3>1. Insert(hr)
      BY <1>3, <2>3 DEF records_add_record
    <3>2. /\ Shape'
          /\ hr_vector_size' \in Nat /\ hr_vector_fill' \in Nat
          /\ hr_vector' \in [0..(hr_vector_size' - 1) -> HostRecord \cup {NULL}]
      BY <2>1, <2>3, <3>1, InsertShape
    <3>3. QED BY <1>3, <3>2 DEF records_add_record, TypeOK
  <2>4. QED BY <2>2, <2>3
<1>4. ASSUME NEW ip \in Ip, records_remove(ip)
      PROVE  TypeOK' /\ Shape'
  <2>1. records_find(ip) \in Slots /\ Used(records_find(ip))
    BY <1>4, FindIsMatch DEF records_remove, Matches
  <2>2. /\ Shape'
        /\ hr_vector' \in [0..(hr_vector_size' - 1) -> HostRecord \cup {NULL}]
    BY <1>4, <2>1, SlotUpdate DEF records_remove
  <2>3. QED BY <1>4, <2>2 DEF records_remove, TypeOK
<1>5. CASE ActionLock \/ MaintenanceLock \/ EnumerateLock
  <2>1. Shape'
    BY <1>5, SameVector DEF ActionLock, MaintenanceLock, EnumerateLock
  <2>2. TypeOK'
    BY <1>5 DEF ActionLock, MaintenanceLock, EnumerateLock, Lock, vector, TypeOK, Holder
  <2>3. QED BY <2>1, <2>2
<1>6. CASE ActionStep
  <2>1. cursor \in Slots
    BY <1>6 DEF ActionStep, TypeOK, Shape, FillCoversRecords, Slots
  <2>2. CASE ~Used(cursor)
    <3>1. Shape'
      BY <1>6, <2>2, SameVector DEF ActionStep, vector
    <3>2. QED BY <1>6, <2>2, <3>1 DEF ActionStep, TypeOK
  <2>3. CASE Used(cursor)
    <3> DEFINE r == hr_vector[cursor]
    <3>1. r \in HostRecord
      BY <2>1, <2>3 DEF TypeOK, Slots, Used
    <3>2. callback_action_new(cursor)
      BY <1>6, <2>3 DEF ActionStep
    <3>3. UNCHANGED <<hr_vector_size, hr_vector_fill>>
      BY <1>6 DEF ActionStep
    <3>4. PICK x \in HostRecord : /\ x.ipaddr = r.ipaddr
                                  /\ hr_vector' = [hr_vector EXCEPT ![cursor] = x]
      <4>1. /\ [r EXCEPT !.processed = 1] \in HostRecord
            /\ [r EXCEPT !.processed = 1].ipaddr = r.ipaddr
            /\ [r EXCEPT !.remove = 1] \in HostRecord
            /\ [r EXCEPT !.remove = 1].ipaddr = r.ipaddr
        BY <3>1 DEF HostRecord
      <4>2. hr_vector = [hr_vector EXCEPT ![cursor] = r]
        BY <2>1 DEF TypeOK, Slots
      <4>3. CASE IsOffender(r) /\ r.processed = 0
        <5>1. hr_vector' = [hr_vector EXCEPT ![cursor] = [r EXCEPT !.processed = 1]]
          BY <3>2, <4>3 DEF callback_action_new
        <5>2. QED BY <4>1, <5>1
      <4>4. CASE ~(IsOffender(r) /\ r.processed = 0) /\ Stale(r, now)
        <5>1. hr_vector' = [hr_vector EXCEPT ![cursor] = [r EXCEPT !.remove = 1]]
          BY <3>2, <4>4 DEF callback_action_new
        <5>2. QED BY <4>1, <5>1
      <4>5. CASE ~(IsOffender(r) /\ r.processed = 0) /\ ~Stale(r, now)
        <5>1. hr_vector' = hr_vector
          BY <3>2, <4>5 DEF callback_action_new
        <5>2. QED BY <3>1, <4>2, <5>1
      <4>6. QED BY <4>3, <4>4, <4>5
    <3>5. /\ Shape'
          /\ hr_vector' \in [0..(hr_vector_size' - 1) -> HostRecord \cup {NULL}]
      BY <2>1, <2>3, <3>3, <3>4, SlotUpdate
    <3>6. blocked' \in [Ip -> -MaxCalls..MaxCalls] /\ outbox' \subseteq HostRecord
      BY <3>1, <3>2, DoActionType DEF callback_action_new, TypeOK
    <3>7. QED BY <1>6, <3>5, <3>6 DEF ActionStep, TypeOK
  <2>4. QED BY <2>2, <2>3
<1>7. CASE ActionUnlock \/ EnumerateUnlock
  <2>1. Shape'
    BY <1>7, SameVector DEF ActionUnlock, EnumerateUnlock
  <2>2. TypeOK'
    <3>1. CASE ActionUnlock
      BY <3>1 DEF ActionUnlock, Unlock, vector, TypeOK, Holder
    <3>2. CASE EnumerateUnlock
      <4>1. purges' \in 0..MaxPurges
        BY <3>2, VectorConfigType DEF EnumerateUnlock, TypeOK, WalkerCounted
      <4>2. QED BY <3>2, <4>1 DEF EnumerateUnlock, Unlock, vector, TypeOK, Holder
    <3>3. QED BY <1>7, <3>1, <3>2
  <2>3. QED BY <2>1, <2>2
<1>8. CASE ActionFlush
  <2>1. Shape'
    BY <1>8, SameVector DEF ActionFlush
  <2>2. QED BY <1>8, <2>1 DEF ActionFlush, vector, TypeOK
<1>9. CASE MaintenanceStep
  <2>1. cursor \in Slots
    BY <1>9 DEF MaintenanceStep, TypeOK, Slots
  <2>2. CASE Used(cursor) /\ hr_vector[cursor].remove # 0
    <3>1. /\ Shape'
          /\ hr_vector' \in [0..(hr_vector_size' - 1) -> HostRecord \cup {NULL}]
      BY <1>9, <2>1, <2>2, SlotUpdate DEF MaintenanceStep
    <3>2. hr_vector[cursor] \in HostRecord
      BY <2>1, <2>2 DEF TypeOK, Slots, Used
    <3>3. blocked' \in [Ip -> -MaxCalls..MaxCalls]
      BY <1>9, <2>2, <3>2, DoActionType DEF MaintenanceStep, TypeOK
    <3>4. QED BY <1>9, <3>1, <3>3 DEF MaintenanceStep, TypeOK
  <2>3. CASE ~(Used(cursor) /\ hr_vector[cursor].remove # 0)
    <3>1. Shape'
      BY <1>9, <2>3, SameVector DEF MaintenanceStep, vector
    <3>2. QED BY <1>9, <2>3, <3>1 DEF MaintenanceStep, TypeOK
  <2>4. QED BY <2>2, <2>3
<1>10. CASE MaintenanceEnd
  <2>1. /\ Shape'
        /\ hr_vector_size' \in Nat /\ hr_vector_fill' \in Nat
        /\ hr_vector' \in [0..(hr_vector_size' - 1) -> HostRecord \cup {NULL}]
    BY <1>10, MaintenanceEndShape
  <2>2. QED BY <1>10, <2>1 DEF MaintenanceEnd, Unlock, TypeOK, Holder
<1>11. CASE signalhandler_usr2
  <2>1. Shape'
    BY <1>11, SameVector DEF signalhandler_usr2
  <2>2. QED
    BY <1>11, <2>1, VectorConfigType DEF signalhandler_usr2, vector, TypeOK
<1>12. CASE EnumerateStep
  <2>1. cursor \in Slots
    BY <1>12 DEF EnumerateStep, TypeOK, Shape, FillCoversRecords, Slots
  <2>2. CASE ~Used(cursor)
    <3>1. Shape'
      BY <1>12, <2>2, SameVector DEF EnumerateStep, vector
    <3>2. QED BY <1>12, <2>2, <3>1 DEF EnumerateStep, TypeOK
  <2>3. CASE Used(cursor)
    <3> DEFINE r == hr_vector[cursor]
    <3>1. r \in HostRecord
      BY <2>1, <2>3 DEF TypeOK, Slots, Used
    <3>2. /\ [r EXCEPT !.remove = 1] \in HostRecord
          /\ [r EXCEPT !.remove = 1].ipaddr = r.ipaddr
      BY <3>1 DEF HostRecord
    <3>3. hr_vector' = [hr_vector EXCEPT ![cursor] = [r EXCEPT !.remove = 1]]
      BY <1>12, <2>3 DEF EnumerateStep
    <3>4. /\ Shape'
          /\ hr_vector' \in [0..(hr_vector_size' - 1) -> HostRecord \cup {NULL}]
      BY <1>12, <2>1, <2>3, <3>2, <3>3, SlotUpdate DEF EnumerateStep
    <3>5. QED BY <1>12, <3>4 DEF EnumerateStep, TypeOK
  <2>4. QED BY <2>2, <2>3
<1>13. CASE records_destroy
  <2>1. blocked' \in [Ip -> -MaxCalls..MaxCalls]
    BY <1>13, VectorConfigType DEF records_destroy, TypeOK
  <2>2. /\ hr_vector' = [i \in Slots |-> NULL]
        /\ UNCHANGED <<hr_vector_size, hr_vector_fill>>
    BY <1>13 DEF records_destroy
  <2>3. Shape'
    BY <2>2 DEF Shape, FillCoversRecords, OneRecordPerHost, WholeChunks, Slots, Used
  <2>4. QED BY <1>13, <2>1, <2>2, <2>3 DEF records_destroy, TypeOK, Slots
<1>14. CASE UNCHANGED vars
  <2>1. Shape'
    BY <1>14, SameVector DEF vars, vector
  <2>2. QED BY <1>14, <2>1 DEF vars, TypeOK
<1>15. QED
  BY <1>1, <1>2, <1>3, <1>4, <1>5, <1>6, <1>7, <1>8, <1>9, <1>10, <1>11, <1>12,
     <1>13, <1>14 DEF Next

\* The vector starts with one empty chunk.
LEMMA VectorInit ==
    ASSUME Init
    PROVE  TypeOK /\ Shape /\ WalkerCounted
<1>1. ChunkSize \in Nat /\ ChunkSize # 0
  BY VectorConfigType
<1>2. TypeOK
  <2>1. running \in BOOLEAN /\ usr2 \in BOOLEAN
    BY DEF Init
  <2>2. QED
    BY <1>1, <2>1, BoundsType, VectorConfigType DEF Init, TypeOK, Time, Holder
<1>3. WholeChunks
  <2>1. 1 \in 1..ChunkSize /\ ChunkSize = 1 * ChunkSize
    BY <1>1
  <2>2. QED BY <2>1 DEF Init, WholeChunks
<1>4. FillCoversRecords /\ OneRecordPerHost
  BY <1>1 DEF Init, FillCoversRecords, OneRecordPerHost, Slots, Used
<1>5. WalkerCounted
  BY DEF Init, WalkerCounted
<1>6. QED BY <1>2, <1>3, <1>4, <1>5 DEF Shape

\* The inductive invariant.
LEMMA VectorInvariant == Spec => [](TypeOK /\ Shape /\ WalkerCounted)
<1> DEFINE Inv == TypeOK /\ Shape /\ WalkerCounted
<1>1. Init => Inv
  BY VectorInit
<1>2. Inv /\ [Next]_vars => Inv'
  BY VectorStep, WalkerCountedStep
<1>3. QED BY <1>1, <1>2, PTL DEF Spec

\* The vector and the threads that walk it keep their types.
THEOREM RecordVectorTypeOK == Spec => []TypeOK
  BY VectorInvariant, PTL

\* No slot in use lies at or above hr_vector_fill, so _records_find and the
\* walks miss no record (records.c, fill updates and the cut).
THEOREM FillCoversRecordsHolds == Spec => []FillCoversRecords
<1>1. Shape => FillCoversRecords
  BY DEF Shape
<1>2. QED BY <1>1, VectorInvariant, PTL

\* No host has two records (records.c, lookup before insertion).
THEOREM OneRecordPerHostHolds == Spec => []OneRecordPerHost
<1>1. Shape => OneRecordPerHost
  BY DEF Shape
<1>2. QED BY <1>1, VectorInvariant, PTL

\* The size is a whole number of chunks, as records.c asserts.
THEOREM WholeChunksHolds == Spec => []WholeChunks
<1>1. Shape => WholeChunks
  BY DEF Shape
<1>2. QED BY <1>1, VectorInvariant, PTL
-----------------------------------------------------------------------------
(* The vector implements the abstract store *)

\* Store, for the vector v of n slots.
StoreIn(v, n) ==
    [ip \in Ip |->
        LET S == {i \in 0..(n - 1) : v[i] # NULL /\ v[i].ipaddr = ip}
        IN  IF S = {} THEN NULL ELSE v[LeastOf(S)]]

\* With one record per host the store has the record of the only slot that
\* holds one, and NULL for a host no slot holds.
LEMMA StoreInIs ==
    ASSUME NEW n \in Nat, NEW v, NEW ip \in Ip,
           \A i, j \in 0..(n - 1) :
               v[i] # NULL /\ v[j] # NULL /\ v[i].ipaddr = v[j].ipaddr => i = j
    PROVE  /\ \A i \in 0..(n - 1) :
                  v[i] # NULL /\ v[i].ipaddr = ip => StoreIn(v, n)[ip] = v[i]
           /\ (\A i \in 0..(n - 1) : v[i] # NULL => v[i].ipaddr # ip)
                  => StoreIn(v, n)[ip] = NULL
<1> DEFINE S == {i \in 0..(n - 1) : v[i] # NULL /\ v[i].ipaddr = ip}
<1>1. StoreIn(v, n)[ip] = IF S = {} THEN NULL ELSE v[LeastOf(S)]
  BY DEF StoreIn
<1>2. ASSUME NEW i \in 0..(n - 1), v[i] # NULL, v[i].ipaddr = ip
      PROVE  StoreIn(v, n)[ip] = v[i]
  <2>1. S \subseteq Nat /\ i \in S
    BY <1>2
  <2>2. LeastOf(S) \in S
    BY <2>1, LeastOfIsLeast
  <2>3. LeastOf(S) = i
    BY <1>2, <2>2
  <2>4. QED BY <1>1, <2>1, <2>3
<1>3. ASSUME \A i \in 0..(n - 1) : v[i] # NULL => v[i].ipaddr # ip
      PROVE  StoreIn(v, n)[ip] = NULL
  <2>1. S = {}
    BY <1>3
  <2>2. QED BY <1>1, <2>1
<1>4. QED BY <1>2, <1>3

\* What StoreInIs says of the vector.
LEMMA StoreIs ==
    ASSUME TypeOK, Shape, NEW ip \in Ip
    PROVE  /\ \A i \in Slots :
                  Used(i) /\ hr_vector[i].ipaddr = ip => Store[ip] = hr_vector[i]
           /\ (\A i \in Slots : Used(i) => hr_vector[i].ipaddr # ip)
                  => Store[ip] = NULL
<1>1. Store = StoreIn(hr_vector, hr_vector_size)
  BY DEF Store, StoreIn, Slots, Used
<1>2. hr_vector_size \in Nat
  BY DEF TypeOK
<1>3. \A i, j \in 0..(hr_vector_size - 1) :
         hr_vector[i] # NULL /\ hr_vector[j] # NULL
            /\ hr_vector[i].ipaddr = hr_vector[j].ipaddr => i = j
  BY DEF Shape, OneRecordPerHost, Slots, Used
<1>4. QED BY <1>1, <1>2, <1>3, StoreInIs DEF Slots, Used

\* What StoreInIs says of the vector after a step.
LEMMA StoreIsNext ==
    ASSUME TypeOK', Shape', NEW ip \in Ip
    PROVE  /\ \A i \in Slots' :
                  hr_vector'[i] # NULL /\ hr_vector'[i].ipaddr = ip
                      => Store'[ip] = hr_vector'[i]
           /\ (\A i \in Slots' : hr_vector'[i] # NULL => hr_vector'[i].ipaddr # ip)
                  => Store'[ip] = NULL
<1>1. Store' = StoreIn(hr_vector', hr_vector_size')
  BY DEF Store, StoreIn, Slots, Used
<1>2. hr_vector_size' \in Nat
  BY DEF TypeOK
<1>3. \A i, j \in 0..(hr_vector_size' - 1) :
         hr_vector'[i] # NULL /\ hr_vector'[j] # NULL
            /\ hr_vector'[i].ipaddr = hr_vector'[j].ipaddr => i = j
  BY DEF Shape, OneRecordPerHost, Slots, Used
<1>4. QED BY <1>1, <1>2, <1>3, StoreInIs DEF Slots

\* The store is a function of the hosts.
LEMMA StoreType ==
    ASSUME TypeOK, Shape
    PROVE  /\ Store \in [Ip -> HostRecord \cup {NULL}]
           /\ \A ip \in Ip : Store[ip] # NULL => Store[ip].ipaddr = ip
<1>1. Store = [ip \in Ip |-> Store[ip]]
  BY DEF Store
<1>2. ASSUME NEW ip \in Ip
      PROVE  /\ Store[ip] \in HostRecord \cup {NULL}
             /\ Store[ip] # NULL => Store[ip].ipaddr = ip
  <2>1. CASE \E i \in Slots : Used(i) /\ hr_vector[i].ipaddr = ip
    <3>1. PICK i \in Slots : Used(i) /\ hr_vector[i].ipaddr = ip
      BY <2>1
    <3>2. Store[ip] = hr_vector[i]
      BY <3>1, StoreIs
    <3>3. QED BY <3>1, <3>2 DEF TypeOK, Slots
  <2>2. CASE \A i \in Slots : Used(i) => hr_vector[i].ipaddr # ip
    BY <2>2, StoreIs
  <2>3. QED BY <2>1, <2>2
<1>3. QED BY <1>1, <1>2

\* Slots of other hosts untouched, the host given the record x or none: the
\* store changes at this host alone.
LEMMA StoreStep ==
    ASSUME TypeOK, Shape, TypeOK', Shape',
           NEW ip \in Ip, NEW x \in HostRecord \cup {NULL},
           x = NULL => \A i \in Slots' : hr_vector'[i] # NULL
                                             => hr_vector'[i].ipaddr # ip,
           x # NULL => /\ x.ipaddr = ip
                       /\ \E i \in Slots' : hr_vector'[i] = x,
           \A i \in Slots : Used(i) /\ hr_vector[i].ipaddr # ip
               => i \in Slots' /\ hr_vector'[i] = hr_vector[i],
           \A i \in Slots' : hr_vector'[i] # NULL /\ hr_vector'[i].ipaddr # ip
               => i \in Slots /\ hr_vector[i] = hr_vector'[i]
    PROVE  Store' = [Store EXCEPT ![ip] = x]
<1>1. Store' = [k \in Ip |-> Store'[k]]
  BY DEF Store
<1>2. Store'[ip] = x
  <2>1. CASE x = NULL
    BY <2>1, StoreIsNext
  <2>2. CASE x # NULL
    BY <2>2, StoreIsNext
  <2>3. QED BY <2>1, <2>2
<1>3. ASSUME NEW k \in Ip, k # ip
      PROVE  Store'[k] = Store[k]
  <2>1. CASE \E i \in Slots : Used(i) /\ hr_vector[i].ipaddr = k
    <3>1. PICK i \in Slots : Used(i) /\ hr_vector[i].ipaddr = k
      BY <2>1
    <3>2. i \in Slots' /\ hr_vector'[i] = hr_vector[i]
      BY <1>3, <3>1
    <3>3. Store[k] = hr_vector[i]
      BY <3>1, StoreIs
    <3>4. Store'[k] = hr_vector'[i]
      BY <3>1, <3>2, StoreIsNext DEF Used
    <3>5. QED BY <3>2, <3>3, <3>4
  <2>2. CASE \A i \in Slots : Used(i) => hr_vector[i].ipaddr # k
    <3>1. \A i \in Slots' : hr_vector'[i] # NULL => hr_vector'[i].ipaddr # k
      BY <1>3, <2>2 DEF Used
    <3>2. QED BY <2>2, <3>1, StoreIs, StoreIsNext
  <2>3. QED BY <2>1, <2>2
<1>4. Store \in [Ip -> HostRecord \cup {NULL}]
  BY StoreType
<1>5. QED BY <1>1, <1>2, <1>3, <1>4

\* The records where they were, the empty slots perhaps more or fewer: the
\* store is the same.
LEMMA StoreSame ==
    ASSUME TypeOK, Shape, TypeOK', Shape',
           \A i \in Slots : Used(i) => i \in Slots' /\ hr_vector'[i] = hr_vector[i],
           \A i \in Slots' : hr_vector'[i] # NULL
               => i \in Slots /\ hr_vector[i] = hr_vector'[i]
    PROVE  Store' = Store
<1>1. Store' = [k \in Ip |-> Store'[k]]
  BY DEF Store
<1>2. ASSUME NEW k \in Ip
      PROVE  Store'[k] = Store[k]
  <2>1. CASE \E i \in Slots : Used(i) /\ hr_vector[i].ipaddr = k
    <3>1. PICK i \in Slots : Used(i) /\ hr_vector[i].ipaddr = k
      BY <2>1
    <3>2. i \in Slots' /\ hr_vector'[i] = hr_vector[i]
      BY <3>1
    <3>3. Store[k] = hr_vector[i]
      BY <3>1, StoreIs
    <3>4. Store'[k] = hr_vector'[i]
      BY <3>1, <3>2, StoreIsNext DEF Used
    <3>5. QED BY <3>2, <3>3, <3>4
  <2>2. CASE \A i \in Slots : Used(i) => hr_vector[i].ipaddr # k
    <3>1. \A i \in Slots' : hr_vector'[i] # NULL => hr_vector'[i].ipaddr # k
      BY <2>2 DEF Used
    <3>2. QED BY <2>2, <3>1, StoreIs, StoreIsNext
  <2>3. QED BY <2>1, <2>2
<1>3. Store \in [Ip -> HostRecord \cup {NULL}]
  BY StoreType
<1>4. QED BY <1>1, <1>2, <1>3

\* One slot in use is emptied, or gets another record of its host.
LEMMA StoreSlot ==
    ASSUME TypeOK, Shape, TypeOK', Shape',
           NEW i \in Slots, Used(i), NEW x \in HostRecord \cup {NULL},
           x # NULL => x.ipaddr = hr_vector[i].ipaddr,
           hr_vector' = [hr_vector EXCEPT ![i] = x],
           UNCHANGED hr_vector_size
    PROVE  /\ hr_vector[i].ipaddr \in Ip
           /\ Store[hr_vector[i].ipaddr] = hr_vector[i]
           /\ Store' = [Store EXCEPT ![hr_vector[i].ipaddr] = x]
<1> DEFINE ip == hr_vector[i].ipaddr
<1>1. hr_vector[i] \in HostRecord /\ ip \in Ip
  BY DEF TypeOK, Slots, Used, HostRecord
<1>2. Slots' = Slots
  BY DEF Slots
<1>3. hr_vector'[i] = x /\ \A j \in Slots : j # i => hr_vector'[j] = hr_vector[j]
  BY DEF TypeOK, Slots
<1>4. \A j \in Slots : Used(j) /\ hr_vector[j].ipaddr = ip => j = i
  BY DEF Shape, OneRecordPerHost
<1>5. Store[ip] = hr_vector[i]
  BY <1>1, StoreIs
<1> HIDE DEF ip
<1>6. x = NULL => \A j \in Slots' : hr_vector'[j] # NULL => hr_vector'[j].ipaddr # ip
  BY <1>2, <1>3, <1>4 DEF Used
<1>7. x # NULL => x.ipaddr = ip /\ \E j \in Slots' : hr_vector'[j] = x
  BY <1>2, <1>3 DEF ip
<1>8. \A j \in Slots : Used(j) /\ hr_vector[j].ipaddr # ip
          => j \in Slots' /\ hr_vector'[j] = hr_vector[j]
  BY <1>2, <1>3 DEF ip
<1>9. \A j \in Slots' : hr_vector'[j] # NULL /\ hr_vector'[j].ipaddr # ip
          => j \in Slots /\ hr_vector[j] = hr_vector'[j]
  BY <1>2, <1>3, <1>7
<1>10. Store' = [Store EXCEPT ![ip] = x]
  BY <1>1, <1>6, <1>7, <1>8, <1>9, StoreStep
<1>11. QED BY <1>1, <1>5, <1>10 DEF ip

\* The record of a new host goes into the store, or is lost to malloc.
LEMMA StoreInsert ==
    ASSUME TypeOK, Shape, TypeOK', Shape', NEW r \in HostRecord,
           Matches(r.ipaddr) = {}, Insert(r)
    PROVE  /\ Store[r.ipaddr] = NULL
           /\ Store' = Store \/ Store' = [Store EXCEPT ![r.ipaddr] = r]
<1> DEFINE ip == r.ipaddr
<1>1. /\ GrownSize \in Nat /\ GrownSize >= hr_vector_size
      /\ FreeSlot \in 0..(GrownSize - 1)
      /\ FreeSlot \in Slots => ~Used(FreeSlot)
  BY FreeSlotIsFree
<1>2. hr_vector_size \in Nat /\ ip \in Ip
  BY DEF TypeOK, HostRecord
<1>3. \A i \in Slots : Used(i) => hr_vector[i].ipaddr # ip
  BY DEF Matches, Shape, FillCoversRecords
<1>4. Store[ip] = NULL
  BY <1>2, <1>3, StoreIs
<1>5. Slots' = 0..(GrownSize - 1) /\ Slots \subseteq Slots'
  BY <1>1, <1>2 DEF Insert, Slots
<1>6. \A i \in Slots' : Grown[i] = IF i \in Slots THEN hr_vector[i] ELSE NULL
  BY <1>5 DEF Grown
<1> HIDE DEF ip
<1>7. CASE hr_vector' = Grown
  BY <1>5, <1>6, <1>7, StoreSame, <1>4 DEF Used, ip
<1>8. CASE hr_vector' = [Grown EXCEPT ![FreeSlot] = r]
  <2>1. DOMAIN Grown = Slots'
    BY <1>5 DEF Grown
  <2>2. hr_vector'[FreeSlot] = r /\ \A i \in Slots' : i # FreeSlot => hr_vector'[i] = Grown[i]
    BY <1>1, <1>5, <1>8, <2>1
  <2>3. r # NULL /\ FreeSlot \in Slots' /\ r.ipaddr = ip
    BY <1>1, <1>5, NullIsNoRecord DEF ip
  <2>4. \A i \in Slots : Used(i) /\ hr_vector[i].ipaddr # ip
            => i \in Slots' /\ hr_vector'[i] = hr_vector[i]
    BY <1>1, <1>5, <1>6, <2>2
  <2>5. \A i \in Slots' : hr_vector'[i] # NULL /\ hr_vector'[i].ipaddr # ip
            => i \in Slots /\ hr_vector[i] = hr_vector'[i]
    BY <1>6, <2>2, <2>3
  <2>6. Store' = [Store EXCEPT ![ip] = r]
    BY <1>2, <2>2, <2>3, <2>4, <2>5, StoreStep
  <2>7. QED BY <1>4, <2>6 DEF ip
<1>9. QED BY <1>7, <1>8 DEF Insert

\* The abstract store has the same operations on host records.
LEMMA SameRecords ==
    /\ \A r, t : E!Seen(r, t) = Seen(r, t)
    /\ \A ip, t : E!NewRecord(ip, t) = NewRecord(ip, t)
    /\ \A r, hr, t : E!Merge(r, hr, t) = Merge(r, hr, t)
    /\ \A r : E!IsOffender(r) = IsOffender(r)
    /\ \A r, t : E!Stale(r, t) = Stale(r, t)
    /\ E!HostRecord = HostRecord
    /\ E!RemoteRecord = RemoteRecord
<1>1. E!HostRecord = HostRecord
  BY DEF E!HostRecord, HostRecord, E!Time, Time, E!Origin, Origin
<1>2. /\ \A r : E!IsOffender(r) = IsOffender(r)
      /\ \A r, t : E!Stale(r, t) = Stale(r, t)
  BY DEF E!IsOffender, IsOffender, E!Stale, Stale, E!LastSighting, LastSighting
<1>3. E!RemoteRecord = RemoteRecord
  BY <1>1, <1>2 DEF E!RemoteRecord, RemoteRecord
<1>4. \A r, t : E!Seen(r, t) = Seen(r, t)
  BY DEF E!Seen, Seen, E!Counted, Counted
<1>5. \A r, hr, t : E!Merge(r, hr, t) = Merge(r, hr, t)
  BY DEF E!Merge, Merge, E!Counted, Counted
<1>6. \A ip, t : E!NewRecord(ip, t) = NewRecord(ip, t)
  BY DEF E!NewRecord, NewRecord
<1>7. QED BY <1>1, <1>2, <1>3, <1>4, <1>5, <1>6

\* Batches are counted alike on both sides.
LEMMA SameBatch == \A r : E!Queued(r) = Queued(r)
<1>1. E!Cardinality(outbox) = Cardinality(outbox)
  BY DEF E!Cardinality, Cardinality
<1>2. QED BY <1>1 DEF E!Queued, Queued

\* A walk goes on only while the program runs, and for SIGUSR2 only when the
\* signal has arrived.
WalksAllowed ==
    /\ vector_mutex # "nobody" => running
    /\ purges > 0 => usr2

\* Every step keeps WalksAllowed.
LEMMA WalksAllowedStep ==
    ASSUME TypeOK, WalkerCounted, WalksAllowed, [Next]_vars
    PROVE  WalksAllowed'
<1> USE DEF WalksAllowed, threads
<1>1. CASE Next
  BY <1>1 DEF Next, Tick, records_add_ip, records_add_record, records_remove,
     ActionLock, ActionStep, ActionUnlock, ActionFlush, MaintenanceLock,
     MaintenanceStep, MaintenanceEnd, signalhandler_usr2, EnumerateLock,
     EnumerateStep, EnumerateUnlock, records_destroy, Lock, Unlock, TypeOK,
     WalkerCounted
<1>2. CASE UNCHANGED vars
  BY <1>2 DEF vars
<1>3. QED BY <1>1, <1>2

\* The strengthened invariant the refinement needs.
VInv == TypeOK /\ Shape /\ WalkerCounted /\ WalksAllowed

\* A step of the action walk is a step of the abstract action thread, or none.
LEMMA ActionStepRefines ==
    ASSUME VInv, VInv', ActionStep
    PROVE  E!Next \/ UNCHANGED E!vars
<1> DEFINE r == hr_vector[cursor]
           ip == r.ipaddr
<1>1. /\ TypeOK /\ Shape /\ TypeOK' /\ Shape' /\ running
      /\ UNCHANGED <<now, running, usr2, hr_vector_size>>
  BY DEF VInv, WalksAllowed, ActionStep
<1>2. cursor \in Slots
  BY <1>1 DEF ActionStep, TypeOK, Shape, FillCoversRecords, Slots
<1>3. CASE ~Used(cursor)
  <2>1. UNCHANGED <<hr_vector, blocked, outbox>>
    BY <1>3 DEF ActionStep
  <2>2. Store' = Store
    BY <1>1, <2>1 DEF Store, Slots, Used
  <2>3. QED BY <1>1, <2>1, <2>2 DEF E!vars
<1>4. CASE Used(cursor)
  <2>1. r \in HostRecord /\ callback_action_new(cursor)
    BY <1>1, <1>2, <1>4 DEF TypeOK, Slots, Used, ActionStep
  <2>2. /\ [r EXCEPT !.processed = 1] \in HostRecord
        /\ [r EXCEPT !.processed = 1].ipaddr = r.ipaddr
        /\ [r EXCEPT !.remove = 1] \in HostRecord
        /\ [r EXCEPT !.remove = 1].ipaddr = r.ipaddr
    BY <2>1 DEF HostRecord
  <2>3. ip \in Ip /\ Store[ip] = r /\ Store[ip] # NULL
    BY <1>1, <1>2, <1>4, <2>1, StoreIs DEF HostRecord, Used
  <2>4. CASE IsOffender(r) /\ r.processed = 0
    <3>1. /\ hr_vector' = [hr_vector EXCEPT ![cursor] = [r EXCEPT !.processed = 1]]
          /\ do_action_new(r)
      BY <2>1, <2>4 DEF callback_action_new
    <3>2. Store' = [Store EXCEPT ![ip] = [r EXCEPT !.processed = 1]]
      BY <1>1, <1>2, <1>4, <2>2, <3>1, StoreSlot
    <3>3. Store' = [Store EXCEPT ![ip].processed = 1]
      BY <2>3, <3>2
    <3>4. E!do_action_new(ip)
      BY <2>3, <3>1, SameBatch DEF do_action_new, E!do_action_new, Accessible, E!Accessible
    <3>5. E!callback_action_new(ip)
      BY <1>1, <2>3, <2>4, <3>3, <3>4, SameRecords DEF E!callback_action_new, E!Known
    <3>6. QED BY <2>3, <3>5 DEF E!Next
  <2>5. CASE ~(IsOffender(r) /\ r.processed = 0) /\ Stale(r, now)
    <3>1. /\ hr_vector' = [hr_vector EXCEPT ![cursor] = [r EXCEPT !.remove = 1]]
          /\ UNCHANGED <<blocked, outbox>>
      BY <2>1, <2>5 DEF callback_action_new
    <3>2. Store' = [Store EXCEPT ![ip] = [r EXCEPT !.remove = 1]]
      BY <1>1, <1>2, <1>4, <2>2, <3>1, StoreSlot
    <3>3. Store' = [Store EXCEPT ![ip].remove = 1]
      BY <2>3, <3>2
    <3>4. E!callback_action_new(ip)
      BY <1>1, <2>3, <2>5, <3>1, <3>3, SameRecords DEF E!callback_action_new, E!Known
    <3>5. QED BY <2>3, <3>4 DEF E!Next
  <2>6. CASE ~(IsOffender(r) /\ r.processed = 0) /\ ~Stale(r, now)
    <3>1. UNCHANGED <<hr_vector, blocked, outbox>>
      BY <2>1, <2>6 DEF callback_action_new
    <3>2. Store' = Store
      BY <1>1, <3>1 DEF Store, Slots, Used
    <3>3. QED BY <1>1, <3>1, <3>2 DEF E!vars
  <2>7. QED BY <2>4, <2>5, <2>6
<1>5. QED BY <1>3, <1>4

\* A step of the maintenance walk purges one host, or none.
LEMMA MaintenanceStepRefines ==
    ASSUME VInv, VInv', MaintenanceStep
    PROVE  E!Next \/ UNCHANGED E!vars
<1> DEFINE r == hr_vector[cursor]
           ip == r.ipaddr
<1>1. /\ TypeOK /\ Shape /\ TypeOK' /\ Shape' /\ running
      /\ UNCHANGED <<now, outbox, running, usr2, hr_vector_size>>
  BY DEF VInv, WalksAllowed, MaintenanceStep
<1>2. cursor \in Slots
  BY <1>1 DEF MaintenanceStep, TypeOK, Slots
<1>3. CASE ~(Used(cursor) /\ r.remove # 0)
  <2>1. UNCHANGED <<hr_vector, blocked>>
    BY <1>3 DEF MaintenanceStep
  <2>2. Store' = Store
    BY <1>1, <2>1 DEF Store, Slots, Used
  <2>3. QED BY <1>1, <2>1, <2>2 DEF E!vars
<1>4. CASE Used(cursor) /\ r.remove # 0
  <2>1. r \in HostRecord
    BY <1>1, <1>2, <1>4 DEF TypeOK, Slots, Used
  <2>2. /\ hr_vector' = [hr_vector EXCEPT ![cursor] = NULL]
        /\ IF r.processed # 0 THEN do_action_remove(r) ELSE UNCHANGED blocked
    BY <1>4 DEF MaintenanceStep
  <2>3. ip \in Ip /\ Store[ip] = r /\ Store[ip] # NULL
    BY <1>1, <1>2, <1>4, <2>1, StoreIs DEF HostRecord, Used
  <2>4. Store' = [Store EXCEPT ![ip] = NULL]
    BY <1>1, <1>2, <1>4, <2>2, StoreSlot
  <2>5. blocked = [k \in Ip |-> blocked[k]]
    BY <1>1 DEF TypeOK
  <2>6. E!action_removal({ip})
    <3>1. CASE r.processed # 0
      <4>1. PICK ok \in Accessible :
               /\ ok => blocked[ip] > -MaxCalls
               /\ blocked' = IF ok THEN [blocked EXCEPT ![ip] = @ - 1] ELSE blocked
        BY <2>2, <3>1 DEF do_action_remove
      <4> DEFINE denied == IF ok THEN {} ELSE {ip}
                 called == {k \in {ip} \ denied : E!Known(k) /\ Store[k].processed # 0}
      <4>2. denied \in IF AccessMayFail THEN SUBSET {ip} ELSE {{}}
        BY <4>1, VectorConfigType DEF Accessible
      <4>3. called = IF ok THEN {ip} ELSE {}
        BY <2>3, <3>1 DEF E!Known
      <4>4. blocked' = [k \in Ip |-> IF k \in called THEN blocked[k] - 1 ELSE blocked[k]]
        BY <2>3, <2>5, <4>1, <4>3
      <4>5. \A k \in called : blocked[k] > -MaxCalls
        BY <4>1, <4>3
      <4> HIDE DEF denied
      <4>6. QED BY <4>2, <4>4, <4>5 DEF E!action_removal
    <3>2. CASE r.processed = 0
      <4> DEFINE called == {k \in {ip} \ {} : E!Known(k) /\ Store[k].processed # 0}
      <4>1. called = {}
        BY <2>3, <3>2
      <4>2. blocked' = [k \in Ip |-> IF k \in called THEN blocked[k] - 1 ELSE blocked[k]]
        BY <2>2, <2>5, <3>2, <4>1
      <4>3. \A k \in called : blocked[k] > -MaxCalls
        BY <4>1
      <4>4. {} \in IF AccessMayFail THEN SUBSET {ip} ELSE {{}}
        OBVIOUS
      <4>5. QED BY <4>2, <4>3, <4>4 DEF E!action_removal
    <3>3. QED BY <3>1, <3>2
  <2>7. E!Purge(ip)
    BY <1>1, <1>4, <2>3, <2>4, <2>6 DEF E!Purge, E!Known
  <2>8. QED BY <2>3, <2>7 DEF E!Next
<1>5. QED BY <1>3, <1>4

\* A step of the walk for SIGUSR2 marks one host, or none.
LEMMA EnumerateStepRefines ==
    ASSUME VInv, VInv', EnumerateStep
    PROVE  E!Next \/ UNCHANGED E!vars
<1> DEFINE r == hr_vector[cursor]
           ip == r.ipaddr
<1>1. /\ TypeOK /\ Shape /\ TypeOK' /\ Shape' /\ running
      /\ UNCHANGED <<now, blocked, outbox, running, usr2, hr_vector_size>>
  BY DEF VInv, WalksAllowed, EnumerateStep
<1>2. usr2
  BY DEF VInv, WalksAllowed, WalkerCounted, EnumerateStep
<1>3. cursor \in Slots
  BY <1>1 DEF EnumerateStep, TypeOK, Shape, FillCoversRecords, Slots
<1>4. CASE ~Used(cursor)
  <2>1. hr_vector' = hr_vector
    BY <1>4 DEF EnumerateStep
  <2>2. Store' = Store
    BY <1>1, <2>1 DEF Store, Slots, Used
  <2>3. QED BY <1>1, <2>1, <2>2 DEF E!vars
<1>5. CASE Used(cursor)
  <2>1. r \in HostRecord
    BY <1>1, <1>3, <1>5 DEF TypeOK, Slots, Used
  <2>2. /\ [r EXCEPT !.remove = 1] \in HostRecord
        /\ [r EXCEPT !.remove = 1].ipaddr = r.ipaddr
    BY <2>1 DEF HostRecord
  <2>3. hr_vector' = [hr_vector EXCEPT ![cursor] = [r EXCEPT !.remove = 1]]
    BY <1>5 DEF EnumerateStep
  <2>4. ip \in Ip /\ Store[ip] = r /\ Store[ip] # NULL
    BY <1>1, <1>3, <1>5, <2>1, StoreIs DEF HostRecord, Used
  <2>5. Store' = [Store EXCEPT ![ip] = [r EXCEPT !.remove = 1]]
    BY <1>1, <1>3, <1>5, <2>2, <2>3, StoreSlot
  <2>6. Store' = [Store EXCEPT ![ip].remove = 1]
    BY <2>4, <2>5
  <2>7. E!callback_remove_all(ip)
    BY <1>1, <1>2, <2>4, <2>6 DEF E!callback_remove_all, E!Known
  <2>8. QED BY <2>4, <2>7 DEF E!Next
<1>6. QED BY <1>4, <1>5

\* A sighting in the log (records_add_ip) is one of the abstract store, or the
\* record is lost to malloc and the store does not change.
LEMMA AddIpRefines ==
    ASSUME VInv, VInv', NEW ip \in Ip, records_add_ip(ip)
    PROVE  E!Next \/ UNCHANGED E!vars
<1>1. /\ TypeOK /\ Shape /\ TypeOK' /\ Shape' /\ running /\ now \in Time
      /\ UNCHANGED <<now, blocked, outbox, running, usr2>>
  BY DEF VInv, records_add_ip, TypeOK
<1>2. CASE Matches(ip) # {}
  <2> DEFINE i == records_find(ip)
             r == hr_vector[i]
  <2>1. i \in Slots /\ Used(i) /\ r \in HostRecord /\ r.ipaddr = ip
    BY <1>1, <1>2, FindIsMatch DEF Matches, TypeOK, Slots, Used
  <2>2. Replace(i, Seen(r, now))
    BY <1>2 DEF records_add_ip
  <2> HIDE DEF i
  <2>3. Seen(r, now) \in HostRecord /\ Seen(r, now).ipaddr = r.ipaddr
    BY <1>1, <2>1, <2>2, SeenType DEF Replace
  <2>4. Store[ip] = r /\ Store' = [Store EXCEPT ![ip] = Seen(r, now)]
    BY <1>1, <2>1, <2>2, <2>3, StoreSlot DEF Replace
  <2>5. E!Sighted(ip) = Seen(r, now)
    BY <2>1, <2>4, SameRecords DEF E!Sighted, E!Known, Used
  <2>6. E!records_add_ip(ip)
    BY <1>1, <2>2, <2>4, <2>5 DEF E!records_add_ip, Replace
  <2>7. QED BY <2>6 DEF E!Next
<1>3. CASE Matches(ip) = {}
  <2> DEFINE r == NewRecord(ip, now)
  <2>1. r \in HostRecord /\ r.ipaddr = ip
    BY <1>1, NewRecordType
  <2>2. Insert(r)
    BY <1>3 DEF records_add_ip
  <2>3. r.occurrences <= MaxOccurrences
    BY BoundsType DEF NewRecord
  <2>4. E!NewRecord(ip, now) = r
    BY SameRecords
  <2> HIDE DEF r
  <2>5. Store[ip] = NULL /\ (Store' = Store \/ Store' = [Store EXCEPT ![ip] = r])
    BY <1>1, <1>3, <2>1, <2>2, StoreInsert
  <2>6. E!Sighted(ip) = r
    BY <2>4, <2>5 DEF E!Sighted, E!Known
  <2>7. CASE Store' = Store
    BY <1>1, <2>7 DEF E!vars
  <2>8. CASE Store' = [Store EXCEPT ![ip] = r]
    <3>1. E!records_add_ip(ip)
      BY <1>1, <2>3, <2>6, <2>8 DEF E!records_add_ip
    <3>2. QED BY <3>1 DEF E!Next
  <2>9. QED BY <2>5, <2>7, <2>8
<1>4. QED BY <1>2, <1>3

\* A record from a peer (records_add_record) arrives in the abstract store, or
\* is lost to malloc.
LEMMA AddRecordRefines ==
    ASSUME VInv, VInv', NEW hr \in RemoteRecord, records_add_record(hr)
    PROVE  E!Next \/ UNCHANGED E!vars
<1> DEFINE ip == hr.ipaddr
<1>1. /\ TypeOK /\ Shape /\ TypeOK' /\ Shape' /\ running /\ now \in Time
      /\ UNCHANGED <<now, blocked, outbox, running, usr2>>
  BY DEF VInv, records_add_record, TypeOK
<1>2. hr \in HostRecord /\ hr \in E!RemoteRecord /\ ip \in Ip
  BY SameRecords DEF RemoteRecord, HostRecord
<1>3. CASE Matches(ip) # {}
  <2> DEFINE i == records_find(ip)
             r == hr_vector[i]
  <2>1. i \in Slots /\ Used(i) /\ r \in HostRecord /\ r.ipaddr = ip
    BY <1>1, <1>3, FindIsMatch DEF Matches, TypeOK, Slots, Used
  <2>2. Replace(i, Merge(r, hr, now))
    BY <1>3 DEF records_add_record
  <2> HIDE DEF i
  <2>3. Merge(r, hr, now) \in HostRecord /\ Merge(r, hr, now).ipaddr = r.ipaddr
    BY <1>1, <2>1, <2>2, MergeType DEF Replace
  <2>4. Store[ip] = r /\ Store' = [Store EXCEPT ![ip] = Merge(r, hr, now)]
    BY <1>1, <2>1, <2>2, <2>3, StoreSlot DEF Replace
  <2>5. E!Received(hr) = Merge(r, hr, now)
    BY <2>1, <2>4, SameRecords DEF E!Received, E!Known, Used
  <2>6. E!records_add_record(hr)
    BY <1>1, <2>2, <2>4, <2>5 DEF E!records_add_record, Replace
  <2>7. QED BY <1>2, <2>6 DEF E!Next
<1>4. CASE Matches(ip) = {}
  <2>1. Insert(hr)
    BY <1>4 DEF records_add_record
  <2>2. hr.occurrences <= MaxOccurrences
    BY <1>2 DEF HostRecord
  <2>3. Store[ip] = NULL /\ (Store' = Store \/ Store' = [Store EXCEPT ![ip] = hr])
    BY <1>1, <1>2, <1>4, <2>1, StoreInsert
  <2>4. E!Received(hr) = hr
    BY <2>3 DEF E!Received, E!Known
  <2>5. CASE Store' = Store
    BY <1>1, <2>5 DEF E!vars
  <2>6. CASE Store' = [Store EXCEPT ![ip] = hr]
    <3>1. E!records_add_record(hr)
      BY <1>1, <2>2, <2>4, <2>6 DEF E!records_add_record
    <3>2. QED BY <1>2, <3>1 DEF E!Next
  <2>7. QED BY <2>3, <2>5, <2>6
<1>5. QED BY <1>3, <1>4

\* The end of the program is the same for the vector and the store.
LEMMA DestroyRefines ==
    ASSUME VInv, VInv', records_destroy
    PROVE  E!Next
<1>1. /\ TypeOK /\ Shape /\ TypeOK' /\ Shape' /\ running /\ ~running'
      /\ UNCHANGED <<now, outbox, usr2, hr_vector_size>>
      /\ hr_vector' = [i \in Slots |-> NULL]
  BY DEF VInv, records_destroy
<1>2. PICK denied \in IF AccessMayFail THEN SUBSET Processed ELSE {{}} :
         /\ \A ip \in Processed \ denied : blocked[ip] > -MaxCalls
         /\ blocked' = [ip \in Ip |-> IF ip \in Processed \ denied
                                        THEN blocked[ip] - 1 ELSE blocked[ip]]
  BY DEF records_destroy
<1>3. Processed = {ip \in Ip : E!Known(ip) /\ Store[ip].processed # 0}
  <2>1. ASSUME NEW ip \in Processed
        PROVE  ip \in Ip /\ E!Known(ip) /\ Store[ip].processed # 0
    <3>1. PICK i \in Slots : /\ Used(i) /\ hr_vector[i].processed # 0
                             /\ ip = hr_vector[i].ipaddr
      BY DEF Processed
    <3>2. ip \in Ip
      BY <1>1, <3>1 DEF TypeOK, Slots, Used, HostRecord
    <3>3. Store[ip] = hr_vector[i]
      BY <1>1, <3>1, <3>2, StoreIs
    <3>4. QED BY <3>1, <3>2, <3>3 DEF E!Known, Used
  <2>2. ASSUME NEW ip \in Ip, E!Known(ip), Store[ip].processed # 0
        PROVE  ip \in Processed
    <3>1. PICK i \in Slots : Used(i) /\ hr_vector[i].ipaddr = ip
      BY <1>1, <2>2, StoreIs DEF E!Known
    <3>2. Store[ip] = hr_vector[i]
      BY <1>1, <3>1, StoreIs
    <3>3. QED BY <2>2, <3>1, <3>2 DEF Processed
  <2>3. QED BY <2>1, <2>2
<1>4. Processed \ denied = {ip \in Ip \ denied : E!Known(ip) /\ Store[ip].processed # 0}
  BY <1>3
<1>5. denied \in IF AccessMayFail THEN SUBSET Ip ELSE {{}}
  BY <1>2, <1>3
<1>6. E!action_removal(Ip)
  BY <1>2, <1>4, <1>5 DEF E!action_removal
<1>7. Store' = [ip \in Ip |-> NULL]
  <2>1. \A i \in Slots' : hr_vector'[i] = NULL
    BY <1>1 DEF Slots
  <2>2. \A ip \in Ip : Store'[ip] = NULL
    BY <1>1, <2>1, StoreIsNext
  <2>3. Store' = [ip \in Ip |-> Store'[ip]]
    BY DEF Store
  <2>4. QED BY <2>2, <2>3
<1>8. E!records_destroy
  BY <1>1, <1>6, <1>7 DEF E!records_destroy
<1>9. QED BY <1>8 DEF E!Next

\* The cut at the end of a maintenance run does not change the store.
LEMMA MaintenanceEndRefines ==
    ASSUME VInv, VInv', MaintenanceEnd
    PROVE  UNCHANGED E!vars
<1>1. /\ TypeOK /\ Shape /\ TypeOK' /\ Shape'
      /\ UNCHANGED <<now, blocked, outbox, running, usr2>>
  BY DEF VInv, MaintenanceEnd
<1>2. Store' = Store
  <2>1. CASE UNCHANGED vector
    BY <2>1 DEF vector, Store, Slots, Used
  <2>2. CASE /\ LastUsed # hr_vector_size
             /\ hr_vector_size' = NewSize /\ hr_vector_fill' = LastUsed
             /\ hr_vector' = [i \in 0..(NewSize - 1) |-> hr_vector[i]]
    <3>1. /\ LastUsed \in 0..hr_vector_size /\ hr_vector_size \in Nat
          /\ \A i \in Slots : Used(i) => i < LastUsed
      BY <1>1, LastUsedIsLast DEF TypeOK
    <3>2. NewSize \in Nat /\ LastUsed <= NewSize
      BY <1>1, <2>2 DEF TypeOK, Shape, FillCoversRecords
    <3>3. Slots' = 0..(NewSize - 1)
      BY <2>2 DEF Slots
    <3>4. \A i \in Slots : Used(i) => i \in Slots' /\ hr_vector'[i] = hr_vector[i]
      BY <2>2, <3>1, <3>2, <3>3 DEF Slots
    <3>5. NewSize <= hr_vector_size
      BY <1>1, <2>2, NewSizeFits
    <3>6. \A i \in Slots' : hr_vector'[i] # NULL
             => i \in Slots /\ hr_vector[i] = hr_vector'[i]
      BY <2>2, <3>1, <3>2, <3>3, <3>5 DEF Slots
    <3>7. QED BY <1>1, <3>4, <3>6, StoreSame
  <2>3. QED BY <2>1, <2>2 DEF MaintenanceEnd
<1>3. QED BY <1>1, <1>2 DEF E!vars

\* Every step of the vector and its threads is a step of the abstract store,
\* or leaves it alone.
LEMMA StepRefines ==
    ASSUME ~TestApi, VInv, VInv', [Next]_vars
    PROVE  [E!Next]_(E!vars)
<1>1. CASE Tick
  <2>1. Store' = Store
    BY <1>1 DEF Tick, vector, Store, Slots, Used
  <2>2. E!Tick
    BY <1>1, <2>1 DEF Tick, E!Tick
  <2>3. QED BY <2>2 DEF E!Next
<1>2. CASE \E ip \in Ip : records_add_ip(ip)
  BY <1>2, AddIpRefines
<1>3. CASE \E hr \in RemoteRecord : records_add_record(hr)
  BY <1>3, AddRecordRefines
<1>4. CASE \E ip \in Ip : records_remove(ip)
  BY <1>4 DEF records_remove
<1>5. CASE \/ ActionLock \/ ActionUnlock \/ MaintenanceLock
           \/ EnumerateLock \/ EnumerateUnlock \/ UNCHANGED vars
  <2>1. UNCHANGED <<now, vector, blocked, outbox, running, usr2>>
    BY <1>5 DEF ActionLock, ActionUnlock, MaintenanceLock, EnumerateLock,
                EnumerateUnlock, vars, vector
  <2>2. Store' = Store
    BY <2>1 DEF vector, Store, Slots, Used
  <2>3. QED BY <2>1, <2>2 DEF E!vars
<1>6. CASE ActionStep
  BY <1>6, ActionStepRefines
<1>7. CASE ActionFlush
  <2>1. Store' = Store
    BY <1>7 DEF ActionFlush, vector, Store, Slots, Used
  <2>2. E!Flush
    BY <1>7, <2>1 DEF ActionFlush, E!Flush
  <2>3. QED BY <2>2 DEF E!Next
<1>8. CASE MaintenanceStep
  BY <1>8, MaintenanceStepRefines
<1>9. CASE MaintenanceEnd
  BY <1>9, MaintenanceEndRefines
<1>10. CASE signalhandler_usr2
  <2>1. Store' = Store
    BY <1>10 DEF signalhandler_usr2, vector, Store, Slots, Used
  <2>2. E!signalhandler_usr2
    BY <1>10, <2>1 DEF signalhandler_usr2, E!signalhandler_usr2
  <2>3. QED BY <2>2 DEF E!Next
<1>11. CASE EnumerateStep
  BY <1>11, EnumerateStepRefines
<1>12. CASE records_destroy
  BY <1>12, DestroyRefines
<1>13. QED
  BY <1>1, <1>2, <1>3, <1>4, <1>5, <1>6, <1>7, <1>8, <1>9, <1>10, <1>11, <1>12
  DEF Next

\* An empty vector is an empty store.
LEMMA InitRefines ==
    ASSUME Init
    PROVE  E!Init /\ VInv
<1>1. TypeOK /\ Shape /\ WalkerCounted
  BY VectorInit
<1>2. WalksAllowed
  BY DEF Init, WalksAllowed
<1>3. \A i \in Slots : ~Used(i)
  BY DEF Init, Slots, Used
<1>4. \A ip \in Ip : Store[ip] = NULL
  BY <1>1, <1>3, StoreIs
<1>5. Store = [ip \in Ip |-> Store[ip]]
  BY DEF Store
<1>6. Store = [ip \in Ip |-> NULL]
  BY <1>4, <1>5
<1>7. QED BY <1>1, <1>2, <1>6 DEF Init, E!Init, VInv

\* The vector, its lock and its walks implement the abstract store of
\* Enforcement: what EnforcementProofs shows of every host holds for the code's
\* data structure.  records_remove, which only the tests call, has no
\* counterpart there.
THEOREM RefinesEnforcement == ASSUME ~TestApi PROVE Spec => ImplementsEnforcement
<1>1. Init => VInv /\ E!Init
  BY InitRefines
<1>2. VInv /\ [Next]_vars => VInv'
  BY VectorStep, WalkerCountedStep, WalksAllowedStep DEF VInv
<1>3. VInv /\ VInv' /\ [Next]_vars => [E!Next]_(E!vars)
  BY StepRefines
<1>4. QED BY <1>1, <1>2, <1>3, PTL DEF Spec, ImplementsEnforcement, E!Spec

\* The last step of a maintenance run leaves less than a chunk unused beyond
\* the last record, or one chunk (records_maintenance, the realloc).
LEMMA MaintenanceEndGivesBack ==
    ASSUME TypeOK, Shape, MaintenanceEnd
    PROVE  hr_vector_size' - hr_vector_fill' < ChunkSize \/ hr_vector_size' = ChunkSize
<1>1. /\ hr_vector_size \in Nat /\ hr_vector_fill \in Nat
      /\ ChunkSize \in Nat /\ ChunkSize # 0
      /\ LastUsed \in 0..hr_vector_size
      /\ LastUsed > 0 => Used(LastUsed - 1)
  BY LastUsedIsLast, VectorConfigType DEF TypeOK
<1>2. CASE LastUsed = hr_vector_size
  <2>1. UNCHANGED vector
    BY <1>2 DEF MaintenanceEnd
  <2>2. hr_vector_size > 0
    BY <1>1 DEF Shape, WholeChunks
  <2>3. hr_vector_size - 1 \in Slots /\ Used(hr_vector_size - 1)
    BY <1>1, <1>2, <2>2 DEF Slots
  <2>4. hr_vector_size - 1 < hr_vector_fill
    BY <2>3 DEF Shape, FillCoversRecords
  <2>5. QED BY <1>1, <2>1, <2>4 DEF vector
<1>3. CASE LastUsed # hr_vector_size
  <2>1. hr_vector_size' = NewSize /\ hr_vector_fill' = LastUsed
    BY <1>3 DEF MaintenanceEnd
  <2>2. NewSize \in Nat /\ (NewSize < LastUsed + ChunkSize \/ NewSize = ChunkSize)
    BY <1>3, NewSizeFits
  <2>3. QED BY <1>1, <2>1, <2>2
<1>4. QED BY <1>2, <1>3

\* Maintenance gives memory back, whatever the other walks have left behind.
THEOREM MaintenanceGivesBackHolds == Spec => MaintenanceGivesBack
<1> DEFINE GivesBack == vector_mutex = "maintenance" /\ vector_mutex' = "nobody"
                          => \/ hr_vector_size' - hr_vector_fill' < ChunkSize
                             \/ hr_vector_size' = ChunkSize
<1>1. ASSUME TypeOK, Shape, [Next]_vars
      PROVE  [GivesBack]_vars
  <2>1. CASE MaintenanceEnd
    <3>1. GivesBack
      BY <1>1, <2>1, MaintenanceEndGivesBack
    <3>2. QED BY <3>1
  <2>2. CASE Next /\ ~MaintenanceEnd
    <3>1. vector_mutex = "maintenance" => vector_mutex' = vector_mutex
      BY <2>2 DEF Next, Tick, records_add_ip, records_add_record, records_remove,
         ActionLock, ActionStep, ActionUnlock, ActionFlush, MaintenanceLock,
         MaintenanceStep, signalhandler_usr2, EnumerateLock,
         EnumerateStep, EnumerateUnlock, records_destroy, Lock, threads
    <3>2. GivesBack
      BY <3>1
    <3>3. QED BY <3>2
  <2>3. QED BY <1>1, <2>1, <2>2
<1>2. QED BY <1>1, VectorInvariant, PTL DEF Spec, MaintenanceGivesBack
-----------------------------------------------------------------------------
(* What Enforcement promises of every host, said of the vector *)

\* The theorems about the abstract store.
P == INSTANCE EnforcementProofs WITH store <- Store

\* The assumptions of Enforcement hold of the vector's constants.
LEMMA AbstractAssumptions ==
    /\ P!LocalhostIsNoPeer /\ P!NullIsNoRecord /\ P!ConfigType /\ P!BoundsType
    /\ P!SwitchType
  BY LocalhostIsNoPeer, NullIsNoRecord, ConfigType, BoundsType, VectorConfigType
  DEF P!LocalhostIsNoPeer, P!NullIsNoRecord, P!ConfigType, P!BoundsType,
      P!SwitchType, P!Origin, Origin, P!HostRecord, HostRecord, P!Time, Time

\* Both instances of the abstract store are the same specification.
LEMMA SameSpec == E!Spec => P!Spec
<1>1. E!Init => P!Init
  BY DEF E!Init, P!Init
<1>2. \A r : E!Queued(r) = P!Queued(r)
  <2>1. E!Cardinality(outbox) = P!Cardinality(outbox)
    BY DEF E!Cardinality, P!Cardinality
  <2>2. QED BY <2>1 DEF E!Queued, P!Queued
<1>3. [E!Next]_(E!vars) => [P!Next]_(P!vars)
  BY <1>2
  DEF E!Next, P!Next, E!Tick, P!Tick, E!records_add_ip, P!records_add_ip,
      E!Sighted, P!Sighted, E!Known, P!Known, E!Seen, P!Seen,
      E!Counted, P!Counted, E!NewRecord, P!NewRecord,
      E!records_add_record, P!records_add_record, E!Received,
      P!Received, E!Merge, P!Merge, E!Flush, P!Flush,
      E!signalhandler_usr2, P!signalhandler_usr2,
      E!callback_remove_all, P!callback_remove_all, E!Purge, P!Purge,
      E!records_destroy, P!records_destroy, E!action_removal,
      P!action_removal, E!callback_action_new, P!callback_action_new,
      E!do_action_new, P!do_action_new, E!Accessible, P!Accessible,
      E!IsOffender, P!IsOffender, E!Stale, P!Stale, E!LastSighting,
      P!LastSighting, E!RemoteRecord, P!RemoteRecord, E!HostRecord,
      P!HostRecord, E!Origin, P!Origin, E!Time, P!Time, E!vars, P!vars
<1>4. QED BY <1>1, <1>3, PTL DEF E!Spec, P!Spec

\* The host record vector keeps the balance of the script calls: one "new" more
\* than "remove" exactly for the hosts whose record in the vector says
\* processed (threads.c, the two callbacks, run record by record in the walks).
THEOREM VectorScriptsMatchMemory ==
    ASSUME ~TestApi, AccessMayFail = FALSE
    PROVE  Spec => []E!ScriptsMatchMemory
<1>1. Spec => P!Spec
  BY RefinesEnforcement, SameSpec, PTL DEF ImplementsEnforcement
<1>2. P!Spec => []P!ScriptsMatchMemory
  BY AbstractAssumptions, P!ScriptsMatchMemoryHolds, PTL
<1>3. P!ScriptsMatchMemory => E!ScriptsMatchMemory
  BY DEF P!ScriptsMatchMemory, E!ScriptsMatchMemory, P!Known, E!Known
<1>4. QED BY <1>1, <1>2, <1>3, PTL

\* What the walks hand to client_queue_record was found in the local log and
\* has reached the threshold (threads.c, origin test).
THEOREM VectorRelaysLocalOffenders ==
    ASSUME ~TestApi
    PROVE  Spec => []E!RelayedAreLocalOffenders
<1>1. Spec => P!Spec
  BY RefinesEnforcement, SameSpec, PTL DEF ImplementsEnforcement
<1>2. P!Spec => []P!RelayedAreLocalOffenders
  BY AbstractAssumptions, P!RelayedAreLocalOffendersHolds, PTL
<1>3. P!RelayedAreLocalOffenders => E!RelayedAreLocalOffenders
  BY DEF P!RelayedAreLocalOffenders, E!RelayedAreLocalOffenders, P!IsOffender,
         E!IsOffender
<1>4. QED BY <1>1, <1>2, <1>3, PTL

\* No walk marks an offender for expiry before the script has been run for it,
\* as long as there is no SIGUSR2 and time_interval <= purge_after.
THEOREM VectorForgetsNoOffender ==
    ASSUME ~TestApi, \A o \in Origin : TimeInterval[o] <= PurgeAfter[o]
    PROVE  Spec => []E!OffenderNotForgotten
<1>1. Spec => P!Spec
  BY RefinesEnforcement, SameSpec, PTL DEF ImplementsEnforcement
<1>2. P!Spec => []P!OffenderNotForgotten
  <2>1. P!IntervalWithinPurge
    BY DEF P!IntervalWithinPurge, P!Origin, Origin
  <2>2. QED BY <2>1, AbstractAssumptions, P!OffenderNotForgottenHolds, PTL
<1>3. P!OffenderNotForgotten => E!OffenderNotForgotten
  BY DEF P!OffenderNotForgotten, E!OffenderNotForgotten, P!IsOffender,
         E!IsOffender, P!Known, E!Known
<1>4. QED BY <1>1, <1>2, <1>3, PTL
=============================================================================
