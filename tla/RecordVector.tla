---------------------------- MODULE RecordVector ----------------------------
(***************************************************************************)
(* The host record vector of records.c and the threads that walk it.       *)
(*                                                                         *)
(* vector_mutex is held for a whole walk, and a walk runs the action       *)
(* script record by record, so a walk is one step per slot here; time goes *)
(* on meanwhile and everybody else waits.  records_add_ip,                 *)
(* records_add_record and records_remove take and release the mutex within *)
(* one step: what they do to the vector nobody sees half done.             *)
(*                                                                         *)
(* Cancelling a thread in the middle of a walk is the subject of Shutdown. *)
(***************************************************************************)
EXTENDS HostRecord, FiniteSets

CONSTANTS
    Inform, UserPurge, AccessMayFail, BatchLen, MaxCalls,   \* as in Enforcement
    ChunkSize,        \* hr_vector_chunksize
    TestApi,          \* records_remove, which only the tests call
    MaxVectorSize,    \* bound: the vector does not grow beyond this
    MaxPurges         \* bound: SIGUSR2 walks waiting for the mutex

ASSUME VectorConfigType == /\ Inform \in BOOLEAN
                           /\ UserPurge \in BOOLEAN
                           /\ AccessMayFail \in BOOLEAN
                           /\ TestApi \in BOOLEAN
                           /\ BatchLen \in Nat \ {0}
                           /\ MaxCalls \in Nat \ {0}
                           /\ ChunkSize \in Nat \ {0}
                           /\ MaxVectorSize \in Nat
                           /\ MaxPurges \in Nat

VARIABLES
    now,              \* time(NULL)
    hr_vector,        \* slot -> record or NULL
    hr_vector_size,   \* slots allocated
    hr_vector_fill,   \* one past the last slot that lookups and walks visit
    vector_mutex,     \* who holds it
    cursor,           \* the slot the walk is at
    action_pc,        \* what the action thread does between two walks
    purges,           \* SIGUSR2 walks started and not finished
    blocked, outbox, running, usr2   \* as in Enforcement

vars == <<now, hr_vector, hr_vector_size, hr_vector_fill, vector_mutex, cursor,
          action_pc, purges, blocked, outbox, running, usr2>>

vector == <<hr_vector, hr_vector_size, hr_vector_fill>>
threads == <<vector_mutex, cursor, action_pc, purges>>

Holder == {"nobody", "action", "maintenance", "enumerate"}

TypeOK ==
    /\ now \in Time
    /\ hr_vector_size \in Nat
    /\ hr_vector_fill \in Nat
    /\ hr_vector \in [0..(hr_vector_size - 1) -> HostRecord \cup {NULL}]
    /\ vector_mutex \in Holder
    /\ cursor \in Nat
    /\ action_pc \in {"walk", "flush"}
    /\ purges \in 0..MaxPurges
    /\ blocked \in [Ip -> -MaxCalls..MaxCalls]
    /\ outbox \subseteq HostRecord
    /\ running \in BOOLEAN
    /\ usr2 \in BOOLEAN

\* records_init
Init ==
    /\ now = 1
    /\ hr_vector_size = ChunkSize
    /\ hr_vector_fill = 0
    /\ hr_vector = [i \in 0..(ChunkSize - 1) |-> NULL]
    /\ vector_mutex = "nobody"
    /\ cursor = 0
    /\ action_pc = "walk"
    /\ purges = 0
    /\ blocked = [ip \in Ip |-> 0]
    /\ outbox = {}
    /\ running = TRUE
    /\ usr2 = FALSE

Slots == 0..(hr_vector_size - 1)
Used(i) == hr_vector[i] # NULL

Accessible == IF AccessMayFail THEN {TRUE, FALSE} ELSE {TRUE}

Tick ==
    /\ running
    /\ now < MaxTime
    /\ now' = now + 1
    /\ UNCHANGED <<vector, threads, blocked, outbox, running, usr2>>
-----------------------------------------------------------------------------
(* Lookup and insertion *)

\* The slots below hr_vector_fill that _records_find matches.
Matches(ip) ==
    {i \in Slots : i < hr_vector_fill /\ Used(i) /\ hr_vector[i].ipaddr = ip}

LeastOf(S) == CHOOSE i \in S : \A j \in S : i <= j

\* _records_find: the first match; only asked for when there is one.
records_find(ip) == LeastOf(Matches(ip))

FreeSlots == {i \in Slots : ~Used(i)}

\* _records_find_free, or the slot _records_vector_grow returns.
FreeSlot == IF FreeSlots # {} THEN LeastOf(FreeSlots) ELSE hr_vector_size

\* Mutant: the vector grows by one slot.
MutGrownSize == IF FreeSlots # {} THEN hr_vector_size ELSE hr_vector_size + 1

\* _records_vector_grow: one more chunk when no slot is free.
GrownSize == IF FreeSlots # {} THEN hr_vector_size ELSE hr_vector_size + ChunkSize

Grown == [i \in 0..(GrownSize - 1) |-> IF i \in Slots THEN hr_vector[i] ELSE NULL]

Larger(m, n) == IF m > n THEN m ELSE n

\* Mutant: the fill is set to the slot just used.
MutInsert(r) ==
    /\ GrownSize <= MaxVectorSize
    /\ hr_vector_size' = GrownSize
    /\ hr_vector' = [Grown EXCEPT ![FreeSlot] = r]
    /\ hr_vector_fill' = FreeSlot + 1

\* The common end of records_add_ip and records_add_record.  malloc may fail:
\* the record is dropped, but a chunk added for it stays.
Insert(r) ==
    /\ GrownSize <= MaxVectorSize
    /\ hr_vector_size' = GrownSize
    /\ \/ /\ hr_vector' = [Grown EXCEPT ![FreeSlot] = r]
          /\ hr_vector_fill' = Larger(FreeSlot + 1, hr_vector_fill)
       \/ /\ hr_vector' = Grown
          /\ UNCHANGED hr_vector_fill

Replace(i, r) ==
    /\ r.occurrences <= MaxOccurrences
    /\ hr_vector' = [hr_vector EXCEPT ![i] = r]
    /\ UNCHANGED <<hr_vector_size, hr_vector_fill>>

records_add_ip(ip) ==
    /\ running
    /\ vector_mutex = "nobody"
    /\ IF Matches(ip) # {}
         THEN Replace(records_find(ip), Seen(hr_vector[records_find(ip)], now))
         ELSE Insert(NewRecord(ip, now))
    /\ UNCHANGED <<now, threads, blocked, outbox, running, usr2>>

records_add_record(hr) ==
    /\ running
    /\ vector_mutex = "nobody"
    /\ LET ip == hr.ipaddr IN
       IF Matches(ip) # {}
         THEN Replace(records_find(ip), Merge(hr_vector[records_find(ip)], hr, now))
         ELSE Insert(hr)
    /\ UNCHANGED <<now, threads, blocked, outbox, running, usr2>>

\* Frees the record without a callback and leaves the fill alone.
records_remove(ip) ==
    /\ TestApi
    /\ running
    /\ vector_mutex = "nobody"
    /\ Matches(ip) # {}
    /\ hr_vector' = [hr_vector EXCEPT ![records_find(ip)] = NULL]
    /\ UNCHANGED <<now, hr_vector_size, hr_vector_fill, threads, blocked, outbox,
                   running, usr2>>
-----------------------------------------------------------------------------
(* Walks *)

Lock(who) ==
    /\ running
    /\ vector_mutex = "nobody"
    /\ vector_mutex' = who
    /\ cursor' = 0

Unlock ==
    /\ vector_mutex' = "nobody"
    /\ cursor' = 0

\* client_queue_record: a full batch is flushed before the record goes in.
Queued(r) == IF Cardinality(outbox) >= BatchLen THEN {r} ELSE outbox \cup {r}

\* _do_action(ptr, NEW)
do_action_new(r) ==
    \E ok \in Accessible :
        /\ ok => blocked[r.ipaddr] < MaxCalls
        /\ blocked' = IF ok THEN [blocked EXCEPT ![r.ipaddr] = @ + 1] ELSE blocked
        /\ outbox' = IF ok /\ Inform /\ r.origin = LOCALHOST
                       THEN Queued(r) ELSE outbox

\* _do_action(ptr, REMOVE)
do_action_remove(r) ==
    \E ok \in Accessible :
        /\ ok => blocked[r.ipaddr] > -MaxCalls
        /\ blocked' = IF ok THEN [blocked EXCEPT ![r.ipaddr] = @ - 1] ELSE blocked

\* action_thread: records_enumerate(_records_callback_action_new, SYNC)
ActionLock ==
    /\ action_pc = "walk"
    /\ Lock("action")
    /\ UNCHANGED <<now, vector, action_pc, purges, blocked, outbox, running, usr2>>

callback_action_new(i) ==
    LET r == hr_vector[i] IN
    IF IsOffender(r) /\ r.processed = 0
      THEN /\ do_action_new(r)
           /\ hr_vector' = [hr_vector EXCEPT ![i].processed = 1]
      ELSE /\ hr_vector' = IF Stale(r, now)
                             THEN [hr_vector EXCEPT ![i].remove = 1]
                             ELSE hr_vector
           /\ UNCHANGED <<blocked, outbox>>

ActionStep ==
    /\ vector_mutex = "action"
    /\ cursor < hr_vector_fill
    /\ IF Used(cursor) THEN callback_action_new(cursor)
                       ELSE UNCHANGED <<hr_vector, blocked, outbox>>
    /\ cursor' = cursor + 1
    /\ UNCHANGED <<now, hr_vector_size, hr_vector_fill, vector_mutex, action_pc,
                   purges, running, usr2>>

ActionUnlock ==
    /\ vector_mutex = "action"
    /\ cursor >= hr_vector_fill
    /\ Unlock
    /\ action_pc' = "flush"
    /\ UNCHANGED <<now, vector, purges, blocked, outbox, running, usr2>>

\* action_thread: client_queue_flush, then half a second of sleep.
ActionFlush ==
    /\ running
    /\ action_pc = "flush"
    /\ outbox' = {}
    /\ action_pc' = "walk"
    /\ UNCHANGED <<now, vector, vector_mutex, cursor, purges, blocked, running, usr2>>

\* maintenance_thread: records_maintenance
MaintenanceLock ==
    /\ Lock("maintenance")
    /\ UNCHANGED <<now, vector, action_pc, purges, blocked, outbox, running, usr2>>

\* Mutant: the record is freed first, so the callback finds no processed flag.
MutMaintenanceStep ==
    /\ vector_mutex = "maintenance"
    /\ cursor < hr_vector_size
    /\ IF Used(cursor) /\ hr_vector[cursor].remove # 0
         THEN /\ hr_vector' = [hr_vector EXCEPT ![cursor] = NULL]
              /\ UNCHANGED blocked
         ELSE UNCHANGED <<hr_vector, blocked>>
    /\ cursor' = cursor + 1
    /\ UNCHANGED <<now, hr_vector_size, hr_vector_fill, vector_mutex, action_pc,
                   purges, outbox, running, usr2>>

\* A marked record is freed; the script hears of it if it heard of the host.
MaintenanceStep ==
    /\ vector_mutex = "maintenance"
    /\ cursor < hr_vector_size
    /\ IF Used(cursor) /\ hr_vector[cursor].remove # 0
         THEN /\ hr_vector' = [hr_vector EXCEPT ![cursor] = NULL]
              /\ IF hr_vector[cursor].processed # 0
                   THEN do_action_remove(hr_vector[cursor])
                   ELSE UNCHANGED blocked
         ELSE UNCHANGED <<hr_vector, blocked>>
    /\ cursor' = cursor + 1
    /\ UNCHANGED <<now, hr_vector_size, hr_vector_fill, vector_mutex, action_pc,
                   purges, outbox, running, usr2>>

\* One past the last slot in use, 0 if there is none.
LastUsed ==
    CHOOSE n \in 0..hr_vector_size :
        /\ \A i \in n..(hr_vector_size - 1) : ~Used(i)
        /\ n > 0 => Used(n - 1)

\* Mutant: a chunk that is partly in use is cut off.
MutChunksFor(n) == (n \div ChunkSize) * ChunkSize

\* ceil(n / chunksize) * chunksize
ChunksFor(n) == ((n + ChunkSize - 1) \div ChunkSize) * ChunkSize

\* Mutant: the new size is computed from the fill before maintenance.
MutNewSize == Larger(ChunksFor(hr_vector_fill), ChunkSize)

NewSize == Larger(ChunksFor(LastUsed), ChunkSize)

\* The vector is cut after the last chunk in use, unless it is full.
MaintenanceEnd ==
    /\ vector_mutex = "maintenance"
    /\ cursor >= hr_vector_size
    /\ IF LastUsed = hr_vector_size
         THEN UNCHANGED vector
         ELSE /\ hr_vector_size' = NewSize
              /\ hr_vector_fill' = LastUsed
              /\ hr_vector' = [i \in 0..(NewSize - 1) |-> hr_vector[i]]
    /\ Unlock
    /\ UNCHANGED <<now, action_pc, purges, blocked, outbox, running, usr2>>

\* SIGUSR2: a detached thread is to walk the vector.
signalhandler_usr2 ==
    /\ UserPurge
    /\ running
    /\ purges < MaxPurges
    /\ purges' = purges + 1
    /\ usr2' = TRUE
    /\ UNCHANGED <<now, vector, vector_mutex, cursor, action_pc, blocked, outbox,
                   running>>

EnumerateLock ==
    /\ purges > 0
    /\ Lock("enumerate")
    /\ UNCHANGED <<now, vector, action_pc, purges, blocked, outbox, running, usr2>>

\* _records_callback_remove_all
EnumerateStep ==
    /\ vector_mutex = "enumerate"
    /\ cursor < hr_vector_fill
    /\ hr_vector' = IF Used(cursor) THEN [hr_vector EXCEPT ![cursor].remove = 1]
                                    ELSE hr_vector
    /\ cursor' = cursor + 1
    /\ UNCHANGED <<now, hr_vector_size, hr_vector_fill, vector_mutex, action_pc,
                   purges, blocked, outbox, running, usr2>>

EnumerateUnlock ==
    /\ vector_mutex = "enumerate"
    /\ cursor >= hr_vector_fill
    /\ Unlock
    /\ purges' = purges - 1
    /\ UNCHANGED <<now, vector, action_pc, blocked, outbox, running, usr2>>
-----------------------------------------------------------------------------
\* The hosts records_destroy calls the script for.
Processed == {hr_vector[i].ipaddr :
                i \in {j \in Slots : Used(j) /\ hr_vector[j].processed # 0}}

\* main: every record goes, with its callback; the mutex is not taken.
records_destroy ==
    /\ running
    /\ vector_mutex = "nobody"
    /\ \E denied \in IF AccessMayFail THEN SUBSET Processed ELSE {{}} :
         /\ \A ip \in Processed \ denied : blocked[ip] > -MaxCalls
         /\ blocked' = [ip \in Ip |-> IF ip \in Processed \ denied
                                        THEN blocked[ip] - 1 ELSE blocked[ip]]
    /\ hr_vector' = [i \in Slots |-> NULL]
    /\ running' = FALSE
    /\ UNCHANGED <<now, hr_vector_size, hr_vector_fill, threads, outbox, usr2>>

Next ==
    \/ Tick
    \/ \E ip \in Ip : records_add_ip(ip) \/ records_remove(ip)
    \/ \E hr \in RemoteRecord : records_add_record(hr)
    \/ ActionLock \/ ActionStep \/ ActionUnlock \/ ActionFlush
    \/ MaintenanceLock \/ MaintenanceStep \/ MaintenanceEnd
    \/ signalhandler_usr2 \/ EnumerateLock \/ EnumerateStep \/ EnumerateUnlock
    \/ records_destroy

Spec == Init /\ [][Next]_vars
-----------------------------------------------------------------------------
\* Every record is where lookups and walks look for it: a slot in use at or
\* above hr_vector_fill would be missed by _records_find, and the host would
\* get a second record (records.c, the fill updates and the cut).
FillCoversRecords ==
    /\ hr_vector_fill <= hr_vector_size
    /\ \A i \in Slots : Used(i) => i < hr_vector_fill

\* records_find stops at the first match, so two records of one host would
\* split its count and call the script twice (records.c, lookup before insert).
OneRecordPerHost ==
    \A i, j \in Slots :
        Used(i) /\ Used(j) /\ hr_vector[i].ipaddr = hr_vector[j].ipaddr => i = j

\* records.c asserts that the size is a whole number of chunks, and one at
\* least is kept.
WholeChunks ==
    \E k \in 1..hr_vector_size : hr_vector_size = k * ChunkSize

\* A run of maintenance gives memory back: less than a chunk stays unused
\* beyond the last record, or the vector is down to one chunk.
MaintenanceGivesBack ==
    [][vector_mutex = "maintenance" /\ vector_mutex' = "nobody"
         => \/ hr_vector_size' - hr_vector_fill' < ChunkSize
            \/ hr_vector_size' = ChunkSize]_vars

\* The record of each host, as Enforcement has it.
Store == [ip \in Ip |->
            LET S == {i \in Slots : Used(i) /\ hr_vector[i].ipaddr = ip}
            IN  IF S = {} THEN NULL ELSE hr_vector[LeastOf(S)]]

E == INSTANCE Enforcement WITH store <- Store

\* The vector, its lock and its walks implement the abstract store.
ImplementsEnforcement == E!Spec
=============================================================================
