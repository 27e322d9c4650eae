-------------------------------- MODULE Wire --------------------------------
(***************************************************************************)
(* The wire format of netshared.c: a command and a host record in a buffer *)
(* of REMOTE_COMMAND_SIZE bytes.                                           *)
(*                                                                         *)
(* The value of an integer is the sequence of its bytes, the most          *)
(* significant first; a machine of either byte order keeps it in memory as *)
(* it likes, and htonl and htonll turn the memory of the one order around. *)
(***************************************************************************)
EXTENDS Naturals, Sequences

CONSTANTS
    Size32,        \* sizeof (int32_t): 4
    Size64,        \* sizeof (int64_t): 8
    IPADDR_SIZE,   \* 46
    Byte           \* the values of a byte

ASSUME WireConfig == /\ Size32 \in Nat \ {0}
                     /\ Size64 \in Nat \ {0}
                     /\ IPADDR_SIZE \in Nat \ {0}

Bytes(n) == [1..n -> Byte]

\* A command and the hostrecord_t that goes with it.
Command == [command : Bytes(Size32),
            origin : Bytes(IPADDR_SIZE), ipaddr : Bytes(IPADDR_SIZE),
            firstseen : Bytes(Size64), lastseen : Bytes(Size64),
            purge_after : Bytes(Size64), time_interval : Bytes(Size64),
            occurrences : Bytes(Size32), action_threshold : Bytes(Size32),
            remove : Bytes(Size32), processed : Bytes(Size32)]

REMOTE_COMMAND_SIZE == 5 * Size32 + 2 * IPADDR_SIZE + 4 * Size64

Turned(m) == [i \in 1..Len(m) |-> m[Len(m) + 1 - i]]

\* How a machine keeps an integer in memory.
InMemory(value, bigendian) == IF bigendian THEN value ELSE Turned(value)
ValueOf(memory, bigendian) == IF bigendian THEN memory ELSE Turned(memory)

\* htonl and ntohl, htonll and ntohll: nothing to do with WORDS_BIGENDIAN.
hton(memory, bigendian) == IF bigendian THEN memory ELSE Turned(memory)

\* The bytes memcpy takes from the converted integer.
Put(value, bigendian) == hton(InMemory(value, bigendian), bigendian)

net_command_to_buff(c, bigendian) ==
    LET p(v) == Put(v, bigendian)
    IN  p(c.command) \o c.origin \o c.ipaddr
        \o p(c.firstseen) \o p(c.lastseen) \o p(c.purge_after) \o p(c.time_interval)
        \o p(c.occurrences) \o p(c.action_threshold) \o p(c.remove) \o p(c.processed)

\* n bytes from position pos of the buffer.
Slice(buff, pos, n) == [i \in 1..n |-> buff[pos + i]]

\* Mutant: two members of the record change places.
MutFromBuff(buff, bigendian) ==
    LET get(pos, n) == ValueOf(hton(Slice(buff, pos, n), bigendian), bigendian)
        numbers == Size32 + 2 * IPADDR_SIZE
        counters == numbers + 4 * Size64
    IN  [command          |-> get(0, Size32),
         origin           |-> Slice(buff, Size32, IPADDR_SIZE),
         ipaddr           |-> Slice(buff, Size32 + IPADDR_SIZE, IPADDR_SIZE),
         firstseen        |-> get(numbers, Size64),
         lastseen         |-> get(numbers + Size64, Size64),
         purge_after      |-> get(numbers + 2 * Size64, Size64),
         time_interval    |-> get(numbers + 3 * Size64, Size64),
         occurrences      |-> get(counters + Size32, Size32),
         action_threshold |-> get(counters, Size32),
         remove           |-> get(counters + 2 * Size32, Size32),
         processed        |-> get(counters + 3 * Size32, Size32)]

net_buff_to_command(buff, bigendian) ==
    LET get(pos, n) == ValueOf(hton(Slice(buff, pos, n), bigendian), bigendian)
        numbers == Size32 + 2 * IPADDR_SIZE
        counters == numbers + 4 * Size64
    IN  [command          |-> get(0, Size32),
         origin           |-> Slice(buff, Size32, IPADDR_SIZE),
         ipaddr           |-> Slice(buff, Size32 + IPADDR_SIZE, IPADDR_SIZE),
         firstseen        |-> get(numbers, Size64),
         lastseen         |-> get(numbers + Size64, Size64),
         purge_after      |-> get(numbers + 2 * Size64, Size64),
         time_interval    |-> get(numbers + 3 * Size64, Size64),
         occurrences      |-> get(counters, Size32),
         action_threshold |-> get(counters + Size32, Size32),
         remove           |-> get(counters + 2 * Size32, Size32),
         processed        |-> get(counters + 3 * Size32, Size32)]
=============================================================================
