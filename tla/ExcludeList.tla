---------------------------- MODULE ExcludeList ----------------------------
(***************************************************************************)
(* The exclude list of exclude.c: a vector of networks, the threads that   *)
(* read the exclude file into it, and the look-up of a host.               *)
(*                                                                         *)
(* exclude_add, exclude_clear and exclude_isexcluded hold exclude_mutex    *)
(* from end to end and are one step each; a reader releases it between     *)
(* any two of them.  A word is a function from bit numbers to bits, bit 0  *)
(* being the least significant one.  A line is what _exclude_parse_ip and  *)
(* inet_pton make of it.  The administrator may replace the exclude file   *)
(* at any time, so that a reader may find any version of it.               *)
(***************************************************************************)
EXTENDS Integers, Sequences

CONSTANTS
    WordBits,    \* bits of an in_addr_t: 32
    ByteBits,    \* bits of a byte of an in6_addr_t: 8
    NumBytes,    \* bytes of an in6_addr_t: 16
    ChunkSize,   \* er_vector_chunksize, and the initial er_vector_size
    Readers,     \* the threads exclude_readfile creates, one per call
    Files,       \* what the exclude file may contain: sequences of lines
    Hosts,       \* the hosts that are looked up
    AddFails,    \* malloc may fail in exclude_add
    NULL

ASSUME ExcludeConfig == /\ WordBits \in Nat \ {0}
                        /\ ByteBits \in Nat \ {0}
                        /\ NumBytes \in Nat \ {0}
                        /\ ChunkSize \in Nat \ {0}
                        /\ AddFails \in BOOLEAN
-----------------------------------------------------------------------------
(* Addresses and lines *)

Word(bits) == [0..(bits - 1) -> {0, 1}]
IPv4 == Word(WordBits)
IPv6 == [0..(NumBytes - 1) -> Word(ByteBits)]

\* A line without '/'.  A negative number after '/' becomes a large unsigned
\* one, text after '/' becomes 0 (atoi).
NoPrefix == -1

Line == [af : {"inet"}, ipv4 : IPv4, prefix : Nat \cup {NoPrefix}]
        \cup [af : {"inet6"}, ipv6 : IPv6, prefix : Nat \cup {NoPrefix}]
        \cup [af : {"comment", "invalid"}]

\* "invalid" is what inet_pton or the test of the length refuses.  A host is
\* looked up without '/': _records_find asserts that it has the full prefix.
Host == [af : {"inet"}, ipv4 : IPv4] \cup [af : {"inet6"}, ipv6 : IPv6]
        \cup [af : {"invalid"}]

Width(af) == IF af = "inet" THEN WordBits ELSE NumBytes * ByteBits
Prefix(line) == IF line.prefix = NoPrefix THEN Width(line.af) ELSE line.prefix

\* _exclude_parse_ip and inet_pton succeed.
Parses(line) == line.af \in {"inet", "inet6"} /\ Prefix(line) <= Width(line.af)

Ones(bits) == [i \in 0..(bits - 1) |-> 1]
Zeros(bits) == [i \in 0..(bits - 1) |-> 0]
ShiftedOnes(bits, n) == [i \in 0..(bits - 1) |-> IF i >= n THEN 1 ELSE 0]
And(a, b) == [i \in DOMAIN a |-> a[i] * b[i]]

\* Mutant: the mask is one bit too short.
MutMasks4(prefix) == {ShiftedOnes(WordBits, WordBits - prefix + 1)}

\* 0xffffffff << (32 - prefix).  A shift by the width of the word is undefined:
\* the machine shifts by 0 or shifts every bit out.
Masks4(prefix) == IF prefix = 0 THEN {Ones(WordBits), Zeros(WordBits)}
                  ELSE {ShiftedOnes(WordBits, WordBits - prefix)}

exclude_ipv4_in_net(net, mask, ip) == And(net, mask) = And(ip, mask)

exclude_prefix_to_ipv6_mask(prefix) ==
    LET n == prefix \div ByteBits
        m == prefix % ByteBits
    IN  [i \in 0..(NumBytes - 1) |->
            IF i < n THEN Ones(ByteBits)
            ELSE IF i = n /\ m # 0 THEN ShiftedOnes(ByteBits, ByteBits - m)
            ELSE Zeros(ByteBits)]

exclude_ipv6_in_net(net, mask, ip) ==
    \A i \in 0..(NumBytes - 1) : And(net[i], mask[i]) = And(ip[i], mask[i])

\* The records exclude_add may make of a line.
Entries(line) ==
    IF line.af = "inet"
    THEN {[af |-> "inet", net |-> line.ipv4, mask |-> mask] :
             mask \in Masks4(Prefix(line))}
    ELSE {[af |-> "inet6", net6 |-> line.ipv6,
           mask6 |-> exclude_prefix_to_ipv6_mask(Prefix(line))]}

Entry == [af : {"inet"}, net : IPv4, mask : IPv4]
         \cup [af : {"inet6"}, net6 : IPv6, mask6 : IPv6]

ASSUME LinesAndHosts == /\ Files \subseteq Seq(Line)
                        /\ NULL \notin Files \cup Readers \cup Entry
                        /\ Hosts \subseteq Host

InNet(entry, host) ==
    /\ entry.af = host.af
    /\ IF host.af = "inet"
       THEN exclude_ipv4_in_net(entry.net, entry.mask, host.ipv4)
       ELSE exclude_ipv6_in_net(entry.net6, entry.mask6, host.ipv6)
-----------------------------------------------------------------------------
VARIABLES
    exclude_vector,   \* slots 0..er_vector_size-1, an entry or NULL each
    er_vector_size,
    er_vector_fill,
    reader,           \* per thread: where it is
    content,          \* per thread: what the file contained when it was opened
    lineno,           \* per thread: lines read so far
    loaded,           \* lines added since exclude_clear
    ignored,          \* threads that ignored a line because malloc failed
    cleared           \* the thread that has cleared the list last, or NULL

list == <<exclude_vector, er_vector_size, er_vector_fill, loaded>>
threads == <<reader, content, lineno>>
vars == <<list, threads, ignored, cleared>>

TypeOK ==
    /\ er_vector_size \in Nat
    /\ exclude_vector \in [0..(er_vector_size - 1) -> Entry \cup {NULL}]
    /\ er_vector_fill \in 0..er_vector_size
    /\ reader \in [Readers -> {"none", "open", "clear", "read", "done"}]
    /\ content \in [Readers -> Files \cup {<<>>}]
    /\ lineno \in [Readers -> Nat]
    /\ \A r \in Readers : lineno[r] <= Len(content[r])
    /\ loaded \subseteq Line
    /\ ignored \subseteq Readers
    /\ cleared \in Readers \cup {NULL}

\* exclude_init.
Init ==
    /\ er_vector_size = ChunkSize
    /\ exclude_vector = [i \in 0..(ChunkSize - 1) |-> NULL]
    /\ er_vector_fill = 0
    /\ reader = [r \in Readers |-> "none"]
    /\ content = [r \in Readers |-> <<>>]
    /\ lineno = [r \in Readers |-> 0]
    /\ loaded = {}
    /\ ignored = {}
    /\ cleared = NULL

Goto(r, place) == reader' = [reader EXCEPT ![r] = place]
-----------------------------------------------------------------------------
(* The vector *)

Free == {i \in 0..(er_vector_size - 1) : exclude_vector[i] = NULL}

\* _exclude_find_free: the first free slot; without one the vector grows.
FirstFree == IF Free = {} THEN er_vector_size
             ELSE CHOOSE i \in Free : \A j \in Free : i <= j

\* Mutant: a full vector does not grow.
MutSizeWith(pos) == er_vector_size

\* _exclude_vector_grow, when there is no free slot.
SizeWith(pos) == IF pos < er_vector_size THEN er_vector_size
                 ELSE er_vector_size + ChunkSize

\* Mutant: the fill is not moved.
MutStore(pos, entry) ==
    /\ er_vector_size' = SizeWith(pos)
    /\ exclude_vector' = [i \in 0..(SizeWith(pos) - 1) |->
                            IF i = pos THEN entry
                            ELSE IF i < er_vector_size THEN exclude_vector[i] ELSE NULL]
    /\ UNCHANGED er_vector_fill

\* What exclude_add makes of the vector; without memory for the record, entry is NULL.
Store(pos, entry) ==
    /\ er_vector_size' = SizeWith(pos)
    /\ exclude_vector' = [i \in 0..(SizeWith(pos) - 1) |->
                            IF i = pos THEN entry
                            ELSE IF i < er_vector_size THEN exclude_vector[i] ELSE NULL]
    /\ er_vector_fill' = IF entry # NULL /\ pos + 1 > er_vector_fill THEN pos + 1
                         ELSE er_vector_fill

\* exclude_add of a line that thread r has read.
exclude_add(r, line) ==
    \/ /\ ~Parses(line)
       /\ UNCHANGED <<list, ignored>>
    \/ /\ Parses(line)
       /\ \E entry \in Entries(line) : Store(FirstFree, entry)
       /\ loaded' = loaded \cup {line}
       /\ UNCHANGED ignored
    \/ /\ Parses(line)
       /\ AddFails
       /\ Store(FirstFree, NULL)
       /\ ignored' = ignored \cup {r}
       /\ UNCHANGED loaded

\* exclude_isexcluded, with _records_find over the slots below the fill.
exclude_isexcluded(host) ==
    /\ host.af # "invalid"
    /\ \E i \in 0..(er_vector_fill - 1) :
           exclude_vector[i] # NULL /\ InNet(exclude_vector[i], host)
-----------------------------------------------------------------------------
(* _exclude_readfile_thread *)

\* exclude_readfile, called by main when it starts and on SIGHUP.
exclude_readfile(r) ==
    /\ reader[r] = "none"
    /\ Goto(r, "open")
    /\ UNCHANGED <<list, content, lineno, ignored, cleared>>

\* access and fopen.
OpenFile(r, file) ==
    /\ reader[r] = "open"
    /\ content' = [content EXCEPT ![r] = file]
    /\ Goto(r, "clear")
    /\ UNCHANGED <<list, lineno, ignored, cleared>>

\* Without a readable file the list stays as it is.
NoFile(r) ==
    /\ reader[r] = "open"
    /\ Goto(r, "done")
    /\ UNCHANGED <<list, content, lineno, ignored, cleared>>

exclude_clear(r) ==
    /\ reader[r] = "clear"
    /\ er_vector_size' = ChunkSize
    /\ exclude_vector' = [i \in 0..(ChunkSize - 1) |-> NULL]
    /\ er_vector_fill' = 0
    /\ loaded' = {}
    /\ cleared' = r
    /\ Goto(r, "read")
    /\ UNCHANGED <<content, lineno, ignored>>

\* One round of the loop: comments are skipped, a line in error is ignored.
ReadLine(r) ==
    /\ reader[r] = "read"
    /\ lineno[r] < Len(content[r])
    /\ lineno' = [lineno EXCEPT ![r] = @ + 1]
    /\ LET line == content[r][lineno[r] + 1]
       IN  IF line.af = "comment" THEN UNCHANGED <<list, ignored>>
           ELSE exclude_add(r, line)
    /\ UNCHANGED <<reader, content, cleared>>

EndOfFile(r) ==
    /\ reader[r] = "read"
    /\ lineno[r] = Len(content[r])
    /\ Goto(r, "done")
    /\ UNCHANGED <<list, content, lineno, ignored, cleared>>

Read(r) == \/ \E file \in Files : OpenFile(r, file)
           \/ NoFile(r) \/ exclude_clear(r) \/ ReadLine(r) \/ EndOfFile(r)

Next == \E r \in Readers : exclude_readfile(r) \/ Read(r)

Spec == Init /\ [][Next]_vars
-----------------------------------------------------------------------------
(* What the list means *)

\* The first prefix bits of two addresses agree.
Covers(line, host) ==
    /\ line.af = host.af
    /\ IF line.af = "inet"
       THEN \A i \in 0..(WordBits - 1) :
               WordBits - 1 - i < Prefix(line) => line.ipv4[i] = host.ipv4[i]
       ELSE \A i \in 0..(NumBytes - 1), j \in 0..(ByteBits - 1) :
               i * ByteBits + (ByteBits - 1 - j) < Prefix(line)
                   => line.ipv6[i][j] = host.ipv6[i][j]

\* The undefined shift is not involved.
Defined(line) == line.af = "inet" => Prefix(line) > 0

\* A host is found exactly when a line that has been added since the list was
\* cleared covers it: _exclude_find_free reuses slots, the fill only grows,
\* lookups stop at the fill, and masks are computed in two ways.  For IPv4 and
\* prefix 0 the shift in exclude_add is undefined and either answer may come.
LookupMatchesLines ==
    \A h \in Hosts :
        /\ exclude_isexcluded(h) => \E line \in loaded : Covers(line, h)
        /\ (\E line \in loaded : Defined(line) /\ Covers(line, h)) => exclude_isexcluded(h)

\* The lines of its file that thread r has come to and can use.
Usable(r) == {content[r][i] : i \in {j \in 1..lineno[r] : Parses(content[r][j])}}

\* The thread that cleared the list last finds all that it has read in the
\* list, whatever other readers (SIGHUP twice in a row) have added before and
\* add meanwhile: no reader's clear hits between another one's clear and its
\* lines, and no slot is taken twice.
LastReaderComplete ==
    cleared \in Readers \ ignored =>
        \A h \in Hosts :
            (\E line \in Usable(cleared) : Defined(line) /\ Covers(line, h))
                => exclude_isexcluded(h)
=============================================================================
