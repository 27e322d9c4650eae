---------------------------- MODULE IntakeProofs ----------------------------
(***************************************************************************)
(* The exclude list and the way of a command from peer to worker, for      *)
(* addresses and integers of any width, exclude files of any length, any   *)
(* number of readers, and pieces of any size on the connection.            *)
(*                                                                         *)
(* The list is related to the lines that have been added by Represents:    *)
(* each slot in use stands for a line and each line for a slot, all of     *)
(* them below the fill.  That a record stands for its line is a lemma      *)
(* about masks.  The connection keeps what has not been decoded in three   *)
(* places, the buffer, the stream and what is still to be written; put     *)
(* together they are the encoding of the commands not yet handled.         *)
(***************************************************************************)
EXTENDS Intake, SequenceTheorems, WellFoundedInduction, TLAPS

-----------------------------------------------------------------------------
(* Masks *)

\* A mask of ones from bit n up compares the bits from n up.
LEMMA AndCompares ==
    ASSUME NEW bits \in Nat, NEW n \in Int, NEW a \in Word(bits), NEW b \in Word(bits)
    PROVE  And(a, ShiftedOnes(bits, n)) = And(b, ShiftedOnes(bits, n))
             <=> \A i \in 0..(bits - 1) : i >= n => a[i] = b[i]
<1> DEFINE mask == ShiftedOnes(bits, n)
           D == 0..(bits - 1)
<1>1. DOMAIN a = D /\ DOMAIN b = D
  BY DEF Word
<1>2. \A i \in D : a[i] \in {0, 1} /\ b[i] \in {0, 1}
  BY DEF Word
<1>3. \A i \in D : /\ mask[i] = IF i >= n THEN 1 ELSE 0
                   /\ And(a, mask)[i] = a[i] * mask[i]
                   /\ And(b, mask)[i] = b[i] * mask[i]
  BY <1>1 DEF ShiftedOnes, And
<1>4. \A i \in D : /\ And(a, mask)[i] = IF i >= n THEN a[i] ELSE 0
                   /\ And(b, mask)[i] = IF i >= n THEN b[i] ELSE 0
  BY <1>2, <1>3
<1>5. And(a, mask) = And(b, mask) <=> \A i \in D : And(a, mask)[i] = And(b, mask)[i]
  BY <1>1 DEF And
<1>6. QED BY <1>4, <1>5

\* A shift that shifts nothing, and one that shifts everything out.
LEMMA OnesAndZeros ==
    ASSUME NEW bits \in Nat
    PROVE  Ones(bits) = ShiftedOnes(bits, 0) /\ Zeros(bits) = ShiftedOnes(bits, bits)
  BY DEF Ones, Zeros, ShiftedOnes

\* exclude_ipv4_in_net with a mask of exclude_add compares the first p bits;
\* with p = 0 it may compare more.
LEMMA Masks4Compare ==
    ASSUME NEW p \in 0..WordBits, NEW mask \in Masks4(p), NEW net \in IPv4, NEW ip \in IPv4
    PROVE  LET agree == \A i \in 0..(WordBits - 1) :
                            WordBits - 1 - i < p => net[i] = ip[i]
           IN  /\ exclude_ipv4_in_net(net, mask, ip) => agree
               /\ p > 0 /\ agree => exclude_ipv4_in_net(net, mask, ip)
<1>1. WordBits \in Nat \ {0} /\ net \in Word(WordBits) /\ ip \in Word(WordBits)
  BY ExcludeConfig DEF IPv4
<1>2. CASE p = 0
  BY <1>1, <1>2
<1>3. CASE p # 0
  <2>1. mask = ShiftedOnes(WordBits, WordBits - p)
    BY <1>3 DEF Masks4
  <2>2. \A i \in 0..(WordBits - 1) : i >= WordBits - p <=> WordBits - 1 - i < p
    BY <1>1
  <2>3. WordBits - p \in Int
    BY <1>1
  <2>4. exclude_ipv4_in_net(net, mask, ip)
          <=> \A i \in 0..(WordBits - 1) : i >= WordBits - p => net[i] = ip[i]
    BY <1>1, <2>1, <2>3, AndCompares DEF exclude_ipv4_in_net
  <2>5. QED BY <2>2, <2>4
<1>4. QED BY <1>2, <1>3

\* Division by the bits of a byte.
LEMMA DivMod ==
    ASSUME NEW p \in Nat, NEW b \in Nat, b # 0
    PROVE  p \div b \in Nat /\ (p % b) \in 0..(b - 1) /\ p = (p \div b) * b + (p % b)
<1>1. p = (p \div b) * b + (p % b)
  OBVIOUS
<1>2. (p % b) \in 0..(b - 1)
  OBVIOUS
<1>3. p \div b \in Nat
  OBVIOUS
<1>4. QED BY <1>1, <1>2, <1>3

\* The order of positions given by a byte and a bit in it.
LEMMA PositionOrder ==
    ASSUME NEW b \in Nat, NEW i \in Nat, NEW n \in Nat,
           NEW x \in 0..(b - 1), NEW m \in 0..(b - 1)
    PROVE  i * b + x < n * b + m <=> i < n \/ (i = n /\ x < m)
<1> DEFINE u == i * b
           v == n * b
<1>1. u \in Nat /\ v \in Nat
  OBVIOUS
<1>2. i < n => u + b <= v
  OBVIOUS
<1>3. n < i => v + b <= u
  OBVIOUS
<1>4. i = n => u = v
  OBVIOUS
<1> HIDE DEF u, v
<1>5. u + x < v + m <=> i < n \/ (i = n /\ x < m)
  BY <1>1, <1>2, <1>3, <1>4
<1>6. QED BY <1>5 DEF u, v

\* The mask of exclude_prefix_to_ipv6_mask compares the first p bits.
LEMMA Mask6Compares ==
    ASSUME NEW p \in Nat, NEW net \in IPv6, NEW ip \in IPv6
    PROVE  exclude_ipv6_in_net(net, exclude_prefix_to_ipv6_mask(p), ip)
             <=> \A i \in 0..(NumBytes - 1), j \in 0..(ByteBits - 1) :
                     i * ByteBits + (ByteBits - 1 - j) < p => net[i][j] = ip[i][j]
<1> DEFINE n == p \div ByteBits
           m == p % ByteBits
           mask == exclude_prefix_to_ipv6_mask(p)
           from(i) == IF i < n THEN 0 ELSE IF i = n /\ m # 0 THEN ByteBits - m ELSE ByteBits
<1>1. /\ ByteBits \in Nat \ {0} /\ NumBytes \in Nat \ {0}
      /\ n \in Nat /\ m \in 0..(ByteBits - 1) /\ p = n * ByteBits + m
  BY ExcludeConfig, DivMod
<1>2. ASSUME NEW i \in 0..(NumBytes - 1)
      PROVE  /\ And(net[i], mask[i]) = And(ip[i], mask[i])
                  <=> \A j \in 0..(ByteBits - 1) : j >= from(i) => net[i][j] = ip[i][j]
             /\ \A j \in 0..(ByteBits - 1) :
                    j >= from(i) <=> i * ByteBits + (ByteBits - 1 - j) < p
  <2>1. net[i] \in Word(ByteBits) /\ ip[i] \in Word(ByteBits)
    BY <1>2 DEF IPv6
  <2>2. mask[i] = ShiftedOnes(ByteBits, from(i))
    BY <1>1, <1>2, OnesAndZeros DEF exclude_prefix_to_ipv6_mask
  <2> HIDE DEF n, m, mask
  <2>3. from(i) \in Int
    BY <1>1
  <2>4. And(net[i], mask[i]) = And(ip[i], mask[i])
          <=> \A j \in 0..(ByteBits - 1) : j >= from(i) => net[i][j] = ip[i][j]
    <3> HIDE DEF from
    <3>1. QED BY <1>1, <2>1, <2>2, <2>3, AndCompares
  <2>5. ASSUME NEW j \in 0..(ByteBits - 1)
        PROVE  j >= from(i) <=> i * ByteBits + (ByteBits - 1 - j) < p
    <3>1. ByteBits - 1 - j \in 0..(ByteBits - 1) /\ i \in Nat
      BY <1>1, <2>5
    <3>2. i * ByteBits + (ByteBits - 1 - j) < n * ByteBits + m
            <=> i < n \/ (i = n /\ ByteBits - 1 - j < m)
      BY <1>1, <3>1, PositionOrder
    <3>3. j >= from(i) <=> i < n \/ (i = n /\ ByteBits - 1 - j < m)
      BY <1>1, <3>1
    <3>4. QED BY <1>1, <3>2, <3>3
  <2>6. QED BY <2>4, <2>5
<1>3. exclude_ipv6_in_net(net, mask, ip)
        <=> \A i \in 0..(NumBytes - 1) : And(net[i], mask[i]) = And(ip[i], mask[i])
  BY DEF exclude_ipv6_in_net
<1> HIDE DEF mask, from, n, m
<1>4. exclude_ipv6_in_net(net, mask, ip)
        <=> \A i \in 0..(NumBytes - 1), j \in 0..(ByteBits - 1) :
               j >= from(i) => net[i][j] = ip[i][j]
  BY <1>2, <1>3
<1>5. QED BY <1>2, <1>4 DEF mask

-----------------------------------------------------------------------------
(* A record stands for its line *)

\* What a line that parses is, by address family.
LEMMA LineKinds ==
    ASSUME NEW line \in Line, Parses(line)
    PROVE  \/ /\ line.af = "inet" /\ line.ipv4 \in IPv4
              /\ Prefix(line) \in 0..WordBits
           \/ /\ line.af = "inet6" /\ line.ipv6 \in IPv6
              /\ Prefix(line) \in Nat
<1>1. WordBits \in Nat /\ NumBytes * ByteBits \in Nat
  BY ExcludeConfig
<1>2. CASE line \in [af : {"inet"}, ipv4 : IPv4, prefix : Nat \cup {NoPrefix}]
  <2>1. line.af = "inet" /\ line.ipv4 \in IPv4 /\ line.prefix \in Nat \cup {NoPrefix}
    BY <1>2
  <2>2. Prefix(line) \in Nat /\ Prefix(line) <= WordBits
    BY <1>1, <2>1 DEF Parses, Prefix, Width
  <2>3. QED BY <1>1, <2>1, <2>2
<1>3. CASE line \in [af : {"inet6"}, ipv6 : IPv6, prefix : Nat \cup {NoPrefix}]
  <2>1. line.af = "inet6" /\ line.ipv6 \in IPv6 /\ line.prefix \in Nat \cup {NoPrefix}
    BY <1>3
  <2>2. Prefix(line) \in Nat
    BY <1>1, <2>1 DEF Prefix, Width
  <2>3. QED BY <2>1, <2>2
<1>4. CASE line \in [af : {"comment", "invalid"}]
  BY <1>4 DEF Parses
<1>5. QED BY <1>2, <1>3, <1>4 DEF Line

LEMMA HostKinds ==
    ASSUME NEW host \in Host
    PROVE  \/ host.af = "inet" /\ host.ipv4 \in IPv4
           \/ host.af = "inet6" /\ host.ipv6 \in IPv6
           \/ host.af = "invalid"
  BY DEF Host

\* exclude_add makes records.
LEMMA EntriesType ==
    ASSUME NEW line \in Line, Parses(line)
    PROVE  Entries(line) \subseteq Entry /\ NULL \notin Entries(line) /\ Entries(line) # {}
<1>1. Entries(line) \subseteq Entry /\ Entries(line) # {}
  <2>1. CASE /\ line.af = "inet" /\ line.ipv4 \in IPv4
             /\ Prefix(line) \in 0..WordBits
    <3>1. Masks4(Prefix(line)) \subseteq IPv4 /\ Masks4(Prefix(line)) # {}
      BY DEF Masks4, IPv4, Word, Ones, Zeros, ShiftedOnes
    <3>2. Entries(line) = {[af |-> "inet", net |-> line.ipv4, mask |-> mask] :
                              mask \in Masks4(Prefix(line))}
      BY <2>1 DEF Entries
    <3>3. Entries(line) # {}
      BY <3>1, <3>2
    <3>4. \A mask \in IPv4 : [af |-> "inet", net |-> line.ipv4, mask |-> mask] \in Entry
      BY <2>1 DEF Entry
    <3>5. QED BY <3>1, <3>2, <3>3, <3>4
  <2>2. CASE /\ line.af = "inet6" /\ line.ipv6 \in IPv6
             /\ Prefix(line) \in Nat
    <3>1. exclude_prefix_to_ipv6_mask(Prefix(line)) \in IPv6
      BY DEF exclude_prefix_to_ipv6_mask, IPv6, Word, Ones, Zeros, ShiftedOnes
    <3>2. QED BY <2>2, <3>1 DEF Entries, Entry
  <2>3. QED BY <2>1, <2>2, LineKinds
<1>2. QED BY <1>1, LinesAndHosts

\* The test of a host against a record says what the line says, save that an
\* undefined shift may let a host through.
LEMMA EntryStandsForLine ==
    ASSUME NEW line \in Line, Parses(line), NEW entry \in Entries(line),
           NEW host \in Host, host.af # "invalid"
    PROVE  /\ InNet(entry, host) => Covers(line, host)
           /\ Defined(line) /\ Covers(line, host) => InNet(entry, host)
<1>1. CASE /\ line.af = "inet" /\ line.ipv4 \in IPv4
           /\ Prefix(line) \in 0..WordBits
  <2>1. PICK mask \in Masks4(Prefix(line)) :
             entry = [af |-> "inet", net |-> line.ipv4, mask |-> mask]
    BY <1>1 DEF Entries
  <2>2. entry.af = "inet" /\ entry.net = line.ipv4 /\ entry.mask = mask
    BY <2>1
  <2>3. CASE host.af # "inet"
    BY <1>1, <2>2, <2>3 DEF InNet, Covers
  <2>4. CASE host.af = "inet"
    <3>1. host.ipv4 \in IPv4
      BY <2>4, HostKinds
    <3>2. InNet(entry, host) <=> exclude_ipv4_in_net(line.ipv4, mask, host.ipv4)
      BY <2>2, <2>4 DEF InNet
    <3>3. Covers(line, host) <=>
              \A i \in 0..(WordBits - 1) :
                  WordBits - 1 - i < Prefix(line) => line.ipv4[i] = host.ipv4[i]
      BY <1>1, <2>4 DEF Covers
    <3>4. Defined(line) <=> Prefix(line) > 0
      BY <1>1 DEF Defined
    <3>5. QED BY <1>1, <2>1, <3>1, <3>2, <3>3, <3>4, Masks4Compare
  <2>5. QED BY <2>3, <2>4
<1>2. CASE /\ line.af = "inet6" /\ line.ipv6 \in IPv6
           /\ Prefix(line) \in Nat
  <2>1. entry = [af |-> "inet6", net6 |-> line.ipv6,
                 mask6 |-> exclude_prefix_to_ipv6_mask(Prefix(line))]
    BY <1>2 DEF Entries
  <2>2. /\ entry.af = "inet6" /\ entry.net6 = line.ipv6
        /\ entry.mask6 = exclude_prefix_to_ipv6_mask(Prefix(line))
    BY <2>1
  <2>3. CASE host.af # "inet6"
    BY <1>2, <2>2, <2>3 DEF InNet, Covers
  <2>4. CASE host.af = "inet6"
    <3>1. host.ipv6 \in IPv6
      BY <2>4, HostKinds
    <3>2. InNet(entry, host) <=>
              exclude_ipv6_in_net(line.ipv6, exclude_prefix_to_ipv6_mask(Prefix(line)),
                                  host.ipv6)
      BY <2>2, <2>4 DEF InNet
    <3>3. Covers(line, host) <=>
              \A i \in 0..(NumBytes - 1), j \in 0..(ByteBits - 1) :
                  i * ByteBits + (ByteBits - 1 - j) < Prefix(line)
                      => line.ipv6[i][j] = host.ipv6[i][j]
      BY <1>2, <2>4 DEF Covers
    <3>4. QED BY <1>2, <3>1, <3>2, <3>3, Mask6Compares
  <2>5. QED BY <2>3, <2>4
<1>3. QED BY <1>1, <1>2, LineKinds

-----------------------------------------------------------------------------
(* The vector *)

\* _exclude_find_free returns a free slot, or the first one behind the vector.
LEMMA FirstFreeIsFree ==
    ASSUME er_vector_size \in Nat
    PROVE  /\ FirstFree \in 0..er_vector_size
           /\ FirstFree < er_vector_size => exclude_vector[FirstFree] = NULL
<1>1. CASE Free = {}
  BY <1>1 DEF FirstFree
<1>2. CASE Free # {}
  <2>1. Free \subseteq Nat
    BY DEF Free
  <2>2. PICK m \in Free : \A n \in Free : ~(<<n, m>> \in OpToRel(<, Nat))
    BY <1>2, <2>1, NatLessThanWellFounded, WFMin
  <2>3. ASSUME NEW n \in Free
        PROVE  m <= n
    <3>1. <<n, m>> \in Nat \X Nat /\ n \in Nat /\ m \in Nat
      BY <2>1
    <3>2. (<<n, m>> \in OpToRel(<, Nat)) <=> n < m
      BY <3>1 DEF OpToRel
    <3>3. ~(n < m)
      BY <2>2, <3>2
    <3> HIDE <2>2
    <3>4. QED BY <3>1, <3>3
  <2>4. FirstFree \in Free
    BY <1>2, <2>3 DEF FirstFree
  <2>5. QED BY <2>4 DEF Free
<1>3. QED BY <1>1, <1>2

\* Slots and lines stand for each other, and slots in use are below the fill.
SlotsStand(vector, size, fill, lines) ==
    \A i \in 0..(size - 1) :
        vector[i] # NULL => i < fill /\ \E line \in lines : vector[i] \in Entries(line)

LinesStand(vector, size, lines) ==
    \A line \in lines : \E i \in 0..(size - 1) : vector[i] \in Entries(line)

Represents ==
    /\ \A line \in loaded : Parses(line)
    /\ SlotsStand(exclude_vector, er_vector_size, er_vector_fill, loaded)
    /\ LinesStand(exclude_vector, er_vector_size, loaded)

ListTypeOK ==
    /\ er_vector_size \in Nat
    /\ exclude_vector \in [0..(er_vector_size - 1) -> Entry \cup {NULL}]
    /\ er_vector_fill \in 0..er_vector_size
    /\ loaded \subseteq Line

ListInv == ListTypeOK /\ Represents

\* What Store does, slot by slot; pos is the slot of _exclude_find_free.
LEMMA StoreSlots ==
    ASSUME ListTypeOK, NEW entry \in Entry \cup {NULL}, Store(FirstFree, entry)
    PROVE  /\ er_vector_size' \in Nat /\ er_vector_size <= er_vector_size'
           /\ exclude_vector' \in [0..(er_vector_size' - 1) -> Entry \cup {NULL}]
           /\ er_vector_fill' \in 0..er_vector_size'
           /\ er_vector_fill <= er_vector_fill'
           /\ FirstFree \in 0..(er_vector_size' - 1)
           /\ exclude_vector'[FirstFree] = entry
           /\ entry # NULL => FirstFree < er_vector_fill'
           /\ \A i \in 0..(er_vector_size' - 1) : i # FirstFree =>
                  exclude_vector'[i] = IF i < er_vector_size THEN exclude_vector[i] ELSE NULL
           /\ \A i \in 0..(er_vector_size - 1) : exclude_vector[i] # NULL =>
                  exclude_vector'[i] = exclude_vector[i]
<1> DEFINE pos == FirstFree
<1>1. /\ er_vector_size \in Nat /\ er_vector_fill \in 0..er_vector_size
      /\ ChunkSize \in Nat /\ ChunkSize # 0
  BY ExcludeConfig DEF ListTypeOK
<1>2. pos \in 0..er_vector_size /\ (pos < er_vector_size => exclude_vector[pos] = NULL)
  BY <1>1, FirstFreeIsFree
<1> HIDE DEF pos
<1>3. /\ er_vector_size' = SizeWith(pos)
      /\ exclude_vector' = [i \in 0..(SizeWith(pos) - 1) |->
                              IF i = pos THEN entry
                              ELSE IF i < er_vector_size THEN exclude_vector[i] ELSE NULL]
      /\ er_vector_fill' = IF entry # NULL /\ pos + 1 > er_vector_fill THEN pos + 1
                           ELSE er_vector_fill
  BY DEF Store, pos
<1>4. SizeWith(pos) \in Nat /\ er_vector_size <= SizeWith(pos) /\ pos < SizeWith(pos)
  BY <1>1, <1>2 DEF SizeWith
<1>5. er_vector_fill' \in 0..er_vector_size' /\ er_vector_fill <= er_vector_fill'
      /\ (entry # NULL => pos < er_vector_fill')
  BY <1>1, <1>2, <1>3, <1>4
<1>6. exclude_vector' \in [0..(er_vector_size' - 1) -> Entry \cup {NULL}]
  <2>1. \A i \in 0..(SizeWith(pos) - 1) :
            i < er_vector_size => exclude_vector[i] \in Entry \cup {NULL}
    BY <1>1, <1>4 DEF ListTypeOK
  <2>2. QED BY <1>3, <2>1
<1>7. /\ pos \in 0..(er_vector_size' - 1)
      /\ exclude_vector'[pos] = entry
      /\ \A i \in 0..(er_vector_size' - 1) : i # pos =>
             exclude_vector'[i] = IF i < er_vector_size THEN exclude_vector[i] ELSE NULL
  BY <1>2, <1>3, <1>4
<1>8. \A i \in 0..(er_vector_size - 1) : exclude_vector[i] # NULL =>
          exclude_vector'[i] = exclude_vector[i]
  BY <1>1, <1>2, <1>3, <1>4
<1>9. QED BY <1>3, <1>4, <1>5, <1>6, <1>7, <1>8 DEF pos

\* exclude_add keeps the list and the lines in step, also without memory.
LEMMA AddKeepsList ==
    ASSUME ListInv, NEW r, NEW line \in Line, exclude_add(r, line)
    PROVE  ListInv'
<1> USE DEF ListInv
<1>1. CASE UNCHANGED list
  BY <1>1 DEF list, ListTypeOK, Represents, SlotsStand, LinesStand
<1>2. ASSUME Parses(line), NEW entry \in Entries(line), Store(FirstFree, entry),
             loaded' = loaded \cup {line}
      PROVE  ListInv'
  <2>1. entry \in Entry /\ entry # NULL
    BY <1>2, EntriesType
  <2>2. ListTypeOK'
    BY <1>2, <2>1, StoreSlots DEF ListTypeOK
  <2>3. SlotsStand(exclude_vector, er_vector_size, er_vector_fill, loaded)'
    <3> SUFFICES ASSUME NEW i \in 0..(er_vector_size' - 1), exclude_vector'[i] # NULL
                 PROVE  /\ i < er_vector_fill'
                        /\ \E l \in loaded' : exclude_vector'[i] \in Entries(l)
      BY DEF SlotsStand
    <3>1. CASE i = FirstFree
      BY <1>2, <2>1, <3>1, StoreSlots
    <3>2. CASE i # FirstFree
      <4>1. i < er_vector_size /\ exclude_vector'[i] = exclude_vector[i]
        BY <1>2, <2>1, <3>2, StoreSlots
      <4>2. i \in 0..(er_vector_size - 1)
        BY <4>1 DEF ListTypeOK
      <4>3. i < er_vector_fill /\ \E l \in loaded : exclude_vector[i] \in Entries(l)
        BY <4>1, <4>2 DEF Represents, SlotsStand
      <4>4. er_vector_fill \in Nat /\ er_vector_fill' \in Nat /\ er_vector_fill <= er_vector_fill'
        BY <1>2, <2>1, StoreSlots DEF ListTypeOK
      <4>5. i < er_vector_fill'
        BY <4>2, <4>3, <4>4
      <4>6. QED BY <1>2, <4>1, <4>3, <4>5
    <3>3. QED BY <3>1, <3>2
  <2>4. LinesStand(exclude_vector, er_vector_size, loaded)'
    <3> SUFFICES ASSUME NEW l \in loaded'
                 PROVE  \E i \in 0..(er_vector_size' - 1) : exclude_vector'[i] \in Entries(l)
      BY DEF LinesStand
    <3>1. CASE l = line
      BY <1>2, <2>1, <3>1, StoreSlots
    <3>2. CASE l \in loaded
      <4>1. PICK i \in 0..(er_vector_size - 1) : exclude_vector[i] \in Entries(l)
        BY <3>2 DEF Represents, LinesStand
      <4>2. exclude_vector[i] # NULL
        BY <3>2, <4>1, EntriesType DEF Represents, ListTypeOK
      <4>3. exclude_vector'[i] = exclude_vector[i] /\ i \in 0..(er_vector_size' - 1)
        BY <1>2, <2>1, <4>1, <4>2, StoreSlots DEF ListTypeOK
      <4>4. QED BY <4>1, <4>3
    <3>3. QED BY <1>2, <3>1, <3>2
  <2>5. QED BY <1>2, <2>2, <2>3, <2>4 DEF Represents
<1>3. ASSUME Store(FirstFree, NULL), UNCHANGED loaded
      PROVE  ListInv'
  <2>1. NULL \in Entry \cup {NULL}
    OBVIOUS
  <2>2. ListTypeOK'
    BY <1>3, <2>1, StoreSlots DEF ListTypeOK
  <2>3. SlotsStand(exclude_vector, er_vector_size, er_vector_fill, loaded)'
    <3> SUFFICES ASSUME NEW i \in 0..(er_vector_size' - 1), exclude_vector'[i] # NULL
                 PROVE  /\ i < er_vector_fill'
                        /\ \E l \in loaded' : exclude_vector'[i] \in Entries(l)
      BY DEF SlotsStand
    <3>1. i # FirstFree /\ i < er_vector_size /\ exclude_vector'[i] = exclude_vector[i]
      BY <1>3, <2>1, StoreSlots
    <3>2. i \in 0..(er_vector_size - 1)
      BY <3>1 DEF ListTypeOK
    <3>3. i < er_vector_fill /\ \E l \in loaded : exclude_vector[i] \in Entries(l)
      BY <3>1, <3>2 DEF Represents, SlotsStand
    <3>4. er_vector_fill \in Nat /\ er_vector_fill' \in Nat /\ er_vector_fill <= er_vector_fill'
      BY <1>3, <2>1, StoreSlots DEF ListTypeOK
    <3>5. i < er_vector_fill'
      BY <3>2, <3>3, <3>4
    <3>6. QED BY <1>3, <3>1, <3>3, <3>5
  <2>4. LinesStand(exclude_vector, er_vector_size, loaded)'
    <3> SUFFICES ASSUME NEW l \in loaded'
                 PROVE  \E i \in 0..(er_vector_size' - 1) : exclude_vector'[i] \in Entries(l)
      BY DEF LinesStand
    <3>1. PICK i \in 0..(er_vector_size - 1) : exclude_vector[i] \in Entries(l)
      BY <1>3 DEF Represents, LinesStand
    <3>2. exclude_vector[i] # NULL
      BY <1>3, <3>1, EntriesType DEF Represents, ListTypeOK
    <3>3. exclude_vector'[i] = exclude_vector[i] /\ i \in 0..(er_vector_size' - 1)
      BY <1>3, <2>1, <3>1, <3>2, StoreSlots DEF ListTypeOK
    <3>4. QED BY <3>1, <3>3
  <2>5. QED BY <1>3, <2>2, <2>3, <2>4 DEF Represents
<1>4. QED BY <1>1, <1>2, <1>3 DEF exclude_add

\* Lookups see what the lines say.
LEMMA LookupOfList == ListInv => LookupMatchesLines
<1> SUFFICES ASSUME ListInv, NEW h \in Hosts
             PROVE  /\ exclude_isexcluded(h) => \E line \in loaded : Covers(line, h)
                    /\ (\E line \in loaded : Defined(line) /\ Covers(line, h))
                            => exclude_isexcluded(h)
  BY DEF LookupMatchesLines
<1> USE DEF ListInv
<1>1. h \in Host /\ er_vector_size \in Nat /\ er_vector_fill \in 0..er_vector_size
  BY LinesAndHosts DEF ListTypeOK
<1>2. ASSUME exclude_isexcluded(h)
      PROVE  \E line \in loaded : Covers(line, h)
  <2>1. PICK i \in 0..(er_vector_fill - 1) :
             exclude_vector[i] # NULL /\ InNet(exclude_vector[i], h)
    BY <1>2 DEF exclude_isexcluded
  <2>2. i \in 0..(er_vector_size - 1)
    BY <1>1
  <2>3. PICK line \in loaded : exclude_vector[i] \in Entries(line)
    BY <2>1, <2>2 DEF Represents, SlotsStand
  <2>4. line \in Line /\ Parses(line) /\ h.af # "invalid"
    BY <1>2 DEF ListTypeOK, Represents, exclude_isexcluded
  <2>5. QED BY <1>1, <2>1, <2>3, <2>4, EntryStandsForLine
<1>3. ASSUME NEW line \in loaded, Defined(line), Covers(line, h)
      PROVE  exclude_isexcluded(h)
  <2>1. line \in Line /\ Parses(line)
    BY DEF ListTypeOK, Represents
  <2>2. h.af # "invalid"
    BY <1>3, <2>1, LineKinds DEF Covers
  <2>3. PICK i \in 0..(er_vector_size - 1) : exclude_vector[i] \in Entries(line)
    BY DEF Represents, LinesStand
  <2>4. exclude_vector[i] # NULL
    BY <2>1, <2>3, EntriesType
  <2>5. i < er_vector_fill
    BY <2>4 DEF Represents, SlotsStand
  <2>6. i \in 0..(er_vector_fill - 1)
    BY <1>1, <2>5
  <2>7. InNet(exclude_vector[i], h)
    BY <1>1, <1>3, <2>1, <2>2, <2>3, EntryStandsForLine
  <2>8. QED BY <2>2, <2>4, <2>6, <2>7 DEF exclude_isexcluded
<1>4. QED BY <1>2, <1>3

-----------------------------------------------------------------------------
(* The readers of the exclude file *)

ReadersTypeOK ==
    /\ reader \in [Readers -> {"none", "open", "clear", "read", "done"}]
    /\ content \in [Readers -> Files \cup {<<>>}]
    /\ lineno \in [Readers -> Nat]
    /\ \A r \in Readers : lineno[r] <= Len(content[r])
    /\ ignored \subseteq Readers
    /\ cleared \in Readers \cup {NULL}

\* Thread r: no line before its clear, and its file is one of Files from then on.
ThreadOK(r) ==
    /\ reader[r] \in {"none", "open", "clear"} => lineno[r] = 0
    /\ reader[r] \in {"clear", "read"} => content[r] \in Files

\* The thread that cleared the list last has its lines in the list.
ClearedOK(r) ==
    /\ reader[r] \in {"read", "done"}
    /\ content[r] \in Files
    /\ reader[r] = "done" => lineno[r] = Len(content[r])
    /\ r \notin ignored => Usable(r) \subseteq loaded

ReadersInv ==
    /\ ReadersTypeOK
    /\ \A r \in Readers : ThreadOK(r)
    /\ cleared \in Readers => ClearedOK(cleared)

ExcludeInv == ListInv /\ ReadersInv

\* The exclude file of a thread is a sequence of lines.
LEMMA ContentIsLines ==
    ASSUME ReadersTypeOK, NEW r \in Readers
    PROVE  content[r] \in Seq(Line) /\ Len(content[r]) \in Nat
<1>1. content[r] \in Files \cup {<<>>}
  BY DEF ReadersTypeOK
<1>2. Files \subseteq Seq(Line)
  BY LinesAndHosts
<1>3. <<>> \in Seq(Line)
  OBVIOUS
<1>4. content[r] \in Seq(Line)
  BY <1>1, <1>2, <1>3
<1>5. QED BY <1>4, LenProperties

LEMMA ExcludeInit == Init => ExcludeInv
<1> SUFFICES ASSUME Init PROVE ExcludeInv
  OBVIOUS
<1>1. ChunkSize \in Nat /\ NULL \notin Readers
  BY ExcludeConfig, LinesAndHosts
<1>2. ListInv
  BY <1>1 DEF Init, ListInv, ListTypeOK, Represents, SlotsStand, LinesStand
<1>3. \A r \in Readers : reader[r] = "none" /\ content[r] = <<>> /\ lineno[r] = 0
  BY DEF Init
<1>4. Len(<<>>) = 0
  OBVIOUS
<1>5. ReadersTypeOK
  BY <1>3, <1>4 DEF Init, ReadersTypeOK
<1>6. QED BY <1>1, <1>2, <1>3, <1>5 DEF Init, ExcludeInv, ReadersInv, ThreadOK

\* The start of a thread, and its end without a file.
LEMMA StartStep ==
    ASSUME ExcludeInv, NEW r \in Readers, exclude_readfile(r) \/ NoFile(r)
    PROVE  ExcludeInv'
<1> USE DEF ExcludeInv, ReadersInv
<1>1. /\ UNCHANGED <<exclude_vector, er_vector_size, er_vector_fill, loaded>>
      /\ UNCHANGED <<content, lineno, ignored, cleared>>
      /\ reader[r] \in {"none", "open"}
      /\ \E place \in {"open", "done"} : reader' = [reader EXCEPT ![r] = place]
  BY DEF exclude_readfile, NoFile, Goto, list
<1>2. ListInv'
  BY <1>1 DEF ListInv, ListTypeOK, Represents, SlotsStand, LinesStand
<1>3. ReadersTypeOK'
  BY <1>1 DEF ReadersTypeOK
<1>4. \A k \in Readers : ThreadOK(k)'
  BY <1>1 DEF ThreadOK, ReadersTypeOK
<1>5. cleared' \in Readers => ClearedOK(cleared)'
  <2>1. SUFFICES ASSUME cleared \in Readers
                 PROVE  ClearedOK(cleared)'
    BY <1>1
  <2>2. cleared # r
    BY <1>1, <2>1 DEF ClearedOK
  <2>3. reader'[cleared] = reader[cleared]
    BY <1>1, <2>1, <2>2 DEF ReadersTypeOK
  <2>4. Usable(cleared)' = Usable(cleared)
    BY <1>1 DEF Usable
  <2>5. QED BY <1>1, <2>1, <2>3, <2>4 DEF ClearedOK
<1>6. QED BY <1>2, <1>3, <1>4, <1>5

LEMMA OpenStep ==
    ASSUME ExcludeInv, NEW r \in Readers, NEW file \in Files, OpenFile(r, file)
    PROVE  ExcludeInv'
<1> USE DEF ExcludeInv, ReadersInv
<1>1. /\ UNCHANGED <<exclude_vector, er_vector_size, er_vector_fill, loaded>>
      /\ UNCHANGED <<lineno, ignored, cleared>>
      /\ reader[r] = "open"
      /\ reader' = [reader EXCEPT ![r] = "clear"]
      /\ content' = [content EXCEPT ![r] = file]
  BY DEF OpenFile, Goto, list
<1>2. ListInv'
  BY <1>1 DEF ListInv, ListTypeOK, Represents, SlotsStand, LinesStand
<1>3. lineno[r] = 0
  BY <1>1 DEF ThreadOK
<1>4. file \in Seq(Line) /\ Len(file) \in Nat
  BY LinesAndHosts, LenProperties
<1>5. \A k \in Readers : lineno'[k] <= Len(content'[k])
  BY <1>1, <1>3, <1>4 DEF ReadersTypeOK
<1>6. ReadersTypeOK'
  BY <1>1, <1>5 DEF ReadersTypeOK
<1>7. \A k \in Readers : ThreadOK(k)'
  BY <1>1, <1>3 DEF ThreadOK, ReadersTypeOK
<1>8. cleared' \in Readers => ClearedOK(cleared)'
  <2>1. SUFFICES ASSUME cleared \in Readers
                 PROVE  ClearedOK(cleared)'
    BY <1>1
  <2>2. cleared # r
    BY <1>1, <2>1 DEF ClearedOK
  <2>3. reader'[cleared] = reader[cleared] /\ content'[cleared] = content[cleared]
    BY <1>1, <2>1, <2>2 DEF ReadersTypeOK
  <2>4. Usable(cleared)' = Usable(cleared)
    BY <1>1, <2>3 DEF Usable
  <2>5. QED BY <1>1, <2>1, <2>3, <2>4 DEF ClearedOK
<1>9. QED BY <1>2, <1>6, <1>7, <1>8

\* After exclude_clear nothing is in the list, and its thread has read nothing.
LEMMA ClearStep ==
    ASSUME ExcludeInv, NEW r \in Readers, exclude_clear(r)
    PROVE  ExcludeInv'
<1> USE DEF ExcludeInv, ReadersInv
<1>1. /\ reader[r] = "clear" /\ reader' = [reader EXCEPT ![r] = "read"]
      /\ cleared' = r /\ UNCHANGED <<content, lineno, ignored>>
      /\ er_vector_size' = ChunkSize
      /\ exclude_vector' = [i \in 0..(ChunkSize - 1) |-> NULL]
      /\ er_vector_fill' = 0 /\ loaded' = {}
  BY DEF exclude_clear, Goto
<1>2. ChunkSize \in Nat
  BY ExcludeConfig
<1>3. ListInv'
  BY <1>1, <1>2 DEF ListInv, ListTypeOK, Represents, SlotsStand, LinesStand
<1>4. ReadersTypeOK'
  BY <1>1 DEF ReadersTypeOK
<1>5. \A k \in Readers : ThreadOK(k)'
  BY <1>1 DEF ThreadOK, ReadersTypeOK
<1>6. reader'[r] = "read" /\ content[r] \in Files /\ lineno[r] = 0
  BY <1>1 DEF ThreadOK, ReadersTypeOK
<1>7. Usable(r)' = {}
  BY <1>1, <1>6 DEF Usable
<1>8. ClearedOK(r)'
  BY <1>1, <1>6, <1>7 DEF ClearedOK
<1>9. QED BY <1>1, <1>3, <1>4, <1>5, <1>8

\* One line more: it is in the list, cannot be used, or is ignored.
LEMMA ReadStep ==
    ASSUME ExcludeInv, NEW r \in Readers, ReadLine(r)
    PROVE  ExcludeInv'
<1> USE DEF ExcludeInv, ReadersInv
<1> DEFINE n == lineno[r]
           line == content[r][n + 1]
<1>1. /\ reader[r] = "read" /\ n < Len(content[r])
      /\ lineno' = [lineno EXCEPT ![r] = @ + 1]
      /\ UNCHANGED <<reader, content, cleared>>
      /\ (line.af = "comment" /\ UNCHANGED <<list, ignored>>) \/ exclude_add(r, line)
  BY DEF ReadLine
<1>2. content[r] \in Seq(Line) /\ Len(content[r]) \in Nat /\ n \in Nat
  BY ContentIsLines DEF ReadersTypeOK
<1>3. line \in Line
  BY <1>1, <1>2, ElementOfSeq
<1>4. ListInv'
  <2>1. CASE UNCHANGED <<list, ignored>>
    BY <2>1 DEF list, ListInv, ListTypeOK, Represents, SlotsStand, LinesStand
  <2>2. CASE exclude_add(r, line)
    BY <1>3, <2>2, AddKeepsList
  <2>3. QED BY <1>1, <2>1, <2>2
<1>5. \/ loaded' = loaded /\ ignored' = ignored /\ ~Parses(line)
      \/ loaded' = loaded \cup {line} /\ ignored' = ignored
      \/ loaded' = loaded /\ ignored' = ignored \cup {r}
  BY <1>1 DEF exclude_add, list, Parses
<1>6. \A k \in Readers : lineno'[k] = IF k = r THEN n + 1 ELSE lineno[k]
  BY <1>1 DEF ReadersTypeOK
<1>7. ReadersTypeOK'
  <2>1. \A k \in Readers : lineno'[k] \in Nat /\ lineno'[k] <= Len(content[k])
    BY <1>1, <1>2, <1>6 DEF ReadersTypeOK
  <2>2. lineno' \in [Readers -> Nat]
    BY <1>1, <1>2 DEF ReadersTypeOK
  <2>3. ignored' \subseteq Readers
    BY <1>5 DEF ReadersTypeOK
  <2>4. QED BY <1>1, <2>1, <2>2, <2>3 DEF ReadersTypeOK
<1>8. \A k \in Readers : ThreadOK(k)'
  BY <1>1, <1>6 DEF ThreadOK
<1>9. cleared' \in Readers => ClearedOK(cleared)'
  <2>1. SUFFICES ASSUME cleared \in Readers
                 PROVE  ClearedOK(cleared)'
    BY <1>1
  <2> DEFINE k == cleared
  <2>2. ClearedOK(k) /\ loaded \subseteq loaded' /\ ignored \subseteq ignored'
    BY <1>5, <2>1
  <2>3. CASE k # r
    <3>1. Usable(k)' = Usable(k)
      BY <1>1, <1>6, <2>1, <2>3 DEF Usable
    <3>2. QED BY <1>1, <1>6, <2>1, <2>2, <2>3, <3>1 DEF ClearedOK
  <2>4. CASE k = r
    <3>1. Usable(k)' = {content[r][i] : i \in {j \in 1..(n + 1) : Parses(content[r][j])}}
      BY <1>1, <1>6, <2>4 DEF Usable
    <3>2. Usable(k)' \subseteq Usable(k) \cup (IF Parses(line) THEN {line} ELSE {})
      <4>1. 1..(n + 1) = 1..n \cup {n + 1}
        BY <1>2
      <4>2. QED BY <2>4, <3>1, <4>1 DEF Usable
    <3>3. k \notin ignored' => Usable(k)' \subseteq loaded'
      <4> SUFFICES ASSUME k \notin ignored' PROVE Usable(k)' \subseteq loaded'
        OBVIOUS
      <4>1. Usable(k) \subseteq loaded
        BY <2>2 DEF ClearedOK
      <4>2. Parses(line) => line \in loaded'
        BY <1>5, <2>4
      <4>3. QED BY <2>2, <3>2, <4>1, <4>2
    <3>4. QED BY <1>1, <2>2, <2>4, <3>3 DEF ClearedOK
  <2>5. QED BY <1>1, <2>3, <2>4
<1>10. QED BY <1>4, <1>7, <1>8, <1>9

LEMMA EndStep ==
    ASSUME ExcludeInv, NEW r \in Readers, EndOfFile(r)
    PROVE  ExcludeInv'
<1> USE DEF ExcludeInv, ReadersInv
<1>1. /\ UNCHANGED <<exclude_vector, er_vector_size, er_vector_fill, loaded>>
      /\ UNCHANGED <<content, lineno, ignored, cleared>>
      /\ reader[r] = "read" /\ lineno[r] = Len(content[r])
      /\ reader' = [reader EXCEPT ![r] = "done"]
  BY DEF EndOfFile, Goto, list
<1>2. ListInv'
  BY <1>1 DEF ListInv, ListTypeOK, Represents, SlotsStand, LinesStand
<1>3. ReadersTypeOK'
  BY <1>1 DEF ReadersTypeOK
<1>4. \A k \in Readers : ThreadOK(k)'
  BY <1>1 DEF ThreadOK, ReadersTypeOK
<1>5. cleared' \in Readers => ClearedOK(cleared)'
  <2>1. SUFFICES ASSUME cleared \in Readers
                 PROVE  ClearedOK(cleared)'
    BY <1>1
  <2>2. Usable(cleared)' = Usable(cleared)
    BY <1>1 DEF Usable
  <2>3. QED BY <1>1, <2>1, <2>2 DEF ClearedOK, ReadersTypeOK
<1>6. QED BY <1>2, <1>3, <1>4, <1>5

\* The inductive invariant of the exclude list.
LEMMA ExcludeStep == ExcludeInv /\ [Next]_vars => ExcludeInv'
<1> SUFFICES ASSUME ExcludeInv, [Next]_vars PROVE ExcludeInv'
  OBVIOUS
<1>1. CASE Next
  BY <1>1, StartStep, OpenStep, ClearStep, ReadStep, EndStep DEF Next, Read
<1>2. CASE UNCHANGED vars
  BY <1>2 DEF vars, list, threads, ExcludeInv, ListInv, ListTypeOK, Represents, SlotsStand,
     LinesStand, ReadersInv, ReadersTypeOK, ThreadOK, ClearedOK, Usable
<1>3. QED BY <1>1, <1>2

\* The last thread's lines are found.
LEMMA LastReaderOfList == ExcludeInv => LastReaderComplete
<1>1. ExcludeInv => LookupMatchesLines
  BY LookupOfList DEF ExcludeInv
<1>2. ExcludeInv /\ cleared \in Readers \ ignored => Usable(cleared) \subseteq loaded
  BY DEF ExcludeInv, ReadersInv, ClearedOK
<1>3. QED BY <1>1, <1>2 DEF LastReaderComplete, LookupMatchesLines

-----------------------------------------------------------------------------
(* The wire format *)

LEMMA BytesAreSeq ==
    ASSUME NEW n \in Nat, NEW b \in Bytes(n)
    PROVE  b \in Seq(Byte) /\ Len(b) = n
  BY IsASeq, LenProperties DEF Bytes

\* Turning the bytes around twice changes nothing.
LEMMA TurnedTwice ==
    ASSUME NEW n \in Nat, NEW m \in Bytes(n)
    PROVE  Turned(m) \in Bytes(n) /\ Turned(Turned(m)) = m
<1>1. m \in Seq(Byte) /\ Len(m) = n
  BY BytesAreSeq
<1>2. Turned(m) \in Bytes(n)
  BY <1>1 DEF Turned, Bytes
<1>3. Turned(m) \in Seq(Byte) /\ Len(Turned(m)) = n
  BY <1>2, BytesAreSeq
<1>4. \A i \in 1..n : Turned(Turned(m))[i] = m[i]
  BY <1>1, <1>3 DEF Turned
<1>5. Turned(Turned(m)) \in Bytes(n)
  BY <1>1, <1>2, <1>3 DEF Turned, Bytes
<1>6. QED BY <1>2, <1>4, <1>5 DEF Bytes

\* On either kind of machine the bytes on the wire are those of the value, and
\* the value is that of the bytes on the wire.
LEMMA NetworkOrder ==
    ASSUME NEW n \in Nat, NEW v \in Bytes(n), NEW bigendian \in BOOLEAN
    PROVE  Put(v, bigendian) = v /\ ValueOf(hton(v, bigendian), bigendian) = v
  BY TurnedTwice DEF Put, InMemory, ValueOf, hton

\* A slice of a sequence is not touched by what follows, and the last part of a
\* concatenation is a slice of it.
LEMMA SliceOfConcat ==
    ASSUME NEW s \in Seq(Byte), NEW t \in Seq(Byte)
    PROVE  /\ \A pos, n \in Nat : pos + n <= Len(s) => Slice(s \o t, pos, n) = Slice(s, pos, n)
           /\ \A n \in Nat : n = Len(t) => Slice(s \o t, Len(s), n) = t
<1>1. /\ Len(s) \in Nat /\ Len(t) \in Nat
      /\ \A i \in 1..Len(s) : (s \o t)[i] = s[i]
      /\ \A i \in 1..Len(t) : (s \o t)[Len(s) + i] = t[i]
  OBVIOUS
<1>2. ASSUME NEW pos \in Nat, NEW n \in Nat, pos + n <= Len(s)
      PROVE  Slice(s \o t, pos, n) = Slice(s, pos, n)
  <2>1. \A i \in 1..n : pos + i \in 1..Len(s)
    BY <1>1, <1>2
  <2>2. \A i \in 1..n : (s \o t)[pos + i] = s[pos + i]
    BY <1>1, <2>1
  <2>3. QED BY <2>2 DEF Slice
<1>3. Slice(s \o t, Len(s), Len(t)) = t
  <2>1. t = [i \in 1..Len(t) |-> t[i]]
    BY LenProperties
  <2>2. QED BY <1>1, <2>1 DEF Slice
<1>4. QED BY <1>2, <1>3

\* Every field of a command is a sequence of its width.
FieldsOK(c) ==
    /\ c.command \in Bytes(Size32) /\ c.command \in Seq(Byte) /\ Len(c.command) = Size32
    /\ c.origin \in Bytes(IPADDR_SIZE) /\ c.origin \in Seq(Byte) /\ Len(c.origin) = IPADDR_SIZE
    /\ c.ipaddr \in Bytes(IPADDR_SIZE) /\ c.ipaddr \in Seq(Byte) /\ Len(c.ipaddr) = IPADDR_SIZE
    /\ c.firstseen \in Bytes(Size64) /\ c.firstseen \in Seq(Byte) /\ Len(c.firstseen) = Size64
    /\ c.lastseen \in Bytes(Size64) /\ c.lastseen \in Seq(Byte) /\ Len(c.lastseen) = Size64
    /\ c.purge_after \in Bytes(Size64) /\ c.purge_after \in Seq(Byte) /\ Len(c.purge_after) = Size64
    /\ c.time_interval \in Bytes(Size64) /\ c.time_interval \in Seq(Byte) /\ Len(c.time_interval) = Size64
    /\ c.occurrences \in Bytes(Size32) /\ c.occurrences \in Seq(Byte) /\ Len(c.occurrences) = Size32
    /\ c.action_threshold \in Bytes(Size32) /\ c.action_threshold \in Seq(Byte) /\ Len(c.action_threshold) = Size32
    /\ c.remove \in Bytes(Size32) /\ c.remove \in Seq(Byte) /\ Len(c.remove) = Size32
    /\ c.processed \in Bytes(Size32) /\ c.processed \in Seq(Byte) /\ Len(c.processed) = Size32

LEMMA CommandFields ==
    ASSUME NEW c \in Command
    PROVE  FieldsOK(c)
<1>1. /\ \A v \in Bytes(Size32) : v \in Seq(Byte) /\ Len(v) = Size32
      /\ \A v \in Bytes(Size64) : v \in Seq(Byte) /\ Len(v) = Size64
      /\ \A v \in Bytes(IPADDR_SIZE) : v \in Seq(Byte) /\ Len(v) = IPADDR_SIZE
  BY WireConfig, BytesAreSeq
<1>2. QED BY <1>1 DEF Command, FieldsOK

\* The buffer up to and including a field.
Part1(c) == c.command
Part2(c) == Part1(c) \o c.origin
Part3(c) == Part2(c) \o c.ipaddr
Part4(c) == Part3(c) \o c.firstseen
Part5(c) == Part4(c) \o c.lastseen
Part6(c) == Part5(c) \o c.purge_after
Part7(c) == Part6(c) \o c.time_interval
Part8(c) == Part7(c) \o c.occurrences
Part9(c) == Part8(c) \o c.action_threshold
Part10(c) == Part9(c) \o c.remove
Part11(c) == Part10(c) \o c.processed

\* Where the fields end.
PartsOK(c) ==
    LET numbers == Size32 + 2 * IPADDR_SIZE
        counters == numbers + 4 * Size64
    IN  /\ Part1(c) \in Seq(Byte) /\ Len(Part1(c)) = Size32
        /\ Part2(c) \in Seq(Byte) /\ Len(Part2(c)) = Size32 + IPADDR_SIZE
        /\ Part3(c) \in Seq(Byte) /\ Len(Part3(c)) = numbers
        /\ Part4(c) \in Seq(Byte) /\ Len(Part4(c)) = numbers + Size64
        /\ Part5(c) \in Seq(Byte) /\ Len(Part5(c)) = numbers + 2 * Size64
        /\ Part6(c) \in Seq(Byte) /\ Len(Part6(c)) = numbers + 3 * Size64
        /\ Part7(c) \in Seq(Byte) /\ Len(Part7(c)) = counters
        /\ Part8(c) \in Seq(Byte) /\ Len(Part8(c)) = counters + Size32
        /\ Part9(c) \in Seq(Byte) /\ Len(Part9(c)) = counters + 2 * Size32
        /\ Part10(c) \in Seq(Byte) /\ Len(Part10(c)) = counters + 3 * Size32
        /\ Part11(c) \in Seq(Byte) /\ Len(Part11(c)) = counters + 4 * Size32

LEMMA PartLengths ==
    ASSUME NEW c \in Command
    PROVE  PartsOK(c) /\ Len(Part11(c)) = REMOTE_COMMAND_SIZE
<1>1. Size32 \in Nat /\ Size64 \in Nat /\ IPADDR_SIZE \in Nat
  BY WireConfig
<1>2. FieldsOK(c)
  BY CommandFields
<1>3. \A s, t \in Seq(Byte) : s \o t \in Seq(Byte) /\ Len(s \o t) = Len(s) + Len(t)
  OBVIOUS
<1>4. Part1(c) \in Seq(Byte) /\ Len(Part1(c)) = Size32
  BY <1>2 DEF Part1, FieldsOK
<1>5. Part2(c) \in Seq(Byte) /\ Len(Part2(c)) = Len(Part1(c)) + IPADDR_SIZE
  <2>1. c.origin \in Seq(Byte) /\ Len(c.origin) = IPADDR_SIZE
    BY <1>2, Zenon DEF FieldsOK
  <2>2. QED BY <1>3, <1>4, <2>1, Zenon DEF Part2
<1>6. Part3(c) \in Seq(Byte) /\ Len(Part3(c)) = Len(Part2(c)) + IPADDR_SIZE
  <2>1. c.ipaddr \in Seq(Byte) /\ Len(c.ipaddr) = IPADDR_SIZE
    BY <1>2, Zenon DEF FieldsOK
  <2>2. QED BY <1>3, <1>5, <2>1, Zenon DEF Part3
<1>7. Part4(c) \in Seq(Byte) /\ Len(Part4(c)) = Len(Part3(c)) + Size64
  <2>1. c.firstseen \in Seq(Byte) /\ Len(c.firstseen) = Size64
    BY <1>2, Zenon DEF FieldsOK
  <2>2. QED BY <1>3, <1>6, <2>1, Zenon DEF Part4
<1>8. Part5(c) \in Seq(Byte) /\ Len(Part5(c)) = Len(Part4(c)) + Size64
  <2>1. c.lastseen \in Seq(Byte) /\ Len(c.lastseen) = Size64
    BY <1>2, Zenon DEF FieldsOK
  <2>2. QED BY <1>3, <1>7, <2>1, Zenon DEF Part5
<1>9. Part6(c) \in Seq(Byte) /\ Len(Part6(c)) = Len(Part5(c)) + Size64
  <2>1. c.purge_after \in Seq(Byte) /\ Len(c.purge_after) = Size64
    BY <1>2, Zenon DEF FieldsOK
  <2>2. QED BY <1>3, <1>8, <2>1, Zenon DEF Part6
<1>10. Part7(c) \in Seq(Byte) /\ Len(Part7(c)) = Len(Part6(c)) + Size64
  <2>1. c.time_interval \in Seq(Byte) /\ Len(c.time_interval) = Size64
    BY <1>2, Zenon DEF FieldsOK
  <2>2. QED BY <1>3, <1>9, <2>1, Zenon DEF Part7
<1>11. Part8(c) \in Seq(Byte) /\ Len(Part8(c)) = Len(Part7(c)) + Size32
  <2>1. c.occurrences \in Seq(Byte) /\ Len(c.occurrences) = Size32
    BY <1>2, Zenon DEF FieldsOK
  <2>2. QED BY <1>3, <1>10, <2>1, Zenon DEF Part8
<1>12. Part9(c) \in Seq(Byte) /\ Len(Part9(c)) = Len(Part8(c)) + Size32
  <2>1. c.action_threshold \in Seq(Byte) /\ Len(c.action_threshold) = Size32
    BY <1>2, Zenon DEF FieldsOK
  <2>2. QED BY <1>3, <1>11, <2>1, Zenon DEF Part9
<1>13. Part10(c) \in Seq(Byte) /\ Len(Part10(c)) = Len(Part9(c)) + Size32
  <2>1. c.remove \in Seq(Byte) /\ Len(c.remove) = Size32
    BY <1>2, Zenon DEF FieldsOK
  <2>2. QED BY <1>3, <1>12, <2>1, Zenon DEF Part10
<1>14. Part11(c) \in Seq(Byte) /\ Len(Part11(c)) = Len(Part10(c)) + Size32
  <2>1. c.processed \in Seq(Byte) /\ Len(c.processed) = Size32
    BY <1>2, Zenon DEF FieldsOK
  <2>2. QED BY <1>3, <1>13, <2>1, Zenon DEF Part11
<1>15. PartsOK(c)
  BY <1>1, <1>4, <1>5, <1>6, <1>7, <1>8, <1>9, <1>10, <1>11, <1>12, <1>13, <1>14 DEF PartsOK
<1>16. QED BY <1>1, <1>15 DEF PartsOK, REMOTE_COMMAND_SIZE

\* bytes begins with the bytes of part.
Begins(bytes, part) ==
    \A pos, n \in Nat : pos + n <= Len(part) => Slice(bytes, pos, n) = Slice(part, pos, n)

\* A buffer that begins with a part and a field begins with the part, and has
\* the field behind it.
LEMMA FieldBehindPart ==
    ASSUME NEW part \in Seq(Byte), NEW field \in Seq(Byte), NEW bytes,
           Begins(bytes, part \o field)
    PROVE  Begins(bytes, part) /\ Slice(bytes, Len(part), Len(field)) = field
<1>1. Len(part) \in Nat /\ Len(field) \in Nat /\ Len(part \o field) = Len(part) + Len(field)
  OBVIOUS
<1>2. ASSUME NEW pos \in Nat, NEW n \in Nat, pos + n <= Len(part)
      PROVE  Slice(bytes, pos, n) = Slice(part, pos, n)
  <2>1. pos + n <= Len(part \o field)
    BY <1>1, <1>2
  <2>2. Slice(bytes, pos, n) = Slice(part \o field, pos, n)
    BY <2>1 DEF Begins
  <2>3. QED BY <1>2, <2>2, SliceOfConcat
<1>3. Slice(bytes, Len(part), Len(field)) = Slice(part \o field, Len(part), Len(field))
  BY <1>1 DEF Begins
<1>4. Slice(part \o field, Len(part), Len(field)) = field
  BY <1>1, SliceOfConcat
<1>5. QED BY <1>2, <1>3, <1>4 DEF Begins

\* net_command_to_buff writes the fields in their order, on either machine.
LEMMA Encoding ==
    ASSUME NEW c \in Command, NEW bigendian \in BOOLEAN
    PROVE  net_command_to_buff(c, bigendian) = Part11(c)
<1>1. /\ \A v \in Bytes(Size32) : Put(v, bigendian) = v
      /\ \A v \in Bytes(Size64) : Put(v, bigendian) = v
  BY WireConfig, NetworkOrder
<1>2. FieldsOK(c)
  BY CommandFields
<1>3. /\ Put(c.command, bigendian) = c.command
      /\ Put(c.firstseen, bigendian) = c.firstseen
      /\ Put(c.lastseen, bigendian) = c.lastseen
      /\ Put(c.purge_after, bigendian) = c.purge_after
      /\ Put(c.time_interval, bigendian) = c.time_interval
      /\ Put(c.occurrences, bigendian) = c.occurrences
      /\ Put(c.action_threshold, bigendian) = c.action_threshold
      /\ Put(c.remove, bigendian) = c.remove
      /\ Put(c.processed, bigendian) = c.processed
  BY <1>1, <1>2 DEF FieldsOK
<1>4. QED
  BY <1>3, Zenon DEF net_command_to_buff, Part1, Part2, Part3, Part4, Part5, Part6, Part7,
     Part8, Part9, Part10, Part11

\* What one machine encodes, another decodes, whatever their byte orders.
LEMMA RoundTrip ==
    ASSUME NEW c \in Command, NEW bigendian \in BOOLEAN
    PROVE  net_buff_to_command(Part11(c), bigendian) = c
<1> DEFINE b == Part11(c)
           numbers == Size32 + 2 * IPADDR_SIZE
           counters == numbers + 4 * Size64
           get(pos, n) == ValueOf(hton(Slice(b, pos, n), bigendian), bigendian)
<1>1. FieldsOK(c)
  BY CommandFields
<1>2. PartsOK(c)
  BY PartLengths
<1>3. Begins(b, Part11(c))
  BY DEF Begins
<1> HIDE DEF b
<1>4. Begins(b, Part10(c)) /\ Slice(b, Len(Part10(c)), Len(c.processed)) = c.processed
  <2>1. Begins(b, Part10(c) \o c.processed)
    BY <1>3 DEF Part11
  <2>2. Part10(c) \in Seq(Byte) /\ c.processed \in Seq(Byte)
    BY <1>1, <1>2 DEF FieldsOK, PartsOK
  <2>3. QED BY <2>1, <2>2, FieldBehindPart
<1>5. Begins(b, Part9(c)) /\ Slice(b, Len(Part9(c)), Len(c.remove)) = c.remove
  <2>1. Begins(b, Part9(c) \o c.remove)
    BY <1>4 DEF Part10
  <2>2. Part9(c) \in Seq(Byte) /\ c.remove \in Seq(Byte)
    BY <1>1, <1>2 DEF FieldsOK, PartsOK
  <2>3. QED BY <2>1, <2>2, FieldBehindPart
<1>6. Begins(b, Part8(c)) /\ Slice(b, Len(Part8(c)), Len(c.action_threshold)) = c.action_threshold
  <2>1. Begins(b, Part8(c) \o c.action_threshold)
    BY <1>5 DEF Part9
  <2>2. Part8(c) \in Seq(Byte) /\ c.action_threshold \in Seq(Byte)
    BY <1>1, <1>2 DEF FieldsOK, PartsOK
  <2>3. QED BY <2>1, <2>2, FieldBehindPart
<1>7. Begins(b, Part7(c)) /\ Slice(b, Len(Part7(c)), Len(c.occurrences)) = c.occurrences
  <2>1. Begins(b, Part7(c) \o c.occurrences)
    BY <1>6 DEF Part8
  <2>2. Part7(c) \in Seq(Byte) /\ c.occurrences \in Seq(Byte)
    BY <1>1, <1>2 DEF FieldsOK, PartsOK
  <2>3. QED BY <2>1, <2>2, FieldBehindPart
<1>8. Begins(b, Part6(c)) /\ Slice(b, Len(Part6(c)), Len(c.time_interval)) = c.time_interval
  <2>1. Begins(b, Part6(c) \o c.time_interval)
    BY <1>7 DEF Part7
  <2>2. Part6(c) \in Seq(Byte) /\ c.time_interval \in Seq(Byte)
    BY <1>1, <1>2 DEF FieldsOK, PartsOK
  <2>3. QED BY <2>1, <2>2, FieldBehindPart
<1>9. Begins(b, Part5(c)) /\ Slice(b, Len(Part5(c)), Len(c.purge_after)) = c.purge_after
  <2>1. Begins(b, Part5(c) \o c.purge_after)
    BY <1>8 DEF Part6
  <2>2. Part5(c) \in Seq(Byte) /\ c.purge_after \in Seq(Byte)
    BY <1>1, <1>2 DEF FieldsOK, PartsOK
  <2>3. QED BY <2>1, <2>2, FieldBehindPart
<1>10. Begins(b, Part4(c)) /\ Slice(b, Len(Part4(c)), Len(c.lastseen)) = c.lastseen
  <2>1. Begins(b, Part4(c) \o c.lastseen)
    BY <1>9 DEF Part5
  <2>2. Part4(c) \in Seq(Byte) /\ c.lastseen \in Seq(Byte)
    BY <1>1, <1>2 DEF FieldsOK, PartsOK
  <2>3. QED BY <2>1, <2>2, FieldBehindPart
<1>11. Begins(b, Part3(c)) /\ Slice(b, Len(Part3(c)), Len(c.firstseen)) = c.firstseen
  <2>1. Begins(b, Part3(c) \o c.firstseen)
    BY <1>10 DEF Part4
  <2>2. Part3(c) \in Seq(Byte) /\ c.firstseen \in Seq(Byte)
    BY <1>1, <1>2 DEF FieldsOK, PartsOK
  <2>3. QED BY <2>1, <2>2, FieldBehindPart
<1>12. Begins(b, Part2(c)) /\ Slice(b, Len(Part2(c)), Len(c.ipaddr)) = c.ipaddr
  <2>1. Begins(b, Part2(c) \o c.ipaddr)
    BY <1>11 DEF Part3
  <2>2. Part2(c) \in Seq(Byte) /\ c.ipaddr \in Seq(Byte)
    BY <1>1, <1>2 DEF FieldsOK, PartsOK
  <2>3. QED BY <2>1, <2>2, FieldBehindPart
<1>13. Begins(b, Part1(c)) /\ Slice(b, Len(Part1(c)), Len(c.origin)) = c.origin
  <2>1. Begins(b, Part1(c) \o c.origin)
    BY <1>12 DEF Part2
  <2>2. Part1(c) \in Seq(Byte) /\ c.origin \in Seq(Byte)
    BY <1>1, <1>2 DEF FieldsOK, PartsOK
  <2>3. QED BY <2>1, <2>2, FieldBehindPart
<1>14. Slice(b, 0, Size32) = c.command
  <2>1. c.command \in Seq(Byte) /\ Len(c.command) = Size32 /\ Size32 \in Nat
    BY <1>1, WireConfig DEF FieldsOK
  <2>2. Slice(b, 0, Size32) = Slice(c.command, 0, Size32)
    BY <1>13, <2>1 DEF Begins, Part1
  <2>3. Slice(c.command, 0, Size32) = c.command
    BY <2>1 DEF Slice
  <2>4. QED BY <2>2, <2>3
<1>15. /\ Slice(b, 0, Size32) = c.command
       /\ Slice(b, Size32, IPADDR_SIZE) = c.origin
       /\ Slice(b, Size32 + IPADDR_SIZE, IPADDR_SIZE) = c.ipaddr
       /\ Slice(b, numbers, Size64) = c.firstseen
       /\ Slice(b, numbers + Size64, Size64) = c.lastseen
       /\ Slice(b, numbers + 2 * Size64, Size64) = c.purge_after
       /\ Slice(b, numbers + 3 * Size64, Size64) = c.time_interval
       /\ Slice(b, counters, Size32) = c.occurrences
       /\ Slice(b, counters + Size32, Size32) = c.action_threshold
       /\ Slice(b, counters + 2 * Size32, Size32) = c.remove
       /\ Slice(b, counters + 3 * Size32, Size32) = c.processed
  <2>2. Slice(b, Size32, IPADDR_SIZE) = c.origin
    BY <1>1, <1>2, <1>13 DEF FieldsOK, PartsOK
  <2>3. Slice(b, Size32 + IPADDR_SIZE, IPADDR_SIZE) = c.ipaddr
    BY <1>1, <1>2, <1>12 DEF FieldsOK, PartsOK
  <2>4. Slice(b, numbers, Size64) = c.firstseen
    BY <1>1, <1>2, <1>11 DEF FieldsOK, PartsOK
  <2>5. Slice(b, numbers + Size64, Size64) = c.lastseen
    BY <1>1, <1>2, <1>10 DEF FieldsOK, PartsOK
  <2>6. Slice(b, numbers + 2 * Size64, Size64) = c.purge_after
    BY <1>1, <1>2, <1>9 DEF FieldsOK, PartsOK
  <2>7. Slice(b, numbers + 3 * Size64, Size64) = c.time_interval
    BY <1>1, <1>2, <1>8 DEF FieldsOK, PartsOK
  <2>8. Slice(b, counters, Size32) = c.occurrences
    BY <1>1, <1>2, <1>7 DEF FieldsOK, PartsOK
  <2>9. Slice(b, counters + Size32, Size32) = c.action_threshold
    BY <1>1, <1>2, <1>6 DEF FieldsOK, PartsOK
  <2>10. Slice(b, counters + 2 * Size32, Size32) = c.remove
    BY <1>1, <1>2, <1>5 DEF FieldsOK, PartsOK
  <2>11. Slice(b, counters + 3 * Size32, Size32) = c.processed
    BY <1>1, <1>2, <1>4 DEF FieldsOK, PartsOK
  <2>12. QED BY <1>14, <2>2, <2>3, <2>4, <2>5, <2>6, <2>7, <2>8, <2>9, <2>10, <2>11
<1>16. /\ \A v \in Bytes(Size32) : ValueOf(hton(v, bigendian), bigendian) = v
       /\ \A v \in Bytes(Size64) : ValueOf(hton(v, bigendian), bigendian) = v
  BY WireConfig, NetworkOrder
<1> HIDE DEF numbers, counters
<1>17. /\ get(0, Size32) = c.command
       /\ get(numbers, Size64) = c.firstseen
       /\ get(numbers + Size64, Size64) = c.lastseen
       /\ get(numbers + 2 * Size64, Size64) = c.purge_after
       /\ get(numbers + 3 * Size64, Size64) = c.time_interval
       /\ get(counters, Size32) = c.occurrences
       /\ get(counters + Size32, Size32) = c.action_threshold
       /\ get(counters + 2 * Size32, Size32) = c.remove
       /\ get(counters + 3 * Size32, Size32) = c.processed
  BY <1>1, <1>15, <1>16 DEF FieldsOK
<1>18. net_buff_to_command(b, bigendian) =
        [command |-> c.command, origin |-> c.origin, ipaddr |-> c.ipaddr,
         firstseen |-> c.firstseen, lastseen |-> c.lastseen,
         purge_after |-> c.purge_after, time_interval |-> c.time_interval,
         occurrences |-> c.occurrences, action_threshold |-> c.action_threshold,
         remove |-> c.remove, processed |-> c.processed]
  BY <1>15, <1>17, Zenon DEF net_buff_to_command, numbers, counters
<1>19. c =
        [command |-> c.command, origin |-> c.origin, ipaddr |-> c.ipaddr,
         firstseen |-> c.firstseen, lastseen |-> c.lastseen,
         purge_after |-> c.purge_after, time_interval |-> c.time_interval,
         occurrences |-> c.occurrences, action_threshold |-> c.action_threshold,
         remove |-> c.remove, processed |-> c.processed]
  BY DEF Command
<1>20. QED BY <1>18, <1>19 DEF b

-----------------------------------------------------------------------------
(* The connection, as plain sequences of bytes *)

\* The bytes of k commands.
Start(k) == k * REMOTE_COMMAND_SIZE

LEMMA Starts ==
    /\ REMOTE_COMMAND_SIZE \in Nat /\ REMOTE_COMMAND_SIZE # 0
    /\ Start(0) = 0
    /\ \A k \in Nat : Start(k) \in Nat /\ Start(k + 1) = Start(k) + REMOTE_COMMAND_SIZE
    /\ \A k, m \in Nat : k < m => Start(k) + REMOTE_COMMAND_SIZE <= Start(m)
<1> DEFINE S == REMOTE_COMMAND_SIZE
<1>1. S \in Nat /\ S # 0
  BY WireConfig DEF REMOTE_COMMAND_SIZE
<1> HIDE DEF S
<1>2. 0 * S = 0
  BY <1>1
<1>3. ASSUME NEW k \in Nat
      PROVE  k * S \in Nat /\ (k + 1) * S = k * S + S
  BY <1>1
<1>4. ASSUME NEW k \in Nat, NEW m \in Nat, k < m
      PROVE  k * S + S <= m * S
  BY <1>1, <1>4
<1>5. QED BY <1>1, <1>2, <1>3, <1>4 DEF S, Start

\* The bytes u are those of the commands of s behind the first n, as far as
\* they go.
Spells(u, n, s) ==
    \A j \in (n + 1)..Len(s), i \in 1..REMOTE_COMMAND_SIZE :
        Start(j - n - 1) + i <= Len(u) => u[Start(j - n - 1) + i] = Part11(s[j])[i]

\* The bytes of one more command.
LEMMA SpellsAppend ==
    ASSUME NEW s \in Seq(Commands), NEW c \in Commands, NEW n \in 0..Len(s),
           NEW u \in Seq(Byte), Len(u) = Start(Len(s) - n), Spells(u, n, s)
    PROVE  /\ Spells(u \o Part11(c), n, Append(s, c))
           /\ Len(u \o Part11(c)) = Start(Len(s) + 1 - n)
<1> DEFINE p == Part11(c)
           S == REMOTE_COMMAND_SIZE
           k == Len(s) - n
<1>1. p \in Seq(Byte) /\ Len(p) = S /\ S \in Nat
  BY PartLengths, IntakeConfig, Starts DEF PartsOK
<1>2. Len(s) \in Nat /\ k \in Nat /\ Start(k) \in Nat /\ Len(s) + 1 - n = k + 1
  BY Starts
<1>3. Len(u \o p) = Start(k) + S /\ Start(k + 1) = Start(k) + S
  <2> HIDE DEF k, S, p
  <2>1. Len(u \o p) = Len(u) + Len(p)
    BY <1>1, ConcatProperties, Zenon
  <2>2. Start(k + 1) = Start(k) + S
    BY <1>2, Starts DEF S
  <2>3. Len(u) = Start(k)
    BY DEF k
  <2>4. QED BY <1>1, <2>1, <2>2, <2>3
<1>4. /\ \A i \in 1..Len(u) : (u \o p)[i] = u[i]
      /\ \A i \in 1..S : (u \o p)[Len(u) + i] = p[i]
  BY <1>1
<1>5. /\ Len(Append(s, c)) = Len(s) + 1 /\ Append(s, c)[Len(s) + 1] = c
      /\ \A j \in 1..Len(s) : Append(s, c)[j] = s[j]
  OBVIOUS
<1> HIDE DEF p, S
<1>6. ASSUME NEW j \in (n + 1)..(Len(s) + 1), NEW i \in 1..S
      PROVE  (u \o p)[Start(j - n - 1) + i] = Part11(Append(s, c)[j])[i]
  <2>1. CASE j = Len(s) + 1
    <3>1. j - n - 1 = k
      BY <1>2, <2>1
    <3>2. QED BY <1>4, <1>5, <2>1, <3>1 DEF p
  <2>2. CASE j # Len(s) + 1
    <3>1. j \in (n + 1)..Len(s) /\ j \in 1..Len(s) /\ j - n - 1 \in Nat /\ j - n - 1 < k
      BY <1>2, <1>6, <2>2
    <3>2. Start(j - n - 1) \in Nat /\ Start(j - n - 1) + S <= Start(k)
      BY <1>2, <3>1, Starts DEF S
    <3>3. Start(j - n - 1) + i \in 1..Len(u)
      BY <1>1, <1>2, <3>2
    <3>4. u[Start(j - n - 1) + i] = Part11(s[j])[i]
      BY <3>1, <3>3 DEF Spells, S
    <3>5. QED BY <1>4, <1>5, <3>1, <3>3, <3>4
  <2>3. QED BY <2>1, <2>2
<1>7. Spells(u \o p, n, Append(s, c))
  BY <1>5, <1>6 DEF Spells, S
<1>8. QED BY <1>2, <1>3, <1>7 DEF p

\* Bytes that are not written leave a beginning.
LEMMA SpellsBeginning ==
    ASSUME NEW n \in Nat, NEW s \in Seq(Commands), NEW u \in Seq(Byte), NEW v \in Seq(Byte),
           Spells(u \o v, n, s)
    PROVE  Spells(u, n, s) /\ Len(u) <= Len(u \o v)
<1>1. Len(u) \in Nat /\ Len(v) \in Nat /\ Len(u \o v) = Len(u) + Len(v)
  OBVIOUS
<1>2. \A i \in 1..Len(u) : (u \o v)[i] = u[i]
  OBVIOUS
<1>3. ASSUME NEW j \in (n + 1)..Len(s), NEW i \in 1..REMOTE_COMMAND_SIZE,
             Start(j - n - 1) + i <= Len(u)
      PROVE  u[Start(j - n - 1) + i] = Part11(s[j])[i]
  <2>1. j - n - 1 \in Nat
    BY <1>3
  <2>2. Start(j - n - 1) \in Nat
    BY <2>1, Starts
  <2>3. Start(j - n - 1) + i \in 1..Len(u) /\ Start(j - n - 1) + i <= Len(u \o v)
    BY <1>1, <1>3, <2>2
  <2>4. QED BY <1>2, <2>3 DEF Spells
<1>4. QED BY <1>1, <1>3 DEF Spells

\* A buffer that is full holds the next command, and the rest spells the others.
LEMMA SpellsHandled ==
    ASSUME NEW s \in Seq(Commands), NEW n \in 0..Len(s), NEW b \in Seq(Byte),
           NEW v \in Seq(Byte), Len(b) = REMOTE_COMMAND_SIZE,
           Spells(b \o v, n, s), Len(b \o v) <= Start(Len(s) - n)
    PROVE  /\ n + 1 <= Len(s) /\ b = Part11(s[n + 1])
           /\ Spells(v, n + 1, s)
           /\ Len(b \o v) = REMOTE_COMMAND_SIZE + Len(v)
<1> DEFINE S == REMOTE_COMMAND_SIZE
<1>1. S \in Nat /\ S # 0 /\ Len(v) \in Nat /\ Len(b \o v) = S + Len(v)
  <2>1. Len(b \o v) = Len(b) + Len(v) /\ Len(v) \in Nat
    BY SMTT(30)
  <2>2. QED BY <2>1, Starts
<1>2. /\ \A i \in 1..S : (b \o v)[i] = b[i]
      /\ \A i \in 1..Len(v) : (b \o v)[S + i] = v[i]
  BY SMTT(30)
<1> HIDE DEF S
<1>3. n + 1 <= Len(s) /\ n \in Nat /\ Len(s) \in Nat
  <2> DEFINE k == Len(s) - n
  <2>1. k \in Nat /\ n \in Nat /\ Len(s) \in Nat
    OBVIOUS
  <2>2. Len(b \o v) <= Start(k)
    OBVIOUS
  <2>3. k # 0
    <3> HIDE DEF k
    <3>1. Start(k) # 0
      BY <1>1, <2>1, <2>2, Starts
    <3>2. QED BY <3>1, Starts
  <2>4. QED BY <2>1, <2>3
<1>4. b = Part11(s[n + 1])
  <2>1. s[n + 1] \in Commands
    BY <1>3, ElementOfSeq
  <2>2. Part11(s[n + 1]) \in Seq(Byte) /\ Len(Part11(s[n + 1])) = S
    BY <2>1, PartLengths, IntakeConfig DEF PartsOK, S
  <2>3. \A i \in 1..S : b[i] = Part11(s[n + 1])[i]
    <3>1. ASSUME NEW i \in 1..S
          PROVE  b[i] = Part11(s[n + 1])[i]
      <4>1. n + 1 \in (n + 1)..Len(s) /\ (n + 1) - n - 1 = 0
        BY <1>3
      <4>2. Start(0) + i = i /\ i <= Len(b \o v)
        <5>1. Start(0) = 0
          BY Starts
        <5>2. QED BY <1>1, <3>1, <5>1
      <4>3. (b \o v)[i] = Part11(s[n + 1])[i]
        BY <4>1, <4>2 DEF Spells, S
      <4>4. QED BY <1>2, <4>3
    <3>2. QED BY <3>1
  <2>4. Len(b) = S
    BY DEF S
  <2>5. QED BY <2>2, <2>3, <2>4, SeqEqual
<1>5. Spells(v, n + 1, s)
  <2> SUFFICES ASSUME NEW j \in (n + 1 + 1)..Len(s), NEW i \in 1..S,
                      Start(j - (n + 1) - 1) + i <= Len(v)
               PROVE  v[Start(j - (n + 1) - 1) + i] = Part11(s[j])[i]
    BY DEF Spells, S
  <2> DEFINE k == j - (n + 1) - 1
  <2>1. k \in Nat /\ j - n - 1 = k + 1 /\ j \in (n + 1)..Len(s)
    BY <1>3
  <2> HIDE DEF k
  <2>2. Start(k) \in Nat /\ Start(j - n - 1) = Start(k) + S
    BY <2>1, Starts DEF S
  <2>3. Start(k) + i <= Len(v)
    BY DEF k
  <2>4. Start(k) + i \in 1..Len(v) /\ Start(j - n - 1) + i = S + (Start(k) + i)
    BY <1>1, <2>2, <2>3, SMTT(30)
  <2>5. Start(j - n - 1) + i <= Len(b \o v)
    BY <1>1, <2>4
  <2>6. (b \o v)[Start(j - n - 1) + i] = Part11(s[j])[i]
    BY <2>1, <2>5 DEF Spells, S
  <2>7. v[Start(k) + i] = Part11(s[j])[i]
    BY <1>2, <2>4, <2>6
  <2>8. QED BY <2>7 DEF k
<1>6. QED BY <1>1, <1>3, <1>4, <1>5 DEF S

\* write and read move a piece from the front of a sequence.
LEMMA PieceMoves ==
    ASSUME NEW s \in Seq(Byte), NEW n \in 1..Len(s)
    PROVE  /\ Front(s, n) \in Seq(Byte) /\ Len(Front(s, n)) = n
           /\ Rest(s, n) \in Seq(Byte) /\ Len(Rest(s, n)) = Len(s) - n
           /\ Front(s, n) \o Rest(s, n) = s
<1>1. Front(s, n) \in Seq(Byte) /\ Len(Front(s, n)) = n /\ Len(s) \in Nat
  BY SubSeqProperties DEF Front
<1>2. Rest(s, n) \in Seq(Byte) /\ Len(Rest(s, n)) = Len(s) - n
  BY SubSeqProperties DEF Rest
<1>3. /\ \A i \in 1..n : Front(s, n)[i] = s[i]
      /\ \A i \in 1..(Len(s) - n) : Rest(s, n)[i] = s[n + i]
  BY DEF Front, Rest
<1> DEFINE f == Front(s, n)
           r == Rest(s, n)
<1> HIDE DEF f, r
<1>4. /\ f \o r \in Seq(Byte) /\ Len(f \o r) = Len(s)
      /\ \A i \in 1..n : (f \o r)[i] = f[i]
      /\ \A i \in (n + 1)..Len(s) : (f \o r)[i] = r[i - n]
  BY <1>1, <1>2, SMTT(30) DEF f, r
<1>5. \A i \in 1..Len(s) : (f \o r)[i] = s[i]
  <2>1. ASSUME NEW i \in 1..Len(s)
        PROVE  (f \o r)[i] = s[i]
    <3>1. CASE i <= n
      BY <1>3, <1>4, <3>1 DEF f
    <3>2. CASE i > n
      <4>1. i \in (n + 1)..Len(s) /\ i - n \in 1..(Len(s) - n) /\ n + (i - n) = i
        BY <1>1, <3>2
      <4>2. QED BY <1>3, <1>4, <4>1 DEF r
    <3>3. i <= n \/ i > n
      BY <1>1
    <3>4. QED BY <3>1, <3>2, <3>3
  <2>2. QED BY <2>1
<1>6. f \o r = s
  BY <1>4, <1>5, SeqEqual
<1>7. QED BY <1>1, <1>2, <1>6 DEF f, r

\* A piece may go with what is before it or with what is behind it.
LEMMA Regrouped ==
    \A a, f, r \in Seq(Byte) : (a \o f) \o r = a \o (f \o r)
  BY ConcatAssociative

-----------------------------------------------------------------------------
(* The inductive invariant *)

ConnectionTypeOK ==
    /\ match \in Hosts \cup {NULL}
    /\ sent \in Seq(Commands) /\ Len(sent) <= MaxCommands
    /\ outgoing \in Seq(Byte) /\ Len(outgoing) <= REMOTE_COMMAND_SIZE
    /\ stream \in Seq(Byte) /\ Len(stream) <= SocketBuffer
    /\ closed \in BOOLEAN
    /\ worker \in {"read", "add", "end"}
    /\ buff \in Seq(Byte) /\ Len(buff) <= REMOTE_COMMAND_SIZE
    /\ handled \in Seq(Command)

\* What has not been decoded.
Pending == (buff \o stream) \o outgoing

\* The commands handled are the first ones sent, and the others are pending; a
\* connection that was closed has lost the end of them.
Flow ==
    /\ CommandsIntact
    /\ Spells(Pending, Len(handled), sent)
    /\ Len(Pending) <= Start(Len(sent) - Len(handled))
    /\ ~closed => Len(Pending) = Start(Len(sent) - Len(handled))

IntakeInv == ExcludeInv /\ ConnectionTypeOK /\ Flow

LEMMA IntakeInvInit == IntakeInit => IntakeInv
<1> SUFFICES ASSUME IntakeInit PROVE IntakeInv
  OBVIOUS
<1>1. ExcludeInv
  BY ExcludeInit DEF IntakeInit
<1>2. /\ <<>> \in Seq(Commands) /\ <<>> \in Seq(Command) /\ <<>> \in Seq(Byte)
      /\ Len(<<>>) = 0
  OBVIOUS
<1>3. REMOTE_COMMAND_SIZE \in Nat /\ MaxCommands \in Nat /\ SocketBuffer \in Nat
  BY Starts, IntakeConfig
<1>4. ConnectionTypeOK
  <2>1. /\ match = NULL /\ sent = <<>> /\ outgoing = <<>> /\ stream = <<>>
        /\ closed = FALSE /\ worker = "read" /\ buff = <<>> /\ handled = <<>>
    BY DEF IntakeInit
  <2>2. 0 <= MaxCommands /\ 0 <= REMOTE_COMMAND_SIZE /\ 0 <= SocketBuffer
    BY <1>3
  <2>3. match \in Hosts \cup {NULL}
    BY <2>1
  <2>4. sent \in Seq(Commands) /\ Len(sent) <= MaxCommands
    BY <1>2, <2>1, <2>2
  <2>5. /\ outgoing \in Seq(Byte) /\ Len(outgoing) <= REMOTE_COMMAND_SIZE
        /\ buff \in Seq(Byte) /\ Len(buff) <= REMOTE_COMMAND_SIZE
    BY <1>2, <2>1, <2>2
  <2>6. stream \in Seq(Byte) /\ Len(stream) <= SocketBuffer
    BY <1>2, <2>1, <2>2
  <2>7. closed \in BOOLEAN /\ worker \in {"read", "add", "end"}
    BY <2>1
  <2>8. handled \in Seq(Command)
    BY <1>2, <2>1
  <2>9. QED BY <2>3, <2>4, <2>5, <2>6, <2>7, <2>8 DEF ConnectionTypeOK
<1>5. Pending = <<>> /\ sent = <<>> /\ handled = <<>>
  BY DEF IntakeInit, Pending
<1>6. Start(Len(sent) - Len(handled)) = 0
  <2>1. Len(sent) - Len(handled) = 0
    BY <1>2, <1>5
  <2>2. QED BY <2>1, Starts
<1>7. Spells(Pending, Len(handled), sent)
  BY <1>2, <1>5 DEF Spells
<1>8. CommandsIntact
  BY <1>2, <1>5 DEF CommandsIntact
<1>9. Flow
  BY <1>2, <1>5, <1>6, <1>7, <1>8 DEF Flow
<1>10. QED BY <1>1, <1>4, <1>9 DEF IntakeInv

\* Steps that change neither what is pending nor what was sent and handled.
LEMMA SamePending ==
    ASSUME Flow, Pending' = Pending, UNCHANGED <<sent, handled, closed>>
    PROVE  Flow'
  BY DEF Flow, CommandsIntact, Spells

\* The exclude list, the follower and the rest of the worker.
LEMMA AsideSteps ==
    ASSUME IntakeInv,
           \/ Next /\ UNCHANGED intakeVars
           \/ (\E host \in Hosts : regex_do(host)) \/ records_add_ip
           \/ ReadEnds \/ records_add_record
           \/ UNCHANGED <<vars, intakeVars>>
    PROVE  IntakeInv'
<1> USE DEF IntakeInv
<1>1. ExcludeInv'
  BY ExcludeStep DEF regex_do, records_add_ip, ReadEnds, records_add_record
<1>2. /\ match' \in Hosts \cup {NULL}
      /\ worker' \in {"read", "add", "end"}
      /\ UNCHANGED <<sent, outgoing, stream, closed, buff, handled>>
  BY DEF regex_do, records_add_ip, ReadEnds, records_add_record, intakeVars, connection,
     serving, ConnectionTypeOK
<1>3. ConnectionTypeOK'
  BY <1>2 DEF ConnectionTypeOK
<1>4. Flow'
  BY <1>2, SamePending DEF Pending
<1>5. QED BY <1>1, <1>3, <1>4

\* The peer begins a command.
LEMMA SendStep ==
    ASSUME IntakeInv, NEW c \in Commands, SendCommand(c)
    PROVE  IntakeInv'
<1> USE DEF IntakeInv
<1> DEFINE p == Part11(c)
           u == buff \o stream
           n == Len(handled)
<1>1. /\ ~closed /\ outgoing = <<>> /\ Len(sent) < MaxCommands
      /\ sent' = Append(sent, c)
      /\ outgoing' = net_command_to_buff(c, SenderBigEndian)
      /\ UNCHANGED vars /\ UNCHANGED <<match, stream, closed, worker, buff, handled>>
  BY DEF SendCommand, serving
<1>2. c \in Command /\ outgoing' = p
  BY <1>1, IntakeConfig, Encoding
<1>3. p \in Seq(Byte) /\ Len(p) = REMOTE_COMMAND_SIZE
  BY <1>2, PartLengths DEF PartsOK
<1>4. ExcludeInv'
  BY <1>1, ExcludeStep
<1>5. /\ sent' \in Seq(Commands) /\ Len(sent') = Len(sent) + 1
      /\ Len(sent) \in Nat /\ MaxCommands \in Nat
  BY <1>1, IntakeConfig DEF ConnectionTypeOK
<1>6. ConnectionTypeOK'
  <2>1. Len(sent') <= MaxCommands
    BY <1>1, <1>5
  <2>2. Len(outgoing') <= REMOTE_COMMAND_SIZE
    BY <1>2, <1>3, Starts
  <2>3. QED BY <1>1, <1>2, <1>3, <1>5, <2>1, <2>2 DEF ConnectionTypeOK
<1>7. u \in Seq(Byte) /\ Pending = u /\ Pending' = u \o p
  BY <1>1, <1>2 DEF Pending, ConnectionTypeOK
<1>8. n \in 0..Len(sent)
  BY DEF Flow, CommandsIntact, ConnectionTypeOK
<1>9. Len(u) = Start(Len(sent) - n) /\ Spells(u, n, sent)
  BY <1>1, <1>7 DEF Flow
<1>10. /\ Spells(u \o p, n, Append(sent, c))
       /\ Len(u \o p) = Start(Len(sent) + 1 - n)
  <2> HIDE DEF u, n
  <2>1. sent \in Seq(Commands) /\ u \in Seq(Byte)
    BY <1>7 DEF ConnectionTypeOK
  <2>2. QED BY <1>8, <1>9, <2>1, SpellsAppend
<1>11. Start(Len(sent) + 1 - n) \in Nat
  <2>1. Len(sent) + 1 - n \in Nat
    BY <1>5, <1>8
  <2>2. QED BY <2>1, Starts
<1>12. CommandsIntact'
  <2>1. \A i \in 1..Len(sent) : sent'[i] = sent[i]
    BY <1>1 DEF ConnectionTypeOK
  <2>2. DOMAIN handled \subseteq 1..Len(sent)
    BY <1>8 DEF ConnectionTypeOK
  <2>3. QED BY <1>1, <1>5, <1>8, <2>1, <2>2 DEF Flow, CommandsIntact
<1>13. Flow'
  BY <1>1, <1>5, <1>7, <1>10, <1>11, <1>12 DEF Flow
<1>14. QED BY <1>4, <1>6, <1>13

\* A piece goes from the peer to the stream.
LEMMA WriteStep ==
    ASSUME IntakeInv, NEW piece \in Pieces, net_write(piece)
    PROVE  IntakeInv'
<1> USE DEF IntakeInv
<1>0. buff \in Seq(Byte) /\ stream \in Seq(Byte) /\ outgoing \in Seq(Byte)
  BY DEF ConnectionTypeOK
<1> DEFINE n == Least(piece, Len(outgoing))
<1>1. /\ n > 0 /\ Len(stream) + n <= SocketBuffer
      /\ stream' = stream \o Front(outgoing, n) /\ outgoing' = Rest(outgoing, n)
      /\ UNCHANGED vars /\ UNCHANGED <<match, sent, closed, worker, buff, handled>>
  BY DEF net_write, serving
<1>2. n \in 1..Len(outgoing)
  <2>1. piece \in Nat /\ Len(outgoing) \in Nat
    BY IntakeConfig DEF ConnectionTypeOK
  <2>2. QED BY <1>1, <2>1 DEF Least
<1> HIDE DEF n
<1> DEFINE f == Front(outgoing, n)
           r == Rest(outgoing, n)
<1>3. /\ f \in Seq(Byte) /\ Len(f) = n /\ r \in Seq(Byte)
      /\ Len(r) = Len(outgoing) - n /\ f \o r = outgoing
  BY <1>2, PieceMoves DEF ConnectionTypeOK
<1>4. stream' = stream \o f /\ outgoing' = r
  BY <1>1
<1> HIDE DEF f, r
<1>5. Pending' = Pending
  <2>1. (buff \o (stream \o f)) \o r = (buff \o stream) \o (f \o r)
    <3>1. buff \o stream \in Seq(Byte)
      BY <1>0, ConcatProperties
    <3>2. (buff \o stream) \o f = buff \o (stream \o f)
      BY <1>0, <1>3, Regrouped, ZenonT(40)
    <3>3. ((buff \o stream) \o f) \o r = (buff \o stream) \o (f \o r)
      BY <1>3, <3>1, Regrouped, ZenonT(40)
    <3>4. QED BY <3>2, <3>3
  <2>2. QED BY <1>1, <1>3, <1>4, <2>1 DEF Pending
<1>6. /\ stream' \in Seq(Byte) /\ Len(stream') <= SocketBuffer
      /\ outgoing' \in Seq(Byte) /\ Len(outgoing') <= REMOTE_COMMAND_SIZE
  <2>1. Len(stream \o f) = Len(stream) + n /\ stream \o f \in Seq(Byte)
    BY <1>0, <1>3, ConcatProperties
  <2>2. Len(outgoing) \in Nat /\ Len(outgoing) <= REMOTE_COMMAND_SIZE
    BY DEF ConnectionTypeOK
  <2>3. Len(r) <= REMOTE_COMMAND_SIZE
    BY <1>2, <1>3, <2>2, Starts
  <2>4. QED BY <1>1, <1>3, <1>4, <2>1, <2>3
<1>7. ConnectionTypeOK'
  BY <1>1, <1>6 DEF ConnectionTypeOK
<1>8. QED BY <1>1, <1>5, <1>7, SamePending, ExcludeStep

\* A piece goes from the stream to the buffer.
LEMMA ReadPieceStep ==
    ASSUME IntakeInv, NEW piece \in Pieces, net_read(piece)
    PROVE  IntakeInv'
<1> USE DEF IntakeInv
<1>0. buff \in Seq(Byte) /\ stream \in Seq(Byte) /\ outgoing \in Seq(Byte)
  BY DEF ConnectionTypeOK
<1> DEFINE n == Least(Least(piece, Len(stream)), REMOTE_COMMAND_SIZE - Len(buff))
<1>1. /\ n > 0
      /\ buff' = buff \o Front(stream, n) /\ stream' = Rest(stream, n)
      /\ UNCHANGED vars /\ UNCHANGED <<match, sent, outgoing, closed, worker, handled>>
  BY DEF net_read
<1>2. n \in 1..Len(stream) /\ Len(buff) + n <= REMOTE_COMMAND_SIZE
  <2>1. /\ piece \in Nat /\ Len(stream) \in Nat /\ Len(buff) \in Nat
        /\ Len(buff) <= REMOTE_COMMAND_SIZE /\ REMOTE_COMMAND_SIZE \in Nat
    <3>1. piece \in Nat
      BY IntakeConfig
    <3>2. Len(stream) \in Nat /\ Len(buff) \in Nat
      BY <1>0
    <3>3. QED BY <3>1, <3>2, Starts DEF ConnectionTypeOK
  <2>2. QED BY <1>1, <2>1 DEF Least
<1> HIDE DEF n
<1> DEFINE f == Front(stream, n)
           r == Rest(stream, n)
<1>3. /\ f \in Seq(Byte) /\ Len(f) = n /\ r \in Seq(Byte)
      /\ Len(r) = Len(stream) - n /\ f \o r = stream
  BY <1>2, PieceMoves DEF ConnectionTypeOK
<1>4. buff' = buff \o f /\ stream' = r
  BY <1>1
<1> HIDE DEF f, r
<1>5. Pending' = Pending
  <2>1. (buff \o f) \o r = buff \o (f \o r)
    BY <1>0, <1>3, Regrouped, ZenonT(40)
  <2>2. QED BY <1>1, <1>3, <1>4, <2>1 DEF Pending
<1>6. /\ buff' \in Seq(Byte) /\ Len(buff') <= REMOTE_COMMAND_SIZE
      /\ stream' \in Seq(Byte) /\ Len(stream') <= SocketBuffer
  <2>1. Len(buff \o f) = Len(buff) + n /\ buff \o f \in Seq(Byte)
    BY <1>0, <1>3, ConcatProperties
  <2>2. Len(stream) \in Nat /\ Len(stream) <= SocketBuffer /\ SocketBuffer \in Nat
    BY IntakeConfig DEF ConnectionTypeOK
  <2>3. Len(r) <= SocketBuffer
    BY <1>2, <1>3, <2>2
  <2>4. QED BY <1>2, <1>3, <1>4, <2>1, <2>3
<1>7. ConnectionTypeOK'
  BY <1>1, <1>6 DEF ConnectionTypeOK
<1>8. QED BY <1>1, <1>5, <1>7, SamePending, ExcludeStep

\* What the peer has not written is lost.
LEMMA CloseStep ==
    ASSUME IntakeInv, CloseConnection
    PROVE  IntakeInv'
<1> USE DEF IntakeInv
<1> DEFINE u == buff \o stream
<1>1. /\ closed' = TRUE /\ outgoing' = <<>>
      /\ UNCHANGED vars /\ UNCHANGED <<match, sent, stream, worker, buff, handled>>
  BY DEF CloseConnection, serving
<1>2. ConnectionTypeOK'
  BY <1>1, Starts DEF ConnectionTypeOK
<1>3. u \in Seq(Byte) /\ Pending = u \o outgoing /\ Pending' = u
  BY <1>1 DEF Pending, ConnectionTypeOK
<1> HIDE DEF u
<1>4. Spells(u, Len(handled), sent) /\ Len(u) <= Len(u \o outgoing)
  <2>1. Len(handled) \in Nat /\ sent \in Seq(Commands) /\ outgoing \in Seq(Byte)
    BY DEF ConnectionTypeOK
  <2>2. Spells(u \o outgoing, Len(handled), sent)
    BY <1>3 DEF Flow
  <2>3. QED BY <1>3, <2>1, <2>2, SpellsBeginning
<1>5. Len(u) <= Start(Len(sent) - Len(handled))
  <2>1. Len(sent) - Len(handled) \in Nat
    BY DEF Flow, CommandsIntact, ConnectionTypeOK
  <2>2. Start(Len(sent) - Len(handled)) \in Nat
    BY <2>1, Starts
  <2>3. Len(u) \in Nat /\ Len(u \o outgoing) \in Nat
    BY <1>3 DEF ConnectionTypeOK
  <2>4. Len(u \o outgoing) <= Start(Len(sent) - Len(handled))
    BY <1>3 DEF Flow
  <2>5. QED BY <1>4, <2>2, <2>3, <2>4
<1>6. CommandsIntact'
  BY <1>1 DEF Flow, CommandsIntact
<1>7. Flow'
  BY <1>1, <1>3, <1>4, <1>5, <1>6 DEF Flow
<1>8. QED BY <1>1, <1>2, <1>7, ExcludeStep

\* The worker decodes a full buffer to the next command that was sent.
LEMMA HandleDecodes ==
    ASSUME IntakeInv, HandleCommand
    PROVE  LET c == sent[Len(handled) + 1]
           IN  /\ Len(handled) + 1 <= Len(sent)
               /\ c \in Commands
               /\ net_buff_to_command(buff, ReceiverBigEndian) = c
               /\ Spells(stream \o outgoing, Len(handled) + 1, sent)
               /\ Len(Pending) = REMOTE_COMMAND_SIZE + Len(stream \o outgoing)
<1> USE DEF IntakeInv
<1> DEFINE v == stream \o outgoing
           n == Len(handled)
<1>1. Len(buff) = REMOTE_COMMAND_SIZE
  BY DEF HandleCommand
<1>2. v \in Seq(Byte) /\ Pending = buff \o v /\ buff \in Seq(Byte) /\ sent \in Seq(Commands)
  BY DEF Pending, ConnectionTypeOK
<1>3. n \in 0..Len(sent)
  BY DEF Flow, CommandsIntact, ConnectionTypeOK
<1>4. Spells(buff \o v, n, sent) /\ Len(buff \o v) <= Start(Len(sent) - n)
  BY <1>2 DEF Flow
<1> HIDE DEF v, n
<1>5. /\ n + 1 <= Len(sent) /\ buff = Part11(sent[n + 1])
      /\ Spells(v, n + 1, sent)
      /\ Len(buff \o v) = REMOTE_COMMAND_SIZE + Len(v)
  BY <1>1, <1>2, <1>3, <1>4, SpellsHandled
<1>6. sent[n + 1] \in Commands
  BY <1>2, <1>3, <1>5, ElementOfSeq
<1>7. net_buff_to_command(buff, ReceiverBigEndian) = sent[n + 1]
  BY <1>5, <1>6, IntakeConfig, RoundTrip
<1>8. QED BY <1>2, <1>5, <1>6, <1>7 DEF v, n

LEMMA HandleStep ==
    ASSUME IntakeInv, HandleCommand
    PROVE  IntakeInv'
<1> USE DEF IntakeInv
<1> DEFINE n == Len(handled)
           c == sent[n + 1]
           v == stream \o outgoing
<1>1. /\ n + 1 <= Len(sent) /\ c \in Commands
      /\ net_buff_to_command(buff, ReceiverBigEndian) = c
      /\ Spells(v, n + 1, sent) /\ Len(Pending) = REMOTE_COMMAND_SIZE + Len(v)
  BY HandleDecodes
<1>2. /\ handled' = Append(handled, c) /\ buff' = <<>>
      /\ worker' \in {"read", "end", AfterADD(c)}
      /\ UNCHANGED vars /\ UNCHANGED <<match, sent, outgoing, stream, closed>>
  BY <1>1 DEF HandleCommand, connection
<1>3. c \in Command /\ AtLeast(c.occurrences, c.action_threshold)
  BY <1>1, IntakeConfig
<1>4. worker' \in {"read", "add", "end"}
  BY <1>2, <1>3 DEF AfterADD
<1>5. /\ handled \in Seq(Command) /\ n \in Nat /\ sent \in Seq(Commands)
      /\ v \in Seq(Byte) /\ Len(sent) \in Nat /\ Len(v) \in Nat
  BY DEF ConnectionTypeOK
<1> HIDE DEF c, v
<1>6. /\ handled' \in Seq(Command) /\ Len(handled') = n + 1 /\ handled'[n + 1] = c
      /\ \A i \in 1..n : handled'[i] = handled[i]
      /\ DOMAIN handled' = 1..(n + 1)
  BY <1>2, <1>3, <1>5
<1>7. ConnectionTypeOK'
  BY <1>2, <1>4, <1>6, Starts DEF ConnectionTypeOK
<1>8. CommandsIntact'
  <2>1. \A i \in 1..n : handled[i] = sent[i]
    BY <1>5 DEF Flow, CommandsIntact
  <2>2. \A i \in 1..(n + 1) : handled'[i] = sent[i]
    BY <1>5, <1>6, <2>1 DEF c
  <2>3. QED BY <1>1, <1>2, <1>6, <2>2 DEF CommandsIntact
<1>9. Pending' = v
  BY <1>2 DEF Pending, v, ConnectionTypeOK
<1>10. Start(Len(sent) - n) = Start(Len(sent) - (n + 1)) + REMOTE_COMMAND_SIZE
       /\ Start(Len(sent) - (n + 1)) \in Nat /\ REMOTE_COMMAND_SIZE \in Nat
  <2> DEFINE k == Len(sent) - (n + 1)
  <2>1. k \in Nat /\ Len(sent) - n = k + 1
    BY <1>1, <1>5
  <2> HIDE DEF k
  <2>2. Start(k + 1) = Start(k) + REMOTE_COMMAND_SIZE /\ Start(k) \in Nat
    BY <2>1, Starts
  <2>3. QED BY <2>1, <2>2, Starts DEF k
<1>11. /\ Len(v) <= Start(Len(sent) - (n + 1))
       /\ ~closed => Len(v) = Start(Len(sent) - (n + 1))
  <2> DEFINE x == Start(Len(sent) - n)
             y == Start(Len(sent) - (n + 1))
             z == Len(Pending)
  <2>1. z <= x /\ (~closed => z = x)
    BY DEF Flow
  <2>2. x = y + REMOTE_COMMAND_SIZE /\ y \in Nat /\ REMOTE_COMMAND_SIZE \in Nat
    BY <1>10
  <2>3. z = REMOTE_COMMAND_SIZE + Len(v) /\ Len(v) \in Nat
    BY <1>1, <1>5
  <2> HIDE DEF x, y, z
  <2>4. Len(v) <= y /\ (~closed => Len(v) = y)
    BY <2>1, <2>2, <2>3
  <2>5. QED BY <2>4 DEF y
<1>12. Flow'
  BY <1>1, <1>2, <1>6, <1>8, <1>9, <1>11 DEF Flow
<1>13. QED BY <1>2, <1>7, <1>12, ExcludeStep

LEMMA IntakeStep == IntakeInv /\ [IntakeNext]_<<vars, intakeVars>> => IntakeInv'
  BY AsideSteps, SendStep, WriteStep, ReadPieceStep, CloseStep, HandleStep DEF IntakeNext

LEMMA IntakeInvariant == IntakeSpec => []IntakeInv
  BY IntakeInvInit, IntakeStep, PTL DEF IntakeSpec

-----------------------------------------------------------------------------
(* Theorems *)

\* The list, the threads and the connection keep their types.
THEOREM IntakeTypes == IntakeSpec => []IntakeTypeOK
<1>1. IntakeInv => IntakeTypeOK
  BY DEF IntakeInv, ExcludeInv, ListInv, ListTypeOK, ReadersInv, ReadersTypeOK, TypeOK,
     ConnectionTypeOK, IntakeTypeOK
<1>2. QED BY <1>1, IntakeInvariant, PTL

\* exclude_isexcluded finds a host exactly when a line since the last clear
\* covers it, for addresses of any width (exclude.c).
THEOREM LookupMatchesLinesHolds == IntakeSpec => []LookupMatchesLines
<1>1. IntakeInv => LookupMatchesLines
  BY LookupOfList DEF IntakeInv, ExcludeInv
<1>2. QED BY <1>1, IntakeInvariant, PTL

\* The thread that cleared the list last finds its lines in it, whatever other
\* readers do (_exclude_readfile_thread).
THEOREM LastReaderCompleteHolds == IntakeSpec => []LastReaderComplete
<1>1. IntakeInv => LastReaderComplete
  BY LastReaderOfList DEF IntakeInv
<1>2. QED BY <1>1, IntakeInvariant, PTL

\* The worker decodes what the peer has sent, in its order, whatever the pieces
\* and the byte orders (netshared.c, worker.c).
THEOREM CommandsIntactHolds == IntakeSpec => []CommandsIntact
<1>1. IntakeInv => CommandsIntact
  BY DEF IntakeInv, Flow
<1>2. QED BY <1>1, IntakeInvariant, PTL

\* The assertion on received records does not fail (worker.c).
THEOREM AssertionHoldsAlways == IntakeSpec => []AssertionHolds
<1>1. IntakeInv => AssertionHolds
  BY DEF IntakeInv, ConnectionTypeOK, AssertionHolds
<1>2. QED BY <1>1, IntakeInvariant, PTL

\* Once the thread that cleared the list has read its file to the end, no host
\* of every version of the file gets past the list (regex.c, worker.c).
THEOREM ListedPassOnlyInReloadHolds == IntakeSpec => ListedPassOnlyInReload
<1> DEFINE Settled == /\ remote_authoritative = 0
                      /\ cleared # NULL /\ reader[cleared] = "done"
                      /\ cleared \notin ignored
<1>1. ASSUME IntakeInv, Settled, NEW h \in AlwaysListed
      PROVE  h \in Hosts /\ exclude_isexcluded(h)
  <2>1. /\ cleared \in Readers /\ content[cleared] \in Files
        /\ lineno[cleared] = Len(content[cleared])
        /\ Usable(cleared) \subseteq loaded
    BY <1>1 DEF IntakeInv, ExcludeInv, ReadersInv, ReadersTypeOK, ClearedOK
  <2> DEFINE f == content[cleared]
  <2>2. PICK i \in DOMAIN f : Parses(f[i]) /\ Defined(f[i]) /\ Covers(f[i], h)
    BY <2>1 DEF AlwaysListed, Lists
  <2>3. DOMAIN f = 1..Len(f)
    BY <1>1, <2>1, ContentIsLines DEF IntakeInv, ExcludeInv, ReadersInv
  <2>4. f[i] \in Usable(cleared)
    BY <2>1, <2>2, <2>3 DEF Usable
  <2>5. h \in Hosts
    BY DEF AlwaysListed
  <2>6. LookupMatchesLines
    BY <1>1, LookupOfList DEF IntakeInv, ExcludeInv
  <2>7. QED BY <2>1, <2>2, <2>4, <2>5, <2>6 DEF LookupMatchesLines
<1>2. ASSUME IntakeInv, [IntakeNext]_<<vars, intakeVars>>, Settled
      PROVE  Passed \cap AlwaysListed = {}
  <2>1. SUFFICES ASSUME NEW h \in Passed, h \in AlwaysListed
                 PROVE  FALSE
    OBVIOUS
  <2>2. h \in Hosts /\ exclude_isexcluded(h) /\ NULL \notin Hosts
    BY <1>1, <1>2, <2>1, IntakeConfig
  <2>3. CASE match' = h /\ match = NULL
    <3>1. PICK host \in Hosts : regex_do(host)
      BY <1>2, <2>2, <2>3 DEF IntakeNext, intakeVars, records_add_ip, SendCommand,
         net_write, net_read, CloseConnection, ReadEnds, HandleCommand, records_add_record
    <3>2. QED BY <2>2, <2>3, <3>1 DEF regex_do
  <2>4. CASE /\ worker' = "add" /\ worker = "read" /\ Len(handled') \in DOMAIN handled'
             /\ h = HostOf[handled'[Len(handled')].ipaddr]
    <3>1. HandleCommand
      BY <1>2, <2>4 DEF IntakeNext, intakeVars, serving, regex_do, records_add_ip,
         SendCommand, net_write, net_read, CloseConnection, ReadEnds, records_add_record
    <3> DEFINE c == net_buff_to_command(buff, ReceiverBigEndian)
    <3>2. worker' = AfterADD(c) /\ handled' = Append(handled, c)
      BY <2>4, <3>1 DEF HandleCommand
    <3> HIDE DEF c
    <3>3. c \in Command
      BY <1>2, <3>1, HandleDecodes, IntakeConfig DEF c
    <3>4. handled'[Len(handled')] = c
      BY <1>2, <3>2, <3>3 DEF IntakeInv, ConnectionTypeOK
    <3>5. ~exclude_isexcluded(HostOf[c.ipaddr])
      BY <1>2, <2>4, <3>2 DEF AfterADD
    <3>6. QED BY <2>2, <2>4, <3>4, <3>5
  <2>5. QED BY <2>1, <2>3, <2>4 DEF Passed
<1>3. QED BY <1>2, IntakeInvariant, PTL DEF IntakeSpec, ListedPassOnlyInReload
=============================================================================
