------------------------- MODULE ClientQueueProofs -------------------------
(***************************************************************************)
(* What becomes of a record on its way to a peer, for any number of peers, *)
(* any batch length and number of attempts, and any interleaving of the    *)
(* action thread, the workers and main.                                    *)
(*                                                                         *)
(* A record passes four lists, the batch, the queue, what the worker has   *)
(* taken and what the peer has received, and may end in a set: refused,    *)
(* dropped or leaked.  The lists are in the order of the calls, each       *)
(* wholly before the one it flows out of; the lists and the sets partition *)
(* the calls.  Both are stated here of plain sequences and sets, so that   *)
(* each step is one lemma about them.                                      *)
(***************************************************************************)
EXTENDS ClientQueue, SequenceTheorems, FiniteSetTheorems, TLAPS

-----------------------------------------------------------------------------
(* Sequences of numbers *)

Below(A, B) == \A a \in A, b \in B : a < b

Rising(s) == \A i, j \in DOMAIN s : i < j => s[i] < s[j]

\* Append adds an element.
LEMMA ElemsAppend ==
    ASSUME NEW s \in Seq(Nat), NEW e \in Nat
    PROVE  Elems(Append(s, e)) = Elems(s) \cup {e}
<1>1. DOMAIN s = 1..Len(s) /\ DOMAIN Append(s, e) = 1..(Len(s) + 1) /\ Len(s) \in Nat
  OBVIOUS
<1>2. \A i \in 1..Len(s) : Append(s, e)[i] = s[i]
  OBVIOUS
<1>3. Append(s, e)[Len(s) + 1] = e
  OBVIOUS
<1>4. 1..(Len(s) + 1) = 1..Len(s) \cup {Len(s) + 1}
  BY <1>1
<1>5. QED BY <1>1, <1>2, <1>3, <1>4 DEF Elems

\* The elements of a concatenation.
LEMMA ElemsConcat ==
    ASSUME NEW s \in Seq(Nat), NEW t \in Seq(Nat)
    PROVE  Elems(s \o t) = Elems(s) \cup Elems(t)
<1>1. Elems(s) \subseteq Elems(s \o t)
  BY DEF Elems
<1>2. ASSUME NEW x \in Elems(t)
      PROVE  x \in Elems(s \o t)
  <2>1. PICK i \in 1..Len(t) : x = t[i]
    BY DEF Elems
  <2>2. Len(s) + i \in DOMAIN (s \o t) /\ (s \o t)[Len(s) + i] = t[i]
    OBVIOUS
  <2>3. QED BY <2>1, <2>2 DEF Elems
<1>3. ASSUME NEW x \in Elems(s \o t)
      PROVE  x \in Elems(s) \cup Elems(t)
  <2>1. PICK i \in 1..(Len(s) + Len(t)) : x = (s \o t)[i]
    BY DEF Elems
  <2>2. CASE i <= Len(s)
    BY <2>1, <2>2 DEF Elems
  <2>3. CASE i > Len(s)
    <3>1. i - Len(s) \in 1..Len(t) /\ x = t[i - Len(s)]
      BY <2>1, <2>3
    <3>2. QED BY <3>1 DEF Elems
  <2>4. QED BY <2>2, <2>3
<1>4. QED BY <1>1, <1>2, <1>3

\* The elements of a sequence are its head and those of its tail.
LEMMA ElemsTail ==
    ASSUME NEW s \in Seq(Nat), s # <<>>
    PROVE  /\ Elems(s) = {Head(s)} \cup Elems(Tail(s))
           /\ Head(s) \in Nat
           /\ Tail(s) \in Seq(Nat)
<1>1. /\ Len(s) \in Nat /\ Len(s) >= 1 /\ Head(s) = s[1]
      /\ DOMAIN Tail(s) = 1..(Len(s) - 1) /\ DOMAIN s = 1..Len(s)
      /\ \A i \in 1..(Len(s) - 1) : Tail(s)[i] = s[i + 1]
  OBVIOUS
<1>2. ASSUME NEW x \in Elems(s)
      PROVE  x \in {Head(s)} \cup Elems(Tail(s))
  <2>1. PICK i \in 1..Len(s) : x = s[i]
    BY DEF Elems
  <2>2. CASE i = 1
    BY <1>1, <2>1, <2>2
  <2>3. CASE i # 1
    <3>1. i - 1 \in 1..(Len(s) - 1) /\ Tail(s)[i - 1] = s[(i - 1) + 1] /\ (i - 1) + 1 = i
      BY <1>1, <2>3
    <3>2. QED BY <1>1, <2>1, <3>1 DEF Elems
  <2>4. QED BY <2>2, <2>3
<1>3. Head(s) \in Elems(s) /\ Head(s) \in Nat
  BY <1>1 DEF Elems
<1>4. ASSUME NEW x \in Elems(Tail(s))
      PROVE  x \in Elems(s)
  <2>1. PICK i \in 1..(Len(s) - 1) : x = Tail(s)[i]
    BY <1>1 DEF Elems
  <2>2. x = s[i + 1] /\ i + 1 \in 1..Len(s)
    BY <1>1, <2>1
  <2>3. QED BY <1>1, <2>2 DEF Elems
<1>5. QED BY <1>2, <1>3, <1>4

\* The elements of a sequence of numbers are numbers.
LEMMA ElemsType ==
    ASSUME NEW s \in Seq(Nat)
    PROVE  Elems(s) \subseteq Nat
  BY DEF Elems

\* A rising sequence stays rising when a larger element comes to its end.
LEMMA RisingAppend ==
    ASSUME NEW s \in Seq(Nat), NEW e \in Nat, Rising(s), Below(Elems(s), {e})
    PROVE  Rising(Append(s, e))
<1>1. /\ Len(s) \in Nat /\ DOMAIN s = 1..Len(s)
      /\ DOMAIN Append(s, e) = 1..(Len(s) + 1)
      /\ \A i \in 1..Len(s) : Append(s, e)[i] = s[i] /\ s[i] < e
      /\ Append(s, e)[Len(s) + 1] = e
  BY DEF Below, Elems
<1> SUFFICES ASSUME NEW i \in 1..(Len(s) + 1), NEW j \in 1..(Len(s) + 1), i < j
             PROVE  Append(s, e)[i] < Append(s, e)[j]
  BY <1>1 DEF Rising
<1>2. i \in 1..Len(s)
  BY <1>1
<1>3. CASE j = Len(s) + 1
  BY <1>1, <1>2, <1>3
<1>4. CASE j # Len(s) + 1
  <2>1. j \in 1..Len(s)
    <3>1. Len(s) \in Nat
      OBVIOUS
    <3>2. QED BY <1>4, <3>1
  <2>2. s[i] < s[j]
    BY <1>1, <1>2, <2>1 DEF Rising
  <2>3. QED BY <1>1, <1>2, <2>1, <2>2
<1>5. QED BY <1>3, <1>4

\* Two rising sequences make one if the first is below the second.
LEMMA RisingConcat ==
    ASSUME NEW s \in Seq(Nat), NEW t \in Seq(Nat), Rising(s), Rising(t),
           Below(Elems(s), Elems(t))
    PROVE  Rising(s \o t)
<1>1. /\ Len(s) \in Nat /\ DOMAIN s = 1..Len(s) /\ Len(t) \in Nat
      /\ DOMAIN t = 1..Len(t) /\ DOMAIN (s \o t) = 1..(Len(s) + Len(t))
  OBVIOUS
<1>2. \A i \in 1..(Len(s) + Len(t)) :
         (s \o t)[i] = IF i <= Len(s) THEN s[i] ELSE t[i - Len(s)]
  OBVIOUS
<1> SUFFICES ASSUME NEW i \in 1..(Len(s) + Len(t)),
                    NEW j \in 1..(Len(s) + Len(t)), i < j
             PROVE  (s \o t)[i] < (s \o t)[j]
  BY <1>1 DEF Rising
<1>3. CASE j <= Len(s)
  <2>1. i \in DOMAIN s /\ j \in DOMAIN s /\ i <= Len(s)
    BY <1>1, <1>3
  <2>2. s[i] < s[j]
    BY <2>1 DEF Rising
  <2>3. QED BY <1>2, <1>3, <2>1, <2>2
<1>4. CASE i > Len(s)
  <2>1. /\ i - Len(s) \in DOMAIN t /\ j - Len(s) \in DOMAIN t
        /\ i - Len(s) < j - Len(s) /\ ~(i <= Len(s)) /\ ~(j <= Len(s))
    BY <1>1, <1>4
  <2>2. t[i - Len(s)] < t[j - Len(s)]
    BY <2>1 DEF Rising
  <2>3. QED BY <1>2, <2>1, <2>2
<1>5. CASE i <= Len(s) /\ j > Len(s)
  <2>1. i \in DOMAIN s /\ j - Len(s) \in DOMAIN t /\ ~(j <= Len(s))
    BY <1>1, <1>5
  <2>2. s[i] < t[j - Len(s)]
    BY <2>1 DEF Below, Elems
  <2>3. QED BY <1>2, <1>5, <2>1, <2>2
<1>6. QED BY <1>1, <1>3, <1>4, <1>5

\* The head of a rising sequence is its least element.
LEMMA RisingTail ==
    ASSUME NEW s \in Seq(Nat), Rising(s), s # <<>>
    PROVE  Rising(Tail(s)) /\ Below({Head(s)}, Elems(Tail(s)))
<1>1. /\ Len(s) \in Nat /\ Len(s) >= 1 /\ Head(s) = s[1]
      /\ DOMAIN Tail(s) = 1..(Len(s) - 1) /\ DOMAIN s = 1..Len(s)
      /\ \A i \in 1..(Len(s) - 1) : Tail(s)[i] = s[i + 1]
  OBVIOUS
<1>2. Rising(Tail(s))
  <2> SUFFICES ASSUME NEW i \in 1..(Len(s) - 1), NEW j \in 1..(Len(s) - 1), i < j
               PROVE  Tail(s)[i] < Tail(s)[j]
    BY <1>1 DEF Rising
  <2>1. i + 1 \in DOMAIN s /\ j + 1 \in DOMAIN s /\ i + 1 < j + 1
    BY <1>1
  <2>2. s[i + 1] < s[j + 1]
    BY <2>1 DEF Rising
  <2>3. QED BY <1>1, <2>2
<1>3. ASSUME NEW x \in Elems(Tail(s))
      PROVE  Head(s) < x
  <2>1. PICK i \in 1..(Len(s) - 1) : x = Tail(s)[i]
    BY <1>1 DEF Elems
  <2>2. x = s[i + 1] /\ i + 1 \in DOMAIN s /\ 1 \in DOMAIN s /\ 1 < i + 1
    BY <1>1, <2>1
  <2>3. s[1] < s[i + 1]
    BY <2>2 DEF Rising
  <2>4. QED BY <1>1, <2>2, <2>3
<1>4. QED BY <1>2, <1>3 DEF Below

\* A rising sequence has as many elements as places.
LEMMA RisingCardinality ==
    ASSUME NEW s \in Seq(Nat), Rising(s)
    PROVE  IsFiniteSet(Elems(s)) /\ Cardinality(Elems(s)) = Len(s)
<1>1. Len(s) \in Nat /\ s \in [1..Len(s) -> Elems(s)]
  BY DEF Elems
<1>2. \A i, j \in 1..Len(s) : s[i] = s[j] => i = j
  <2> SUFFICES ASSUME NEW i \in 1..Len(s), NEW j \in 1..Len(s), s[i] = s[j], i # j
               PROVE  FALSE
    OBVIOUS
  <2>1. i < j \/ j < i
    OBVIOUS
  <2>2. s[i] \in Nat /\ s[j] \in Nat
    OBVIOUS
  <2>3. s[i] < s[j] \/ s[j] < s[i]
    BY <2>1 DEF Rising
  <2>4. QED BY <2>2, <2>3
<1>3. s \in Bijection(1..Len(s), Elems(s))
  <2>1. DOMAIN s = 1..Len(s)
    BY <1>1
  <2>2. s \in Injection(1..Len(s), Elems(s))
    BY <1>1, <1>2, <2>1, Zenon DEF Injection, IsInjective
  <2>3. \A e \in Elems(s) : \E i \in 1..Len(s) : s[i] = e
    BY <2>1 DEF Elems
  <2>4. s \in Surjection(1..Len(s), Elems(s))
    BY <1>1, <2>3, Zenon DEF Surjection
  <2>5. QED BY <2>2, <2>4, Zenon DEF Bijection
<1>4. IsFiniteSet(1..Len(s)) /\ Cardinality(1..Len(s)) = Len(s)
  BY <1>1, FS_Interval
<1>5. ExistsBijection(1..Len(s), Elems(s))
  BY <1>3 DEF ExistsBijection
<1>6. QED BY <1>4, <1>5, FS_Bijection

-----------------------------------------------------------------------------
(* The lists of one queue *)

\* r was received, t is taken, h queued, b in the batch: all rising, and each
\* below what comes after it.
Ordered(r, t, h, b) ==
    /\ Rising(r) /\ Rising(t) /\ Rising(h) /\ Rising(b)
    /\ Below(Elems(r), Elems(t) \cup Elems(h) \cup Elems(b))
    /\ Below(Elems(t), Elems(h) \cup Elems(b))
    /\ Below(Elems(h), Elems(b))

HeldIn(r, t, h, b) == Elems(r) \cup Elems(t) \cup Elems(h) \cup Elems(b)

\* The order when a record enters the batch, the batch enters the queue, the
\* worker takes the queue, an entry is sent, and when records are lost.
LEMMA OrderedMoves ==
    ASSUME NEW r \in Seq(Nat), NEW t \in Seq(Nat), NEW h \in Seq(Nat),
           NEW b \in Seq(Nat), Ordered(r, t, h, b)
    PROVE  /\ \A e \in Nat : Below(HeldIn(r, t, h, b), {e})
                                 => Ordered(r, t, h, Append(b, e))
           /\ Ordered(r, t, h \o b, <<>>)
           /\ t = <<>> => Ordered(r, h, <<>>, b)
           /\ t # <<>> => /\ Ordered(Append(r, Head(t)), Tail(t), h, b)
                          /\ Ordered(r, Tail(t), h, b)
           /\ Ordered(r, <<>>, h, b)
           /\ Ordered(r, t, h, <<>>)
<1>1. Elems(<<>>) = {} /\ Rising(<<>>)
  BY DEF Elems, Rising
<1>2. ASSUME NEW e \in Nat, Below(HeldIn(r, t, h, b), {e})
      PROVE  Ordered(r, t, h, Append(b, e))
  <2>1. Elems(Append(b, e)) = Elems(b) \cup {e}
    BY ElemsAppend
  <2>2. Below(Elems(b), {e})
    BY <1>2 DEF Below, HeldIn
  <2>3. Rising(Append(b, e))
    BY <2>2, RisingAppend DEF Ordered
  <2>4. QED BY <1>2, <2>1, <2>3 DEF Ordered, Below, HeldIn
<1>3. Ordered(r, t, h \o b, <<>>)
  <2>1. Elems(h \o b) = Elems(h) \cup Elems(b)
    BY ElemsConcat
  <2>2. Rising(h \o b)
    BY RisingConcat DEF Ordered
  <2>3. QED BY <1>1, <2>1, <2>2 DEF Ordered, Below
<1>4. ASSUME t = <<>>
      PROVE  Ordered(r, h, <<>>, b)
  BY <1>1, <1>4 DEF Ordered, Below
<1>5. ASSUME t # <<>>
      PROVE  Ordered(Append(r, Head(t)), Tail(t), h, b) /\ Ordered(r, Tail(t), h, b)
  <2>1. /\ Head(t) \in Nat /\ Tail(t) \in Seq(Nat)
        /\ Elems(t) = {Head(t)} \cup Elems(Tail(t))
    BY <1>5, ElemsTail
  <2>2. Elems(Append(r, Head(t))) = Elems(r) \cup {Head(t)}
    BY <2>1, ElemsAppend
  <2>3. Rising(Tail(t)) /\ Below({Head(t)}, Elems(Tail(t)))
    BY <1>5, RisingTail DEF Ordered
  <2>4. Below(Elems(r), {Head(t)})
    BY <2>1 DEF Ordered, Below
  <2>5. Rising(Append(r, Head(t)))
    BY <2>1, <2>4, RisingAppend DEF Ordered
  <2>6. Below(Elems(r) \cup {Head(t)}, Elems(Tail(t)) \cup Elems(h) \cup Elems(b))
    BY <2>1, <2>3 DEF Ordered, Below
  <2>7. Below(Elems(r), Elems(Tail(t)) \cup Elems(h) \cup Elems(b))
    BY <2>6 DEF Below
  <2>8. Below(Elems(Tail(t)), Elems(h) \cup Elems(b))
    BY <2>1 DEF Ordered, Below
  <2>9. QED BY <2>2, <2>3, <2>5, <2>6, <2>7, <2>8 DEF Ordered
<1>6. Ordered(r, <<>>, h, b) /\ Ordered(r, t, h, <<>>)
  BY <1>1 DEF Ordered, Below
<1>7. QED BY <1>2, <1>3, <1>4, <1>5, <1>6

\* The lists of a queue, one behind the other.
LEMMA OrderedLists ==
    ASSUME NEW r \in Seq(Nat), NEW t \in Seq(Nat), NEW h \in Seq(Nat),
           NEW b \in Seq(Nat), Ordered(r, t, h, b)
    PROVE  /\ r \o t \o h \o b \in Seq(Nat)
           /\ Rising(r \o t \o h \o b)
           /\ Elems(r \o t \o h \o b) = HeldIn(r, t, h, b)
<1>1. /\ r \o t \in Seq(Nat) /\ Elems(r \o t) = Elems(r) \cup Elems(t)
      /\ Rising(r \o t)
  <2>1. Below(Elems(r), Elems(t))
    BY DEF Ordered, Below
  <2>2. QED BY <2>1, ElemsConcat, RisingConcat DEF Ordered
<1>2. /\ r \o t \o h \in Seq(Nat)
      /\ Elems(r \o t \o h) = Elems(r) \cup Elems(t) \cup Elems(h)
      /\ Rising(r \o t \o h)
  <2> DEFINE rt == r \o t
  <2> HIDE DEF rt
  <2>1. rt \in Seq(Nat) /\ Elems(rt) = Elems(r) \cup Elems(t) /\ Rising(rt)
    BY <1>1 DEF rt
  <2>2. Below(Elems(rt), Elems(h))
    BY <2>1 DEF Ordered, Below
  <2>3. rt \o h \in Seq(Nat)
    BY <2>1
  <2>4. Elems(rt \o h) = Elems(rt) \cup Elems(h)
    BY <2>1, ElemsConcat
  <2>5. Rising(rt \o h)
    BY <2>1, <2>2, RisingConcat DEF Ordered
  <2>6. QED BY <2>1, <2>3, <2>4, <2>5 DEF rt
<1>3. QED
  <2> DEFINE rth == r \o t \o h
  <2> HIDE DEF rth
  <2>1. /\ rth \in Seq(Nat) /\ Rising(rth)
        /\ Elems(rth) = Elems(r) \cup Elems(t) \cup Elems(h)
    BY <1>2 DEF rth
  <2>2. Below(Elems(rth), Elems(b))
    BY <2>1 DEF Ordered, Below
  <2>3. rth \o b \in Seq(Nat)
    BY <2>1
  <2>4. Elems(rth \o b) = Elems(rth) \cup Elems(b)
    BY <2>1, ElemsConcat
  <2>5. Rising(rth \o b)
    BY <2>1, <2>2, RisingConcat DEF Ordered
  <2>6. QED BY <2>1, <2>3, <2>4, <2>5 DEF rth, HeldIn

\* Of ordered lists no element is in two.
LEMMA OrderedApart ==
    ASSUME NEW r \in Seq(Nat), NEW t \in Seq(Nat), NEW h \in Seq(Nat),
           NEW b \in Seq(Nat), Ordered(r, t, h, b)
    PROVE  /\ Elems(t) \cap (Elems(r) \cup Elems(h) \cup Elems(b)) = {}
           /\ t # <<>> => /\ Head(t) \notin Elems(Tail(t))
                          /\ Elems(t) = {Head(t)} \cup Elems(Tail(t))
<1>1. Elems(r) \subseteq Nat /\ Elems(t) \subseteq Nat /\ Elems(h) \subseteq Nat
      /\ Elems(b) \subseteq Nat
  BY ElemsType
<1>2. \A n \in Nat : ~(n < n)
  OBVIOUS
<1>3. Elems(t) \cap (Elems(r) \cup Elems(h) \cup Elems(b)) = {}
  BY <1>1, <1>2 DEF Ordered, Below
<1>4. ASSUME t # <<>>
      PROVE  Head(t) \notin Elems(Tail(t)) /\ Elems(t) = {Head(t)} \cup Elems(Tail(t))
  <2>1. Head(t) \in Nat /\ Elems(t) = {Head(t)} \cup Elems(Tail(t))
    BY <1>4, ElemsTail
  <2>2. Below({Head(t)}, Elems(Tail(t)))
    BY <1>4, RisingTail DEF Ordered
  <2>3. QED BY <1>2, <2>1, <2>2 DEF Below
<1>5. QED BY <1>3, <1>4

-----------------------------------------------------------------------------
(* Where the records of one queue are *)

\* held in one of the lists, refused, waiting, dropped or leaked: in exactly
\* one of these, and these are all calls.
Partition(held, ref, wait, drop, leak, n) ==
    /\ held \cap (ref \cup wait \cup drop \cup leak) = {}
    /\ ref \cap (wait \cup drop \cup leak) = {}
    /\ wait \cap (drop \cup leak) = {}
    /\ drop \cap leak = {}
    /\ held \cup ref \cup wait \cup drop \cup leak = 1..n

\* The partition when a new call is refused, put into the batch or made to
\* wait, when the waiting record is let go, and when some are lost.
LEMMA PartitionMoves ==
    ASSUME NEW n \in Nat, NEW held, NEW ref, NEW wait, NEW drop, NEW leak,
           Partition(held, ref, wait, drop, leak, n)
    PROVE  /\ Partition(held, ref \cup {n + 1}, wait, drop, leak, n + 1)
           /\ Partition(held \cup {n + 1}, ref, wait, drop, leak, n + 1)
           /\ wait = {} => Partition(held, ref, {n + 1}, drop, leak, n + 1)
           /\ Partition(held \cup wait, ref, {}, drop, leak, n)
           /\ Partition(held, ref \cup wait, {}, drop, leak, n)
           /\ \A S \in SUBSET held :
                 /\ Partition(held \ S, ref, wait, drop \cup S, leak, n)
                 /\ Partition(held \ S, ref, wait, drop, leak \cup S, n)
<1>1. n + 1 \notin 1..n /\ 1..(n + 1) = (1..n) \cup {n + 1}
  OBVIOUS
<1> DEFINE U == 1..n
           V == 1..(n + 1)
           e == n + 1
<1>2. e \notin U /\ V = U \cup {e}
  BY <1>1
<1>3. Partition(held, ref, wait, drop, leak, n)
      <=> /\ held \cap (ref \cup wait \cup drop \cup leak) = {}
          /\ ref \cap (wait \cup drop \cup leak) = {}
          /\ wait \cap (drop \cup leak) = {}
          /\ drop \cap leak = {}
          /\ held \cup ref \cup wait \cup drop \cup leak = U
  BY DEF Partition
<1>4. /\ Partition(held, ref \cup {e}, wait, drop, leak, n + 1)
      /\ Partition(held \cup {e}, ref, wait, drop, leak, n + 1)
      /\ wait = {} => Partition(held, ref, {e}, drop, leak, n + 1)
  <2> SUFFICES
        /\ /\ held \cap ((ref \cup {e}) \cup wait \cup drop \cup leak) = {}
           /\ (ref \cup {e}) \cap (wait \cup drop \cup leak) = {}
           /\ held \cup (ref \cup {e}) \cup wait \cup drop \cup leak = V
        /\ /\ (held \cup {e}) \cap (ref \cup wait \cup drop \cup leak) = {}
           /\ (held \cup {e}) \cup ref \cup wait \cup drop \cup leak = V
        /\ wait = {} =>
           /\ held \cap (ref \cup {e} \cup drop \cup leak) = {}
           /\ ref \cap ({e} \cup drop \cup leak) = {}
           /\ {e} \cap (drop \cup leak) = {}
           /\ held \cup ref \cup {e} \cup drop \cup leak = V
    BY <1>3 DEF Partition
  <2> HIDE DEF U, V, e
  <2>1. QED BY <1>2, <1>3
<1>5. /\ Partition(held \cup wait, ref, {}, drop, leak, n)
      /\ Partition(held, ref \cup wait, {}, drop, leak, n)
  BY DEF Partition
<1>6. ASSUME NEW S \in SUBSET held
      PROVE  /\ Partition(held \ S, ref, wait, drop \cup S, leak, n)
             /\ Partition(held \ S, ref, wait, drop, leak \cup S, n)
  BY DEF Partition
<1>7. QED BY <1>4, <1>5, <1>6

-----------------------------------------------------------------------------
(* The inductive invariant *)

\* client_stop has not begun.
Early == main \in {"start", "follow"}

\* How the threads' positions and the data go together.
Control ==
    /\ client_started <=> main \in {"follow", "stop"}
    /\ main = "start" => /\ temp = <<>> /\ flush = 0
                         /\ \A q \in Queues : worker[q] = "none"
    /\ flush = 0 => pending = 0
    /\ pending # 0 => pending = calls
    /\ Early => destroyed = 0 /\ \A q \in Queues : worker[q] # "dead"
    /\ \A q \in Queues :
          /\ worker[q] \in {"none", "lock", "wait", "dead"}
                => taken[q] = <<>> /\ retries[q] = 0
          /\ worker[q] = "connect" => taken[q] # <<>>
          /\ worker[q] \in {"ssl", "send"} => retries[q] = 0

\* The last record that is in the batch or beyond, or has been refused.
Entered == IF pending = 0 THEN calls ELSE calls - 1

Held(q) == HeldIn(received[q], taken[q], head[q], BatchFor(q))

\* The lists of queue q are in order, and until client_stop every record has
\* its one place.
QueueOK(q) ==
    /\ Ordered(received[q], taken[q], head[q], BatchFor(q))
    /\ Held(q) \subseteq 1..Entered
    /\ Early => Partition(Held(q), refused, Waiting, dropped[q], leaked[q], calls)

QueuesOK == \A q \in Queues : QueueOK(q)

\* The records of queue q that a worker is through with.
Done(q) == Len(received[q]) + Cardinality(dropped[q] \cup leaked[q])

\* The sockets a worker may have lost: inform_retry - 1 for each record it is
\* through with or has connected for, and all but the last of the attempts of
\* the round it is in.
LossAllowed(q) ==
    IF worker[q] = "connect"
    THEN (InformRetry - 1) * Done(q) + IF retries[q] = 0 THEN 0 ELSE retries[q] - 1
    ELSE (InformRetry - 1) * (Done(q) + Len(taken[q]))

SocketsOK(q) ==
    /\ worker[q] \in {"none", "lock", "wait"} => ~sockfd[q]
    /\ worker[q] = "connect" /\ retries[q] = 0 => ~sockfd[q]
    /\ InformRetry = 0 => lost[q] = 0
    /\ InformRetry > 0 => lost[q] <= LossAllowed(q)

SocketsCounted == Early => \A q \in Queues : SocketsOK(q)

IInv == TypeOK /\ Control /\ QueuesOK /\ SocketsCounted

-----------------------------------------------------------------------------
(* Types and control *)

\* The elements of a list of records are records, and its head is one.
LEMMA ListOfRecords ==
    ASSUME NEW s \in Seq(Records)
    PROVE  /\ Elems(s) \subseteq Records
           /\ s # <<>> => Head(s) \in Records /\ Tail(s) \in Seq(Records)
  BY DEF Elems

\* Every step keeps the types.
LEMMA TypeStep ==
    ASSUME TypeOK, [Next]_vars
    PROVE  TypeOK'
<1> USE DEF TypeOK, client, peers, sockets, stopping
<1>1. CASE client_queue_record
  <2>1. calls + 1 \in Records /\ calls' \in 0..MaxRecords
    BY <1>1, ClientConfig DEF client_queue_record, Records
  <2>2. temp' \in Seq(Records) /\ Len(temp') <= BatchLen
    <3>1. CASE temp' = temp
      BY <3>1
    <3>2. CASE temp' = Append(temp, calls + 1) /\ Len(temp) < BatchLen
      <4>1. temp' \in Seq(Records) /\ Len(temp') = Len(temp) + 1 /\ Len(temp) \in Nat
        BY <2>1, <3>2
      <4>2. QED BY <3>2, <4>1, ClientConfig
    <3>3. QED BY <1>1, <3>1, <3>2 DEF client_queue_record
  <2>3. refused' \subseteq Records /\ pending' \in Records \cup {0}
    BY <1>1, <2>1 DEF client_queue_record
  <2>4. flush' \in 0..(NumQueues + 1)
    BY <1>1, ClientConfig DEF client_queue_record
  <2>5. QED BY <1>1, <2>1, <2>2, <2>3, <2>4 DEF client_queue_record
<1>2. CASE client_queue_flush
  <2>1. flush' \in 0..(NumQueues + 1)
    BY <1>2, ClientConfig DEF client_queue_flush
  <2>2. QED BY <1>2, <2>1 DEF client_queue_flush
<1>3. CASE FlushEnd
  <2>1. temp' \in Seq(Records) /\ Len(temp') <= BatchLen
    <3>1. CASE temp' = <<>>
      BY <3>1, ClientConfig
    <3>2. CASE temp' = <<pending>> /\ pending # 0
      BY <3>2, ClientConfig
    <3>3. QED BY <1>3, <3>1, <3>2 DEF FlushEnd
  <2>2. refused' \subseteq Records /\ pending' \in Records \cup {0}
    BY <1>3 DEF FlushEnd
  <2>3. misuse' \in BOOLEAN
    BY <1>3 DEF FlushEnd
  <2>4. flush' \in 0..(NumQueues + 1)
    BY <1>3, ClientConfig DEF FlushEnd
  <2>5. QED BY <1>3, <2>1, <2>2, <2>3, <2>4 DEF FlushEnd
<1>4. ASSUME NEW q \in Queues, client_queue_append(q)
      PROVE  TypeOK'
  <2>1. head' \in [Queues -> Seq(Records)]
    <3>1. head[q] \o temp \in Seq(Records)
      OBVIOUS
    <3>2. QED BY <1>4, <3>1 DEF client_queue_append
  <2>2. flush' \in 0..(NumQueues + 1)
    BY <1>4, ClientConfig DEF client_queue_append, Queues
  <2>3. worker' \in [Queues -> {"none", "lock", "wait", "connect", "ssl", "send",
                                "dead"}]
    BY <1>4 DEF client_queue_append
  <2>4. misuse' \in BOOLEAN
    BY <1>4 DEF client_queue_append
  <2>5. QED BY <1>4, <2>1, <2>2, <2>3, <2>4 DEF client_queue_append
<1>5. ASSUME NEW q \in Queues, WorkerWait(q) \/ WorkerWakesUp(q)
      PROVE  TypeOK'
  BY <1>5 DEF WorkerWait, WorkerWakesUp, Goto
<1>6. ASSUME NEW q \in Queues, WorkerTake(q)
      PROVE  TypeOK'
  <2>1. <<>> \in Seq(Records)
    OBVIOUS
  <2>2. taken' \in [Queues -> Seq(Records)] /\ head' \in [Queues -> Seq(Records)]
    BY <1>6, <2>1 DEF WorkerTake
  <2>3. QED BY <1>6, <2>2 DEF WorkerTake, Goto
<1>7. ASSUME NEW q \in Queues, WorkerConnect(q)
      PROVE  TypeOK'
  <2>1. sockfd' \in [Queues -> BOOLEAN]
    BY <1>7 DEF WorkerConnect
  <2>2. lost' \in [Queues -> Nat]
    BY <1>7 DEF WorkerConnect
  <2>3. retries' \in [Queues -> 0..InformRetry]
    <3>1. retries[q] + 1 \in 0..InformRetry /\ 0 \in 0..InformRetry
      BY <1>7, ClientConfig DEF WorkerConnect
    <3>2. QED BY <1>7, <3>1 DEF WorkerConnect
  <2>4. worker' \in [Queues -> {"none", "lock", "wait", "connect", "ssl", "send",
                                "dead"}]
    BY <1>7 DEF WorkerConnect, Goto
  <2>5. QED BY <1>7, <2>1, <2>2, <2>3, <2>4 DEF WorkerConnect
<1>8. ASSUME NEW q \in Queues,
             WorkerGiveUp(q) \/ WorkerSSL(q) \/ WorkerCancelled(q)
      PROVE  TypeOK'
  <2>1. /\ Elems(taken[q]) \subseteq Records /\ Elems(head[q]) \subseteq Records
        /\ <<>> \in Seq(Records) /\ 0 \in 0..InformRetry
    BY ListOfRecords, ClientConfig
  <2>2. taken' \in [Queues -> Seq(Records)]
    BY <1>8, <2>1 DEF WorkerGiveUp, WorkerSSL, WorkerCancelled
  <2>3. dropped' \in [Queues -> SUBSET Records] /\ leaked' \in [Queues -> SUBSET Records]
    <3>1. /\ dropped[q] \cup Elems(taken[q]) \in SUBSET Records
          /\ dropped[q] \cup Elems(head[q]) \in SUBSET Records
          /\ leaked[q] \cup Elems(taken[q]) \in SUBSET Records
      BY <2>1
    <3>2. \/ dropped' = [dropped EXCEPT ![q] = @ \cup Elems(taken[q])]
          \/ dropped' = [dropped EXCEPT ![q] = @ \cup Elems(head[q])]
          \/ dropped' = dropped
      BY <1>8 DEF WorkerGiveUp, WorkerSSL, WorkerCancelled
    <3>3. leaked' = [leaked EXCEPT ![q] = @ \cup Elems(taken[q])] \/ leaked' = leaked
      BY <1>8 DEF WorkerGiveUp, WorkerSSL, WorkerCancelled
    <3>4. QED BY <3>1, <3>2, <3>3
  <2>4. retries' \in [Queues -> 0..InformRetry] /\ sockfd' \in [Queues -> BOOLEAN]
    <3>1. retries' \in [Queues -> 0..InformRetry]
      BY <1>8, <2>1 DEF WorkerGiveUp, WorkerSSL, WorkerCancelled
    <3>2. sockfd' = sockfd \/ sockfd' = [sockfd EXCEPT ![q] = FALSE]
      BY <1>8 DEF WorkerGiveUp, WorkerSSL, WorkerCancelled, Close
    <3>3. QED BY <3>1, <3>2
  <2>5. worker' \in [Queues -> {"none", "lock", "wait", "connect", "ssl", "send",
                                "dead"}]
    BY <1>8 DEF WorkerGiveUp, WorkerSSL, WorkerCancelled, Goto
  <2>6. UNCHANGED <<client, head, lost, received, stopping>>
    BY <1>8 DEF WorkerGiveUp, WorkerSSL, WorkerCancelled, Close
  <2>7. QED BY <2>2, <2>3, <2>4, <2>5, <2>6
<1>9. ASSUME NEW q \in Queues, WorkerSend(q)
      PROVE  TypeOK'
  <2>1. Head(taken[q]) \in Records /\ Tail(taken[q]) \in Seq(Records)
    BY <1>9, ListOfRecords DEF WorkerSend
  <2>2. Append(received[q], Head(taken[q])) \in Seq(Records)
    BY <2>1
  <2>3. taken' \in [Queues -> Seq(Records)]
    BY <1>9, <2>1 DEF WorkerSend
  <2>4. received' \in [Queues -> Seq(Records)]
    BY <1>9, <2>2 DEF WorkerSend
  <2>5. dropped' \in [Queues -> SUBSET Records]
    <3>1. dropped[q] \cup {Head(taken[q])} \in SUBSET Records
      BY <2>1
    <3>2. QED BY <1>9, <3>1 DEF WorkerSend
  <2>6. QED BY <1>9, <2>3, <2>4, <2>5 DEF WorkerSend
<1>10. ASSUME NEW q \in Queues, WorkerClose(q)
       PROVE  TypeOK'
  BY <1>10 DEF WorkerClose, Goto, Close
<1>11. ASSUME NEW q \in Queues, client_queue_destroy(q)
       PROVE  TypeOK'
  <2>1. destroyed' \in 0..NumQueues
    BY <1>11, ClientConfig DEF client_queue_destroy, Queues
  <2>2. QED BY <1>11, <2>1 DEF client_queue_destroy
<1>12. CASE client_start
  <2>1. temp' \in Seq(Records) /\ Len(temp') <= BatchLen
    BY <1>12, ClientConfig DEF client_start
  <2>2. QED BY <1>12, <2>1 DEF client_start
<1>13. CASE BeginStop
  BY <1>13 DEF BeginStop
<1>14. CASE client_stop
  BY <1>14 DEF client_stop
<1>15. CASE UNCHANGED vars
  BY <1>15 DEF vars
<1>16. QED
  BY <1>1, <1>2, <1>3, <1>4, <1>5, <1>6, <1>7, <1>8, <1>9, <1>10, <1>11, <1>12,
     <1>13, <1>14, <1>15 DEF Next, Work

\* Every step keeps Control.
LEMMA ControlStep ==
    ASSUME TypeOK, Control, [Next]_vars
    PROVE  Control'
<1> USE ClientConfig DEF TypeOK, Control, Early, client, peers, sockets, stopping
<1>1. CASE client_queue_record
  BY <1>1 DEF client_queue_record
<1>2. CASE client_queue_flush
  BY <1>2 DEF client_queue_flush
<1>3. CASE FlushEnd
  BY <1>3 DEF FlushEnd
<1>4. ASSUME NEW q \in Queues, client_queue_append(q)
      PROVE  Control'
  <2>1. q # 0 /\ q + 1 # 0 /\ main # "start"
    <3>1. q \in Nat /\ q # 0 /\ q + 1 # 0
      BY ClientConfig DEF Queues
    <3>2. flush = q
      BY <1>4 DEF client_queue_append
    <3>3. QED BY <3>1, <3>2
  <2>2. worker' = worker \/ (worker[q] = "wait" /\ worker' = [worker EXCEPT ![q] = "lock"])
    BY <1>4 DEF client_queue_append
  <2>3. UNCHANGED <<client_started, main, pending, calls, destroyed, taken, retries>>
    BY <1>4 DEF client_queue_append
  <2>4. flush' # 0
    BY <1>4, <2>1 DEF client_queue_append
  <2>5. QED BY <2>1, <2>2, <2>3, <2>4
<1>5. ASSUME NEW q \in Queues, WorkerWait(q) \/ WorkerWakesUp(q)
      PROVE  Control'
  <2>1. /\ worker[q] \in {"lock", "wait"}
        /\ \E pc \in {"lock", "wait"} : worker' = [worker EXCEPT ![q] = pc]
    BY <1>5 DEF WorkerWait, WorkerWakesUp, Goto, At
  <2>2. UNCHANGED <<client, main, destroyed, taken, retries>>
    BY <1>5 DEF WorkerWait, WorkerWakesUp
  <2>3. QED BY <2>1, <2>2
<1>6. ASSUME NEW q \in Queues, WorkerTake(q)
      PROVE  Control'
  BY <1>6 DEF WorkerTake, Goto, At
<1>7. ASSUME NEW q \in Queues, WorkerConnect(q)
      PROVE  Control'
  BY <1>7 DEF WorkerConnect, Goto, At
<1>8. ASSUME NEW q \in Queues, WorkerGiveUp(q)
      PROVE  Control'
  BY <1>8 DEF WorkerGiveUp, Goto, At
<1>9. ASSUME NEW q \in Queues, WorkerSSL(q)
      PROVE  Control'
  BY <1>9, SMTT(30) DEF WorkerSSL, Goto, At
<1>10. ASSUME NEW q \in Queues, WorkerSend(q)
       PROVE  Control'
  BY <1>10 DEF WorkerSend, At
<1>11. ASSUME NEW q \in Queues, WorkerClose(q)
       PROVE  Control'
  BY <1>11 DEF WorkerClose, Goto, At
<1>12. ASSUME NEW q \in Queues, WorkerCancelled(q)
       PROVE  Control'
  BY <1>12 DEF WorkerCancelled, Goto
<1>13. ASSUME NEW q \in Queues, client_queue_destroy(q)
       PROVE  Control'
  BY <1>13 DEF client_queue_destroy
<1>14. CASE client_start
  BY <1>14 DEF client_start
<1>15. CASE BeginStop
  BY <1>15 DEF BeginStop
<1>16. CASE client_stop
  BY <1>16 DEF client_stop
<1>17. CASE UNCHANGED vars
  BY <1>17 DEF vars
<1>18. QED
  BY <1>1, <1>2, <1>3, <1>4, <1>5, <1>6, <1>7, <1>8, <1>9, <1>10, <1>11, <1>12,
     <1>13, <1>14, <1>15, <1>16, <1>17 DEF Next, Work

-----------------------------------------------------------------------------
(* The way of the records *)

\* The lists of records are lists of numbers, and numbers come after 0.
LEMMA ListTypes ==
    ASSUME TypeOK, NEW q \in Queues
    PROVE  /\ q \in Nat /\ q >= 1 /\ q <= NumQueues
           /\ calls \in Nat /\ NumQueues \in Nat
           /\ received[q] \in Seq(Nat) /\ taken[q] \in Seq(Nat)
           /\ head[q] \in Seq(Nat) /\ temp \in Seq(Nat) /\ BatchFor(q) \in Seq(Nat)
<1>1. Records \subseteq Nat
  BY ClientConfig DEF Records
<1>2. Seq(Records) \subseteq Seq(Nat)
  BY <1>1, SeqMonotonic
<1>3. /\ received[q] \in Seq(Nat) /\ taken[q] \in Seq(Nat)
      /\ head[q] \in Seq(Nat) /\ temp \in Seq(Nat)
  BY <1>2 DEF TypeOK
<1>4. BatchFor(q) \in Seq(Nat)
  BY <1>3 DEF BatchFor
<1>5. q \in Nat /\ q >= 1 /\ q <= NumQueues /\ calls \in Nat /\ NumQueues \in Nat
  BY ClientConfig DEF Queues, TypeOK
<1>6. QED BY <1>3, <1>4, <1>5

\* A step that does not touch queue k.
LEMMA QueueSame ==
    ASSUME NEW k \in Queues, QueueOK(k),
           received'[k] = received[k], taken'[k] = taken[k], head'[k] = head[k],
           dropped'[k] = dropped[k], leaked'[k] = leaked[k],
           BatchFor(k)' = BatchFor(k), UNCHANGED <<pending, calls, refused>>,
           Early' => Early
    PROVE  QueueOK(k)'
<1>1. Held(k)' = Held(k)
  BY DEF Held
<1>2. Entered' = Entered /\ Waiting' = Waiting
  BY DEF Entered, Waiting
<1>3. QED BY <1>1, <1>2 DEF QueueOK

\* client_queue_record: refused, into the batch, or waiting for a flush.
LEMMA RecordStep ==
    ASSUME TypeOK, Control, NEW k \in Queues, QueueOK(k), client_queue_record
    PROVE  QueueOK(k)'
<1> DEFINE r == received[k]
           t == taken[k]
           h == head[k]
           e == calls + 1
<1>1. /\ k \in Nat /\ k >= 1 /\ calls \in Nat
      /\ r \in Seq(Nat) /\ t \in Seq(Nat) /\ h \in Seq(Nat) /\ temp \in Seq(Nat)
  BY ListTypes
<1>2. /\ flush = 0 /\ pending = 0 /\ Waiting = {} /\ Entered = calls
      /\ BatchFor(k) = temp
  BY <1>1 DEF client_queue_record, Control, Waiting, Entered, BatchFor
<1>3. /\ calls' = e /\ e \in Nat
      /\ UNCHANGED <<main, received, taken, head, dropped, leaked>>
  BY <1>1 DEF client_queue_record, peers, stopping
<1>4. Early' = Early
  BY <1>3 DEF Early
<1>5. /\ Ordered(r, t, h, temp) /\ Held(k) \subseteq 1..calls
      /\ Held(k) = HeldIn(r, t, h, temp)
      /\ Early => Partition(Held(k), refused, {}, dropped[k], leaked[k], calls)
  BY <1>2 DEF QueueOK, Held
<1>6. 1..calls \subseteq 1..e /\ \A n \in 1..calls : n < e
  BY <1>1
<1> HIDE DEF r, t, h
<1>7. CASE refused' = refused \cup {e} /\ UNCHANGED <<temp, flush, pending>>
  <2>1. /\ BatchFor(k)' = temp /\ Entered' = e /\ Waiting' = {}
    BY <1>1, <1>2, <1>3, <1>7 DEF BatchFor, Entered, Waiting
  <2>2. Held(k)' = Held(k)
    BY <1>2, <1>3, <2>1 DEF Held
  <2>3. Early => Partition(Held(k), refused', {}, dropped[k], leaked[k], e)
    BY <1>1, <1>5, <1>7, PartitionMoves
  <2>4. QED
    BY <1>3, <1>4, <1>5, <1>6, <2>1, <2>2, <2>3 DEF QueueOK, r, t, h
<1>8. CASE temp' = Append(temp, e) /\ UNCHANGED <<refused, flush, pending>>
  <2>1. /\ BatchFor(k)' = Append(temp, e) /\ Entered' = e /\ Waiting' = {}
    BY <1>1, <1>2, <1>3, <1>8 DEF BatchFor, Entered, Waiting
  <2>2. Below(HeldIn(r, t, h, temp), {e})
    BY <1>5, <1>6 DEF Below
  <2>3. Ordered(r, t, h, Append(temp, e))
    BY <1>1, <1>3, <1>5, <2>2, OrderedMoves
  <2>4. Elems(Append(temp, e)) = Elems(temp) \cup {e}
    BY <1>1, <1>3, ElemsAppend
  <2>5. Held(k)' = Held(k) \cup {e}
    BY <1>3, <1>5, <2>1, <2>4 DEF Held, HeldIn, r, t, h
  <2>6. Early => Partition(Held(k) \cup {e}, refused, {}, dropped[k], leaked[k], e)
    BY <1>1, <1>5, PartitionMoves
  <2>7. Held(k)' \subseteq 1..e
    BY <1>1, <1>5, <1>6, <2>5
  <2>8. QED
    BY <1>3, <1>4, <1>8, <2>1, <2>3, <2>5, <2>6, <2>7 DEF QueueOK, r, t, h
<1>9. CASE flush' = 1 /\ pending' = e /\ UNCHANGED <<temp, refused>>
  <2>1. /\ BatchFor(k)' = temp /\ Entered' = calls /\ Waiting' = {e}
    BY <1>1, <1>3, <1>9 DEF BatchFor, Entered, Waiting
  <2>2. Held(k)' = Held(k)
    BY <1>2, <1>3, <2>1 DEF Held
  <2>3. Early => Partition(Held(k), refused, {e}, dropped[k], leaked[k], e)
    BY <1>1, <1>5, PartitionMoves
  <2>4. QED
    BY <1>3, <1>4, <1>5, <1>9, <2>1, <2>2, <2>3 DEF QueueOK, r, t, h
<1>10. QED BY <1>7, <1>8, <1>9 DEF client_queue_record

\* The end of a flush: the waiting record starts the next batch, or is refused.
LEMMA FlushEndStep ==
    ASSUME TypeOK, Control, NEW k \in Queues, QueueOK(k), FlushEnd
    PROVE  QueueOK(k)'
<1> DEFINE r == received[k]
           t == taken[k]
           h == head[k]
<1>1. /\ k \in Nat /\ k <= NumQueues /\ NumQueues \in Nat /\ calls \in Nat
      /\ r \in Seq(Nat) /\ t \in Seq(Nat) /\ h \in Seq(Nat)
  BY ListTypes
<1>2. BatchFor(k) = <<>> /\ BatchFor(k)' = temp'
  <2>1. k >= 1
    BY ListTypes
  <2>2. QED BY <1>1, <2>1 DEF FlushEnd, BatchFor
<1>3. UNCHANGED <<main, calls, received, taken, head, dropped, leaked>> /\ pending' = 0
  BY DEF FlushEnd, peers
<1>4. Early' = Early /\ Waiting' = {} /\ Entered' = calls
  BY <1>3 DEF Early, Waiting, Entered
<1> HIDE DEF r, t, h
<1>5. CASE pending = 0
  <2>1. temp' = <<>> /\ refused' = refused
    BY <1>5 DEF FlushEnd
  <2>2. QED BY <1>2, <1>3, <1>4, <1>5, <2>1, QueueSame
<1>6. CASE pending # 0
  <2>1. Waiting = {calls} /\ Entered = calls - 1 /\ pending = calls /\ calls > 0
    BY <1>1, <1>6 DEF Waiting, Entered, Control
  <2>2. /\ Ordered(r, t, h, <<>>) /\ Held(k) \subseteq 1..(calls - 1)
        /\ Held(k) = HeldIn(r, t, h, <<>>)
        /\ Early => Partition(Held(k), refused, {calls}, dropped[k], leaked[k], calls)
    BY <1>2, <2>1 DEF QueueOK, Held, r, t, h
  <2>3. 1..(calls - 1) \subseteq 1..calls /\ \A n \in 1..(calls - 1) : n < calls
    BY <1>1
  <2>4. CASE client_started
    <3>1. temp' = <<calls>> /\ refused' = refused
      BY <1>6, <2>1, <2>4 DEF FlushEnd
    <3>2. Append(<<>>, calls) = <<calls>> /\ <<>> \in Seq(Nat)
      BY <1>1
    <3>3. Below(HeldIn(r, t, h, <<>>), {calls})
      BY <2>2, <2>3 DEF Below
    <3>4. Ordered(r, t, h, <<calls>>)
      BY <1>1, <2>2, <3>2, <3>3, OrderedMoves
    <3>5. Elems(<<calls>>) = {calls} /\ Elems(<<>>) = {}
      BY DEF Elems
    <3>6. Held(k)' = Held(k) \cup {calls}
      BY <1>2, <1>3, <2>2, <3>1, <3>5 DEF Held, HeldIn, r, t, h
    <3>7. Early => Partition(Held(k) \cup {calls}, refused, {}, dropped[k],
                             leaked[k], calls)
      BY <1>1, <2>2, PartitionMoves
    <3>8. Held(k)' \subseteq 1..calls
      BY <1>1, <2>1, <2>2, <2>3, <3>6
    <3>9. QED
      BY <1>2, <1>3, <1>4, <3>1, <3>4, <3>6, <3>7, <3>8 DEF QueueOK, r, t, h
  <2>5. CASE ~client_started
    <3>1. temp' = <<>> /\ refused' = refused \cup {calls}
      BY <1>6, <2>1, <2>5 DEF FlushEnd
    <3>2. Held(k)' = Held(k)
      BY <1>2, <1>3, <3>1 DEF Held
    <3>3. Early => Partition(Held(k), refused \cup {calls}, {}, dropped[k],
                             leaked[k], calls)
      BY <1>1, <2>2, PartitionMoves
    <3>4. QED
      BY <1>2, <1>3, <1>4, <2>2, <2>3, <3>1, <3>2, <3>3 DEF QueueOK, r, t, h
  <2>6. QED BY <2>4, <2>5
<1>7. QED BY <1>5, <1>6

\* client_queue_append: the batch moves to the queue, or is lost to a queue
\* that client_stop has freed.
LEMMA AppendStep ==
    ASSUME TypeOK, Control, NEW k \in Queues, QueueOK(k),
           NEW q \in Queues, client_queue_append(q)
    PROVE  QueueOK(k)'
<1> DEFINE r == received[k]
           t == taken[k]
           h == head[k]
<1>1. /\ k \in Nat /\ k >= 1 /\ q \in Nat /\ q >= 1 /\ calls \in Nat
      /\ r \in Seq(Nat) /\ t \in Seq(Nat) /\ h \in Seq(Nat) /\ temp \in Seq(Nat)
  BY ListTypes
<1>2. /\ UNCHANGED <<main, temp, calls, pending, refused, received, taken, dropped,
                     leaked>>
      /\ flush = q /\ flush' = q + 1
  BY DEF client_queue_append, peers
<1>3. Early' = Early /\ Entered' = Entered /\ Waiting' = Waiting
  BY <1>2 DEF Early, Entered, Waiting
<1>4. CASE k # q
  <2>1. BatchFor(k)' = BatchFor(k)
    BY <1>1, <1>2, <1>4 DEF BatchFor
  <2>2. head'[k] = head[k]
    BY <1>4 DEF client_queue_append, TypeOK
  <2>3. QED BY <1>2, <1>3, <2>1, <2>2, QueueSame
<1>5. CASE k = q
  <2>1. BatchFor(k) = temp /\ BatchFor(k)' = <<>>
    BY <1>1, <1>2, <1>5 DEF BatchFor
  <2>2. Ordered(r, t, h, temp) /\ Held(k) = HeldIn(r, t, h, temp)
    BY <2>1 DEF QueueOK, Held
  <2>3. Elems(<<>>) = {}
    BY DEF Elems
  <2> HIDE DEF r, t, h
  <2>4. CASE q <= destroyed \/ (worker[q] = "dead" /\ head[q] # <<>>)
    <3>1. head' = head
      BY <2>4 DEF client_queue_append
    <3>2. ~Early
      BY <1>1, <2>4 DEF Control
    <3>3. Ordered(r, t, h, <<>>)
      BY <1>1, <2>2, OrderedMoves
    <3>4. Held(k)' \subseteq Held(k)
      BY <1>2, <2>1, <2>2, <2>3, <3>1 DEF Held, HeldIn, r, t, h
    <3>5. QED BY <1>2, <1>3, <2>1, <3>1, <3>2, <3>3, <3>4 DEF QueueOK, r, t, h
  <2>5. CASE ~(q <= destroyed \/ (worker[q] = "dead" /\ head[q] # <<>>))
    <3>1. head'[k] = h \o temp
      BY <1>5, <2>5 DEF client_queue_append, TypeOK, h
    <3>2. Ordered(r, t, h \o temp, <<>>)
      BY <1>1, <2>2, OrderedMoves
    <3>3. Elems(h \o temp) = Elems(h) \cup Elems(temp)
      BY <1>1, ElemsConcat
    <3>4. Held(k)' = Held(k)
      BY <1>2, <2>1, <2>2, <2>3, <3>1, <3>3 DEF Held, HeldIn, r, t
    <3>5. QED BY <1>2, <1>3, <2>1, <3>1, <3>2, <3>4 DEF QueueOK, r, t
  <2>6. QED BY <2>4, <2>5
<1>6. QED BY <1>4, <1>5

\* What the worker of another queue does leaves queue k alone.
LEMMA OtherWorker ==
    ASSUME TypeOK, NEW k \in Queues, QueueOK(k), NEW q \in Queues, k # q,
           Work(q) \/ WorkerWakesUp(q) \/ WorkerCancelled(q)
    PROVE  QueueOK(k)'
<1>1. /\ received'[k] = received[k] /\ taken'[k] = taken[k] /\ head'[k] = head[k]
      /\ dropped'[k] = dropped[k] /\ leaked'[k] = leaked[k]
  <2>1. CASE WorkerWait(q) \/ WorkerWakesUp(q) \/ WorkerTake(q)
    BY <2>1 DEF WorkerWait, WorkerWakesUp, WorkerTake, peers, TypeOK
  <2>2. CASE WorkerConnect(q) \/ WorkerGiveUp(q) \/ WorkerSSL(q)
    BY <2>2 DEF WorkerConnect, WorkerGiveUp, WorkerSSL, peers, TypeOK
  <2>3. CASE WorkerSend(q) \/ WorkerClose(q) \/ WorkerCancelled(q)
    BY <2>3 DEF WorkerSend, WorkerClose, WorkerCancelled, peers, TypeOK
  <2>4. QED BY <2>1, <2>2, <2>3 DEF Work
<1>2. UNCHANGED <<client, main>>
  BY DEF Work, WorkerWait, WorkerWakesUp, WorkerTake, WorkerConnect, WorkerGiveUp,
         WorkerSSL, WorkerSend, WorkerClose, WorkerCancelled, stopping
<1>3. BatchFor(k)' = BatchFor(k) /\ (Early' => Early)
  BY <1>2 DEF client, BatchFor, Early
<1>4. QED BY <1>1, <1>2, <1>3, QueueSame DEF client

\* What a worker does with its own queue: it takes the queue, sends or drops an
\* entry, or loses what it has taken.
LEMMA OwnWorker ==
    ASSUME TypeOK, Control, NEW q \in Queues, QueueOK(q),
           Work(q) \/ WorkerWakesUp(q) \/ WorkerCancelled(q)
    PROVE  QueueOK(q)'
<1> DEFINE r == received[q]
           t == taken[q]
           h == head[q]
           b == BatchFor(q)
<1>1. /\ calls \in Nat /\ r \in Seq(Nat) /\ t \in Seq(Nat) /\ h \in Seq(Nat)
      /\ b \in Seq(Nat)
  BY ListTypes
<1>2. UNCHANGED <<client, main>>
  BY DEF Work, WorkerWait, WorkerWakesUp, WorkerTake, WorkerConnect, WorkerGiveUp,
         WorkerSSL, WorkerSend, WorkerClose, WorkerCancelled, stopping
<1>3. /\ b' = b /\ Early' = Early /\ Entered' = Entered /\ Waiting' = Waiting
      /\ refused' = refused /\ calls' = calls
  BY <1>2 DEF client, BatchFor, Early, Entered, Waiting
<1>4. /\ Ordered(r, t, h, b) /\ Held(q) \subseteq 1..Entered
      /\ Held(q) = HeldIn(r, t, h, b)
      /\ Early => Partition(Held(q), refused, Waiting, dropped[q], leaked[q], calls)
  BY DEF QueueOK, Held
<1>5. Elems(<<>>) = {}
  BY DEF Elems
<1> HIDE DEF r, t, h, b
<1>6. /\ Elems(t) \cap (Elems(r) \cup Elems(h) \cup Elems(b)) = {}
      /\ t # <<>> => /\ Head(t) \notin Elems(Tail(t))
                     /\ Elems(t) = {Head(t)} \cup Elems(Tail(t))
  BY <1>1, <1>4, OrderedApart
<1>7. CASE WorkerWait(q) \/ WorkerWakesUp(q) \/ WorkerConnect(q) \/ WorkerClose(q)
  <2>1. UNCHANGED <<received, taken, head, dropped, leaked>>
    BY <1>7 DEF WorkerWait, WorkerWakesUp, WorkerConnect, WorkerClose, peers
  <2>2. QED BY <1>2, <1>3, <2>1, QueueSame DEF client, b
<1>8. CASE WorkerTake(q)
  <2>1. t = <<>>
    BY <1>8 DEF WorkerTake, At, Control, t
  <2>2. /\ received'[q] = r /\ taken'[q] = h /\ head'[q] = <<>>
        /\ dropped'[q] = dropped[q] /\ leaked'[q] = leaked[q]
    BY <1>8 DEF WorkerTake, peers, TypeOK, r, h
  <2>3. Ordered(r, h, <<>>, b)
    BY <1>1, <1>4, <2>1, OrderedMoves
  <2>4. Held(q)' = Held(q)
    BY <1>3, <1>4, <1>5, <2>1, <2>2 DEF Held, HeldIn, b
  <2>5. QED BY <1>3, <1>4, <2>2, <2>3, <2>4 DEF QueueOK, b
<1>9. CASE WorkerGiveUp(q)
  <2>1. /\ received'[q] = r /\ taken'[q] = <<>> /\ head'[q] = h
        /\ dropped'[q] = dropped[q] \cup Elems(t) /\ leaked'[q] = leaked[q]
    BY <1>9 DEF WorkerGiveUp, TypeOK, r, t, h
  <2>2. Ordered(r, <<>>, h, b)
    BY <1>1, <1>4, OrderedMoves
  <2>3. Held(q)' = Held(q) \ Elems(t) /\ Elems(t) \in SUBSET Held(q)
    BY <1>3, <1>4, <1>5, <1>6, <2>1 DEF Held, HeldIn, b
  <2>4. Early => Partition(Held(q) \ Elems(t), refused, Waiting,
                           dropped[q] \cup Elems(t), leaked[q], calls)
    BY <1>1, <1>4, <2>3, PartitionMoves
  <2>5. QED BY <1>3, <1>4, <2>1, <2>2, <2>3, <2>4 DEF QueueOK, b
<1>10. CASE WorkerSSL(q) /\ worker' = [worker EXCEPT ![q] = "send"]
  <2>1. UNCHANGED <<received, taken, head, dropped, leaked>>
    <3>1. worker'[q] = "send" /\ worker'[q] # "lock"
      BY <1>10 DEF TypeOK
    <3>2. [worker EXCEPT ![q] = "lock"][q] = "lock"
      BY DEF TypeOK
    <3>3. QED BY <1>10, <3>1, <3>2 DEF WorkerSSL, Goto
  <2>2. QED BY <1>2, <1>3, <2>1, QueueSame DEF client, b
<1>11. CASE WorkerSSL(q) /\ worker' = [worker EXCEPT ![q] = "lock"]
  <2>1. /\ received'[q] = r /\ taken'[q] = <<>> /\ head'[q] = h
        /\ dropped'[q] = dropped[q] /\ leaked'[q] = leaked[q] \cup Elems(t)
    <3>1. worker'[q] = "lock" /\ worker'[q] # "send"
      BY <1>11 DEF TypeOK
    <3>2. [worker EXCEPT ![q] = "send"][q] = "send"
      BY DEF TypeOK
    <3>3. QED BY <1>11, <3>1, <3>2 DEF WorkerSSL, Goto, TypeOK, r, t, h
  <2>2. Ordered(r, <<>>, h, b)
    BY <1>1, <1>4, OrderedMoves
  <2>3. Held(q)' = Held(q) \ Elems(t) /\ Elems(t) \in SUBSET Held(q)
    BY <1>3, <1>4, <1>5, <1>6, <2>1 DEF Held, HeldIn, b
  <2>4. Early => Partition(Held(q) \ Elems(t), refused, Waiting, dropped[q],
                           leaked[q] \cup Elems(t), calls)
    BY <1>1, <1>4, <2>3, PartitionMoves
  <2>5. QED BY <1>3, <1>4, <2>1, <2>2, <2>3, <2>4 DEF QueueOK, b
<1>12. CASE WorkerSend(q)
  <2>1. t # <<>> /\ taken'[q] = Tail(t) /\ head'[q] = h /\ leaked'[q] = leaked[q]
    BY <1>12 DEF WorkerSend, TypeOK, t, h
  <2>2. /\ Ordered(Append(r, Head(t)), Tail(t), h, b)
        /\ Ordered(r, Tail(t), h, b)
    BY <1>1, <1>4, <2>1, OrderedMoves
  <2>3. Head(t) \in Nat /\ Elems(Append(r, Head(t))) = Elems(r) \cup {Head(t)}
    BY <1>1, <2>1, ElemsTail, ElemsAppend
  <2>4. CASE received'[q] = Append(r, Head(t)) /\ dropped' = dropped
    <3>1. Held(q)' = Held(q)
      BY <1>3, <1>4, <1>6, <2>1, <2>3, <2>4 DEF Held, HeldIn, b
    <3>2. QED BY <1>3, <1>4, <2>1, <2>2, <2>4, <3>1 DEF QueueOK, b
  <2>5. CASE received'[q] = r /\ dropped'[q] = dropped[q] \cup {Head(t)}
    <3>1. Held(q)' = Held(q) \ {Head(t)} /\ {Head(t)} \in SUBSET Held(q)
      BY <1>3, <1>4, <1>6, <2>1, <2>5 DEF Held, HeldIn, b
    <3>2. Early => Partition(Held(q) \ {Head(t)}, refused, Waiting,
                             dropped[q] \cup {Head(t)}, leaked[q], calls)
      BY <1>1, <1>4, <3>1, PartitionMoves
    <3>3. QED BY <1>3, <1>4, <2>1, <2>2, <2>5, <3>1, <3>2 DEF QueueOK, b
  <2>6. QED BY <1>12, <2>4, <2>5 DEF WorkerSend, TypeOK, r, t
<1>13. CASE WorkerCancelled(q)
  <2>1. received'[q] = r /\ taken'[q] = <<>> /\ head'[q] = h
    BY <1>13 DEF WorkerCancelled, TypeOK, r, h
  <2>2. Ordered(r, <<>>, h, b)
    BY <1>1, <1>4, OrderedMoves
  <2>3. Held(q)' \subseteq Held(q)
    BY <1>3, <1>4, <1>5, <2>1 DEF Held, HeldIn, b
  <2>4. ~Early
    BY <1>13 DEF WorkerCancelled, Early
  <2>5. QED BY <1>3, <1>4, <2>1, <2>2, <2>3, <2>4 DEF QueueOK, b
<1>14. WorkerSSL(q) => \/ worker' = [worker EXCEPT ![q] = "send"]
                       \/ worker' = [worker EXCEPT ![q] = "lock"]
  BY DEF WorkerSSL, Goto
<1>15. QED
  BY <1>7, <1>8, <1>9, <1>10, <1>11, <1>12, <1>13, <1>14 DEF Work

\* Every step keeps the lists of every queue in order and every record in its
\* one place.
LEMMA QueuesStep ==
    ASSUME TypeOK, Control, QueuesOK, [Next]_vars
    PROVE  QueuesOK'
<1> SUFFICES ASSUME NEW k \in Queues
             PROVE  QueueOK(k)'
  BY DEF QueuesOK
<1>1. QueueOK(k)
  BY DEF QueuesOK
<1>2. CASE client_queue_record
  BY <1>1, <1>2, RecordStep
<1>3. CASE FlushEnd
  BY <1>1, <1>3, FlushEndStep
<1>4. ASSUME NEW q \in Queues, client_queue_append(q)
      PROVE  QueueOK(k)'
  BY <1>1, <1>4, AppendStep
<1>5. ASSUME NEW q \in Queues, Work(q) \/ WorkerWakesUp(q) \/ WorkerCancelled(q)
      PROVE  QueueOK(k)'
  <2>1. CASE k = q
    BY <1>1, <1>5, <2>1, OwnWorker
  <2>2. CASE k # q
    BY <1>1, <1>5, <2>2, OtherWorker
  <2>3. QED BY <2>1, <2>2
<1>6. CASE client_queue_flush \/ client_start
  <2>1. /\ UNCHANGED <<pending, calls, refused, received, taken, head, dropped, leaked>>
        /\ Early' => Early
    BY <1>6 DEF client_queue_flush, client_start, peers, stopping, Early
  <2>2. BatchFor(k)' = BatchFor(k)
    <3>1. k \in Nat /\ k >= 1
      BY ListTypes
    <3>2. flush = 0 /\ temp' = temp /\ flush' \in {0, 1}
      BY <1>6 DEF client_queue_flush, client_start, Control
    <3>3. QED BY <3>1, <3>2 DEF BatchFor
  <2>3. QED BY <1>1, <2>1, <2>2, QueueSame
<1>7. CASE \/ \E q \in Queues : client_queue_destroy(q)
           \/ BeginStop \/ client_stop \/ UNCHANGED vars
  <2>1. /\ UNCHANGED <<temp, flush, pending, calls, refused, received, taken, head,
                       dropped, leaked>>
        /\ Early' => Early
    BY <1>7 DEF client_queue_destroy, BeginStop, client_stop, vars, client, peers,
                stopping, Early
  <2>2. BatchFor(k)' = BatchFor(k)
    BY <2>1 DEF BatchFor
  <2>3. QED BY <1>1, <2>1, <2>2, QueueSame
<1>8. QED BY <1>2, <1>3, <1>4, <1>5, <1>6, <1>7 DEF Next

-----------------------------------------------------------------------------
(* The sockets of a worker *)

\* Records is finite, and so is every set of records.
LEMMA RecordsFinite ==
    ASSUME NEW S \in SUBSET Records
    PROVE  IsFiniteSet(S) /\ Cardinality(S) \in Nat
<1>1. IsFiniteSet(Records)
  BY ClientConfig, FS_Interval DEF Records
<1>2. QED BY <1>1, FS_Subset, FS_CardinalityType

\* Records that a worker lets go of are new among those it is through with.
LEMMA DoneGrows ==
    ASSUME NEW A \in SUBSET Records, NEW S \in SUBSET Records, A \cap S = {}
    PROVE  Cardinality(A \cup S) = Cardinality(A) + Cardinality(S)
<1>1. /\ IsFiniteSet(A) /\ IsFiniteSet(S) /\ Cardinality(A) \in Nat
      /\ Cardinality(S) \in Nat
  BY RecordsFinite
<1>2. Cardinality(A \cup S) = Cardinality(A) + Cardinality(S) - Cardinality(A \cap S)
  BY <1>1, FS_Union
<1>3. Cardinality(A \cap S) = 0
  BY FS_EmptySet
<1>4. QED BY <1>1, <1>2, <1>3

\* A factor distributes over the two parts of a count.
LEMMA Distributes ==
    ASSUME NEW c \in Nat, NEW n \in Nat, NEW m \in Nat
    PROVE  /\ c * n \in Nat /\ c * (n + m) \in Nat
           /\ c * (n + m) = c * n + c * m
           /\ m >= 1 => c * (n + m) >= c * n + c
<1>1. c * n \in Nat /\ c * m \in Nat /\ c * (n + m) = c * n + c * m
  OBVIOUS
<1>2. m >= 1 => c * m >= c
  OBVIOUS
<1>3. QED BY <1>1, <1>2

\* What a worker has taken comes after the records it is through with, and has
\* as many records as places.
LEMMA TakenCounted ==
    ASSUME TypeOK, NEW q \in Queues, QueueOK(q), Early
    PROVE  /\ Done(q) \in Nat /\ Len(received[q]) \in Nat /\ Len(taken[q]) \in Nat
           /\ dropped[q] \in SUBSET Records /\ leaked[q] \in SUBSET Records
           /\ Elems(taken[q]) \in SUBSET Records
           /\ Cardinality(Elems(taken[q])) = Len(taken[q])
           /\ (dropped[q] \cup leaked[q]) \cap Elems(taken[q]) = {}
<1>1. taken[q] \in Seq(Nat) /\ received[q] \in Seq(Nat)
  BY ListTypes
<1>2. Cardinality(Elems(taken[q])) = Len(taken[q])
  BY <1>1, RisingCardinality DEF QueueOK, Ordered
<1>3. dropped[q] \in SUBSET Records /\ leaked[q] \in SUBSET Records
  BY DEF TypeOK
<1>4. Elems(taken[q]) \in SUBSET Records
  BY ListOfRecords DEF TypeOK
<1>5. (dropped[q] \cup leaked[q]) \cap Elems(taken[q]) = {}
  BY DEF QueueOK, Partition, Held, HeldIn
<1>6. Cardinality(dropped[q] \cup leaked[q]) \in Nat
  BY <1>3, RecordsFinite
<1>7. QED BY <1>1, <1>2, <1>3, <1>4, <1>5, <1>6 DEF Done

\* A step that leaves the sockets and the counts of queue k alone.
LEMMA SocketsSame ==
    ASSUME NEW k \in Queues, SocketsOK(k),
           \/ worker'[k] = worker[k]
           \/ /\ worker[k] \in {"none", "lock", "wait"}
              /\ worker'[k] \in {"lock", "wait"},
           taken'[k] = taken[k], received'[k] = received[k],
           dropped'[k] = dropped[k], leaked'[k] = leaked[k],
           sockfd'[k] = sockfd[k], lost'[k] = lost[k], retries'[k] = retries[k]
    PROVE  SocketsOK(k)'
<1>1. Done(k)' = Done(k)
  BY DEF Done
<1>2. LossAllowed(k)' = LossAllowed(k)
  BY <1>1 DEF LossAllowed
<1>3. QED BY <1>2 DEF SocketsOK

\* What a worker does to its own sockets.
LEMMA SocketsOwn ==
    ASSUME TypeOK, Control, Early, NEW q \in Queues, QueueOK(q), SocketsOK(q), Work(q)
    PROVE  SocketsOK(q)'
<1> DEFINE c == InformRetry - 1
           n == Done(q)
           m == Len(taken[q])
           l == lost[q]
           k == retries[q]
<1>1. /\ n \in Nat /\ m \in Nat /\ l \in Nat /\ k \in 0..InformRetry
      /\ InformRetry \in Nat
  BY TakenCounted, ClientConfig DEF TypeOK
<1>2. InformRetry > 0 => /\ c \in Nat /\ c * n \in Nat /\ c * (n + m) \in Nat
                         /\ m >= 1 => c * (n + m) >= c * n + c
  <2>1. InformRetry > 0 => c \in Nat
    BY <1>1
  <2> HIDE DEF c, n, m
  <2>2. QED BY <1>1, <2>1, Distributes
<1>3. taken[q] # <<>> => m >= 1
  BY DEF TypeOK
<1>4. m = 0 => Elems(taken[q]) = {}
  BY DEF TypeOK, Elems
<1>5. Len(<<>>) = 0 /\ n + 0 = n
  BY <1>1
<1>6. CASE WorkerWait(q)
  BY <1>6, SocketsSame DEF WorkerWait, At, Goto, peers, sockets, TypeOK
<1>7. CASE WorkerTake(q)
  <2>1. /\ worker[q] = "lock" /\ worker'[q] = "connect" /\ taken[q] = <<>>
        /\ retries'[q] = 0 /\ sockfd'[q] = sockfd[q] /\ lost'[q] = l
        /\ Done(q)' = n
    BY <1>7 DEF WorkerTake, At, Goto, Control, peers, sockets, TypeOK, Done
  <2>2. ~sockfd[q] /\ (InformRetry > 0 => l <= c * (n + m)) /\ m = 0
    BY <1>5, <2>1 DEF SocketsOK, LossAllowed
  <2>3. LossAllowed(q)' = c * n + 0
    BY <2>1 DEF LossAllowed
  <2> HIDE DEF c, n, m, l
  <2>4. InformRetry > 0 => l <= c * n + 0
    BY <1>1, <1>2, <2>2
  <2>5. InformRetry = 0 => l = 0
    BY DEF SocketsOK, l
  <2>6. QED BY <2>1, <2>2, <2>3, <2>4, <2>5 DEF SocketsOK
<1>8. CASE WorkerConnect(q)
  <2>1. /\ worker[q] = "connect" /\ taken'[q] = taken[q] /\ taken[q] # <<>>
        /\ Done(q)' = n /\ k < InformRetry
        /\ lost'[q] = IF sockfd[q] THEN l + 1 ELSE l
    BY <1>8 DEF WorkerConnect, At, Control, peers, TypeOK, Done
  <2>2. InformRetry > 0 /\ k <= c
    BY <1>1, <2>1
  <2>3. l <= c * n + (IF k = 0 THEN 0 ELSE k - 1) /\ (k = 0 => ~sockfd[q])
    BY <2>1, <2>2 DEF SocketsOK, LossAllowed
  <2>4. lost'[q] <= c * n + k
    <3> HIDE DEF c, n, l, k
    <3>1. k \in Nat /\ c * n \in Nat
      BY <1>1, <1>2, <2>2
    <3>2. CASE k = 0
      BY <1>1, <2>1, <2>3, <3>1, <3>2
    <3>3. CASE k # 0
      BY <1>1, <2>1, <2>3, <3>1, <3>3
    <3>4. QED BY <3>2, <3>3
  <2>5. CASE worker' = [worker EXCEPT ![q] = "ssl"]
    <3>1. worker'[q] = "ssl"
      BY <2>5 DEF TypeOK
    <3>2. LossAllowed(q)' = c * (n + m)
      BY <2>1, <3>1 DEF LossAllowed
    <3> HIDE DEF c, n, m, k
    <3>3. lost'[q] \in Nat
      BY <1>1, <2>1
    <3>4. lost'[q] <= c * (n + m)
      BY <1>1, <1>2, <1>3, <2>1, <2>2, <2>4, <3>3
    <3>5. QED BY <2>2, <3>1, <3>2, <3>4, <1>1 DEF SocketsOK
  <2>6. CASE worker' = worker /\ retries' = [retries EXCEPT ![q] = @ + 1]
    <3>1. worker'[q] = "connect" /\ retries'[q] = k + 1 /\ k + 1 # 0 /\ (k + 1) - 1 = k
      <4>1. worker'[q] = "connect" /\ retries'[q] = k + 1
        BY <2>1, <2>6 DEF TypeOK
      <4> HIDE DEF k
      <4>2. k + 1 # 0 /\ (k + 1) - 1 = k
        BY <1>1
      <4>3. QED BY <4>1, <4>2
    <3>2. LossAllowed(q)' = c * n + k
      BY <2>1, <3>1 DEF LossAllowed
    <3> HIDE DEF c, n, m, k
    <3>3. QED BY <1>1, <2>2, <2>4, <3>1, <3>2 DEF SocketsOK
  <2>7. QED BY <1>8, <2>5, <2>6 DEF WorkerConnect, Goto
<1>9. CASE WorkerGiveUp(q)
  <2>1. /\ worker[q] = "connect" /\ worker'[q] = "lock" /\ taken'[q] = <<>>
        /\ taken[q] # <<>> /\ k >= InformRetry /\ lost'[q] = l /\ ~sockfd'[q]
        /\ received'[q] = received[q] /\ leaked'[q] = leaked[q]
        /\ dropped'[q] = dropped[q] \cup Elems(taken[q])
    BY <1>9 DEF WorkerGiveUp, At, Goto, Close, Control, TypeOK
  <2>2. k = InformRetry
    BY <1>1, <2>1
  <2>3. Done(q)' = n + m
    <3>1. dropped'[q] \cup leaked'[q] = (dropped[q] \cup leaked[q]) \cup Elems(taken[q])
      BY <2>1
    <3>2. Cardinality(dropped'[q] \cup leaked'[q])
            = Cardinality(dropped[q] \cup leaked[q]) + m
      BY <3>1, TakenCounted, DoneGrows
    <3>3. Cardinality(dropped[q] \cup leaked[q]) \in Nat /\ Len(received[q]) \in Nat
      BY TakenCounted, RecordsFinite
    <3>4. QED BY <1>1, <2>1, <3>2, <3>3 DEF Done
  <2>4. LossAllowed(q)' = c * ((n + m) + 0)
    BY <2>1, <2>3 DEF LossAllowed
  <2>5. (n + m) + 0 = n + m
    BY <1>1
  <2>6. InformRetry > 0 => l <= c * n + c
    BY <1>1, <2>1, <2>2 DEF SocketsOK, LossAllowed
  <2>7. InformRetry = 0 => l = 0
    BY DEF SocketsOK
  <2> HIDE DEF c, n, m, l, k
  <2>8. InformRetry > 0 => l <= c * (n + m)
    BY <1>1, <1>2, <1>3, <2>1, <2>6
  <2>9. QED BY <2>1, <2>4, <2>5, <2>7, <2>8 DEF SocketsOK
<1>10. CASE WorkerSSL(q) /\ worker' = [worker EXCEPT ![q] = "send"]
  <2>1. /\ worker[q] = "ssl" /\ worker'[q] = "send"
        /\ [worker EXCEPT ![q] = "lock"][q] = "lock"
    BY <1>10 DEF WorkerSSL, At, TypeOK
  <2>2. UNCHANGED <<taken, leaked, sockfd, lost, retries, received, dropped>>
    BY <1>10, <2>1 DEF WorkerSSL, Goto, sockets
  <2>3. Done(q)' = Done(q)
    BY <2>2 DEF Done
  <2>4. LossAllowed(q)' = LossAllowed(q)
    BY <2>1, <2>2, <2>3 DEF LossAllowed
  <2>5. QED BY <2>1, <2>2, <2>4 DEF SocketsOK
<1>11. CASE WorkerSSL(q) /\ worker' = [worker EXCEPT ![q] = "lock"]
  <2>1. /\ worker[q] = "ssl" /\ worker'[q] = "lock"
        /\ [worker EXCEPT ![q] = "send"][q] = "send"
    BY <1>11 DEF WorkerSSL, At, TypeOK
  <2>2. /\ taken'[q] = <<>> /\ lost'[q] = l /\ ~sockfd'[q]
        /\ received'[q] = received[q] /\ dropped'[q] = dropped[q]
        /\ leaked'[q] = leaked[q] \cup Elems(taken[q])
    BY <1>11, <2>1 DEF WorkerSSL, Goto, Close, TypeOK
  <2>3. Done(q)' = n + m
    <3>1. dropped'[q] \cup leaked'[q] = (dropped[q] \cup leaked[q]) \cup Elems(taken[q])
      BY <2>2
    <3>2. Cardinality(dropped'[q] \cup leaked'[q])
            = Cardinality(dropped[q] \cup leaked[q]) + m
      BY <3>1, TakenCounted, DoneGrows
    <3>3. Cardinality(dropped[q] \cup leaked[q]) \in Nat /\ Len(received[q]) \in Nat
      BY TakenCounted, RecordsFinite
    <3>4. QED BY <1>1, <2>2, <3>2, <3>3 DEF Done
  <2>4. LossAllowed(q)' = c * ((n + m) + 0)
    BY <2>1, <2>2, <2>3 DEF LossAllowed
  <2>5. (n + m) + 0 = n + m
    BY <1>1
  <2>6. LossAllowed(q) = c * (n + m)
    BY <2>1 DEF LossAllowed
  <2> HIDE DEF c, n, m
  <2>7. QED BY <2>1, <2>2, <2>4, <2>5, <2>6 DEF SocketsOK
<1>12. CASE WorkerSend(q)
  <2>1. /\ worker[q] = "send" /\ worker'[q] = "send" /\ taken[q] # <<>>
        /\ taken'[q] = Tail(taken[q]) /\ lost'[q] = l
        /\ leaked'[q] = leaked[q]
    BY <1>12 DEF WorkerSend, At, sockets, TypeOK
  <2>2. Len(taken'[q]) = m - 1 /\ Head(taken[q]) \in Elems(taken[q])
    BY <2>1 DEF TypeOK, Elems
  <2>3. Done(q)' = n + 1
    <3> DEFINE d == Cardinality(dropped[q] \cup leaked[q])
    <3>1. d \in Nat /\ Len(received[q]) \in Nat
      BY TakenCounted, RecordsFinite
    <3>2. CASE /\ received' = [received EXCEPT ![q] = Append(@, Head(taken[q]))]
               /\ dropped' = dropped
      <4>1. Len(received'[q]) = Len(received[q]) + 1
        BY <2>2, <3>2, ListOfRecords DEF TypeOK
      <4>2. QED BY <2>1, <3>1, <3>2, <4>1 DEF Done
    <3>3. CASE /\ dropped' = [dropped EXCEPT ![q] = @ \cup {Head(taken[q])}]
               /\ received' = received
      <4>1. dropped'[q] \cup leaked'[q] = (dropped[q] \cup leaked[q]) \cup {Head(taken[q])}
        BY <2>1, <3>3 DEF TypeOK
      <4>2. /\ Head(taken[q]) \notin dropped[q] \cup leaked[q]
            /\ IsFiniteSet(dropped[q] \cup leaked[q])
        BY <2>2, TakenCounted, RecordsFinite
      <4>3. Cardinality(dropped'[q] \cup leaked'[q]) = d + 1
        BY <4>1, <4>2, FS_AddElement
      <4>4. QED BY <3>1, <3>3, <4>3 DEF Done
    <3>4. QED BY <1>12, <3>2, <3>3 DEF WorkerSend
  <2>4. LossAllowed(q)' = c * ((n + 1) + (m - 1)) /\ LossAllowed(q) = c * (n + m)
    BY <2>1, <2>2, <2>3 DEF LossAllowed
  <2>5. (n + 1) + (m - 1) = n + m
    BY <1>1
  <2> HIDE DEF c, n, m
  <2>6. QED BY <2>1, <2>4, <2>5 DEF SocketsOK
<1>13. CASE WorkerClose(q)
  <2>1. /\ worker[q] = "send" /\ worker'[q] = "lock" /\ taken'[q] = taken[q]
        /\ lost'[q] = l /\ ~sockfd'[q] /\ Done(q)' = Done(q)
    BY <1>13 DEF WorkerClose, At, Goto, Close, peers, TypeOK, Done
  <2>2. LossAllowed(q)' = LossAllowed(q)
    BY <2>1 DEF LossAllowed
  <2>3. QED BY <2>1, <2>2 DEF SocketsOK
<1>14. WorkerSSL(q) => \/ worker' = [worker EXCEPT ![q] = "send"]
                       \/ worker' = [worker EXCEPT ![q] = "lock"]
  BY DEF WorkerSSL, Goto
<1>15. QED
  BY <1>6, <1>7, <1>8, <1>9, <1>10, <1>11, <1>12, <1>13, <1>14 DEF Work

\* Every step keeps the sockets of every worker counted.
LEMMA SocketsStep ==
    ASSUME TypeOK, Control, QueuesOK, SocketsCounted, [Next]_vars
    PROVE  SocketsCounted'
<1> SUFFICES ASSUME Early', NEW k \in Queues
             PROVE  SocketsOK(k)'
  BY DEF SocketsCounted
<1>1. Early
  BY DEF Early, Next, client_queue_record, client_queue_flush, FlushEnd,
         client_queue_append, Work, WorkerWait, WorkerWakesUp, WorkerTake,
         WorkerConnect, WorkerGiveUp, WorkerSSL, WorkerSend, WorkerClose,
         WorkerCancelled, client_queue_destroy, client_start, BeginStop,
         client_stop, vars, stopping
<1>2. SocketsOK(k) /\ QueueOK(k)
  BY <1>1 DEF SocketsCounted, QueuesOK
<1>3. ASSUME NEW q \in Queues, Work(q) \/ WorkerWakesUp(q)
      PROVE  SocketsOK(k)'
  <2>1. CASE k = q /\ Work(q)
    BY <1>1, <1>2, <2>1, SocketsOwn
  <2>2. CASE k # q \/ WorkerWakesUp(q)
    <3>1. /\ taken'[k] = taken[k] /\ received'[k] = received[k]
          /\ dropped'[k] = dropped[k] /\ leaked'[k] = leaked[k]
      <4>1. CASE WorkerWait(q) \/ WorkerWakesUp(q) \/ WorkerTake(q)
        BY <2>2, <4>1 DEF WorkerWait, WorkerWakesUp, WorkerTake, At, peers, TypeOK
      <4>2. CASE WorkerConnect(q) \/ WorkerClose(q)
        BY <2>2, <4>2 DEF WorkerConnect, WorkerClose, peers
      <4>3. CASE k # q /\ (WorkerGiveUp(q) \/ WorkerSSL(q) \/ WorkerSend(q))
        BY <4>3 DEF WorkerGiveUp, WorkerSSL, WorkerSend, TypeOK
      <4>4. CASE WorkerWakesUp(q)
        BY <4>4 DEF WorkerWakesUp, peers
      <4>5. QED BY <1>3, <2>2, <4>1, <4>2, <4>3, <4>4 DEF Work
    <3>2. sockfd'[k] = sockfd[k] /\ lost'[k] = lost[k] /\ retries'[k] = retries[k]
      <4>1. CASE WorkerWakesUp(q)
        BY <4>1 DEF WorkerWakesUp, sockets
      <4>2. CASE k # q /\ Work(q)
        BY <4>2 DEF Work, WorkerWait, WorkerTake, WorkerConnect, WorkerGiveUp,
                    WorkerSSL, WorkerSend, WorkerClose, Close, sockets, TypeOK
      <4>3. QED BY <1>3, <2>2, <4>1, <4>2
    <3>3. \/ worker'[k] = worker[k]
          \/ worker[k] \in {"none", "lock", "wait"} /\ worker'[k] \in {"lock", "wait"}
      <4>1. CASE k = q /\ WorkerWakesUp(q)
        BY <4>1 DEF WorkerWakesUp, At, Goto, TypeOK
      <4>2. CASE k # q
        BY <1>3, <4>2 DEF Work, WorkerWait, WorkerWakesUp, WorkerTake,
             WorkerConnect, WorkerGiveUp, WorkerSSL, WorkerSend, WorkerClose, Goto,
             TypeOK
      <4>3. QED BY <2>2, <4>1, <4>2
    <3>4. QED BY <1>2, <3>1, <3>2, <3>3, SocketsSame
  <2>3. QED BY <1>3, <2>1, <2>2
<1>4. ASSUME NEW q \in Queues, client_queue_append(q)
      PROVE  SocketsOK(k)'
  <2>1. UNCHANGED <<taken, received, dropped, leaked, sockfd, lost, retries>>
    BY <1>4 DEF client_queue_append, peers, sockets
  <2>2. \/ worker'[k] = worker[k]
        \/ worker[k] = "wait" /\ worker'[k] = "lock"
    BY <1>4 DEF client_queue_append, TypeOK
  <2>3. QED BY <1>2, <2>1, <2>2, SocketsSame
<1>5. CASE client_start
  <2>1. UNCHANGED <<taken, received, dropped, leaked, sockfd, lost, retries>>
    BY <1>5 DEF client_start, peers, sockets
  <2>2. worker[k] = "none" /\ worker'[k] = "lock"
    BY <1>5 DEF client_start, Control
  <2>3. QED BY <1>2, <2>1, <2>2, SocketsSame
<1>6. ASSUME NEW q \in Queues, WorkerCancelled(q) \/ client_queue_destroy(q)
      PROVE  FALSE
  BY <1>1, <1>6 DEF WorkerCancelled, client_queue_destroy, Early
<1>7. CASE \/ client_queue_record \/ client_queue_flush \/ FlushEnd
           \/ BeginStop \/ client_stop \/ UNCHANGED vars
  <2>1. UNCHANGED <<worker, taken, received, dropped, leaked, sockfd, lost, retries>>
    BY <1>7 DEF client_queue_record, client_queue_flush, FlushEnd, BeginStop,
                client_stop, vars, peers, sockets
  <2>2. QED BY <1>2, <2>1, SocketsSame
<1>8. QED BY <1>3, <1>4, <1>5, <1>6, <1>7 DEF Next

-----------------------------------------------------------------------------
(* The theorems *)

\* Before anything has happened.
LEMMA ClientInit ==
    ASSUME Init
    PROVE  IInv
<1>1. <<>> \in Seq(Records) /\ Len(<<>>) = 0 /\ Elems(<<>>) = {} /\ Rising(<<>>)
  BY DEF Elems, Rising
<1>2. TypeOK
  <2>1. client_started \in BOOLEAN /\ misuse \in BOOLEAN
    BY DEF Init
  <2>2. sockfd \in [Queues -> BOOLEAN]
    BY DEF Init
  <2>3. QED BY <1>1, <2>1, <2>2, ClientConfig DEF Init, TypeOK
<1>3. Control
  BY ClientConfig DEF Init, Control, Early, Queues
<1>4. ASSUME NEW q \in Queues
      PROVE  QueueOK(q)
  <2>1. /\ received[q] = <<>> /\ taken[q] = <<>> /\ head[q] = <<>>
        /\ BatchFor(q) = <<>> /\ dropped[q] = {} /\ leaked[q] = {}
        /\ refused = {} /\ Waiting = {} /\ calls = 0
    BY DEF Init, BatchFor, Waiting
  <2>2. Ordered(<<>>, <<>>, <<>>, <<>>)
    BY <1>1 DEF Ordered, Below
  <2>3. Held(q) = {}
    BY <1>1, <2>1 DEF Held, HeldIn
  <2>4. Partition({}, {}, {}, {}, {}, 0)
    BY DEF Partition
  <2>5. QED BY <2>1, <2>2, <2>3, <2>4 DEF QueueOK
<1>5. ASSUME NEW q \in Queues
      PROVE  SocketsOK(q)
  <2>1. /\ worker[q] = "none" /\ ~sockfd[q] /\ lost[q] = 0 /\ received[q] = <<>>
        /\ taken[q] = <<>> /\ dropped[q] \cup leaked[q] = {}
    BY DEF Init
  <2>2. Done(q) = 0
    <3>1. Cardinality(dropped[q] \cup leaked[q]) = 0
      BY <2>1, FS_EmptySet
    <3>2. Len(received[q]) = 0
      BY <1>1, <2>1
    <3>3. QED BY <3>1, <3>2 DEF Done
  <2>3. LossAllowed(q) = 0
    BY <1>1, <2>1, <2>2, ClientConfig DEF LossAllowed
  <2>4. QED BY <2>1, <2>3 DEF SocketsOK
<1>6. QED BY <1>2, <1>3, <1>4, <1>5 DEF IInv, QueuesOK, SocketsCounted

\* The inductive invariant of the client.
LEMMA ClientInvariant == Spec => []IInv
<1>1. Init => IInv
  BY ClientInit
<1>2. IInv /\ [Next]_vars => IInv'
  BY TypeStep, ControlStep, QueuesStep, SocketsStep DEF IInv
<1>3. QED BY <1>1, <1>2, PTL DEF Spec

\* The batch, the queues and the workers keep their types.
THEOREM ClientTypeOK == Spec => []TypeOK
<1>1. IInv => TypeOK
  BY DEF IInv
<1>2. QED BY <1>1, ClientInvariant, PTL

\* Until client_stop begins, each record handed to client_queue_record is in
\* exactly one place for every queue (client.c, clientqueue.c).
THEOREM NothingLostOrDoubledHolds == Spec => []NothingLostOrDoubled
<1>1. ASSUME IInv, main \in {"start", "follow"}, NEW q \in Queues
      PROVE  LET lists == received[q] \o taken[q] \o head[q] \o BatchFor(q)
                 sets  == <<refused, Waiting, dropped[q], leaked[q]>>
             IN  /\ \A i, j \in DOMAIN lists : lists[i] = lists[j] => i = j
                 /\ \A i, j \in DOMAIN sets : i # j => sets[i] \cap sets[j] = {}
                 /\ \A i \in DOMAIN sets : sets[i] \cap Elems(lists) = {}
                 /\ Elems(lists) \cup UNION Elems(sets) = 1..calls
  <2> DEFINE lists == received[q] \o taken[q] \o head[q] \o BatchFor(q)
             sets  == <<refused, Waiting, dropped[q], leaked[q]>>
             d == dropped[q]
             l == leaked[q]
  <2>1. QueueOK(q) /\ TypeOK
    BY <1>1 DEF IInv, QueuesOK
  <2>2. lists \in Seq(Nat) /\ Rising(lists) /\ Elems(lists) = Held(q)
    BY <2>1, ListTypes, OrderedLists DEF QueueOK, Held
  <2>3. Partition(Elems(lists), refused, Waiting, d, l, calls)
    BY <1>1, <2>1, <2>2 DEF QueueOK, Early
  <2> HIDE DEF lists, d, l
  <2>4. \A i, j \in DOMAIN lists : lists[i] = lists[j] => i = j
    <3> SUFFICES ASSUME NEW i \in DOMAIN lists, NEW j \in DOMAIN lists,
                        lists[i] = lists[j], i # j
                 PROVE  FALSE
      OBVIOUS
    <3>1. lists[i] \in Nat /\ lists[j] \in Nat /\ i \in Nat /\ j \in Nat
      BY <2>2
    <3>2. lists[i] < lists[j] \/ lists[j] < lists[i]
      BY <2>2, <3>1 DEF Rising
    <3>3. QED BY <3>1, <3>2
  <2>5. sets[1] = refused /\ sets[2] = Waiting /\ sets[3] = d /\ sets[4] = l
        /\ DOMAIN sets = 1..4
    BY DEF d, l
  <2> HIDE DEF sets
  <2>6. 1..4 = {1, 2, 3, 4}
    OBVIOUS
  <2>7. DOMAIN sets = {1, 2, 3, 4}
    BY <2>5, <2>6
  <2>8. \A i, j \in DOMAIN sets : i # j => sets[i] \cap sets[j] = {}
    BY <2>3, <2>5, <2>7 DEF Partition
  <2>9. \A i \in DOMAIN sets : sets[i] \cap Elems(lists) = {}
    BY <2>3, <2>5, <2>7 DEF Partition
  <2>10. Elems(sets) = {refused, Waiting, d, l}
    BY <2>5, <2>7 DEF Elems
  <2>11. Elems(lists) \cup UNION Elems(sets) = 1..calls
    BY <2>3, <2>10 DEF Partition
  <2>12. QED BY <2>4, <2>8, <2>9, <2>11 DEF lists, sets
<1>2. IInv => NothingLostOrDoubled
  BY <1>1 DEF NothingLostOrDoubled
<1>3. QED BY <1>2, ClientInvariant, PTL

\* A peer receives the records in the order of the calls, also while the client
\* is stopped (clientqueue.c).
THEOREM ReceivedInOrderHolds == Spec => []ReceivedInOrder
<1>1. IInv => ReceivedInOrder
  BY DEF IInv, QueuesOK, QueueOK, Ordered, Rising, ReceivedInOrder
<1>2. QED BY <1>1, ClientInvariant, PTL

\* A worker between two batches has no open socket in hand, and the descriptors
\* it has lost are bounded by the records it has taken (clientqueue.c).
THEOREM DescriptorLossBoundedHolds == Spec => []DescriptorLossBounded
<1>1. ASSUME IInv, main \in {"start", "follow"}, NEW q \in Queues
      PROVE  /\ worker[q] \in {"none", "lock", "wait"} => ~sockfd[q]
             /\ (lost[q] > 0) =>
                  lost[q] <= (InformRetry - 1) *
                               (Len(received[q]) + Len(taken[q])
                                + Cardinality(dropped[q] \cup leaked[q]))
  <2>1. TypeOK /\ Early /\ QueueOK(q) /\ SocketsOK(q) /\ Control
    BY <1>1 DEF IInv, QueuesOK, SocketsCounted, Early
  <2> DEFINE c == InformRetry - 1
             n == Done(q)
             m == Len(taken[q])
             d == Cardinality(dropped[q] \cup leaked[q])
             k == retries[q]
  <2>2. /\ n \in Nat /\ m \in Nat /\ lost[q] \in Nat /\ k \in 0..InformRetry
        /\ InformRetry \in Nat /\ Len(received[q]) \in Nat
    BY <2>1, TakenCounted, ClientConfig DEF TypeOK
  <2>3. d \in Nat
    BY <2>1, TakenCounted, RecordsFinite
  <2>4. n = Len(received[q]) + d
    BY DEF Done
  <2>5. Len(received[q]) + m + d = n + m
    <3> HIDE DEF n, m, d
    <3>1. QED BY <2>2, <2>3, <2>4
  <2>6. worker[q] = "connect" => m >= 1
    BY <2>1 DEF Control, TypeOK
  <2>7. ASSUME lost[q] > 0
        PROVE  lost[q] <= c * (n + m)
    <3>1. InformRetry > 0 /\ c \in Nat /\ lost[q] <= LossAllowed(q)
      BY <2>1, <2>2, <2>7 DEF SocketsOK
    <3>2. CASE worker[q] # "connect"
      BY <3>1, <3>2 DEF LossAllowed
    <3>3. CASE worker[q] = "connect"
      <4>1. lost[q] <= c * n + (IF k = 0 THEN 0 ELSE k - 1)
        BY <3>1, <3>3 DEF LossAllowed
      <4>2. (IF k = 0 THEN 0 ELSE k - 1) \in Nat /\ (IF k = 0 THEN 0 ELSE k - 1) <= c
        BY <2>2, <3>1
      <4>3. c * n \in Nat /\ c * (n + m) \in Nat /\ c * (n + m) >= c * n + c
        BY <2>2, <2>6, <3>1, <3>3, Distributes
      <4> DEFINE x == IF k = 0 THEN 0 ELSE k - 1
                 y == c * n
                 z == c * (n + m)
      <4> HIDE DEF c, n, m, k, x, y, z
      <4>4. /\ lost[q] <= y + x /\ x \in Nat /\ x <= c /\ y \in Nat /\ z \in Nat
            /\ z >= y + c /\ c \in Nat /\ lost[q] \in Nat
        BY <2>2, <3>1, <4>1, <4>2, <4>3 DEF x, y, z
      <4>5. lost[q] <= z
        BY <4>4
      <4>6. QED BY <4>5 DEF z
    <3>4. QED BY <3>2, <3>3
  <2>8. worker[q] \in {"none", "lock", "wait"} => ~sockfd[q]
    BY <2>1 DEF SocketsOK
  <2>9. QED BY <2>5, <2>7, <2>8
<1>2. IInv => DescriptorLossBounded
  BY <1>1 DEF DescriptorLossBounded
<1>3. QED BY <1>2, ClientInvariant, PTL
=============================================================================
