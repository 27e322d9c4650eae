---------------------------- MODULE FollowProofs ----------------------------
(***************************************************************************)
(* Proofs about Follow: for any number of lines and, but for the order,    *)
(* any number of files that are in turn the log file.                      *)
(*                                                                         *)
(* The files hold consecutive pieces, and the pieces of a newer file come  *)
(* after those of an older one (World).  A file is read from its start     *)
(* only after lastpos was the size of an older file than curpos was, so    *)
(* that each reading of a first line is paid for by a change of the file   *)
(* (Spending).                                                             *)
(***************************************************************************)
EXTENDS Follow, FiniteSetTheorems, SequenceTheorems, TLAPS

Sizes == 0..(2 * MaxLines + 1)

LEMMA Numbers == /\ MaxLines \in Nat /\ MaxFiles \in Nat /\ MaxFiles >= 1
                 /\ 1 \in Files /\ Files \subseteq Nat /\ 0 \notin Files
                 /\ Pieces \subseteq Nat /\ 0 \in Pieces
                 /\ 0 \in Sizes /\ 1 \in Sizes /\ Sizes \subseteq Nat
  BY FollowConfig DEF Files, Pieces, Sizes

\* What 2k is, and what comes after a number.
LEMMA Parity ==
    ASSUME NEW p \in Nat
    PROVE  /\ EndsLine(p) <=> ~EndsLine(p + 1)
           /\ EndsLine(p) => \E l \in Nat : p = 2 * l
           /\ EndsLine(p) <=> EndsLine(p + 2)
           /\ EndsLine(2 * p)
  BY DEF EndsLine

-----------------------------------------------------------------------------
(* The files *)

\* The pieces of a file are consecutive.
InARow(s) == \A i \in 1..Len(s) : s[i] = s[1] + (i - 1)

World ==
    /\ path \in {0, newest}
    /\ \A f \in Files : f > newest => content[f] = <<>>
    /\ \A f \in Files : Len(content[f]) <= written + 1
    /\ \A f \in Files : \A i \in 1..Len(content[f]) : content[f][i] <= written
    /\ \A f \in Files : InARow(content[f])
    /\ path # 0 /\ content[path] # <<>> => content[path][Len(content[path])] = written
    /\ \A f, g \in Files : f < g =>
          \A i \in 1..Len(content[f]), j \in 1..Len(content[g]) :
              content[f][i] < content[g][j]

\* The stream is somewhere in its file, unless that was emptied.
Within == ~emptied /\ file # 0 => offset <= Len(content[file])

Missing == pc = "fopen" => file = 0

TypeInv == TypeOK /\ World /\ Within /\ Missing

\* What a write appends.
New(w, n) == [i \in 1..n |-> w + i]

LEMMA Appended ==
    ASSUME NEW s \in Seq(Pieces), NEW w \in Pieces, NEW n \in {1, 2}, w + n \in Pieces,
           s # <<>> => s[Len(s)] = w, InARow(s)
    PROVE  /\ s \o New(w, n) \in Seq(Pieces)
           /\ Len(s \o New(w, n)) = Len(s) + n
           /\ s \o New(w, n) # <<>>
           /\ \A i \in 1..Len(s) : (s \o New(w, n))[i] = s[i]
           /\ \A k \in 1..n : (s \o New(w, n))[Len(s) + k] = w + k
           /\ InARow(s \o New(w, n))
<1>1. New(w, n) \in Seq(Pieces) /\ Len(New(w, n)) = n
  <2>1. \A i \in 1..n : w + i \in Pieces
    BY Numbers DEF Pieces
  <2>2. New(w, n) \in [1..n -> Pieces] /\ n \in Nat
    BY <2>1 DEF New
  <2>3. QED BY <2>2, LenProperties, IsASeq
<1>2. \A k \in 1..n : New(w, n)[k] = w + k
  BY DEF New
<1> DEFINE t == s \o New(w, n)
<1>3. /\ t \in Seq(Pieces) /\ Len(t) = Len(s) + n
      /\ \A i \in 1..(Len(s) + n) : t[i] = IF i <= Len(s) THEN s[i]
                                          ELSE New(w, n)[i - Len(s)]
  BY <1>1, ConcatProperties
<1> HIDE DEF t
<1>4. Len(s) \in Nat
  OBVIOUS
<1>5. \A i \in 1..Len(s) : t[i] = s[i]
  BY <1>3, <1>4
<1>6. \A k \in 1..n : t[Len(s) + k] = w + k
  <2>1. ASSUME NEW k \in 1..n
        PROVE  t[Len(s) + k] = w + k
    <3>1. /\ Len(s) + k \in 1..(Len(s) + n) /\ ~(Len(s) + k <= Len(s))
          /\ (Len(s) + k) - Len(s) = k
      BY <1>4
    <3>2. QED BY <1>2, <1>3, <3>1
  <2>2. QED BY <2>1
<1>7. t # <<>>
  BY <1>3, <1>4
<1>8. InARow(t)
  <2>1. ASSUME NEW i \in 1..Len(t)
        PROVE  t[i] = t[1] + (i - 1)
    <3>1. CASE Len(s) = 0
      <4>1. i \in 1..n /\ 1 \in 1..n /\ t[i] = w + i /\ t[1] = w + 1
        BY <1>3, <1>6, <3>1
      <4>2. QED BY <4>1, Numbers
    <3>2. CASE Len(s) # 0
      <4>1. 1 \in 1..Len(s) /\ Len(s) \in 1..Len(s)
        BY <1>4, <3>2
      <4>2. t[1] = s[1] /\ s[1] \in Nat
        <5>1. s[1] \in Pieces
          BY <4>1
        <5>2. QED BY <1>5, <4>1, <5>1, Numbers
      <4>3. w = s[1] + (Len(s) - 1)
        BY <3>2, <4>1 DEF InARow
      <4>4. CASE i <= Len(s)
        BY <1>4, <1>5, <4>2, <4>4 DEF InARow
      <4>5. CASE i > Len(s)
        <5>1. PICK k \in 1..n : i = Len(s) + k
          BY <1>3, <1>4, <4>5
        <5>2. t[i] = w + k
          BY <1>6, <5>1
        <5>3. k \in Nat /\ s[1] \in Nat /\ Len(s) \in Nat
          BY <1>4, <4>2
        <5>a. \A x, y \in Nat : (x + (y - 1)) + k = x + ((y + k) - 1)
          BY <5>3
        <5>b. w + k = s[1] + (i - 1)
          BY <4>3, <5>1, <5>3, <5>a
        <5>4. QED BY <4>2, <5>2, <5>b
      <4>6. i <= Len(s) \/ i > Len(s)
        BY <1>3, <1>4
      <4>7. QED BY <4>4, <4>5, <4>6
    <3>3. QED BY <3>1, <3>2
  <2>2. QED BY <2>1 DEF InARow
<1>9. QED BY <1>3, <1>5, <1>6, <1>7, <1>8 DEF t

LEMMA InitWorld == Init => TypeInv
<1> SUFFICES ASSUME Init PROVE TypeInv
  OBVIOUS
<1>1. /\ content[1] = <<0>> /\ newest = 1 /\ path = 1 /\ written = 0 /\ file = 1
      /\ offset = 1 /\ curpos = 1 /\ lastpos = 1 /\ BUFF = <<>> /\ matched = <<>>
      /\ emptied = FALSE /\ ferror = FALSE /\ failed = FALSE /\ pc = "stat" /\ stop = FALSE
  BY Numbers DEF Init
<1>2. content = [f \in Files |-> IF f = 1 THEN <<0>> ELSE <<>>]
  BY DEF Init
<1>3. \A f \in Files : f # 1 => content[f] = <<>>
  BY <1>2
<1>4. <<0>> \in Seq(Pieces) /\ <<>> \in Seq(Pieces) /\ <<>> \in Seq(Seq(Pieces))
  BY Numbers
<1>5. Len(<<0>>) = 1 /\ Len(<<>>) = 0 /\ <<0>>[1] = 0
  OBVIOUS
<1>6. TypeOK
  <2>1. content \in [Files -> Seq(Pieces)]
    BY <1>2, <1>4
  <2>2. newest \in Files /\ path \in Files \cup {0} /\ file \in Files \cup {0}
    BY <1>1, Numbers
  <2>3. written \in Pieces
    BY <1>1, Numbers
  <2>4. /\ offset \in 0..(2 * MaxLines + 1) /\ curpos \in 0..(2 * MaxLines + 1)
        /\ lastpos \in 0..(2 * MaxLines + 1)
    BY <1>1, Numbers DEF Sizes
  <2>5. BUFF \in Seq(Pieces) /\ matched \in Seq(Seq(Pieces))
    BY <1>1, <1>4
  <2>6. {ferror, failed} \subseteq BOOLEAN /\ stop \in BOOLEAN /\ emptied \in BOOLEAN
    BY <1>1
  <2>7. /\ pc \in {"stat", "fopen", "compare", "read", "sleep", "done"}
        /\ pc \in {"compare", "read"} => file # 0
    BY <1>1
  <2>8. QED BY <2>1, <2>2, <2>3, <2>4, <2>5, <2>6, <2>7 DEF TypeOK
<1>7. World
  <2>1. /\ path \in {0, newest}
        /\ \A f \in Files : f > newest => content[f] = <<>>
    BY <1>1, <1>3, Numbers
  <2>2. ASSUME NEW f \in Files
        PROVE  Len(content[f]) <= written + 1
    <3>1. Len(content[f]) \in {0, 1}
      BY <1>1, <1>3, <1>5
    <3>2. \A x \in {0, 1} : x <= written + 1
      BY <1>1
    <3>3. QED BY <3>1, <3>2
  <2>3. \A f \in Files : \A i \in 1..Len(content[f]) : content[f][i] <= written
    BY <1>1, <1>3, <1>5
  <2>4. \A f \in Files : InARow(content[f])
    BY <1>1, <1>3, <1>5 DEF InARow
  <2>5. path # 0 /\ content[path] # <<>> => content[path][Len(content[path])] = written
    BY <1>1, <1>5
  <2>6. ASSUME NEW f \in Files, NEW g \in Files, f < g
        PROVE  \A i \in 1..Len(content[f]), j \in 1..Len(content[g]) :
                   content[f][i] < content[g][j]
    <3>1. g # 1
      BY <2>6, Numbers DEF Files
    <3>2. QED BY <1>3, <1>5, <3>1
  <2>7. QED BY <2>1, <2>2, <2>3, <2>4, <2>5, <2>6 DEF World
<1>8. Within /\ Missing
  BY <1>1, <1>5 DEF Within, Missing
<1>9. QED BY <1>6, <1>7, <1>8 DEF TypeInv

\* What the steps of follow() leave.
LEMMA SameWorld ==
    ASSUME World, UNCHANGED world
    PROVE  World'
  BY DEF World, world

LEMMA SameStream ==
    ASSUME TypeOK, UNCHANGED <<stream, stop>>,
           content' \in [Files -> Seq(Pieces)], newest' \in Files, path' \in Files \cup {0},
           written' \in Pieces, emptied' \in BOOLEAN
    PROVE  TypeOK'
  BY DEF TypeOK, stream

LEMMA WriteStep ==
    ASSUME TypeInv, NEW n \in {1, 2}, Write(n)
    PROVE  TypeInv'
<1> USE DEF TypeInv
<1>1. /\ path # 0 /\ path = newest /\ path \in Files /\ written \in Pieces
      /\ written' = written + n /\ written' \in Pieces
      /\ path' = path /\ newest' = newest /\ emptied' = emptied /\ UNCHANGED <<stream, stop>>
  <2>1. written + n \in Pieces
    BY Numbers DEF Write, TypeOK, Pieces
  <2>2. QED BY <2>1 DEF Write, World, TypeOK
<1> DEFINE s == content[path]
           t == s \o New(written, n)
<1>2. content' = [content EXCEPT ![path] = t]
  BY DEF Write, New
<1>3. /\ t \in Seq(Pieces) /\ Len(t) = Len(s) + n /\ t # <<>>
      /\ \A i \in 1..Len(s) : t[i] = s[i]
      /\ \A k \in 1..n : t[Len(s) + k] = written + k
      /\ InARow(t) /\ s \in Seq(Pieces) /\ Len(s) \in Nat
  <2>1. s \in Seq(Pieces) /\ InARow(s) /\ (s # <<>> => s[Len(s)] = written)
    BY <1>1 DEF TypeOK, World
  <2>2. written + n \in Pieces
    BY <1>1
  <2>3. Len(s) \in Nat
    BY <2>1
  <2> HIDE DEF s
  <2>4. written \in Pieces
    BY <1>1
  <2>5. /\ t \in Seq(Pieces) /\ Len(t) = Len(s) + n /\ t # <<>>
        /\ \A i \in 1..Len(s) : t[i] = s[i]
    BY <2>1, <2>2, <2>4, Appended
  <2>6. (\A k \in 1..n : t[Len(s) + k] = written + k) /\ InARow(t)
    BY <2>1, <2>2, <2>4, Appended
  <2> HIDE DEF t
  <2>7. QED BY <2>1, <2>3, <2>5, <2>6
<1> HIDE DEF t
<1>4. /\ content'[path] = t
      /\ \A f \in Files : f # path => content'[f] = content[f]
      /\ content' \in [Files -> Seq(Pieces)]
  BY <1>1, <1>2, <1>3 DEF TypeOK
<1>5. TypeOK'
  BY <1>1, <1>4, SameStream DEF TypeOK
<1>6. /\ written \in Nat /\ written' \in Nat
      /\ \A v \in Nat : v <= written => v <= written'
      /\ \A v \in Nat : v <= written => \A k \in 1..n : v < written + k
      /\ \A k \in 1..n : written + k <= written'
  <2>1. written \in Nat /\ n \in Nat /\ written' = written + n
    BY <1>1, Numbers
  <2>2. QED BY <2>1
<1>7. \A i \in 1..Len(t) : i \in 1..Len(s) \/ \E k \in 1..n : i = Len(s) + k
  <2>1. ASSUME NEW i \in 1..Len(t), i \notin 1..Len(s)
        PROVE  \E k \in 1..n : i = Len(s) + k
    <3>1. i - Len(s) \in 1..n /\ i = Len(s) + (i - Len(s))
      BY <1>3, <2>1
    <3>2. QED BY <3>1
  <2>2. QED BY <2>1
<1>8. World'
  <2>1. ASSUME NEW f \in Files, f > newest'
        PROVE  content'[f] = <<>>
    <3>1. f # path
      BY <1>1, <2>1, Numbers
    <3>2. f > newest
      BY <1>1, <2>1
    <3>3. QED BY <1>4, <3>1, <3>2 DEF World
  <2>2. ASSUME NEW f \in Files
        PROVE  Len(content'[f]) <= written' + 1
    <3>1. Len(content[f]) <= written + 1 /\ Len(content[f]) \in Nat
      BY DEF World, TypeOK
    <3>2. QED BY <1>1, <1>3, <1>4, <1>6, <3>1
  <2>3. ASSUME NEW f \in Files, NEW i \in 1..Len(content'[f])
        PROVE  content'[f][i] <= written'
    <3>1. CASE f # path
      <4>0. i \in 1..Len(content[f])
        BY <1>4, <3>1
      <4>1. content[f][i] \in Pieces /\ content[f][i] <= written
        <5>1. content[f] \in Seq(Pieces)
          BY Zenon DEF TypeOK
        <5>2. content[f][i] <= written
          BY <4>0, Zenon DEF World
        <5>3. QED BY <4>0, <5>1, <5>2, ElementOfSeq, Zenon
      <4>2. content[f][i] <= written'
        BY <1>6, <4>1, Numbers
      <4>3. QED BY <1>4, <3>1, <4>2
    <3>2. CASE f = path /\ i \in 1..Len(s)
      <4>1. s[i] \in Pieces /\ s[i] <= written
        BY <1>1, <1>3, <3>2 DEF World
      <4>2. t[i] <= written'
        BY <1>3, <1>6, <3>2, <4>1, Numbers
      <4>3. QED BY <1>4, <3>2, <4>2
    <3>3. CASE f = path /\ \E k \in 1..n : i = Len(s) + k
      <4>1. PICK k \in 1..n : i = Len(s) + k
        BY <3>3
      <4>2. content'[f][i] = written + k
        BY <1>3, <1>4, <3>3, <4>1
      <4>3. QED BY <1>6, <4>2
    <3>4. QED BY <1>4, <1>7, <3>1, <3>2, <3>3
  <2>4. \A f \in Files : InARow(content'[f])
    BY <1>3, <1>4 DEF World
  <2>5. content'[path'][Len(content'[path'])] = written'
    <3>1. n \in 1..n
      OBVIOUS
    <3>2. QED BY <1>1, <1>3, <1>4, <3>1
  <2>6. ASSUME NEW f \in Files, NEW g \in Files, f < g,
               NEW i \in 1..Len(content'[f]), NEW j \in 1..Len(content'[g])
        PROVE  content'[f][i] < content'[g][j]
    <3>1. content'[f] = content[f] /\ f # path
      <4>1. f = path => content'[g] = <<>>
        <5>1. f = path => g > newest' /\ g > newest
          BY <1>1, <2>6
        <5>2. QED BY <2>1, <5>1
      <4>2. f # path
        BY <4>1
      <4>3. QED BY <1>4, <4>2
    <3>2. content[f][i] \in Pieces /\ content[f][i] <= written
      <4>1. i \in 1..Len(content[f])
        BY <3>1
      <4>2. content[f] \in Seq(Pieces)
        BY DEF TypeOK
      <4>3. content[f][i] \in Pieces
        BY <4>1, <4>2
      <4>4. content[f][i] <= written
        BY <4>1 DEF World
      <4>5. QED BY <4>3, <4>4
    <3>3. CASE g # path
      BY <1>4, <2>6, <3>1, <3>3 DEF World
    <3>4. CASE g = path /\ j \in 1..Len(s)
      <4>1. content[f][i] < s[j]
        BY <2>6, <3>1, <3>4 DEF World
      <4>2. QED BY <1>3, <1>4, <3>1, <3>4, <4>1
    <3>5. CASE g = path /\ \E k \in 1..n : j = Len(s) + k
      <4>1. PICK k \in 1..n : j = Len(s) + k
        BY <3>5
      <4>2. content'[g][j] = written + k
        BY <1>3, <1>4, <3>5, <4>1
      <4>3. content[f][i] < written + k
        BY <1>6, <3>2, Numbers
      <4>4. QED BY <3>1, <4>2, <4>3
    <3>6. QED BY <1>4, <1>7, <3>3, <3>4, <3>5
  <2>7. QED BY <1>1, <2>1, <2>2, <2>3, <2>4, <2>5, <2>6 DEF World
<1>9. Within' /\ Missing'
  <2>1. ASSUME ~emptied', file' # 0
        PROVE  offset' <= Len(content'[file'])
    <3>1. offset <= Len(content[file]) /\ file \in Files /\ offset \in Nat
      BY <1>1, <2>1, Numbers DEF Within, TypeOK, stream, Sizes
    <3>2. Len(content[file]) \in Nat
      BY <3>1 DEF TypeOK
    <3>3. offset <= Len(content'[file])
      <4>1. CASE file = path
        BY <1>3, <1>4, <3>1, <4>1
      <4>2. CASE file # path
        BY <1>4, <3>1, <4>2
      <4>3. QED BY <4>1, <4>2
    <3>4. QED BY <1>1, <3>3 DEF stream
  <2>2. QED BY <1>1, <2>1 DEF Within, Missing, stream
<1>10. QED BY <1>5, <1>8, <1>9

\* What a change of the file leaves of a line that is not complete.
LEMMA AbandonedNumber ==
    ASSUME TypeOK, Abandoned
    PROVE  written' \in Pieces /\ written \in Nat /\ written' \in Nat /\ written <= written'
<1>1. written \in Nat /\ written <= 2 * MaxLines /\ MaxLines \in Nat
  BY Numbers DEF TypeOK, Pieces
<1>2. CASE EndsLine(written)
  BY <1>1, <1>2 DEF Abandoned, Pieces
<1>3. CASE ~EndsLine(written)
  <2>1. written # 2 * MaxLines
    BY <1>1, <1>3, Parity
  <2>2. QED BY <1>1, <1>3, <2>1 DEF Abandoned, Pieces
<1>4. QED BY <1>2, <1>3

\* The file is replaced, or goes.
LEMMA ChangeStep ==
    ASSUME TypeInv, NewFile \/ Remove
    PROVE  TypeInv'
<1> USE DEF TypeInv
<1>1. /\ Abandoned /\ content' = content /\ emptied' = emptied /\ UNCHANGED <<stream, stop>>
      /\ newest \in Files /\ newest < MaxFiles
  BY DEF NewFile, Remove, TypeOK
<1>2. written' \in Pieces /\ written \in Nat /\ written' \in Nat /\ written <= written'
  BY <1>1, AbandonedNumber
<1>3. /\ newest' \in Files /\ newest <= newest'
      /\ path' = 0 \/ (path' = newest' /\ newest' = newest + 1)
  <2>1. newest + 1 \in Files /\ newest \in Nat
    BY <1>1, Numbers DEF Files
  <2>2. CASE NewFile
    BY <2>1, <2>2 DEF NewFile
  <2>3. CASE Remove
    BY <1>1, <2>1, <2>3 DEF Remove
  <2>4. QED BY <2>2, <2>3
<1>4. TypeOK'
  <2>1. path' \in Files \cup {0}
    BY <1>3
  <2>2. QED BY <1>1, <1>2, <1>3, <2>1, SameStream DEF TypeOK
<1>5. World'
  <2>1. path' \in {0, newest'}
    BY <1>3
  <2>2. ASSUME NEW f \in Files, f > newest'
        PROVE  content'[f] = <<>>
    <3>1. f > newest
      BY <1>1, <1>3, <2>2, Numbers
    <3>2. QED BY <1>1, <3>1 DEF World
  <2>3. \A f \in Files : Len(content'[f]) <= written' + 1
    <3>1. ASSUME NEW f \in Files
          PROVE  Len(content[f]) <= written' + 1
      <4>1. Len(content[f]) <= written + 1 /\ Len(content[f]) \in Nat
        BY DEF World, TypeOK
      <4>2. QED BY <1>2, <4>1
    <3>2. QED BY <1>1, <3>1
  <2>4. ASSUME NEW f \in Files, NEW i \in 1..Len(content'[f])
        PROVE  content'[f][i] <= written'
    <3>0. i \in 1..Len(content[f])
      BY <1>1
    <3>1. content[f][i] \in Pieces /\ content[f][i] <= written
      <4>1. content[f] \in Seq(Pieces)
        BY Zenon DEF TypeOK
      <4>2. content[f][i] <= written
        BY <3>0, Zenon DEF World
      <4>3. QED BY <3>0, <4>1, <4>2, ElementOfSeq, Zenon
    <3>2. content[f][i] \in Nat
      BY <3>1, Numbers
    <3>3. content[f][i] <= written'
      BY <1>2, <3>1, <3>2
    <3>4. QED BY <1>1, <3>3
  <2>5. ~(path' # 0 /\ content'[path'] # <<>>)
    <3>1. CASE path' = newest + 1
      <4>1. newest + 1 \in Files /\ newest + 1 > newest
        BY <1>1, Numbers DEF Files
      <4>2. QED BY <1>1, <3>1, <4>1 DEF World
    <3>2. QED BY <1>3, <3>1
  <2>6. \A f \in Files : InARow(content'[f])
    BY <1>1 DEF World
  <2>7. \A f, g \in Files : f < g =>
          \A i \in 1..Len(content'[f]), j \in 1..Len(content'[g]) :
              content'[f][i] < content'[g][j]
    BY <1>1 DEF World
  <2>8. QED BY <2>1, <2>2, <2>3, <2>4, <2>5, <2>6, <2>7 DEF World
<1>6. Within' /\ Missing'
  BY <1>1 DEF Within, Missing, stream
<1>7. QED BY <1>4, <1>5, <1>6

LEMMA TruncateStep ==
    ASSUME TypeInv, Truncate
    PROVE  TypeInv' /\ emptied'
<1> USE DEF TypeInv
<1>1. /\ path = 1 /\ content' = [content EXCEPT ![1] = <<>>] /\ emptied' = TRUE
      /\ UNCHANGED <<newest, path, written, stream, stop>>
  BY DEF Truncate
<1>2. /\ content'[1] = <<>> /\ \A f \in Files : f # 1 => content'[f] = content[f]
      /\ content' \in [Files -> Seq(Pieces)]
  <2>1. <<>> \in Seq(Pieces) /\ content \in [Files -> Seq(Pieces)]
    BY DEF TypeOK
  <2>2. QED BY <1>1, <2>1, Numbers
<1>3. Len(<<>>) = 0
  OBVIOUS
<1>4. TypeOK'
  <2>1. newest' \in Files /\ path' \in Files \cup {0} /\ written' \in Pieces
    BY <1>1 DEF TypeOK
  <2>2. emptied' \in BOOLEAN
    BY <1>1
  <2>3. QED BY <1>1, <1>2, <2>1, <2>2, SameStream
<1>5. World'
  <2>1. path' \in {0, newest'}
    BY <1>1 DEF World
  <2>2. \A f \in Files : f > newest' => content'[f] = <<>>
    BY <1>1, <1>2 DEF World
  <2>3. \A f \in Files : Len(content'[f]) <= written' + 1
    <3>1. 0 <= written + 1
      BY Numbers DEF TypeOK
    <3>2. QED BY <1>1, <1>2, <1>3, <3>1 DEF World
  <2>4. \A f \in Files : \A i \in 1..Len(content'[f]) : content'[f][i] <= written'
    BY <1>1, <1>2, <1>3 DEF World
  <2>5. \A f \in Files : InARow(content'[f])
    <3>1. InARow(<<>>)
      BY <1>3 DEF InARow
    <3>2. QED BY <1>2, <3>1 DEF World
  <2>6. ~(path' # 0 /\ content'[path'] # <<>>)
    BY <1>1, <1>2
  <2>7. ASSUME NEW f \in Files, NEW g \in Files, f < g,
               NEW i \in 1..Len(content'[f]), NEW j \in 1..Len(content'[g])
        PROVE  content'[f][i] < content'[g][j]
    <3>1. content'[f] = content[f] /\ content'[g] = content[g]
      BY <1>2, <1>3
    <3>2. QED BY <2>7, <3>1 DEF World
  <2>8. QED BY <2>1, <2>2, <2>3, <2>4, <2>5, <2>6, <2>7 DEF World
<1>6. Within' /\ Missing'
  BY <1>1 DEF Within, Missing, stream
<1>7. QED BY <1>1, <1>4, <1>5, <1>6

\* The part of TypeOK that follow() is responsible for.
StreamTypeOK ==
    /\ file \in Files \cup {0}
    /\ offset \in Sizes /\ curpos \in Sizes /\ lastpos \in Sizes
    /\ BUFF \in Seq(Pieces)
    /\ matched \in Seq(Seq(Pieces))
    /\ ferror \in BOOLEAN /\ failed \in BOOLEAN
    /\ pc \in {"stat", "fopen", "compare", "read", "sleep", "done"}
    /\ pc \in {"compare", "read"} => file # 0

LEMMA SplitTypeOK ==
    TypeOK <=> /\ content \in [Files -> Seq(Pieces)]
               /\ newest \in Files
               /\ path \in Files \cup {0}
               /\ written \in Pieces
               /\ emptied \in BOOLEAN
               /\ stop \in BOOLEAN
               /\ StreamTypeOK
  BY DEF TypeOK, StreamTypeOK, Sizes

LEMMA ReaderKeeps ==
    ASSUME TypeInv, UNCHANGED <<world, stop>>, StreamTypeOK', Within', Missing'
    PROVE  TypeInv'
<1>1. World'
  BY SameWorld DEF TypeInv, world
<1>2. TypeOK'
  <2>1. /\ content' = content /\ newest' = newest /\ path' = path /\ written' = written
        /\ emptied' = emptied /\ stop' = stop
    BY DEF world
  <2>2. QED BY <2>1, SplitTypeOK DEF TypeInv, TypeOK, StreamTypeOK, Sizes
<1>3. QED BY <1>1, <1>2 DEF TypeInv

\* A size is one.
LEMMA LengthIsSize ==
    ASSUME TypeInv, NEW f \in Files
    PROVE  /\ content[f] \in Seq(Pieces) /\ Len(content[f]) \in Nat
           /\ Len(content[f]) \in Sizes
<1>1. Len(content[f]) <= written + 1 /\ Len(content[f]) \in Nat /\ content[f] \in Seq(Pieces)
  BY DEF TypeInv, TypeOK, World
<1>2. written \in Nat /\ written <= 2 * MaxLines /\ MaxLines \in Nat
  BY Numbers DEF TypeInv, TypeOK, Pieces
<1>3. QED BY <1>1, <1>2 DEF Sizes

LEMMA StatStep == ASSUME TypeInv, Stat PROVE TypeInv'
<1>1. UNCHANGED <<world, stop, lastpos, BUFF, matched, failed>> /\ pc = "stat"
  BY DEF Stat
<1>2. StreamTypeOK
  BY SplitTypeOK DEF TypeInv
<1>3. CASE /\ path = 0 /\ file' = 0 /\ offset' = 0 /\ ferror' = FALSE /\ pc' = "sleep"
           /\ UNCHANGED curpos
  <2>1. StreamTypeOK'
    BY <1>1, <1>2, <1>3, Numbers DEF StreamTypeOK
  <2>2. Within' /\ Missing'
    BY <1>3 DEF Within, Missing
  <2>3. QED BY <1>1, <2>1, <2>2, ReaderKeeps
<1>4. CASE /\ path # 0 /\ curpos' = Len(content[path])
           /\ pc' = IF file = 0 THEN "fopen" ELSE "compare"
           /\ UNCHANGED <<file, offset, ferror>>
  <2>1. curpos' \in Sizes
    <3>1. path \in Files
      BY <1>4 DEF TypeInv, TypeOK
    <3>2. QED BY <1>4, <3>1, LengthIsSize
  <2>2. StreamTypeOK'
    BY <1>1, <1>2, <1>4, <2>1 DEF StreamTypeOK
  <2>3. Within' /\ Missing'
    BY <1>1, <1>4 DEF TypeInv, Within, Missing, world
  <2>4. QED BY <1>1, <2>2, <2>3, ReaderKeeps
<1>5. QED BY <1>3, <1>4 DEF Stat

LEMMA OpenStep == ASSUME TypeInv, Fopen \/ Shrunk PROVE TypeInv'
<1>1. /\ UNCHANGED <<world, curpos, BUFF, matched, failed, stop>>
      /\ Open("compare") \/ Open("read")
      /\ lastpos' \in {lastpos, 0}
  BY DEF Fopen, Shrunk
<1>2. StreamTypeOK
  BY SplitTypeOK DEF TypeInv
<1>3. /\ offset' = 0 /\ ferror' = FALSE
      /\ \/ path # 0 /\ file' = path /\ pc' \in {"compare", "read"}
         \/ file' = 0 /\ pc' = "sleep"
  BY <1>1 DEF Open
<1>4. StreamTypeOK'
  <2>1. path \in Files \cup {0}
    BY DEF TypeInv, TypeOK
  <2>2. lastpos' \in Sizes /\ offset' \in Sizes
    BY <1>1, <1>2, <1>3, Numbers DEF StreamTypeOK
  <2>3. /\ file' \in Files \cup {0}
        /\ pc' \in {"stat", "fopen", "compare", "read", "sleep", "done"}
        /\ pc' \in {"compare", "read"} => file' # 0
    BY <1>3, <2>1
  <2>4. ferror' \in BOOLEAN /\ failed' \in BOOLEAN
    BY <1>1, <1>2, <1>3 DEF StreamTypeOK
  <2>5. QED BY <1>1, <1>2, <2>2, <2>3, <2>4 DEF StreamTypeOK
<1>5. Within' /\ Missing'
  <2>1. ASSUME file' # 0
        PROVE  offset' <= Len(content'[file'])
    <3>1. file' = path /\ path \in Files /\ content' = content
      BY <1>1, <1>3, <2>1 DEF TypeInv, TypeOK, world
    <3>2. 0 <= Len(content[path])
      BY <3>1, LengthIsSize
    <3>3. QED BY <1>3, <3>1, <3>2
  <2>2. QED BY <1>3, <2>1 DEF Within, Missing
<1>6. QED BY <1>1, <1>4, <1>5, ReaderKeeps

\* The next piece, and what is behind it in the file.
LEMMA NextPiece ==
    ASSUME TypeInv, file # 0, offset < Len(content[file])
    PROVE  /\ file \in Files /\ offset \in Nat /\ offset + 1 \in 1..Len(content[file])
           /\ Len(content[file]) \in Nat
           /\ offset + 1 \in Sizes /\ content[file][offset + 1] \in Pieces
<1>1. file \in Files /\ offset \in Nat
  BY Numbers DEF TypeInv, TypeOK
<1>2. content[file] \in Seq(Pieces) /\ Len(content[file]) \in Nat /\ Len(content[file]) \in Sizes
  BY <1>1, LengthIsSize
<1>3. offset + 1 \in 1..Len(content[file]) /\ offset + 1 \in Sizes
  BY <1>1, <1>2, Numbers DEF Sizes
<1>4. content[file][offset + 1] \in Pieces
  BY <1>2, <1>3
<1>5. QED BY <1>1, <1>2, <1>3, <1>4

LEMMA ReadStep == ASSUME TypeInv, Read PROVE TypeInv'
<1>1. /\ UNCHANGED <<world, file, curpos, lastpos, ferror, failed, pc, stop>>
      /\ pc = "read" /\ offset < Len(content[file]) /\ offset' = offset + 1
  BY DEF Read
<1>2. StreamTypeOK
  BY SplitTypeOK DEF TypeInv
<1> DEFINE p == content[file][offset + 1]
           line == Append(BUFF, p)
<1>3. file # 0 /\ p \in Pieces /\ offset + 1 \in Sizes /\ offset + 1 <= Len(content[file])
  BY <1>1, <1>2, NextPiece DEF StreamTypeOK
<1>4. /\ matched' = IF EndsLine(p) THEN Append(matched, line) ELSE matched
      /\ BUFF' = IF EndsLine(p) THEN <<>> ELSE line
  BY DEF Read
<1> HIDE DEF p
<1>5. line \in Seq(Pieces)
  BY <1>2, <1>3 DEF StreamTypeOK
<1> HIDE DEF line
<1>6. Append(matched, line) \in Seq(Seq(Pieces)) /\ <<>> \in Seq(Pieces)
  BY <1>2, <1>5 DEF StreamTypeOK
<1>7. BUFF' \in Seq(Pieces) /\ matched' \in Seq(Seq(Pieces))
  BY <1>2, <1>4, <1>5, <1>6 DEF StreamTypeOK
<1>8. StreamTypeOK'
  BY <1>1, <1>2, <1>3, <1>7 DEF StreamTypeOK
<1>9. Within' /\ Missing'
  BY <1>1, <1>3 DEF TypeInv, Within, Missing, world
<1>10. QED BY <1>1, <1>8, <1>9, ReaderKeeps

LEMMA ReadErrorStep == ASSUME TypeInv, ReadError PROVE TypeInv'
<1>1. /\ UNCHANGED <<world, file, curpos, BUFF, matched, stop>>
      /\ pc = "read" /\ ferror' = TRUE /\ failed' = TRUE /\ lastpos' = curpos /\ pc' = "sleep"
      /\ offset' = offset \/ (offset < Len(content[file]) /\ offset' = offset + 1)
  BY DEF ReadError
<1>2. StreamTypeOK
  BY SplitTypeOK DEF TypeInv
<1>3. \/ offset' = offset
      \/ offset' \in Sizes /\ offset' <= Len(content[file])
  <2>1. file # 0
    BY <1>1, <1>2 DEF StreamTypeOK
  <2>2. QED BY <1>1, <2>1, NextPiece
<1>4. StreamTypeOK'
  BY <1>1, <1>2, <1>3 DEF StreamTypeOK
<1>5. Within' /\ Missing'
  BY <1>1, <1>3 DEF TypeInv, Within, Missing, world
<1>6. QED BY <1>1, <1>4, <1>5, ReaderKeeps

\* The other steps of follow() do not move the stream.
Quiet == Same \/ Grown \/ ReadEnd \/ Awake \/ Return

LEMMA QuietStep == ASSUME TypeInv, Quiet PROVE TypeInv'
<1>1. /\ UNCHANGED <<world, stop, file, offset, curpos, BUFF, matched, failed>>
      /\ lastpos' \in {lastpos, curpos}
      /\ pc' \in {"sleep", "stat", "done"} \/ (pc = "compare" /\ pc' = "read")
  BY DEF Quiet, Same, Grown, ReadEnd, Awake, Return
<1>2. ferror' \in BOOLEAN
  <2>1. ferror \in BOOLEAN /\ stop \in BOOLEAN
    BY SplitTypeOK DEF TypeInv, StreamTypeOK
  <2>2. ferror' = ferror \/ ferror' = (stop /\ ferror)
    BY DEF Quiet, Same, Grown, ReadEnd, Awake, Return
  <2>3. QED BY <2>1, <2>2
<1>3. StreamTypeOK
  BY SplitTypeOK DEF TypeInv
<1>4. StreamTypeOK'
  BY <1>1, <1>2, <1>3 DEF StreamTypeOK
<1>5. Within' /\ Missing'
  BY <1>1 DEF TypeInv, Within, Missing, world
<1>6. QED BY <1>1, <1>4, <1>5, ReaderKeeps

LEMMA TypeInvStep == TypeInv /\ [Next]_vars => TypeInv'
<1> SUFFICES ASSUME TypeInv, [Next]_vars PROVE TypeInv'
  OBVIOUS
<1>1. CASE Write(1) \/ Write(2)
  BY <1>1, WriteStep
<1>2. CASE NewFile \/ Remove
  BY <1>2, ChangeStep
<1>3. CASE Truncate
  BY <1>3, TruncateStep
<1>4. CASE follow_stop \/ UNCHANGED vars
  <2>1. UNCHANGED <<world, stream>> /\ (stop' = TRUE \/ stop' = stop)
    BY <1>4 DEF follow_stop, vars, world, stream
  <2>2. TypeOK'
    <3>1. stop' \in BOOLEAN
      BY <2>1 DEF TypeInv, TypeOK
    <3>2. QED BY <2>1, <3>1 DEF TypeInv, TypeOK, world, stream
  <2>3. World' /\ Within' /\ Missing'
    BY <2>1, SameWorld DEF TypeInv, Within, Missing, world, stream
  <2>4. QED BY <2>2, <2>3 DEF TypeInv
<1>5. CASE Stat
  BY <1>5, StatStep
<1>6. CASE Fopen \/ Shrunk
  BY <1>6, OpenStep
<1>7. CASE Read
  BY <1>7, ReadStep
<1>8. CASE ReadError
  BY <1>8, ReadErrorStep
<1>9. CASE Quiet
  BY <1>9, QuietStep
<1>10. QED BY <1>1, <1>2, <1>3, <1>4, <1>5, <1>6, <1>7, <1>8, <1>9
           DEF Next, follow, Quiet

LEMMA TypeInvHolds == Spec => []TypeInv
  BY InitWorld, TypeInvStep, PTL DEF Spec

\* TypeOK: the stream is open when it is compared and read, and no position or
\* size is beyond what was written (follow.c, follow and readtoeof).
THEOREM FollowTypeOK == Spec => []TypeOK
<1>1. TypeInv => TypeOK
  BY DEF TypeInv
<1>2. QED BY <1>1, TypeInvHolds, PTL

-----------------------------------------------------------------------------
(* Writing and reading *)

LEMMA AppendAt ==
    ASSUME NEW S, NEW s \in Seq(S), NEW e \in S
    PROVE  /\ DOMAIN s = 1..Len(s) /\ Len(s) \in Nat
           /\ Append(s, e) \in Seq(S)
           /\ DOMAIN Append(s, e) = (DOMAIN s) \cup {Len(s) + 1}
           /\ Len(s) + 1 \notin DOMAIN s
           /\ \A i \in DOMAIN s : Append(s, e)[i] = s[i] /\ i < Len(s) + 1
           /\ Append(s, e)[Len(s) + 1] = e
<1>1. DOMAIN s = 1..Len(s) /\ Len(s) \in Nat
  OBVIOUS
<1>2. Append(s, e) \in Seq(S) /\ Len(Append(s, e)) = Len(s) + 1
  OBVIOUS
<1>3. DOMAIN Append(s, e) = 1..(Len(s) + 1)
  BY <1>2
<1>4. 1..(Len(s) + 1) = (1..Len(s)) \cup {Len(s) + 1}
  BY <1>1
<1>5. \A i \in DOMAIN s : Append(s, e)[i] = s[i] /\ i < Len(s) + 1
  BY <1>1
<1>6. Append(s, e)[Len(s) + 1] = e
  OBVIOUS
<1>7. Len(s) + 1 \notin DOMAIN s
  BY <1>1
<1>8. QED BY <1>1, <1>2, <1>3, <1>4, <1>5, <1>6, <1>7

\* What is in the files stays there, and what comes is newer than all before.
Longer ==
    /\ UNCHANGED <<stream, stop>>
    /\ written \in Nat /\ written' \in Nat /\ written <= written'
    /\ newest <= newest'
    /\ \A f \in Files : /\ Len(content'[f]) \in Nat
                        /\ Len(content[f]) <= Len(content'[f])
    /\ \A f \in Files : \A i \in 1..Len(content[f]) : content'[f][i] = content[f][i]
    /\ \A f \in Files : \A i \in 1..Len(content'[f]) :
          i \in 1..Len(content[f]) \/ content'[f][i] > written

LEMMA WriteLonger ==
    ASSUME TypeInv, NEW n \in {1, 2}, Write(n)
    PROVE  Longer /\ UNCHANGED <<newest, path, emptied>>
<1> USE DEF TypeInv
<1>1. /\ path # 0 /\ path \in Files /\ written \in Pieces /\ newest \in Nat
      /\ written' = written + n /\ written' \in Pieces
      /\ path' = path /\ newest' = newest /\ emptied' = emptied /\ UNCHANGED <<stream, stop>>
  <2>1. written + n \in Pieces
    BY Numbers DEF Write, TypeOK, Pieces
  <2>2. QED BY <2>1, Numbers DEF Write, TypeOK
<1> DEFINE s == content[path]
           t == s \o New(written, n)
<1>2. content' = [content EXCEPT ![path] = t]
  BY DEF Write, New
<1>3. /\ t \in Seq(Pieces) /\ Len(t) = Len(s) + n
      /\ \A i \in 1..Len(s) : t[i] = s[i]
      /\ \A k \in 1..n : t[Len(s) + k] = written + k
      /\ Len(s) \in Nat
  <2>1. s \in Seq(Pieces) /\ InARow(s) /\ (s # <<>> => s[Len(s)] = written)
    BY <1>1 DEF TypeOK, World
  <2>2. written + n \in Pieces /\ Len(s) \in Nat
    BY <1>1, <2>1
  <2> HIDE DEF s
  <2>3. QED BY <1>1, <2>1, <2>2, Appended
<1> HIDE DEF t
<1>4. /\ content'[path] = t
      /\ \A f \in Files : f # path => content'[f] = content[f]
  BY <1>1, <1>2 DEF TypeOK
<1>5. written \in Nat /\ written' \in Nat /\ written <= written' /\ n \in Nat
  BY <1>1, Numbers
<1>6. ASSUME NEW f \in Files
      PROVE  /\ Len(content'[f]) \in Nat /\ Len(content[f]) <= Len(content'[f])
             /\ \A i \in 1..Len(content[f]) : content'[f][i] = content[f][i]
             /\ \A i \in 1..Len(content'[f]) :
                   i \in 1..Len(content[f]) \/ content'[f][i] > written
  <2>1. CASE f # path
    <3>1. Len(content[f]) \in Nat /\ content'[f] = content[f]
      BY <1>4, <2>1, LengthIsSize
    <3>2. QED BY <3>1
  <2>2. CASE f = path
    <3>1. Len(t) \in Nat /\ Len(s) <= Len(t)
      BY <1>3, <1>5
    <3>2. ASSUME NEW i \in 1..Len(t), i \notin 1..Len(s)
          PROVE  t[i] > written
      <4>1. i - Len(s) \in 1..n /\ i = Len(s) + (i - Len(s))
        BY <1>3, <3>2
      <4>2. PICK k \in 1..n : i = Len(s) + k
        BY <4>1
      <4>3. QED BY <1>3, <1>5, <4>2
    <3>3. QED BY <1>3, <1>4, <2>2, <3>1, <3>2
  <2>3. QED BY <2>1, <2>2
<1>7. newest <= newest'
  BY <1>1
<1>8. QED BY <1>1, <1>5, <1>6, <1>7 DEF Longer

LEMMA ChangeLonger ==
    ASSUME TypeInv, NewFile \/ Remove
    PROVE  Longer /\ content' = content /\ emptied' = emptied
<1>1. /\ Abandoned /\ content' = content /\ emptied' = emptied /\ UNCHANGED <<stream, stop>>
      /\ newest \in Nat /\ (newest' = newest \/ newest' = newest + 1)
  BY Numbers DEF NewFile, Remove, TypeInv, TypeOK
<1>2. written \in Nat /\ written' \in Nat /\ written <= written'
  BY <1>1, AbandonedNumber DEF TypeInv
<1>3. \A f \in Files : Len(content[f]) \in Nat
  BY LengthIsSize
<1>4. newest <= newest'
  BY <1>1
<1>5. QED BY <1>1, <1>2, <1>3, <1>4 DEF Longer

-----------------------------------------------------------------------------
(* The order of the lines *)

\* All that was read comes before the piece p.
Before(p) == /\ \A i \in DOMAIN matched : \A a \in DOMAIN matched[i] : matched[i][a] < p
             /\ \A b \in DOMAIN BUFF : BUFF[b] < p

Lines == \A i, j \in DOMAIN matched : i < j =>
             \A a \in DOMAIN matched[i], b \in DOMAIN matched[j] : matched[i][a] < matched[j][b]

Order ==
    /\ Lines
    /\ \A i \in DOMAIN matched : \A a \in DOMAIN matched[i], b \in DOMAIN BUFF :
          matched[i][a] < BUFF[b]
    /\ Before(written + 1)
    /\ file # 0 => \A k \in (offset + 1)..Len(content[file]) : Before(content[file][k])
    /\ \A f \in Files : f > 1 /\ file # f =>
          \A k \in 1..Len(content[f]) : Before(content[f][k])

\* Once the second file is read, lastpos has become its size, and it is not
\* read from its start again.
Position ==
    /\ path = 1 => file = 1 /\ lastpos <= Len(content[1]) /\ curpos <= Len(content[1])
    /\ file = 2 => path = 2 /\ curpos <= Len(content[2])
    /\ pc = "fopen" => path = 2 /\ curpos <= Len(content[2])
    /\ pc = "compare" /\ curpos < lastpos => path = 2 /\ curpos <= Len(content[2])
    /\ file = 2 /\ (offset > 0 \/ pc = "read") => lastpos <= curpos

OrderInv == TypeInv /\ (~emptied => Position /\ Order)

LEMMA TwoFiles == MaxFiles <= 2 => Files \subseteq {1, 2}
  BY Numbers DEF Files

\* What was read are pieces.
LEMMA SeenTypes ==
    ASSUME TypeOK
    PROVE  /\ \A i \in DOMAIN matched : /\ matched[i] \in Seq(Pieces)
                                        /\ \A a \in DOMAIN matched[i] : matched[i][a] \in Nat
           /\ \A b \in DOMAIN BUFF : BUFF[b] \in Nat
<1>1. \A i \in DOMAIN matched : matched[i] \in Seq(Pieces)
  BY DEF TypeOK
<1>2. \A t \in Seq(Pieces) : \A a \in DOMAIN t : t[a] \in Nat
  <2>1. ASSUME NEW t \in Seq(Pieces), NEW a \in DOMAIN t
        PROVE  t[a] \in Pieces
    OBVIOUS
  <2>2. QED BY <2>1, Numbers
<1>3. BUFF \in Seq(Pieces)
  BY DEF TypeOK
<1>4. QED BY <1>1, <1>2, <1>3

LEMMA BeforeLater ==
    ASSUME TypeOK, NEW p \in Nat, NEW q \in Nat, p <= q, Before(p)
    PROVE  Before(q)
<1>1. \A v \in Nat : v < p => v < q
  OBVIOUS
<1>2. QED BY <1>1, SeenTypes DEF Before

LEMMA OrderInvInit == Init => OrderInv
<1> SUFFICES ASSUME Init PROVE Position /\ Order
  BY InitWorld DEF OrderInv
<1>1. /\ content[1] = <<0>> /\ path = 1 /\ file = 1 /\ newest = 1
      /\ offset = 1 /\ curpos = 1 /\ lastpos = 1 /\ BUFF = <<>> /\ matched = <<>>
      /\ pc = "stat"
  BY Numbers DEF Init
<1>2. Len(<<0>>) = 1
  OBVIOUS
<1>3. Position
  BY <1>1, <1>2 DEF Position
<1>4. \A p : Before(p)
  BY <1>1 DEF Before
<1>5. QED BY <1>1, <1>3, <1>4 DEF Order, Lines

\* The writers add nothing but what comes behind.
LEMMA OrderOfLonger ==
    ASSUME TypeInv, TypeInv', Order, Longer
    PROVE  Order'
<1>1. /\ matched' = matched /\ BUFF' = BUFF /\ file' = file /\ offset' = offset
  BY DEF Longer, stream
<1>2. \A p : Before(p) <=> Before(p)'
  BY <1>1 DEF Before
<1>3. \A q \in Nat : q > written => Before(q)
  <2>1. ASSUME NEW q \in Nat, q > written
        PROVE  Before(q)
    <3>1. written + 1 \in Nat /\ written + 1 <= q
      BY <2>1 DEF Longer
    <3>2. QED BY <3>1, BeforeLater DEF Order, TypeInv
  <2>2. QED BY <2>1
<1>4. ASSUME NEW f \in Files, NEW k \in 1..Len(content'[f]), k \notin 1..Len(content[f])
      PROVE  Before(content'[f][k])
  <2>1. content'[f] \in Seq(Pieces) /\ content'[f][k] > written
    BY <1>4 DEF TypeInv, TypeOK, Longer
  <2>2. content'[f][k] \in Nat
    <3>1. content'[f][k] \in Pieces
      BY <2>1
    <3>2. QED BY <3>1, Numbers
  <2>3. QED BY <1>3, <2>1, <2>2
<1>5. Lines' /\ \A i \in DOMAIN matched' : \A a \in DOMAIN matched'[i], b \in DOMAIN BUFF' :
                    matched'[i][a] < BUFF'[b]
  BY <1>1 DEF Order, Lines
<1>6. Before(written + 1)'
  <2>1. written' + 1 \in Nat /\ written' + 1 > written
    <3>1. written \in Nat /\ written' \in Nat /\ written <= written'
      BY DEF Longer
    <3>2. \A x, y \in Nat : x <= y => y + 1 \in Nat /\ y + 1 > x
      OBVIOUS
    <3>3. QED BY <3>1, <3>2
  <2>2. QED BY <1>2, <1>3, <2>1 DEF Before
<1>7. ASSUME file' # 0, NEW k \in (offset' + 1)..Len(content'[file'])
      PROVE  Before(content[file][k])'
  <2>1. file \in Files /\ offset \in Nat /\ Len(content[file]) \in Nat
    BY <1>1, <1>7, Numbers, LengthIsSize DEF TypeInv, TypeOK
  <2>2. Len(content'[file]) \in Nat
    BY <2>1 DEF Longer
  <2>3. k \in 1..Len(content'[file]) /\ k > offset
    BY <1>1, <2>1, <2>2
  <2>4. CASE k \in 1..Len(content[file])
    <3>1. k \in (offset + 1)..Len(content[file])
      BY <2>1, <2>3, <2>4
    <3>2. Before(content[file][k])
      BY <1>1, <1>7, <3>1 DEF Order
    <3>3. content'[file'][k] = content[file][k]
      BY <1>1, <2>1, <2>4 DEF Longer
    <3>4. QED BY <1>1, <3>2, <3>3 DEF Before
  <2>5. CASE k \notin 1..Len(content[file])
    <3>1. Before(content'[file][k])
      BY <1>4, <2>1, <2>3, <2>5
    <3>2. QED BY <1>1, <3>1 DEF Before
  <2>6. QED BY <2>4, <2>5
<1>8. ASSUME NEW f \in Files, f > 1, file' # f, NEW k \in 1..Len(content'[f])
      PROVE  Before(content[f][k])'
  <2>1. CASE k \in 1..Len(content[f])
    <3>1. Before(content[f][k]) /\ content'[f][k] = content[f][k]
      BY <1>1, <1>8, <2>1 DEF Order, Longer
    <3>2. QED BY <1>1, <3>1 DEF Before
  <2>2. CASE k \notin 1..Len(content[f])
    <3>1. Before(content'[f][k])
      BY <1>4, <2>2
    <3>2. QED BY <1>1, <3>1 DEF Before
  <2>3. QED BY <2>1, <2>2
<1>9. QED BY <1>5, <1>6, <1>7, <1>8 DEF Order

\* Reading the next piece keeps the order of what was read before it.
LEMMA OrderOfRead ==
    ASSUME TypeInv, Order, Read, MaxFiles <= 2
    PROVE  Order'
<1>1. /\ UNCHANGED <<world, file>> /\ pc = "read"
      /\ offset < Len(content[file]) /\ offset' = offset + 1 /\ file # 0
  BY DEF Read, TypeInv, TypeOK
<1> DEFINE p == content[file][offset + 1]
           line == Append(BUFF, p)
<1>2. /\ file \in Files /\ offset \in Nat /\ offset + 1 \in 1..Len(content[file])
      /\ Len(content[file]) \in Nat /\ p \in Pieces /\ p \in Nat
  BY <1>1, NextPiece, Numbers
<1>3. /\ matched' = IF EndsLine(p) THEN Append(matched, line) ELSE matched
      /\ BUFF' = IF EndsLine(p) THEN <<>> ELSE line
  BY DEF Read
<1>4. Before(p)
  <2>1. offset + 1 \in (offset + 1)..Len(content[file])
    BY <1>2
  <2>2. QED BY <1>1, <2>1 DEF Order
<1> HIDE DEF p
<1>5. BUFF \in Seq(Pieces) /\ matched \in Seq(Seq(Pieces))
  BY DEF TypeInv, TypeOK
<1>6. /\ DOMAIN line = (DOMAIN BUFF) \cup {Len(BUFF) + 1}
      /\ \A b \in DOMAIN BUFF : line[b] = BUFF[b]
      /\ line[Len(BUFF) + 1] = p /\ line \in Seq(Pieces)
  BY <1>2, <1>5, AppendAt
<1> HIDE DEF line
<1>7. /\ DOMAIN Append(matched, line) = (DOMAIN matched) \cup {Len(matched) + 1}
      /\ \A i \in DOMAIN matched : /\ Append(matched, line)[i] = matched[i]
                                   /\ i < Len(matched) + 1
      /\ Append(matched, line)[Len(matched) + 1] = line
      /\ DOMAIN matched = 1..Len(matched) /\ Len(matched) \in Nat
  BY <1>5, <1>6, AppendAt
<1>8. \A i \in DOMAIN matched : \A a \in DOMAIN matched[i], b \in DOMAIN line :
          matched[i][a] < line[b]
  BY <1>4, <1>6 DEF Order, Before
<1>9. ASSUME NEW q \in Nat, p < q, Before(q)
      PROVE  Before(q)'
  <2>1. \A b \in DOMAIN line : line[b] < q
    BY <1>6, <1>9 DEF Before
  <2>2. CASE EndsLine(p)
    <3>1. matched' = Append(matched, line) /\ BUFF' = <<>>
      BY <1>3, <2>2
    <3>2. \A i \in DOMAIN matched' : \A a \in DOMAIN matched'[i] : matched'[i][a] < q
      BY <1>7, <1>9, <2>1, <3>1 DEF Before
    <3>3. QED BY <3>1, <3>2 DEF Before
  <2>3. CASE ~EndsLine(p)
    <3>1. matched' = matched /\ BUFF' = line
      BY <1>3, <2>3
    <3>2. QED BY <1>9, <2>1, <3>1 DEF Before
  <2>4. QED BY <2>2, <2>3
<1>10. Lines' /\ \A i \in DOMAIN matched' : \A a \in DOMAIN matched'[i], b \in DOMAIN BUFF' :
                    matched'[i][a] < BUFF'[b]
  <2>1. CASE EndsLine(p)
    <3>1. matched' = Append(matched, line) /\ BUFF' = <<>> /\ DOMAIN BUFF' = {}
      BY <1>3, <2>1
    <3>2. ASSUME NEW i \in DOMAIN matched', NEW j \in DOMAIN matched', i < j
          PROVE  \A a \in DOMAIN matched'[i], b \in DOMAIN matched'[j] :
                     matched'[i][a] < matched'[j][b]
      <4>1. i \in DOMAIN matched
        <5>1. ~(Len(matched) + 1 < j)
          BY <1>7, <3>1
        <5>2. QED BY <1>7, <3>1, <3>2, <5>1
      <4>2. CASE j \in DOMAIN matched
        BY <1>7, <3>1, <3>2, <4>1, <4>2 DEF Order, Lines
      <4>3. CASE j = Len(matched) + 1
        BY <1>7, <1>8, <3>1, <4>1, <4>3
      <4>4. QED BY <1>7, <3>1, <4>2, <4>3
    <3>3. QED BY <3>1, <3>2 DEF Lines
  <2>2. CASE ~EndsLine(p)
    <3>1. matched' = matched /\ BUFF' = line
      BY <1>3, <2>2
    <3>2. QED BY <1>8, <3>1 DEF Order, Lines
  <2>3. QED BY <2>1, <2>2
<1>11. Before(written + 1)'
  <2>1. p <= written /\ written \in Nat
    BY <1>2, Numbers DEF p, TypeInv, World, TypeOK
  <2>2. written + 1 \in Nat /\ p < written + 1
    BY <1>2, <2>1
  <2>3. written' = written
    BY <1>1 DEF world
  <2>4. Before(written + 1)
    BY DEF Order
  <2> DEFINE q == written + 1
  <2> HIDE DEF q
  <2>5. q \in Nat /\ p < q /\ Before(q) /\ q' = q
    BY <2>2, <2>3, <2>4 DEF q
  <2>6. Before(q)'
    BY <1>9, <2>5 DEF Before
  <2>7. QED BY <2>3, <2>5, <2>6 DEF Before, q
<1>12. ASSUME NEW k \in (offset' + 1)..Len(content'[file'])
       PROVE  Before(content[file][k])'
  <2>1. content' = content /\ file' = file
    BY <1>1 DEF world
  <2>2. k \in 1..Len(content[file]) /\ k > offset + 1 /\ k \in (offset + 1)..Len(content[file])
    BY <1>1, <1>2, <2>1
  <2>3. content[file][k] \in Nat
    <3>1. content[file][k] \in Pieces
      BY <1>2, <2>2, LengthIsSize
    <3>2. QED BY <3>1, Numbers
  <2>4. p < content[file][k]
    <3>1. InARow(content[file])
      BY <1>2 DEF TypeInv, World
    <3>2. /\ p = content[file][1] + ((offset + 1) - 1)
          /\ content[file][k] = content[file][1] + (k - 1)
      BY <1>2, <2>2, <3>1 DEF InARow, p
    <3>3. content[file][1] \in Nat
      <4>1. 1 \in 1..Len(content[file]) /\ content[file] \in Seq(Pieces)
        BY <1>2, LengthIsSize
      <4>2. content[file][1] \in Pieces
        BY <4>1
      <4>3. QED BY <4>2, Numbers
    <3>4. content[file][1] + ((offset + 1) - 1) < content[file][1] + (k - 1)
      BY <1>2, <2>2, <3>3
    <3>5. QED BY <3>2, <3>4
  <2>5. Before(content[file][k])
    BY <1>1, <2>2 DEF Order
  <2>6. QED BY <1>9, <2>1, <2>3, <2>4, <2>5 DEF Before
<1>13. ASSUME NEW f \in Files, f > 1, file' # f, NEW k \in 1..Len(content'[f])
       PROVE  Before(content[f][k])'
  <2>1. content' = content /\ file' = file
    BY <1>1 DEF world
  <2>2. file < f
    BY <1>2, <1>13, <2>1, TwoFiles
  <2>3. p < content[f][k]
    BY <1>2, <1>13, <2>1, <2>2 DEF TypeInv, World, p
  <2>4. content[f][k] \in Nat
    <3>1. content[f][k] \in Pieces
      BY <2>1, LengthIsSize
    <3>2. QED BY <3>1, Numbers
  <2>5. Before(content[f][k])
    BY <1>13, <2>1 DEF Order
  <2>6. QED BY <1>9, <2>1, <2>3, <2>4, <2>5 DEF Before
<1>14. QED BY <1>10, <1>11, <1>12, <1>13 DEF Order

\* The other steps of follow(), where the order is concerned: a file opened
\* from its start is one of which nothing was read.
LEMMA OrderOfReader ==
    ASSUME TypeInv, TypeInv', Position, Order, follow, ~Read, MaxFiles <= 2
    PROVE  Order'
<1>1. UNCHANGED <<world, BUFF, matched>>
  BY DEF follow, Stat, Fopen, Same, Grown, Shrunk, ReadError, ReadEnd, Awake, Return
<1>2. /\ content' = content /\ written' = written /\ BUFF' = BUFF /\ matched' = matched
      /\ path' = path
  BY <1>1 DEF world
<1>3. \A q : Before(q) <=> Before(q)'
  BY <1>2 DEF Before
<1>4. /\ file \in Files \cup {0} /\ file' \in Files \cup {0} /\ offset \in Nat
      /\ offset' \in Nat /\ path \in Files \cup {0} /\ curpos \in Nat /\ lastpos \in Nat
  BY Numbers DEF TypeInv, TypeOK
<1>5. Files \subseteq {1, 2}
  BY TwoFiles
<1> DEFINE Behind(f, o) == f # 0 => \A k \in (o + 1)..Len(content[f]) : Before(content[f][k])
           Others(f) == \A g \in Files : g > 1 /\ f # g =>
                            \A k \in 1..Len(content[g]) : Before(content[g][k])
<1>6. Behind(file, offset) /\ Others(file)
  BY DEF Order
<1>7. Behind(file', offset') /\ Others(file')
  <2>1. CASE file' = file /\ (offset' = offset \/ offset' = offset + 1)
    <3>1. ASSUME file # 0, NEW k \in (offset' + 1)..Len(content[file])
          PROVE  k \in (offset + 1)..Len(content[file])
      <4>1. Len(content[file]) \in Nat
        BY <1>4, <3>1, LengthIsSize
      <4>2. \A a, b, l \in Nat : b = a \/ b = a + 1 =>
                \A i \in (b + 1)..l : i \in (a + 1)..l
        OBVIOUS
      <4>3. QED BY <1>4, <2>1, <4>1, <4>2
    <3>2. QED BY <1>6, <2>1, <3>1
  <2>2. CASE file' = 0 /\ file # 2
    BY <1>5, <1>6, <2>2
  <2>3. CASE /\ pc = "compare" /\ curpos < lastpos
             /\ file' = 0 \/ (file' = path /\ offset' = 0)
    <3>1. path = 2
      BY <2>3 DEF Position
    <3>2. file = 2 => offset = 0
      BY <1>4, <2>3 DEF Position
    <3>3. path \in Files => \A k \in 1..Len(content[path]) : Before(content[path][k])
      <4>1. CASE file = 2
        <5>1. \A k \in 1..Len(content[2]) : k \in (offset + 1)..Len(content[2])
          BY <3>2, <4>1
        <5>2. QED BY <1>6, <3>1, <4>1, <5>1
      <4>2. CASE file # 2
        BY <1>6, <3>1, <4>2
      <4>3. QED BY <4>1, <4>2
    <3>4. path \in Files
      BY <1>4, <3>1
    <3>5. \A g \in Files : g > 1 => g = path
      BY <1>5, <3>1
    <3>6. Others(file')
      BY <3>3, <3>5
    <3>7. Behind(file', offset')
      <4>1. CASE file' = 0
        BY <4>1
      <4>2. CASE file' = path /\ offset' = 0
        BY <3>3, <3>4, <4>2
      <4>3. QED BY <2>3, <4>1, <4>2
    <3>8. QED BY <3>6, <3>7
  <2>4. CASE pc = "fopen" /\ (file' = 0 \/ (file' = path /\ offset' = 0))
    <3>1. path = 2 /\ file = 0
      BY <2>4 DEF Position, TypeInv, Missing
    <3>2. CASE file' = 0
      BY <2>2, <3>1, <3>2
    <3>3. CASE file' = path /\ offset' = 0
      <4>1. 2 \in Files
        BY <1>4, <3>1
      <4>2. \A k \in 1..Len(content[2]) : Before(content[2][k])
        BY <1>6, <3>1, <4>1
      <4>3. QED BY <1>5, <3>1, <3>3, <4>2
    <3>4. QED BY <2>4, <3>2, <3>3
  <2>5. CASE Stat
    <3>1. path = 0 => file # 2
      BY DEF Position
    <3>2. (path = 0 /\ file' = 0) \/ (file' = file /\ offset' = offset)
      BY <2>5 DEF Stat
    <3>3. QED BY <2>1, <2>2, <3>1, <3>2
  <2>6. CASE Fopen
    BY <2>4, <2>6 DEF Fopen, Open
  <2>7. CASE Shrunk
    BY <2>3, <2>7 DEF Shrunk, Open
  <2>8. CASE ReadError
    BY <2>1, <2>8 DEF ReadError
  <2>9. CASE Quiet
    BY <2>1, <2>9 DEF Quiet, Same, Grown, ReadEnd, Awake, Return
  <2>10. QED BY <2>5, <2>6, <2>7, <2>8, <2>9 DEF follow, Quiet
<1>8. QED BY <1>2, <1>3, <1>6, <1>7 DEF Order, Lines, Before

LEMMA PositionOfReader ==
    ASSUME TypeInv, TypeInv', Position, follow, MaxFiles <= 2
    PROVE  Position'
<1>1. UNCHANGED world
  BY DEF follow, Stat, Fopen, Same, Grown, Shrunk, Read, ReadError, ReadEnd, Awake, Return
<1>2. content' = content /\ path' = path
  BY <1>1 DEF world
<1>3. /\ file \in Files \cup {0} /\ offset \in Nat /\ path \in Files \cup {0}
      /\ curpos \in Nat /\ lastpos \in Nat
      /\ \A f \in Files : Len(content[f]) \in Nat
  BY Numbers, LengthIsSize DEF TypeInv, TypeOK
<1>4. Files \subseteq {1, 2}
  BY TwoFiles
<1>5. CASE Stat
  <2>1. /\ pc = "stat" /\ lastpos' = lastpos
    BY <1>5 DEF Stat
  <2>2. CASE path = 0
    BY <1>2, <1>5, <2>1, <2>2 DEF Stat, Position
  <2>3. CASE path # 0
    <3>1. /\ curpos' = Len(content[path]) /\ file' = file /\ offset' = offset
          /\ pc' \in {"fopen", "compare"}
          /\ pc' = "fopen" => file = 0
      BY <1>5, <2>3 DEF Stat
    <3>2. CASE path = 1
      <4>1. file = 1 /\ lastpos <= Len(content[1]) /\ Len(content[1]) \in Nat
        BY <1>3, <3>2 DEF Position
      <4>2. ~(curpos' < lastpos') /\ curpos' <= Len(content[1]) /\ lastpos' <= Len(content[1])
        BY <1>3, <2>1, <3>1, <3>2, <4>1
      <4>3. QED BY <1>2, <3>1, <3>2, <4>1, <4>2 DEF Position
    <3>3. CASE path = 2
      <4>1. curpos' <= Len(content[2])
        BY <1>3, <3>1, <3>3
      <4>2. file = 2 /\ offset > 0 => lastpos <= curpos'
        <5>1. file = 2 /\ offset > 0 => lastpos <= curpos /\ curpos <= Len(content[2])
          BY DEF Position
        <5>2. QED BY <1>3, <3>1, <3>3, <5>1
      <4>3. QED BY <1>2, <2>1, <3>1, <3>3, <4>1, <4>2 DEF Position
    <3>4. QED BY <1>3, <1>4, <2>3, <3>2, <3>3
  <2>4. QED BY <2>2, <2>3
<1>6. CASE Fopen
  <2>1. /\ path = 2 /\ curpos <= Len(content[2])
        /\ UNCHANGED <<curpos, lastpos>> /\ offset' = 0
        /\ (file' = path /\ pc' = "compare") \/ (file' = 0 /\ pc' = "sleep")
    BY <1>6 DEF Fopen, Open, Position
  <2>2. QED BY <1>2, <2>1 DEF Position
<1>7. CASE Shrunk
  <2>1. /\ path = 2 /\ curpos <= Len(content[2]) /\ curpos' = curpos
        /\ \/ file' = path /\ pc' = "read" /\ lastpos' = 0
           \/ file' = 0 /\ pc' = "sleep"
    BY <1>7 DEF Shrunk, Open, Position
  <2>2. lastpos' = 0 => lastpos' <= curpos
    BY <1>3
  <2>3. QED BY <1>2, <2>1, <2>2 DEF Position
<1>8. CASE Read
  BY <1>2, <1>8 DEF Read, Position
<1>9. CASE ReadError \/ ReadEnd
  <2>1. /\ curpos' = curpos /\ lastpos' = curpos /\ file' = file /\ pc' = "sleep"
        /\ curpos <= curpos
    BY <1>3, <1>9 DEF ReadError, ReadEnd
  <2>2. QED BY <1>2, <2>1 DEF Position
<1>10. CASE Same \/ Awake \/ Return
  <2>1. UNCHANGED <<file, offset, curpos, lastpos>> /\ pc' \in {"sleep", "stat", "done"}
    BY <1>10 DEF Same, Awake, Return
  <2>2. QED BY <1>2, <2>1 DEF Position
<1>11. CASE Grown
  <2>1. /\ UNCHANGED <<file, offset, curpos, lastpos>> /\ pc' = "read" /\ lastpos <= curpos
    BY <1>3, <1>11 DEF Grown
  <2>2. QED BY <1>2, <2>1 DEF Position
<1>12. QED BY <1>5, <1>6, <1>7, <1>8, <1>9, <1>10, <1>11 DEF follow

LEMMA PositionOfWriters ==
    ASSUME TypeInv, TypeInv', Position, MaxFiles <= 2
    PROVE  /\ \A n \in {1, 2} : Write(n) => Position'
           /\ NewFile \/ Remove => Position'
<1>1. /\ curpos \in Nat /\ lastpos \in Nat /\ path \in Files \cup {0}
      /\ file \in Files \cup {0}
      /\ \A f \in Files : Len(content[f]) \in Nat
  BY Numbers, LengthIsSize DEF TypeInv, TypeOK
<1>2. ASSUME NEW n \in {1, 2}, Write(n)
      PROVE  Position'
  <2>1. /\ UNCHANGED <<path, file, offset, curpos, lastpos, pc>>
        /\ \A f \in Files : Len(content'[f]) \in Nat /\ Len(content[f]) <= Len(content'[f])
    BY <1>2, WriteLonger DEF Longer, stream
  <2>2. ASSUME NEW f \in Files, NEW x \in Nat, x <= Len(content[f])
        PROVE  x <= Len(content'[f])
    BY <1>1, <2>1, <2>2
  <2>3. path = 1 => file = 1 /\ lastpos <= Len(content'[1]) /\ curpos <= Len(content'[1])
    BY <1>1, <2>2, Numbers DEF Position
  <2>4. (file = 2 \/ path = 2) /\ curpos <= Len(content[2]) => curpos <= Len(content'[2])
    BY <1>1, <2>2, Numbers
  <2>5. QED BY <2>1, <2>3, <2>4 DEF Position
<1>3. ASSUME NewFile \/ Remove
      PROVE  Position'
  <2>1. newest = 1
    BY <1>3, Numbers, TwoFiles DEF NewFile, Remove, TypeInv, TypeOK
  <2>2. path # 2
    BY <2>1 DEF TypeInv, World
  <2>3. path' \in {0, 2} /\ UNCHANGED <<file, offset, curpos, lastpos, pc>>
    BY <1>3, <2>1 DEF NewFile, Remove, stream
  <2>4. file # 2 /\ pc # "fopen" /\ ~(pc = "compare" /\ curpos < lastpos)
    BY <2>2 DEF Position
  <2>5. QED BY <2>3, <2>4 DEF Position
<1>4. QED BY <1>2, <1>3

LEMMA OrderInvStep ==
    ASSUME MaxFiles <= 2
    PROVE  OrderInv /\ [Next]_vars => OrderInv'
<1> SUFFICES ASSUME OrderInv, [Next]_vars, ~emptied' PROVE Position' /\ Order'
  BY TypeInvStep DEF OrderInv
<1>1. TypeInv /\ TypeInv'
  BY TypeInvStep DEF OrderInv
<1>2. CASE UNCHANGED vars \/ follow_stop
  <2>1. UNCHANGED <<world, stream>>
    BY <1>2 DEF follow_stop, vars, world, stream
  <2>2. QED BY <2>1 DEF OrderInv, Position, Order, Lines, Before, world, stream
<1>3. CASE Truncate
  BY <1>3 DEF Truncate
<1>4. CASE \E n \in {1, 2} : Write(n)
  <2>1. PICK n \in {1, 2} : Write(n)
    BY <1>4
  <2>2. Longer /\ Position /\ Order
    BY <1>1, <2>1, WriteLonger DEF OrderInv
  <2>3. QED BY <1>1, <2>1, <2>2, PositionOfWriters, OrderOfLonger
<1>5. CASE NewFile \/ Remove
  <2>1. Longer /\ Position /\ Order
    BY <1>1, <1>5, ChangeLonger DEF OrderInv
  <2>2. QED BY <1>1, <1>5, <2>1, PositionOfWriters, OrderOfLonger
<1>6. CASE follow
  <2>1. Position /\ Order
    <3>1. UNCHANGED emptied
      BY <1>6 DEF follow, Stat, Fopen, Same, Grown, Shrunk, Read, ReadError, ReadEnd, Awake,
                  Return, world
    <3>2. QED BY <3>1 DEF OrderInv
  <2>2. QED BY <1>1, <1>6, <2>1, PositionOfReader, OrderOfReader, OrderOfRead
<1>7. QED BY <1>2, <1>3, <1>4, <1>5, <1>6 DEF Next

\* EachLineOnceInOrder, for any number of lines in a file that changes once:
\* no line is handed to regex_do twice or before an older one (follow.c, the
\* two positions and freopen).
THEOREM EachLineOnceInOrderHolds ==
    ASSUME MaxFiles <= 2
    PROVE  Spec => []EachLineOnceInOrder
<1>1. OrderInv => EachLineOnceInOrder
  BY DEF OrderInv, Order, Lines, EachLineOnceInOrder
<1>2. QED BY <1>1, OrderInvInit, OrderInvStep, PTL DEF Spec

-----------------------------------------------------------------------------
(* The lines a change of the file spoils *)

Spoilt == {i \in DOMAIN matched : ~Whole(matched[i])}
\* How many there are.
Spoils == Cardinality(Spoilt)

\* BUFF is the part of a line of this file that was read.
Aligned == BUFF = IF EndsLine(content[file][offset]) THEN <<>> ELSE <<content[file][offset]>>

\* The line that is being read will be spoilt.
Unaligned == file # 0 /\ offset > 0 /\ ~Aligned

Bad == Spoils + (IF Unaligned THEN 1 ELSE 0)

\* The stream has been read, or is about to be: lastpos is at most the size of
\* the file g, curpos at most that of the file m.
Begun(g, m) ==
    /\ file # 0
    /\ g <= m /\ m <= newest
    /\ Bad + (IF offset = 0 THEN 1 ELSE 0) <= g - 1
    /\ lastpos <= Len(content[g])
    /\ curpos <= Len(content[m])
    /\ pc = "compare" /\ curpos < lastpos => g < m

\* The file has gone, or was opened and is still to be compared.
Waiting(g, m) ==
    /\ file # 0 => offset = 0 /\ pc = "compare"
    /\ Spoils <= g - 1
    /\ g <= Changes
    /\ pc \in {"fopen", "compare"} => g < m /\ m <= newest /\ curpos <= Len(content[m])

Spending == \E g, m \in Files : Begun(g, m) \/ Waiting(g, m)

SpoiltInv == TypeInv /\ (~emptied /\ ~failed => Spending)

LEMMA SpoiltFinite ==
    TypeOK => /\ IsFiniteSet(Spoilt) /\ Spoils \in Nat
              /\ Bad \in Nat /\ Spoils <= Bad /\ Bad <= Spoils + 1
              /\ ~Unaligned => Bad = Spoils
<1> SUFFICES ASSUME TypeOK
             PROVE  /\ IsFiniteSet(Spoilt) /\ Spoils \in Nat
                    /\ Bad \in Nat /\ Spoils <= Bad /\ Bad <= Spoils + 1
                    /\ ~Unaligned => Bad = Spoils
  OBVIOUS
<1>1. DOMAIN matched = 1..Len(matched) /\ Len(matched) \in Nat
  BY DEF TypeOK
<1>2. IsFiniteSet(DOMAIN matched)
  BY <1>1, FS_Interval
<1>3. IsFiniteSet(Spoilt)
  BY <1>2, FS_Subset DEF Spoilt
<1>4. Spoils \in Nat
  BY <1>3, FS_CardinalityType DEF Spoils
<1>5. QED BY <1>3, <1>4 DEF Bad

LEMMA SpoiltFiniteNext ==
    (TypeOK => /\ IsFiniteSet(Spoilt) /\ Spoils \in Nat
               /\ Bad \in Nat /\ Spoils <= Bad /\ Bad <= Spoils + 1
               /\ ~Unaligned => Bad = Spoils)'
  BY SpoiltFinite, PTL

LEMMA SpoiltInvInit == Init => SpoiltInv
<1> SUFFICES ASSUME Init PROVE Spending
  BY InitWorld DEF SpoiltInv
<1>1. /\ content[1] = <<0>> /\ newest = 1 /\ file = 1
      /\ offset = 1 /\ curpos = 1 /\ lastpos = 1 /\ BUFF = <<>> /\ matched = <<>>
      /\ pc = "stat"
  BY Numbers DEF Init
<1>2. Spoilt = {}
  BY <1>1 DEF Spoilt
<1>3. Spoils = 0
  BY <1>2, FS_EmptySet DEF Spoils
<1>4. Aligned
  <2>1. content[file][offset] = 0
    BY <1>1
  <2>2. EndsLine(0)
    BY DEF EndsLine
  <2>3. QED BY <1>1, <2>1, <2>2 DEF Aligned
<1>5. Bad = 0
  BY <1>3, <1>4 DEF Bad, Unaligned
<1>6. Len(content[1]) = 1
  BY <1>1
<1>7. Begun(1, 1)
  BY <1>1, <1>5, <1>6 DEF Begun
<1>8. QED BY <1>7, Numbers DEF Spending

LEMMA ChangesNumber ==
    TypeOK => /\ Changes \in Nat /\ Changes >= newest - 1
              /\ Changes = newest - 1 + (IF path = 0 THEN 1 ELSE 0)
<1> SUFFICES ASSUME TypeOK
             PROVE  /\ Changes \in Nat /\ Changes >= newest - 1
                    /\ Changes = newest - 1 + (IF path = 0 THEN 1 ELSE 0)
  OBVIOUS
<1>1. newest \in Nat /\ newest >= 1
  BY Numbers DEF TypeOK, Files
<1>2. QED BY <1>1 DEF Changes

LEMMA ChangesNumberNext ==
    (TypeOK => /\ Changes \in Nat /\ Changes >= newest - 1
               /\ Changes = newest - 1 + (IF path = 0 THEN 1 ELSE 0))'
  BY ChangesNumber, PTL

\* The writers spoil nothing that was read.
LEMMA SpendingOfLonger ==
    ASSUME TypeInv, TypeInv', ~emptied, Longer, Spending,
           Changes <= Changes'
    PROVE  Spending'
<1>1. UNCHANGED <<file, offset, curpos, lastpos, BUFF, matched, pc>>
  BY DEF Longer, stream
<1>2. Spoilt' = Spoilt
  BY <1>1 DEF Spoilt, Whole, Line
<1>3. Spoils' = Spoils
  BY <1>2 DEF Spoils
<1>4. Unaligned' <=> Unaligned
  <2>1. ASSUME file # 0, offset > 0
        PROVE  content'[file][offset] = content[file][offset]
    <3>1. file \in Files /\ offset \in Nat /\ offset <= Len(content[file])
      BY <2>1, Numbers DEF TypeInv, TypeOK, Within
    <3>2. offset \in 1..Len(content[file])
      BY <2>1, <3>1, LengthIsSize
    <3>3. QED BY <3>1, <3>2 DEF Longer
  <2>2. QED BY <1>1, <2>1 DEF Unaligned, Aligned
<1>5. Bad' = Bad
  BY <1>3, <1>4 DEF Bad
<1>6. /\ newest \in Nat /\ newest' \in Nat /\ newest <= newest'
      /\ curpos \in Nat /\ lastpos \in Nat
      /\ Changes \in Nat /\ Changes' \in Nat
  <2>1. /\ newest \in Nat /\ newest' \in Nat /\ newest <= newest'
        /\ curpos \in Nat /\ lastpos \in Nat
    BY Numbers, SMTT(30) DEF TypeInv, TypeOK, Longer
  <2>2. Changes \in Nat /\ Changes' \in Nat
    BY ChangesNumber, ChangesNumberNext DEF TypeInv
  <2>3. QED BY <2>1, <2>2
<1>7. PICK g \in Files, m \in Files : Begun(g, m) \/ Waiting(g, m)
  BY DEF Spending
<1>8. /\ g \in Nat /\ m \in Nat
      /\ m <= newest => m <= newest'
      /\ g <= Changes => g <= Changes'
      /\ lastpos <= Len(content[g]) => lastpos <= Len(content'[g])
      /\ curpos <= Len(content[m]) => curpos <= Len(content'[m])
  <2>1. g \in Nat /\ m \in Nat
    BY Numbers
  <2>2. \A x, y, z \in Nat : x <= y /\ y <= z => x <= z
    OBVIOUS
  <2>3. /\ Len(content[g]) \in Nat /\ Len(content'[g]) \in Nat
        /\ Len(content[g]) <= Len(content'[g])
        /\ Len(content[m]) \in Nat /\ Len(content'[m]) \in Nat
        /\ Len(content[m]) <= Len(content'[m])
    BY LengthIsSize DEF Longer
  <2>4. QED BY <1>6, <2>1, <2>2, <2>3
<1>9. CASE Begun(g, m)
  <2>1. Begun(g, m)'
    BY <1>1, <1>5, <1>8, <1>9 DEF Begun
  <2>2. QED BY <2>1 DEF Spending
<1>10. CASE Waiting(g, m)
  <2>1. Waiting(g, m)'
    BY <1>1, <1>3, <1>8, <1>10 DEF Waiting
  <2>2. QED BY <2>1 DEF Spending
<1>11. QED BY <1>7, <1>9, <1>10

LEMMA TwoElements ==
    ASSUME NEW x \in Nat, NEW y \in Nat
    PROVE  Append(<<x>>, y) = <<x, y>>
<1>1. <<x>> \in Seq(Nat) /\ <<x, y>> \in Seq(Nat)
  OBVIOUS
<1>2. Len(<<x>>) = 1 /\ Len(<<x, y>>) = 2
  OBVIOUS
<1>3. /\ Append(<<x>>, y) \in Seq(Nat) /\ Len(Append(<<x>>, y)) = 2
      /\ Append(<<x>>, y)[1] = x /\ Append(<<x>>, y)[2] = y
  BY <1>1, <1>2, AppendProperties
<1>4. \A i \in 1..2 : Append(<<x>>, y)[i] = <<x, y>>[i]
  <2>1. \A i \in 1..2 : i = 1 \/ i = 2
    OBVIOUS
  <2>2. <<x, y>>[1] = x /\ <<x, y>>[2] = y
    OBVIOUS
  <2>3. QED BY <1>3, <2>1, <2>2
<1>5. QED BY <1>1, <1>2, <1>3, <1>4, SeqEqual

\* A line read from its beginning to its end is whole.
LEMMA AlignedLine ==
    ASSUME NEW last \in Nat, NEW p \in Pieces, p = last + 1, NEW b,
           b = IF EndsLine(last) THEN <<>> ELSE <<last>>
    PROVE  /\ EndsLine(p) => Whole(Append(b, p))
           /\ ~EndsLine(p) => Append(b, p) = <<p>>
<1>1. EndsLine(last) <=> ~EndsLine(p)
  BY Parity
<1>2. ASSUME EndsLine(p)
      PROVE  Whole(Append(b, p))
  <2>1. Append(b, p) = <<last, p>>
    <3>1. b = <<last>>
      BY <1>1, <1>2
    <3>2. Append(<<last>>, p) = <<last, p>>
      BY TwoElements, Numbers
    <3>3. QED BY <3>1, <3>2
  <2>2. p \in Nat /\ p <= 2 * MaxLines /\ MaxLines \in Nat
    BY Numbers DEF Pieces
  <2>3. PICK l \in Nat : p = 2 * l
    BY <1>2, <2>2, Parity
  <2>4. l \in 1..MaxLines /\ last = 2 * l - 1
    BY <2>2, <2>3
  <2>5. QED BY <2>1, <2>3, <2>4 DEF Whole, Line
<1>3. ASSUME ~EndsLine(p)
      PROVE  Append(b, p) = <<p>>
  <2>1. b = <<>>
    BY <1>1, <1>3
  <2>2. Append(<<>>, p) = <<p>>
    OBVIOUS
  <2>3. QED BY <2>1, <2>2
<1>4. QED BY <1>2, <1>3

\* Reading spoils a line only at the start of a file, or one that was counted.
LEMMA ReadBad ==
    ASSUME TypeInv, TypeInv', Read
    PROVE  /\ Bad' <= Bad + (IF offset = 0 THEN 1 ELSE 0)
           /\ offset' # 0
<1>1. /\ UNCHANGED <<world, file>> /\ pc = "read"
      /\ offset < Len(content[file]) /\ offset' = offset + 1 /\ file # 0
  BY DEF Read, TypeInv, TypeOK
<1> DEFINE p == content[file][offset + 1]
           line == Append(BUFF, p)
<1>2. /\ file \in Files /\ offset \in Nat /\ offset + 1 \in 1..Len(content[file])
      /\ Len(content[file]) \in Nat /\ p \in Pieces
  BY <1>1, NextPiece
<1>3. /\ matched' = IF EndsLine(p) THEN Append(matched, line) ELSE matched
      /\ BUFF' = IF EndsLine(p) THEN <<>> ELSE line
  BY DEF Read
<1>4. content'[file'][offset'] = p
  BY <1>1 DEF world
<1>5. BUFF \in Seq(Pieces) /\ matched \in Seq(Seq(Pieces))
  BY DEF TypeInv, TypeOK
<1>6. offset > 0 => /\ content[file][offset] \in Nat
                    /\ p = content[file][offset] + 1
  <2>1. ASSUME offset > 0
        PROVE  /\ content[file][offset] \in Nat /\ p = content[file][offset] + 1
    <3>1. offset \in 1..Len(content[file]) /\ 1 \in 1..Len(content[file])
      BY <1>2, <2>1
    <3>2. content[file][offset] \in Nat /\ content[file][1] \in Nat
      <4>1. content[file][offset] \in Pieces /\ content[file][1] \in Pieces
        BY <1>2, <3>1, LengthIsSize
      <4>2. QED BY <4>1, Numbers
    <3>3. /\ content[file][offset] = content[file][1] + (offset - 1)
          /\ p = content[file][1] + ((offset + 1) - 1)
      BY <1>2, <3>1 DEF TypeInv, World, InARow
    <3>4. \A x, y \in Nat : x + ((y + 1) - 1) = (x + (y - 1)) + 1
      OBVIOUS
    <3>5. QED BY <1>2, <3>2, <3>3, <3>4
  <2>2. QED BY <2>1
<1> HIDE DEF p
<1>7. line \in Seq(Pieces)
  BY <1>2, <1>5
<1>8. /\ offset > 0 /\ Aligned /\ EndsLine(p) => Whole(line)
      /\ offset > 0 /\ Aligned /\ ~EndsLine(p) => line = <<p>>
  BY <1>2, <1>6, AlignedLine DEF Aligned
<1> HIDE DEF line
<1>9. /\ IsFiniteSet(Spoilt) /\ Spoils \in Nat /\ Bad \in Nat /\ Spoils <= Bad
      /\ Spoils' \in Nat /\ Bad' \in Nat /\ Bad' <= Spoils' + 1
      /\ ~Unaligned' => Bad' = Spoils'
  BY SpoiltFinite, SpoiltFiniteNext DEF TypeInv
<1>10. CASE EndsLine(p)
  <2>1. matched' = Append(matched, line) /\ BUFF' = <<>>
    BY <1>3, <1>10
  <2>2. Aligned' /\ ~Unaligned'
    BY <1>4, <1>10, <2>1 DEF Aligned, Unaligned
  <2>3. /\ DOMAIN matched' = (DOMAIN matched) \cup {Len(matched) + 1}
        /\ Len(matched) + 1 \notin DOMAIN matched
        /\ \A i \in DOMAIN matched : matched'[i] = matched[i]
        /\ matched'[Len(matched) + 1] = line
    BY <1>5, <1>7, <2>1, AppendAt
  <2>4. Spoilt' = Spoilt \cup (IF Whole(line) THEN {} ELSE {Len(matched) + 1})
    <3>1. \A x : Whole(x)' <=> Whole(x)
      BY DEF Whole, Line
    <3>2. ASSUME NEW i
          PROVE  i \in Spoilt' <=> i \in Spoilt \cup (IF Whole(line) THEN {} ELSE {Len(matched) + 1})
      BY <2>3, <3>1 DEF Spoilt
    <3>3. QED BY <3>2
  <2>5. /\ Whole(line) => Spoils' = Spoils
        /\ Spoils' <= Spoils + 1
    <3>1. CASE Whole(line)
      <4>1. Spoilt' = Spoilt
        BY <2>4, <3>1
      <4>2. QED BY <1>9, <4>1 DEF Spoils
    <3>2. CASE ~Whole(line)
      <4>1. Spoilt' = Spoilt \cup {Len(matched) + 1} /\ Len(matched) + 1 \notin Spoilt
        BY <2>3, <2>4, <3>2 DEF Spoilt
      <4>2. Cardinality(Spoilt') = Cardinality(Spoilt) + 1
        BY <1>9, <4>1, FS_AddElement
      <4>3. QED BY <1>9, <3>2, <4>2 DEF Spoils
    <3>3. QED BY <3>1, <3>2
  <2>6. Bad' = Spoils'
    BY <1>9, <2>2
  <2>7. CASE offset = 0
    BY <1>1, <1>2, <1>9, <2>5, <2>6, <2>7
  <2>8. CASE offset # 0 /\ Aligned
    <3>0. offset > 0
      BY <1>2, <2>8
    <3>1. Whole(line)
      BY <1>8, <1>10, <2>8, <3>0
    <3>2. QED BY <1>1, <1>2, <1>9, <2>5, <2>6, <2>8, <3>1
  <2>9. CASE offset # 0 /\ ~Aligned
    <3>1. Bad = Spoils + 1
      BY <1>1, <1>2, <2>9 DEF Bad, Unaligned
    <3>2. QED BY <1>1, <1>2, <1>9, <2>5, <2>6, <2>9, <3>1
  <2>10. QED BY <2>7, <2>8, <2>9
<1>11. CASE ~EndsLine(p)
  <2>1. matched' = matched /\ BUFF' = line
    BY <1>3, <1>11
  <2>2. Spoils' = Spoils
    <3>1. Spoilt' = Spoilt
      BY <2>1 DEF Spoilt, Whole, Line
    <3>2. QED BY <3>1 DEF Spoils
  <2>3. CASE offset = 0
    <3>1. Bad' <= Spoils + 1
      BY <1>9, <2>2
    <3>2. QED BY <1>1, <1>2, <1>9, <2>3, <3>1
  <2>4. CASE offset # 0 /\ Aligned
    <3>1. line = <<p>>
      BY <1>2, <1>8, <1>11, <2>4
    <3>2. Aligned' /\ ~Unaligned'
      BY <1>4, <1>11, <2>1, <3>1 DEF Aligned, Unaligned
    <3>3. Bad' = Spoils
      BY <1>9, <2>2, <3>2
    <3>4. QED BY <1>1, <1>2, <1>9, <2>4, <3>3
  <2>5. CASE offset # 0 /\ ~Aligned
    <3>1. Bad = Spoils + 1
      BY <1>1, <1>2, <2>5 DEF Bad, Unaligned
    <3>2. Bad' <= Spoils + 1
      BY <1>9, <2>2
    <3>3. QED BY <1>1, <1>2, <1>9, <2>5, <3>1, <3>2
  <2>6. QED BY <2>3, <2>4, <2>5
<1>12. QED BY <1>10, <1>11

LEMMA Naturals ==
    ASSUME TypeInv
    PROVE  /\ newest \in Files /\ newest \in Nat /\ offset \in Nat
           /\ curpos \in Nat /\ lastpos \in Nat
           /\ Spoils \in Nat /\ Bad \in Nat /\ Spoils <= Bad
<1>1. newest \in Files /\ newest \in Nat
  BY Numbers DEF TypeInv, TypeOK
<1>2. offset \in Nat /\ curpos \in Nat /\ lastpos \in Nat
  BY Numbers DEF TypeInv, TypeOK
<1>3. QED BY <1>1, <1>2, SpoiltFinite DEF TypeInv

\* A reader between two files: the file it turns to is newer than the last one
\* whose size it read up to.
Turning(g, m) ==
    /\ g \in Files /\ m \in Files
    /\ Spoils <= g - 1
    /\ g < m /\ m <= newest
    /\ curpos <= Len(content[m])

LEMMA TurningNumbers ==
    ASSUME TypeInv, NEW g, NEW m, Turning(g, m)
    PROVE  /\ g \in Nat /\ m \in Nat /\ Spoils \in Nat /\ newest \in Nat
           /\ Spoils + 1 <= m - 1 /\ g <= Changes
           /\ Len(content[m]) \in Nat /\ curpos \in Nat
<1>1. g \in Nat /\ m \in Nat /\ newest \in Nat /\ Spoils \in Nat /\ curpos \in Nat
  BY Numbers, SpoiltFinite DEF Turning, TypeInv, TypeOK
<1>2. Changes >= newest - 1 /\ Changes \in Nat
  BY ChangesNumber DEF TypeInv
<1>3. Spoils <= g - 1 /\ g < m /\ m <= newest
  BY DEF Turning
<1>4. QED BY <1>1, <1>2, <1>3, LengthIsSize DEF Turning

\* From then on the reading of the new file has begun, and its first line may
\* be spoilt.
LEMMA TurningBegins ==
    ASSUME TypeInv, TypeInv', NEW g, NEW m, Turning(g, m),
           UNCHANGED <<world, curpos, matched>>, file' # 0, offset' = 0,
           pc' # "compare", lastpos' <= Len(content[m])
    PROVE  Spending'
<1>1. /\ Spoils \in Nat /\ m \in Nat /\ Spoils + 1 <= m - 1 /\ m <= m /\ m <= newest
      /\ m \in Files /\ curpos <= Len(content[m])
  BY TurningNumbers DEF Turning
<1>2. Spoils' = Spoils
  <2>1. Spoilt' = Spoilt
    BY DEF Spoilt, Whole, Line
  <2>2. QED BY <2>1 DEF Spoils
<1>3. ~Unaligned'
  BY DEF Unaligned
<1>4. Bad' = Spoils
  BY <1>2, <1>3, SpoiltFiniteNext DEF TypeInv
<1>5. content' = content /\ newest' = newest /\ curpos' = curpos
  BY DEF world
<1>6. Begun(m, m)'
  BY <1>1, <1>4, <1>5 DEF Begun
<1>7. QED BY <1>1, <1>6 DEF Spending

\* Steps that change neither what was read nor the place of the stream.
LEMMA BegunStays ==
    ASSUME TypeInv, TypeInv', NEW g \in Files, NEW m \in Files,
           UNCHANGED <<world, file, offset, BUFF, matched>>
    PROVE  Spoils' = Spoils /\ Bad' = Bad
<1>1. Spoilt' = Spoilt
  BY DEF Spoilt, Whole, Line
<1>2. Spoils' = Spoils
  BY <1>1 DEF Spoils
<1>3. Unaligned' <=> Unaligned
  BY DEF Unaligned, Aligned, world
<1>4. QED BY <1>2, <1>3 DEF Bad

LEMMA SpendingOfStat ==
    ASSUME TypeInv, TypeInv', NEW g \in Files, NEW m \in Files,
           Begun(g, m) \/ Waiting(g, m), Stat
    PROVE  Spending'
<1>1. /\ pc = "stat" /\ UNCHANGED <<world, lastpos, BUFF, matched>>
      /\ newest' = newest /\ path' = path /\ content' = content
  BY DEF Stat, world
<1>2. /\ g \in Nat /\ m \in Nat /\ newest \in Nat /\ newest \in Files /\ Spoils \in Nat
      /\ Bad \in Nat /\ Spoils <= Bad /\ Changes = newest - 1 + (IF path = 0 THEN 1 ELSE 0)
      /\ lastpos \in Nat
  BY Numbers, Naturals, ChangesNumber DEF TypeInv
<1>3. Changes' = Changes
  BY <1>1 DEF Changes
<1>4. Spoils' = Spoils
  <2>1. Spoilt' = Spoilt
    BY <1>1 DEF Spoilt, Whole, Line
  <2>2. QED BY <2>1 DEF Spoils
<1>5. CASE path = 0
  <2>1. file' = 0 /\ pc' = "sleep"
    BY <1>5 DEF Stat
  <2>2. Spoils <= g - 1 /\ g <= Changes
    <3>1. CASE Begun(g, m)
      <4>1. g <= newest /\ Bad <= g - 1
        <5>1. g <= m /\ m <= newest /\ Bad + (IF offset = 0 THEN 1 ELSE 0) <= g - 1
          BY <3>1 DEF Begun
        <5>2. QED BY <1>2, <5>1
      <4>2. QED BY <1>2, <1>5, <4>1
    <3>2. CASE Waiting(g, m)
      BY <3>2 DEF Waiting
    <3>3. QED BY <3>1, <3>2
  <2>3. Waiting(g, m)'
    BY <1>3, <1>4, <2>1, <2>2 DEF Waiting
  <2>4. QED BY <2>3 DEF Spending
<1>6. CASE path # 0
  <2>1. /\ curpos' = Len(content[newest])
        /\ pc' = IF file = 0 THEN "fopen" ELSE "compare"
        /\ file' = file /\ offset' = offset
    BY <1>6 DEF Stat, TypeInv, World
  <2>2. curpos' <= Len(content'[newest])
    BY <1>1, <1>2, <2>1, LengthIsSize
  <2>3. CASE Begun(g, m)
    <3>1. /\ file # 0 /\ g <= newest /\ Bad + (IF offset = 0 THEN 1 ELSE 0) <= g - 1
          /\ lastpos <= Len(content[g])
      <4>1. g <= m /\ m <= newest
        BY <2>3 DEF Begun
      <4>2. QED BY <1>2, <2>3, <4>1 DEF Begun
    <3>2. curpos' < lastpos' => g < newest
      <4>1. g = newest => ~(Len(content[newest]) < lastpos)
        BY <1>2, <3>1, LengthIsSize
      <4>2. QED BY <1>1, <1>2, <2>1, <3>1, <4>1
    <3>3. Bad' = Bad
      BY <1>1, <2>1, BegunStays
    <3>4. newest <= newest
      BY <1>2
    <3>5. Begun(g, newest)'
      BY <1>1, <2>1, <2>2, <3>1, <3>2, <3>3, <3>4 DEF Begun
    <3>6. QED BY <1>1, <1>2, <3>5 DEF Spending
  <2>4. CASE Waiting(g, m)
    <3>1. file = 0 /\ Spoils <= g - 1 /\ g <= Changes
      BY <1>1, <2>4 DEF Waiting
    <3>2. g < newest /\ newest <= newest
      BY <1>2, <1>6, <3>1
    <3>3. Waiting(g, newest)'
      BY <1>1, <1>3, <1>4, <2>1, <2>2, <3>1, <3>2 DEF Waiting
    <3>4. QED BY <1>1, <1>2, <3>3 DEF Spending
  <2>5. QED BY <2>3, <2>4
<1>7. QED BY <1>5, <1>6

\* The file is opened, and what is in BUFF is left from another one.
LEMMA SpendingOfOpen ==
    ASSUME TypeInv, TypeInv', NEW g \in Files, NEW m \in Files,
           Begun(g, m) \/ Waiting(g, m), Fopen \/ Shrunk
    PROVE  Spending'
<1>1. /\ UNCHANGED <<world, curpos, matched>> /\ content' = content /\ newest' = newest
      /\ path' = path
  BY DEF Fopen, Shrunk, world
<1>2. /\ g \in Nat /\ m \in Nat /\ newest \in Nat /\ Spoils \in Nat /\ Bad \in Nat /\ Spoils <= Bad
      /\ lastpos \in Nat /\ curpos \in Nat
  BY Numbers, Naturals
<1>3. Turning(g, m)
  <2>1. CASE Begun(g, m)
    <3>1. pc = "compare" /\ curpos < lastpos
      BY <2>1 DEF Fopen, Shrunk, Begun, TypeInv, Missing
    <3>2. Bad + (IF offset = 0 THEN 1 ELSE 0) <= g - 1
      BY <2>1 DEF Begun
    <3>3. Spoils <= g - 1
      BY <1>2, <3>2
    <3>4. QED BY <2>1, <3>1, <3>3 DEF Begun, Turning
  <2>2. CASE Waiting(g, m)
    BY <2>2 DEF Fopen, Shrunk, Waiting, Turning
  <2>3. QED BY <2>1, <2>2
<1>4. Spoils' = Spoils
  <2>1. Spoilt' = Spoilt
    BY <1>1 DEF Spoilt, Whole, Line
  <2>2. QED BY <2>1 DEF Spoils
<1>5. Changes' = Changes
  BY <1>1 DEF Changes
<1>6. CASE file' = 0 \/ pc' = "compare"
  <2>1. file' # 0 => offset' = 0 /\ pc' = "compare"
    BY <1>6 DEF Fopen, Shrunk, Open
  <2>2. g <= Changes /\ Spoils <= g - 1
    BY <1>3, TurningNumbers DEF Turning
  <2>3. g < m /\ m <= newest /\ curpos' <= Len(content[m])
    BY <1>1, <1>3 DEF Turning
  <2>4. Waiting(g, m)'
    BY <1>1, <1>4, <1>5, <2>1, <2>2, <2>3 DEF Waiting
  <2>5. QED BY <2>4 DEF Spending
<1>7. CASE file' # 0 /\ pc' # "compare"
  <2>1. offset' = 0 /\ lastpos' = 0
    BY <1>7 DEF Fopen, Shrunk, Open
  <2>2. lastpos' <= Len(content[m])
    BY <2>1, LengthIsSize
  <2>3. QED BY <1>1, <1>3, <1>7, <2>1, <2>2, TurningBegins
<1>8. QED BY <1>6, <1>7

\* The file is compared, and has not shrunk.
LEMMA SpendingOfCompare ==
    ASSUME TypeInv, TypeInv', NEW g \in Files, NEW m \in Files,
           Begun(g, m) \/ Waiting(g, m), Same \/ Grown
    PROVE  Spending'
<1>1. /\ UNCHANGED <<world, file, offset, curpos, lastpos, BUFF, matched>>
      /\ content' = content /\ newest' = newest /\ pc = "compare" /\ pc' # "compare"
      /\ file # 0
  BY DEF Same, Grown, world, TypeInv, TypeOK
<1>2. lastpos <= curpos /\ lastpos \in Nat /\ curpos \in Nat
  BY Numbers DEF Same, Grown, TypeInv, TypeOK
<1>3. CASE Begun(g, m)
  <2>1. Bad' = Bad
    BY <1>1, BegunStays
  <2>2. Begun(g, m)'
    BY <1>1, <1>3, <2>1 DEF Begun
  <2>3. QED BY <2>2 DEF Spending
<1>4. CASE Waiting(g, m)
  <2>1. Turning(g, m) /\ offset = 0
    BY <1>1, <1>4 DEF Waiting, Turning
  <2>2. lastpos' <= Len(content[m])
    <3>1. curpos <= Len(content[m]) /\ Len(content[m]) \in Nat
      BY <2>1, LengthIsSize DEF Turning
    <3>2. lastpos <= Len(content[m])
      BY <1>2, <3>1
    <3>3. QED BY <1>1, <3>2
  <2>3. QED BY <1>1, <2>1, <2>2, TurningBegins
<1>5. QED BY <1>3, <1>4

LEMMA SpendingOfReading ==
    ASSUME TypeInv, TypeInv', NEW g \in Files, NEW m \in Files,
           Begun(g, m) \/ Waiting(g, m), Read \/ ReadEnd
    PROVE  Spending'
<1>1. /\ pc = "read" /\ file' = file /\ curpos' = curpos /\ content' = content
      /\ newest' = newest /\ UNCHANGED world /\ pc' # "compare"
  BY DEF Read, ReadEnd, world
<1>2. Begun(g, m)
  BY <1>1 DEF Waiting, TypeInv, TypeOK
<1>3. /\ g \in Nat /\ m \in Nat /\ newest \in Nat /\ Bad \in Nat /\ Bad' \in Nat
      /\ offset \in Nat
  <2>1. Bad' \in Nat
    BY SpoiltFiniteNext DEF TypeInv
  <2>2. QED BY <2>1, Numbers, Naturals
<1>4. CASE Read
  <2>1. Bad' <= Bad + (IF offset = 0 THEN 1 ELSE 0) /\ offset' # 0 /\ lastpos' = lastpos
    BY <1>4, ReadBad DEF Read
  <2>2. Bad' + (IF offset' = 0 THEN 1 ELSE 0) <= g - 1
    <3>1. Bad + (IF offset = 0 THEN 1 ELSE 0) <= g - 1
      BY <1>2 DEF Begun
    <3>2. Bad' <= g - 1
      BY <1>3, <2>1, <3>1
    <3>3. \A x \in Nat : x + 0 = x
      OBVIOUS
    <3>4. (IF offset' = 0 THEN 1 ELSE 0) = 0
      BY <2>1
    <3>5. QED BY <1>3, <3>2, <3>3, <3>4
  <2>3. Begun(g, m)'
    BY <1>1, <1>2, <2>1, <2>2 DEF Begun
  <2>4. QED BY <2>3 DEF Spending
<1>5. CASE ReadEnd
  <2>1. UNCHANGED <<file, offset, BUFF, matched>> /\ lastpos' = curpos
    BY <1>5 DEF ReadEnd
  <2>2. Bad' = Bad
    BY <1>1, <2>1, BegunStays
  <2>3. Bad + (IF offset = 0 THEN 1 ELSE 0) <= m - 1 /\ m <= m
    <3>1. Bad + (IF offset = 0 THEN 1 ELSE 0) <= g - 1 /\ g <= m
      BY <1>2 DEF Begun
    <3>2. QED BY <1>3, <3>1
  <2>4. Begun(m, m)'
    BY <1>1, <1>2, <2>1, <2>2, <2>3 DEF Begun
  <2>5. QED BY <2>4 DEF Spending
<1>6. QED BY <1>4, <1>5

LEMMA SpendingOfRest ==
    ASSUME TypeInv, TypeInv', NEW g \in Files, NEW m \in Files,
           Begun(g, m) \/ Waiting(g, m), Awake \/ Return
    PROVE  Spending'
<1>1. /\ UNCHANGED <<world, file, offset, curpos, lastpos, BUFF, matched>>
      /\ content' = content /\ newest' = newest /\ path' = path
      /\ pc \in {"sleep", "stat"} /\ pc' \in {"stat", "done"}
  BY DEF Awake, Return, world
<1>2. Spoils' = Spoils /\ Bad' = Bad
  BY <1>1, BegunStays
<1>3. Changes' = Changes
  BY <1>1 DEF Changes
<1>4. CASE Begun(g, m)
  <2>1. Begun(g, m)'
    BY <1>1, <1>2, <1>4 DEF Begun
  <2>2. QED BY <2>1 DEF Spending
<1>5. CASE Waiting(g, m)
  <2>1. Waiting(g, m)'
    BY <1>1, <1>2, <1>3, <1>5 DEF Waiting
  <2>2. QED BY <2>1 DEF Spending
<1>6. QED BY <1>4, <1>5

LEMMA SpoiltInvStep == SpoiltInv /\ [Next]_vars => SpoiltInv'
<1> SUFFICES ASSUME SpoiltInv, [Next]_vars, ~emptied', ~failed' PROVE Spending'
  BY TypeInvStep DEF SpoiltInv
<1>1. TypeInv /\ TypeInv'
  BY TypeInvStep DEF SpoiltInv
<1>2. CASE UNCHANGED vars \/ follow_stop
  <2>1. UNCHANGED <<world, stream>>
    BY <1>2 DEF follow_stop, vars, world, stream
  <2>2. UNCHANGED <<world, file, offset, curpos, lastpos, BUFF, matched, pc, failed>>
        /\ content' = content /\ newest' = newest /\ path' = path /\ emptied' = emptied
    BY <2>1 DEF world, stream
  <2>3. PICK g \in Files, m \in Files : Begun(g, m) \/ Waiting(g, m)
    BY <2>2 DEF SpoiltInv, Spending
  <2>4. Spoils' = Spoils /\ Bad' = Bad
    BY <1>1, <2>2, BegunStays
  <2>5. Changes' = Changes
    BY <2>2 DEF Changes
  <2>6. Begun(g, m)' \/ Waiting(g, m)'
    BY <2>2, <2>3, <2>4, <2>5 DEF Begun, Waiting
  <2>7. QED BY <2>6 DEF Spending
<1>3. CASE Truncate
  BY <1>3 DEF Truncate
<1>4. CASE (\E n \in {1, 2} : Write(n)) \/ NewFile \/ Remove
  <2>1. Longer /\ emptied' = emptied
    BY <1>1, <1>4, WriteLonger, ChangeLonger
  <2>2. Spending /\ ~emptied
    BY <2>1 DEF SpoiltInv, Longer, stream
  <2>3. Changes <= Changes'
    <3>1. Changes \in Nat /\ newest \in Nat /\ newest >= 1
      <4>1. TypeOK
        BY <1>1 DEF TypeInv
      <4>2. newest \in Files
        BY <4>1 DEF TypeOK
      <4>3. newest \in Nat /\ newest >= 1
        BY <4>2, Numbers DEF Files
      <4>4. QED BY <4>1, <4>3, ChangesNumber
    <3>2. CASE \E n \in {1, 2} : Write(n)
      <4>1. newest' = newest /\ path' = path
        BY <3>2 DEF Write
      <4>2. Changes' = Changes
        BY <4>1 DEF Changes
      <4>3. QED BY <3>1, <4>2
    <3>3. CASE NewFile
      <4>1. newest' = newest + 1 /\ path' = newest + 1 /\ path' # 0
        BY <3>1, <3>3 DEF NewFile
      <4>2. Changes' = newest
        BY <3>1, <4>1 DEF Changes
      <4>3. Changes <= newest
        BY <3>1 DEF Changes
      <4>4. QED BY <4>2, <4>3
    <3>4. CASE Remove
      <4>1. newest' = newest /\ path' = 0 /\ path # 0
        BY <3>4 DEF Remove
      <4>2. Changes' = newest /\ Changes = newest - 1
        BY <3>1, <4>1 DEF Changes
      <4>3. QED BY <3>1, <4>2
    <3>5. QED BY <1>4, <3>2, <3>3, <3>4
  <2>4. QED BY <1>1, <2>1, <2>2, <2>3, SpendingOfLonger
<1>5. CASE follow
  <2>1. emptied' = emptied
    BY <1>5 DEF follow, Stat, Fopen, Same, Grown, Shrunk, Read, ReadError, ReadEnd, Awake,
                Return, world
  <2>2. ~ReadError /\ failed' = failed
    BY <1>5 DEF follow, Stat, Fopen, Same, Grown, Shrunk, Read, ReadError, ReadEnd, Awake,
                Return
  <2>3. PICK g \in Files, m \in Files : Begun(g, m) \/ Waiting(g, m)
    BY <2>1, <2>2 DEF SpoiltInv, Spending
  <2>4. CASE Stat
    BY <1>1, <2>3, <2>4, SpendingOfStat
  <2>5. CASE Fopen \/ Shrunk
    BY <1>1, <2>3, <2>5, SpendingOfOpen
  <2>6. CASE Same \/ Grown
    BY <1>1, <2>3, <2>6, SpendingOfCompare
  <2>7. CASE Read \/ ReadEnd
    BY <1>1, <2>3, <2>7, SpendingOfReading
  <2>8. CASE Awake \/ Return
    BY <1>1, <2>3, <2>8, SpendingOfRest
  <2>9. QED BY <1>5, <2>2, <2>4, <2>5, <2>6, <2>7, <2>8 DEF follow
<1>6. QED BY <1>2, <1>3, <1>4, <1>5 DEF Next

\* OneLineSpoiltPerChange, for any number of lines and any number of changes
\* of the file: BUFF, kept from one file to the next, spoils no more lines than
\* the file has changed (follow.c, readtoeof and freopen).
THEOREM OneLineSpoiltPerChangeHolds == Spec => []OneLineSpoiltPerChange
<1>1. SpoiltInv => OneLineSpoiltPerChange
  <2> SUFFICES ASSUME SpoiltInv, ~emptied, ~failed
               PROVE  Cardinality(Spoilt) <= Changes
    BY DEF OneLineSpoiltPerChange, Spoilt
  <2>1. PICK g \in Files, m \in Files : Begun(g, m) \/ Waiting(g, m)
    BY DEF SpoiltInv, Spending
  <2>2. /\ Spoils \in Nat /\ Bad \in Nat /\ Spoils <= Bad /\ Changes \in Nat /\ Changes >= newest - 1
        /\ newest \in Nat /\ g \in Nat /\ m \in Nat
    BY Numbers, SpoiltFinite, ChangesNumber DEF SpoiltInv, TypeInv, TypeOK
  <2>3. Spoils <= Changes
    <3>1. CASE Begun(g, m)
      <4>1. Bad + (IF offset = 0 THEN 1 ELSE 0) <= g - 1 /\ g <= m /\ m <= newest
        BY <3>1 DEF Begun
      <4>2. QED BY <2>2, <4>1
    <3>2. CASE Waiting(g, m)
      <4>1. Spoils <= g - 1 /\ g <= Changes
        BY <3>2 DEF Waiting
      <4>2. QED BY <2>2, <4>1
    <3>3. QED BY <2>1, <3>1, <3>2
  <2>4. QED BY <2>3 DEF Spoils
<1>2. QED BY <1>1, SpoiltInvInit, SpoiltInvStep, PTL DEF Spec
=============================================================================
