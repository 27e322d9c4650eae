------------------------------- MODULE Follow -------------------------------
(***************************************************************************)
(* Following the log file: the loop of follow(), readtoeof() and           *)
(* follow_stop() in follow.c, run against whoever writes, rotates,         *)
(* truncates or removes the file meanwhile.                                *)
(*                                                                         *)
(* A line is written in two pieces, the second of which has the newline,   *)
(* together or one after the other: line l consists of the pieces 2l - 1   *)
(* and 2l; 0 is what was in the file before the start.  Sizes and offsets  *)
(* count pieces.  Lines are shorter than BUFFSIZE.  The inode test of the  *)
(* loop compares lastino and curino, which are both set once before the    *)
(* loop, so its branch never runs and is not modelled.                     *)
(***************************************************************************)
EXTENDS Integers, Sequences, FiniteSets

CONSTANTS
    MaxLines,    \* bound: lines written
    MaxFiles,    \* bound: files that are in turn the log file
    Rotates,     \* the file may be renamed away and created anew
    Truncates,   \* the file may be emptied, bound: once, in runs without
                 \*   other changes of the file or read errors
    Removes,     \* the file may be removed, and be created later
    ReadFails    \* the device may fail to read, bound: once

ASSUME FollowConfig == /\ MaxLines \in Nat
                       /\ MaxFiles \in Nat \ {0}
                       /\ {Rotates, Truncates, Removes, ReadFails} \subseteq BOOLEAN

Files == 1..MaxFiles
Pieces == 0..(2 * MaxLines)
EndsLine(p) == p % 2 = 0

VARIABLES
    content,    \* per file: its pieces
    newest,     \* the file created last
    path,       \* the file the path names, 0 if there is none
    written,    \* number of pieces written
    emptied,    \* the file has been truncated
    file,       \* the file the stream has open, 0 if it is NULL
    offset,     \* the position of the stream, 0 if there is none
    curpos,     \* size at the last stat
    lastpos,    \* size at the stat before
    BUFF,       \* the pieces of a line that is not complete
    matched,    \* what regex_do has been called with, in order
    ferror,     \* the stream's error indicator
    failed,     \* reading has failed once
    pc,         \* where follow() is
    stop        \* set by follow_stop

vars == <<content, newest, path, written, emptied, file, offset, curpos, lastpos,
          BUFF, matched, ferror, failed, pc, stop>>

world == <<content, newest, path, written, emptied>>
stream == <<file, offset, curpos, lastpos, BUFF, matched, ferror, failed, pc>>

TypeOK ==
    /\ content \in [Files -> Seq(Pieces)]
    /\ newest \in Files
    /\ path \in Files \cup {0}
    /\ written \in Pieces
    /\ emptied \in BOOLEAN
    /\ file \in Files \cup {0}
    /\ offset \in 0..(2 * MaxLines + 1)
    /\ curpos \in 0..(2 * MaxLines + 1)
    /\ lastpos \in 0..(2 * MaxLines + 1)
    /\ BUFF \in Seq(Pieces)
    /\ matched \in Seq(Seq(Pieces))
    /\ {ferror, failed} \subseteq BOOLEAN
    /\ pc \in {"stat", "fopen", "compare", "read", "sleep", "done"}
    /\ pc \in {"compare", "read"} => file # 0
    /\ stop \in BOOLEAN

\* follow() has opened the file, taken its size and gone to its end; nothing
\* happens to the file meanwhile.  (In Daemon it may be gone.)
Init ==
    /\ content = [f \in Files |-> IF f = 1 THEN <<0>> ELSE <<>>]
    /\ newest = 1
    /\ path = 1
    /\ written = 0
    /\ emptied = FALSE
    /\ file = 1
    /\ offset = 1
    /\ curpos = 1
    /\ lastpos = 1
    /\ BUFF = <<>>
    /\ matched = <<>>
    /\ ferror = FALSE
    /\ failed = FALSE
    /\ pc = "stat"
    /\ stop = FALSE
-----------------------------------------------------------------------------
(* The writers of the log *)

\* A line, the first part of one, or the rest.
Write(n) ==
    /\ path # 0
    /\ written + n <= 2 * MaxLines
    /\ n = 2 => EndsLine(written)
    /\ written' = written + n
    /\ content' = [content EXCEPT ![path] = @ \o [i \in 1..n |-> written + i]]
    /\ UNCHANGED <<newest, path, emptied, stream, stop>>

\* The writer does not come back to a line begun in another file.
Abandoned == written' = IF EndsLine(written) THEN written ELSE written + 1

\* A new file takes the place of the old one, or of none.
NewFile ==
    /\ IF path # 0 THEN Rotates ELSE Removes
    /\ newest < MaxFiles /\ ~emptied
    /\ newest' = newest + 1
    /\ path' = newest + 1
    /\ Abandoned
    /\ UNCHANGED <<content, emptied, stream, stop>>

Truncate ==
    /\ Truncates /\ ~emptied
    /\ path = 1 /\ ~failed
    /\ content' = [content EXCEPT ![path] = <<>>]
    /\ emptied' = TRUE
    /\ UNCHANGED <<newest, path, written, stream, stop>>

Remove ==
    /\ Removes
    /\ path # 0
    /\ newest < MaxFiles /\ ~emptied
    /\ path' = 0
    /\ Abandoned
    /\ UNCHANGED <<content, newest, emptied, stream, stop>>

follow_stop ==
    /\ ~stop
    /\ stop' = TRUE
    /\ UNCHANGED <<world, stream>>
-----------------------------------------------------------------------------
(* follow() *)

\* Mutant: the loop does not look at stop.
MutStat ==
    /\ pc = "stat"
    /\ path # 0
    /\ curpos' = Len(content[path])
    /\ pc' = IF file = 0 THEN "fopen" ELSE "compare"
    /\ UNCHANGED <<world, file, offset, lastpos, BUFF, matched, ferror, failed, stop>>

\* The top of the loop: a file that has gone is closed and waited for.
Stat ==
    /\ pc = "stat"
    /\ ~stop
    /\ \/ /\ path = 0
          /\ file' = 0 /\ offset' = 0 /\ ferror' = FALSE
          /\ pc' = "sleep"
          /\ UNCHANGED curpos
       \/ /\ path # 0
          /\ curpos' = Len(content[path])
          /\ pc' = IF file = 0 THEN "fopen" ELSE "compare"
          /\ UNCHANGED <<file, offset, ferror>>
    /\ UNCHANGED <<world, lastpos, BUFF, matched, failed, stop>>

\* The path is opened from its start, unless it has gone or fopen fails.
Open(next) ==
    /\ offset' = 0
    /\ ferror' = FALSE
    /\ \/ path # 0 /\ file' = path /\ pc' = next
       \/ file' = 0 /\ pc' = "sleep"

\* The file has reappeared.
Fopen ==
    /\ pc = "fopen"
    /\ Open("compare")
    /\ UNCHANGED <<world, curpos, lastpos, BUFF, matched, failed, stop>>

\* The file has not changed its size.
Same ==
    /\ pc = "compare"
    /\ curpos = lastpos
    /\ pc' = "sleep"
    /\ UNCHANGED <<world, file, offset, curpos, lastpos, BUFF, matched, ferror, failed, stop>>

\* Mutant: a file that has grown is read from its start.
MutGrown ==
    /\ pc = "compare"
    /\ curpos > lastpos
    /\ pc' = "read"
    /\ offset' = 0
    /\ UNCHANGED <<world, file, curpos, lastpos, BUFF, matched, ferror, failed, stop>>

\* The file has grown: read on.
Grown ==
    /\ pc = "compare"
    /\ curpos > lastpos
    /\ pc' = "read"
    /\ UNCHANGED <<world, file, offset, curpos, lastpos, BUFF, matched, ferror, failed, stop>>

\* Mutant: readtoeof is called although freopen gave NULL.
MutShrunk ==
    /\ pc = "compare"
    /\ curpos < lastpos
    /\ file' \in {path, 0}
    /\ offset' = 0
    /\ lastpos' = 0
    /\ pc' = "read"
    /\ UNCHANGED <<world, curpos, BUFF, matched, ferror, failed, stop>>

\* The file has shrunk: freopen, and read from the start.
Shrunk ==
    /\ pc = "compare"
    /\ curpos < lastpos
    /\ Open("read")
    /\ lastpos' = IF file' # 0 THEN 0 ELSE lastpos
    /\ UNCHANGED <<world, curpos, BUFF, matched, failed, stop>>

\* Mutant: a line counts when the file ends, too.
MutRead ==
    /\ pc = "read"
    /\ ~stop /\ ~ferror
    /\ offset < Len(content[file])
    /\ LET p == content[file][offset + 1]
           line == Append(BUFF, p)
           complete == EndsLine(p) \/ offset + 1 = Len(content[file])
       IN  /\ matched' = IF complete THEN Append(matched, line) ELSE matched
           /\ BUFF' = IF complete THEN <<>> ELSE line
    /\ offset' = offset + 1
    /\ UNCHANGED <<world, file, curpos, lastpos, ferror, failed, pc, stop>>

\* Mutant: readtoeof returns after the first line.
MutReadLine ==
    /\ pc = "read"
    /\ ~stop /\ ~ferror
    /\ offset < Len(content[file])
    /\ LET p == content[file][offset + 1]
           line == Append(BUFF, p)
       IN  /\ matched' = IF EndsLine(p) THEN Append(matched, line) ELSE matched
           /\ BUFF' = IF EndsLine(p) THEN <<>> ELSE line
           /\ pc' = IF EndsLine(p) THEN "sleep" ELSE pc
           /\ lastpos' = IF EndsLine(p) THEN curpos ELSE lastpos
    /\ offset' = offset + 1
    /\ UNCHANGED <<world, file, curpos, ferror, failed, stop>>

\* readtoeof: the next piece; the newline calls regex_do.  BUFF is kept from
\* one call of readtoeof to the next, and from one file to the next.
Read ==
    /\ pc = "read"
    /\ ~stop /\ ~ferror
    /\ offset < Len(content[file])
    /\ LET p == content[file][offset + 1]
           line == Append(BUFF, p)
       IN  /\ matched' = IF EndsLine(p) THEN Append(matched, line) ELSE matched
           /\ BUFF' = IF EndsLine(p) THEN <<>> ELSE line
    /\ offset' = offset + 1
    /\ UNCHANGED <<world, file, curpos, lastpos, ferror, failed, pc, stop>>

\* readtoeof: an error of the file.  lastpos is moved all the same, and as the
\* indicator is cleared only at the end of the file or when the file is opened
\* again, the next call reads a character, finds it set, and drops that.
ReadError ==
    /\ pc = "read"
    /\ ~stop
    /\ IF ferror THEN /\ offset < Len(content[file])
                      /\ offset' = offset + 1
       ELSE ReadFails /\ ~failed /\ ~emptied /\ UNCHANGED offset
    /\ ferror' = TRUE
    /\ failed' = TRUE
    /\ lastpos' = curpos
    /\ pc' = "sleep"
    /\ UNCHANGED <<world, file, curpos, BUFF, matched, stop>>

\* readtoeof: the end of the file.  lastpos is the size before reading.
ReadEnd ==
    /\ pc = "read"
    /\ stop \/ offset >= Len(content[file])
    /\ ferror' = (stop /\ ferror)
    /\ lastpos' = curpos
    /\ pc' = "sleep"
    /\ UNCHANGED <<world, file, offset, curpos, BUFF, matched, failed, stop>>

Awake ==
    /\ pc = "sleep"
    /\ pc' = "stat"
    /\ UNCHANGED <<world, file, offset, curpos, lastpos, BUFF, matched, ferror, failed, stop>>

Return ==
    /\ pc = "stat"
    /\ stop
    /\ pc' = "done"
    /\ UNCHANGED <<world, file, offset, curpos, lastpos, BUFF, matched, ferror, failed, stop>>

follow == Stat \/ Fopen \/ Same \/ Grown \/ Shrunk \/ Read \/ ReadError \/ ReadEnd \/ Awake
          \/ Return

Next == Write(1) \/ Write(2) \/ NewFile \/ Truncate \/ Remove \/ follow_stop \/ follow

Spec == Init /\ [][Next]_vars

\* follow() goes on; the file can be opened again and again, and in the end is.
FairSpec == Spec /\ WF_vars(follow) /\ SF_vars(Fopen /\ file' # 0)
                 /\ SF_vars(Shrunk /\ file' # 0)
-----------------------------------------------------------------------------
(* Properties *)

\* No line is handed to regex_do twice and none before an older one, so that
\* no occurrence of a host counts twice: across growth between stat and read
\* and one rotation or one removal of the file (follow.c, freopen and the two
\* positions).  It does not survive a file emptied between stat and read, nor
\* one replaced between stat and fopen: lastpos is then the size of something
\* else, the next stat sees a file that has shrunk, and it is read again.
EachLineOnceInOrder ==
    ~emptied => \A i, j \in DOMAIN matched : i < j =>
        \A a \in DOMAIN matched[i], b \in DOMAIN matched[j] : matched[i][a] < matched[j][b]

Line(l) == <<2 * l - 1, 2 * l>>
Whole(line) == \E l \in 1..MaxLines : line = Line(l)

\* How often the first file has gone, or been replaced by another.
Changes == newest - 1 + (IF path = 0 THEN 1 ELSE 0)

\* regex_do sees whole lines, however they come into the file, wherever stat,
\* reading and file changes fall, unless reading fails and drops a character.
\* A change of the file may spoil one line: what is in BUFF of the old file is
\* put before the first line of the new one.  It never spoils more.  (A file
\* emptied in place may be read on from the middle of a line, and then once
\* more from its start.)
OneLineSpoiltPerChange ==
    ~emptied /\ ~failed => Cardinality({i \in DOMAIN matched : ~Whole(matched[i])}) <= Changes

Matched(l) == \E i \in DOMAIN matched : matched[i] = Line(l)

\* The whole line is in a file.
InLog(l) == \E f \in Files : \E i \in 1..(Len(content[f]) - 1) :
                <<content[f][i], content[f][i + 1]>> = Line(l)

\* Every line of a file that stays in its place is matched, also one written
\* between stat and read, or between the end of the file and the next stat
\* (lastpos is the size before reading, so what came later is seen as growth).
\* After a read error the rest waits until the file grows, and loses characters.
LinesInPlaceMatched ==
    \A l \in 1..MaxLines :
        InLog(l) ~> (Matched(l) \/ stop \/ emptied \/ path # 1 \/ failed)

\* agentsmith.man "Each new line added to the log file will be matched against
\* the regular expression", whatever becomes of the file.
EveryLineMatched ==
    \A l \in 1..MaxLines : InLog(l) ~> (Matched(l) \/ stop)

\* follow() ends after follow_stop, wherever it is.
FollowReturns == stop ~> (pc = "done")
=============================================================================
