------------------------------- MODULE Intake -------------------------------
(***************************************************************************)
(* How a host gets into memory.  The follower finds it in a line of the    *)
(* log (regex_do); a peer writes it to a connection, from which a server   *)
(* worker reads commands.  Both ask the exclude list first, which threads  *)
(* of ExcludeList may be reading anew.                                     *)
(*                                                                         *)
(* The connection is that of a build without SSL: a byte stream of which   *)
(* write and read move as many bytes as they like.  SSL_write and SSL_read *)
(* move whole commands, which is one of the cases here.                    *)
(***************************************************************************)
EXTENDS ExcludeList, Wire

CONSTANTS
    Commands,              \* what the peer may send; a client of this version sends ADD
    HostOf,                \* the host an ipaddr stands for
    SenderBigEndian,       \* byte order of the peer
    ReceiverBigEndian,     \* byte order of this machine
    remote_authoritative,  \* 1: records of peers are not checked
    Pieces,                \* bound: how many bytes read and write move at most
    SocketBuffer,          \* bound: bytes on their way
    MaxCommands            \* bound: commands of the peer

\* Two values of the same width.
AtLeast(a, b) == \/ a = b
                 \/ \E i \in DOMAIN a : /\ a[i] > b[i]
                                        /\ \A j \in 1..(i - 1) : a[j] = b[j]

\* A peer sends what its action thread has processed (records_add_record).
ASSUME IntakeConfig == /\ Commands \subseteq Command
                       /\ \A c \in Commands : AtLeast(c.occurrences, c.action_threshold)
                       /\ HostOf \in [Bytes(IPADDR_SIZE) -> Hosts]
                       /\ SenderBigEndian \in BOOLEAN
                       /\ ReceiverBigEndian \in BOOLEAN
                       /\ remote_authoritative \in {0, 1}
                       /\ Pieces \subseteq Nat \ {0}
                       /\ SocketBuffer \in Nat \ {0}
                       /\ MaxCommands \in Nat
                       /\ NULL \notin Hosts
                       /\ {0, 1, 2} \subseteq Byte
                       /\ Byte \subseteq Nat

VARIABLES
    match,       \* the host regex_do is about to add, or NULL
    sent,        \* the commands the peer has begun to write
    outgoing,    \* what net_write has still to write of the last one
    stream,      \* bytes on their way
    closed,      \* the peer has closed the connection, or lost it
    worker,      \* where network_server_worker is
    buff,        \* what net_read has got of a command
    handled      \* the commands the worker has decoded

connection == <<sent, outgoing, stream, closed>>
serving == <<worker, buff, handled>>
intakeVars == <<match, connection, serving>>

IntakeTypeOK ==
    /\ TypeOK
    /\ match \in Hosts \cup {NULL}
    /\ sent \in Seq(Commands) /\ Len(sent) <= MaxCommands
    /\ outgoing \in Seq(Byte) /\ Len(outgoing) <= REMOTE_COMMAND_SIZE
    /\ stream \in Seq(Byte) /\ Len(stream) <= SocketBuffer
    /\ closed \in BOOLEAN
    /\ worker \in {"read", "add", "end", "abort"}
    /\ buff \in Seq(Byte) /\ Len(buff) <= REMOTE_COMMAND_SIZE
    /\ handled \in Seq(Command)

IntakeInit ==
    /\ Init
    /\ match = NULL
    /\ sent = <<>>
    /\ outgoing = <<>>
    /\ stream = <<>>
    /\ closed = FALSE
    /\ worker = "read"
    /\ buff = <<>>
    /\ handled = <<>>
-----------------------------------------------------------------------------
(* The follower *)

\* regex_do: the expression captures a host in a line of the log, and the
\* exclude list is asked.
regex_do(host) ==
    /\ match = NULL
    /\ ~exclude_isexcluded(host)
    /\ match' = host
    /\ UNCHANGED <<vars, connection, serving>>

records_add_ip ==
    /\ match # NULL
    /\ match' = NULL
    /\ UNCHANGED <<vars, connection, serving>>
-----------------------------------------------------------------------------
(* The peer: _client_queue_worker, once it is connected *)

SendCommand(c) ==
    /\ ~closed
    /\ outgoing = <<>>
    /\ Len(sent) < MaxCommands
    /\ sent' = Append(sent, c)
    /\ outgoing' = net_command_to_buff(c, SenderBigEndian)
    /\ UNCHANGED <<vars, match, stream, closed, serving>>

Least(m, n) == IF m < n THEN m ELSE n
Front(s, n) == SubSeq(s, 1, n)
Rest(s, n) == SubSeq(s, n + 1, Len(s))

\* A round of net_write: write takes part of what is left.
net_write(piece) ==
    LET n == Least(piece, Len(outgoing))
    IN  /\ ~closed
        /\ n > 0
        /\ Len(stream) + n <= SocketBuffer
        /\ stream' = stream \o Front(outgoing, n)
        /\ outgoing' = Rest(outgoing, n)
        /\ UNCHANGED <<vars, match, sent, closed, serving>>

\* The peer is done, or write fails for good.
CloseConnection ==
    /\ ~closed
    /\ closed' = TRUE
    /\ outgoing' = <<>>
    /\ UNCHANGED <<vars, match, sent, stream, serving>>
-----------------------------------------------------------------------------
(* network_server_worker, after the handshake *)

\* A round of net_read: read returns part of what is there, and no more than
\* is left to fill the buffer.
net_read(piece) ==
    LET n == Least(Least(piece, Len(stream)), REMOTE_COMMAND_SIZE - Len(buff))
    IN  /\ worker = "read"
        /\ n > 0
        /\ buff' = buff \o Front(stream, n)
        /\ stream' = Rest(stream, n)
        /\ UNCHANGED <<vars, match, sent, outgoing, closed, worker, handled>>

\* The end of the stream, with or without part of a command, or an error.
ReadEnds ==
    /\ worker = "read"
    /\ Len(buff) < REMOTE_COMMAND_SIZE
    /\ closed
    /\ worker' = "end"
    /\ UNCHANGED <<vars, match, connection, buff, handled>>

Code(n) == [i \in 1..Size32 |-> IF i = Size32 THEN n ELSE 0]
ADD == Code(0)
REMOVE == Code(1)
INFORMATION == Code(2)

\* Mutant: whatever has been read counts as a command.
MutHandle ==
    /\ worker = "read"
    /\ buff # <<>>
    /\ LET c == net_buff_to_command([i \in 1..REMOTE_COMMAND_SIZE |->
                        IF i <= Len(buff) THEN buff[i] ELSE 0], ReceiverBigEndian)
       IN  /\ handled' = Append(handled, c)
           /\ worker' = "read"
    /\ buff' = <<>>
    /\ UNCHANGED <<vars, match, connection>>

\* A host that is excluded is not added unless remote_authoritative is set;
\* a record with fewer occurrences than its threshold ends the process.
AfterADD(c) ==
    IF remote_authoritative = 0 /\ exclude_isexcluded(HostOf[c.ipaddr]) THEN "read"
    ELSE IF AtLeast(c.occurrences, c.action_threshold) THEN "add"
    ELSE "abort"

\* A whole command: only ADD does something.
HandleCommand ==
    /\ worker = "read"
    /\ Len(buff) = REMOTE_COMMAND_SIZE
    /\ LET c == net_buff_to_command(buff, ReceiverBigEndian)
       IN  /\ handled' = Append(handled, c)
           /\ worker' = CASE c.command = ADD -> AfterADD(c)
                          [] c.command \in {REMOVE, INFORMATION} -> "read"
                          [] OTHER -> "end"
    /\ buff' = <<>>
    /\ UNCHANGED <<vars, match, connection>>

records_add_record ==
    /\ worker = "add"
    /\ worker' = "read"
    /\ UNCHANGED <<vars, match, connection, buff, handled>>
-----------------------------------------------------------------------------
IntakeNext ==
    \/ Next /\ UNCHANGED intakeVars
    \/ \E host \in Hosts : regex_do(host)
    \/ records_add_ip
    \/ \E c \in Commands : SendCommand(c)
    \/ \E piece \in Pieces : net_write(piece) \/ net_read(piece)
    \/ CloseConnection \/ ReadEnds \/ HandleCommand \/ records_add_record

IntakeSpec == IntakeInit /\ [][IntakeNext]_<<vars, intakeVars>>
-----------------------------------------------------------------------------
(* Properties *)

\* The commands that the worker decodes are the first of those that the peer
\* has sent, whatever pieces write and read make of them, wherever the
\* connection breaks and whatever byte order the two machines have.
CommandsIntact ==
    /\ Len(handled) <= Len(sent)
    /\ \A i \in DOMAIN handled : handled[i] = sent[i]

\* worker.c asserts that a received record has reached its threshold: a peer
\* sends no other (IntakeConfig), and pieces, byte orders and broken
\* connections make none.
AssertionHolds == worker # "abort"

\* Lines of the file f that exclude the host whatever a shift by 32 does.
Lists(f, host) == \E i \in DOMAIN f : /\ Parses(f[i]) /\ Defined(f[i])
                                      /\ Covers(f[i], host)

AlwaysListed == {h \in Hosts : \A f \in Files : Lists(f, h)}

\* Thread r has read its file to the end.
Complete(r) == reader[r] = "done" /\ content[r] \in Files

Passed == {h \in Hosts : match' = h /\ match = NULL}
          \cup {HostOf[c.ipaddr] : c \in {handled'[i] :
                   i \in {j \in DOMAIN handled' : worker' = "add" /\ worker = "read"
                                                  /\ j = Len(handled')}}}

\* A host in every version of the exclude file passes the test only before
\* the file has been read for the first time, or while a thread reads it again,
\* or because there was no memory for its line: between a clear and the last
\* line the list is incomplete (exclude.c), at any other time it is not.
ListedPassOnlyInReload ==
    [][remote_authoritative = 0 /\ cleared # NULL /\ reader[cleared] = "done"
           /\ cleared \notin ignored
       => Passed \cap AlwaysListed = {}]_<<vars, intakeVars>>

\* agentsmith_exclude.man: "The action script will not be executed for hosts
\* appearing in the exclusion file and the offending hosts are not remembered."
\* Stated for hosts in every version of the file, once it has been read.
ExcludedNotRemembered ==
    [][(\E r \in Readers : Complete(r)) => Passed \cap AlwaysListed = {}]_<<vars, intakeVars>>
=============================================================================
