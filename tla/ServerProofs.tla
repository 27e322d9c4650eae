---------------------------- MODULE ServerProofs ----------------------------
(***************************************************************************)
(* Proofs about Server.  The bound of sem in TypeOK is not inductive by    *)
(* itself: a worker that posts needs to have taken a slot, so TypeOK and   *)
(* SlotsConserved are proved together.                                     *)
(***************************************************************************)
EXTENDS Server, FiniteSetTheorems, TLAPS

USE DEF ServerConfig

\* The inductive invariant.
SlotInv == TypeOK /\ SlotsConserved

\* The workers that hold a slot are finitely many.
LEMMA HoldingFinite == /\ IsFiniteSet(Holding)
                       /\ Cardinality(Holding) \in Nat
<1>1. IsFiniteSet(Conns) BY ServerConfig
<1>2. Holding \subseteq Conns BY DEF Holding
<1>3. IsFiniteSet(Holding) BY <1>1, <1>2, FS_Subset
<1> QED BY <1>3, FS_CardinalityType

\* A worker that takes a slot: one holder more.
LEMMA SlotTaken ==
    ASSUME TypeOK, NEW c \in Conns, c \notin Holding, Holding' = Holding \cup {c}
    PROVE  Cardinality(Holding') = Cardinality(Holding) + 1
<1>1. IsFiniteSet(Holding) BY HoldingFinite
<1>2. Cardinality(Holding \cup {c}) = Cardinality(Holding) + 1
  BY <1>1, FS_AddElement
<1> QED BY <1>2

\* A worker that posts: one holder less, and there was one.
LEMMA SlotPosted ==
    ASSUME TypeOK, SlotsConserved, NEW c \in Holding,
           Post(c, "shutdown") \/ Post(c, "unserved")
    PROVE  /\ TypeOK => sem' \in 0..MaxInConnections
           /\ conn' \in [Conns -> {"none", "backlog", "spawned", "select", "ssl",
                                   "read", "shutdown", "closed", "unserved", "orphan",
                     "reset"}]
           /\ SlotsConserved'
<1>0. c \in Conns BY DEF Holding
<1>1. IsFiniteSet(Holding) /\ Cardinality(Holding) \in Nat BY HoldingFinite
<1>2. Holding' = Holding \ {c}
  BY <1>0 DEF Holding, Post, Move, TypeOK
<1>3. IsFiniteSet(Holding \ {c})
      /\ Cardinality(Holding \ {c}) = Cardinality(Holding) - 1
  BY <1>1, FS_RemoveElement
<1>4. Cardinality(Holding \ {c}) \in Nat BY <1>3, FS_CardinalityType
<1>5. sem' = sem + 1 BY DEF Post
<1>6. sem \in Int /\ MaxInConnections \in Nat BY ServerConfig DEF TypeOK
<1>7. Cardinality(Holding') = Cardinality(Holding) - 1 BY <1>2, <1>3
<1>8. SlotsConserved' BY <1>1, <1>5, <1>6, <1>7 DEF SlotsConserved
<1>9. sem' \in 0..MaxInConnections
  BY <1>1, <1>3, <1>4, <1>5, <1>6 DEF SlotsConserved, TypeOK
<1> QED BY <1>0, <1>8, <1>9 DEF Post, Move, TypeOK

\* A step that leaves the holders and the semaphore alone conserves the slots.
LEMMA SlotsUntouched ==
    ASSUME SlotsConserved, Holding' = Holding, sem' = sem
    PROVE  SlotsConserved'
<1>1. Cardinality(Holding') = Cardinality(Holding) OBVIOUS
<1> QED BY <1>1 DEF SlotsConserved

\* Initially every slot is free.
LEMMA SlotInit == Init => SlotInv
<1> SUFFICES ASSUME Init PROVE SlotInv OBVIOUS
<1>1. Holding = {} BY DEF Init, Holding
<1>2. Cardinality(Holding) = 0 BY <1>1, FS_EmptySet
<1>3. SlotsConserved BY <1>2, ServerConfig DEF SlotsConserved, Init
<1>4. conn \in [Conns -> {"none", "backlog", "spawned", "select", "ssl", "read",
                          "shutdown", "closed", "unserved", "orphan", "reset"}]
      /\ commands \in [Conns -> 0..MaxCommands]
  BY ServerConfig DEF Init
<1>5. sem \in 0..MaxInConnections /\ n \in 1..MaxWaitWorker /\ fd \in 0..NumFds
  BY ServerConfig DEF Init
<1>6. TypeOK BY <1>4, <1>5 DEF TypeOK, Init
<1> QED BY <1>3, <1>6 DEF SlotInv

\* Every step of the listener, the workers, the clients and main conserves
\* the slots.
LEMMA SlotStep == SlotInv /\ [Next]_vars => SlotInv'
<1> SUFFICES ASSUME TypeOK, SlotsConserved, [Next]_vars PROVE SlotInv'
  BY DEF SlotInv
<1> USE ServerConfig
<1>1. ASSUME NEW c \in Conns, ClientConnects(c) PROVE SlotInv'
  <2>1. Holding' = Holding BY <1>1 DEF ClientConnects, Move, Holding, TypeOK
  <2>2. TypeOK' BY <1>1 DEF ClientConnects, Move, TypeOK, loop
  <2> QED BY <1>1, <2>1, <2>2, SlotsUntouched DEF SlotInv, ClientConnects
<1>2. CASE Listener
  <2>1. CASE ListenerAccept
    <3>1. Holding' = Holding
      BY <2>1 DEF ListenerAccept, Backlog, Move, Holding, TypeOK
    <3>2. conn' \in [Conns -> {"none", "backlog", "spawned", "select", "ssl",
                     "read", "shutdown", "closed", "unserved", "orphan",
                     "reset"}]
      BY <2>1 DEF ListenerAccept, Backlog, Move, TypeOK
    <3>3. TypeOK' BY <2>1, <3>2 DEF ListenerAccept, TypeOK
    <3> QED BY <2>1, <3>1, <3>3, SlotsUntouched DEF SlotInv, ListenerAccept
  <2>2. CASE ListenerSelect \/ ListenerLoop \/ ListenerRoom \/ ListenerWait
             \/ CleanupWait \/ CleanupDone
    <3>1. conn' = conn /\ sem' = sem
      BY <2>2 DEF ListenerSelect, ListenerLoop, ListenerRoom, ListenerWait,
                  CleanupWait, CleanupDone
    <3>2. Holding' = Holding BY <3>1 DEF Holding
    <3>3. TypeOK'
      <4>1. CASE ListenerSelect BY <4>1 DEF ListenerSelect, TypeOK
      <4>2. CASE ListenerLoop
        <5>1. CASE rset = {} /\ listener' = "select" /\ UNCHANGED <<rset, fd, n>>
          BY <4>2, <5>1 DEF ListenerLoop, TypeOK
        <5>2. CASE \E f \in rset : fd' = f /\ rset' = rset \ {f} /\ n' = 1
                                   /\ listener' = "check"
          <6>1. fd' \in 0..NumFds /\ rset' \subseteq 1..NumFds BY <5>2 DEF TypeOK
          <6>2. n' \in 1..MaxWaitWorker BY <5>2
          <6> QED BY <4>2, <5>2, <6>1, <6>2 DEF ListenerLoop, TypeOK
        <5> QED BY <4>2, <5>1, <5>2 DEF ListenerLoop
      <4>3. CASE ListenerRoom BY <4>3 DEF ListenerRoom, TypeOK
      <4>4. CASE ListenerWait BY <4>4 DEF ListenerWait, TypeOK
      <4>5. CASE CleanupWait
        <5>1. n' \in 1..MaxWaitWorker BY <4>5 DEF CleanupWait, TypeOK
        <5>2. sem_destroyed' \in BOOLEAN BY <4>5, Zenon DEF CleanupWait, TypeOK
        <5>3. listener' \in {"select", "loop", "check", "accept", "cleanup", "done"}
          BY <4>5 DEF CleanupWait, TypeOK
        <5> QED BY <4>5, <5>1, <5>2, <5>3, <3>1 DEF CleanupWait, TypeOK
      <4>6. CASE CleanupDone BY <4>6 DEF CleanupDone, TypeOK
      <4> QED BY <2>2, <4>1, <4>2, <4>3, <4>4, <4>5, <4>6
    <3> QED BY <3>1, <3>2, <3>3, SlotsUntouched DEF SlotInv
  <2> QED BY <1>2, <2>1, <2>2 DEF Listener
<1>3. CASE CancelServer
  <2>1. Holding' = Holding BY <1>3 DEF CancelServer, Holding
  <2>2. TypeOK' BY <1>3 DEF CancelServer, TypeOK
  <2> QED BY <1>3, <2>1, <2>2, SlotsUntouched DEF SlotInv, CancelServer
<1>4. CASE ListenerCancelled \/ ListenerFails
  <2>1. StartsCleanup /\ UNCHANGED <<commands, sem, rset, fd, cancelled, sem_destroyed>>
    BY <1>4 DEF ListenerCancelled, ListenerFails
  <2>2. Holding' = Holding BY <2>1 DEF StartsCleanup, Holding, TypeOK
  <2>3. TypeOK' BY <2>1 DEF StartsCleanup, TypeOK
  <2> QED BY <2>1, <2>2, <2>3, SlotsUntouched DEF SlotInv
<1>5. ASSUME NEW c \in Conns, WorkerStart(c) PROVE SlotInv'
  <2>1. c \notin Holding BY <1>5 DEF WorkerStart, Holding
  <2>2. Holding' = Holding \cup {c} BY <1>5 DEF WorkerStart, Move, Holding, TypeOK
  <2>3. Cardinality(Holding') = Cardinality(Holding) + 1 BY <2>1, <2>2, SlotTaken
  <2>4. SlotsConserved'
    BY <1>5, <2>3, HoldingFinite DEF SlotsConserved, WorkerStart, TypeOK
  <2>5. TypeOK' BY <1>5 DEF WorkerStart, Move, TypeOK, loop
  <2> QED BY <2>4, <2>5 DEF SlotInv
<1>6. ASSUME NEW c \in Conns,
             WorkerSelect(c) \/ WorkerSSL(c) \/ WorkerEnd(c)
      PROVE  SlotInv'
  <2>1. c \in Holding BY <1>6 DEF WorkerSelect, WorkerSSL, WorkerEnd, Holding
  <2>2. UNCHANGED <<commands, loop>> BY <1>6 DEF WorkerSelect, WorkerSSL, WorkerEnd
  <2>3. CASE Post(c, "shutdown") \/ Post(c, "unserved")
    <3>1. SlotsConserved' BY <2>1, <2>3, SlotPosted
    <3>2. TypeOK' BY <2>1, <2>2, <2>3, SlotPosted DEF TypeOK, loop
    <3> QED BY <3>1, <3>2 DEF SlotInv
  <2>4. CASE (Move(c, "ssl") \/ Move(c, "read")) /\ sem' = sem
    <3>1. Holding' = Holding BY <2>1, <2>4 DEF Move, Holding, TypeOK
    <3>2. TypeOK' BY <2>2, <2>4 DEF Move, TypeOK, loop
    <3> QED BY <2>4, <3>1, <3>2, SlotsUntouched DEF SlotInv
  <2> QED BY <1>6, <2>3, <2>4 DEF WorkerSelect, WorkerSSL, WorkerEnd
<1>7. ASSUME NEW c \in Conns, WorkerCommand(c) PROVE SlotInv'
  <2>1. Holding' = Holding BY <1>7 DEF WorkerCommand, Holding
  <2>2. TypeOK' BY <1>7 DEF WorkerCommand, TypeOK, loop
  <2> QED BY <1>7, <2>1, <2>2, SlotsUntouched DEF SlotInv, WorkerCommand
<1>8. ASSUME NEW c \in Conns, WorkerClose(c) \/ WorkerInterrupted(c) PROVE SlotInv'
  <2>1. Holding' = Holding
    BY <1>8 DEF WorkerClose, WorkerInterrupted, Move, Holding, TypeOK
  <2>2. TypeOK' BY <1>8 DEF WorkerClose, WorkerInterrupted, Move, TypeOK, loop
  <2> QED BY <1>8, <2>1, <2>2, SlotsUntouched DEF SlotInv, WorkerClose, WorkerInterrupted
<1>9. CASE UNCHANGED vars
  <2>1. Holding' = Holding /\ sem' = sem BY <1>9 DEF vars, Holding
  <2>2. TypeOK' BY <1>9 DEF vars, TypeOK
  <2> QED BY <2>1, <2>2, SlotsUntouched DEF SlotInv
<1> QED BY <1>1, <1>2, <1>3, <1>4, <1>5, <1>6, <1>7, <1>8, <1>9 DEF Next, Worker

\* The inductive invariant.
LEMMA SlotInvariant == Spec => []SlotInv
BY SlotInit, SlotStep, PTL DEF Spec

\* Type correctness of the server; that sem never exceeds maxinconnections is
\* the part that needs SlotsConserved.
THEOREM ServerTypeOK == Spec => []TypeOK
<1>1. SlotInv => TypeOK BY DEF SlotInv
<1> QED BY <1>1, SlotInvariant, PTL

\* For every number of connections, sockets and slots: sem_wait and sem_post
\* are balanced on every path through network_server_worker.
THEOREM SlotsConservedHolds == Spec => []SlotsConserved
<1>1. SlotInv => SlotsConserved BY DEF SlotInv
<1> QED BY <1>1, SlotInvariant, PTL
=============================================================================
