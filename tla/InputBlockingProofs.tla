------------------------ MODULE InputBlockingProofs ------------------------
(***************************************************************************)
(* Proofs about the two halves of block_input and unblock_input:           *)
(* InputBlocking, for every set of threads and windows, and ClipCursor,    *)
(* for every set of rectangles.                                            *)
(*                                                                         *)
(* The inductive invariant is IInv.  Its core, PendingAccounted, speaks of *)
(* what each queue will do to a loop or window once it has been run, not   *)
(* of what the loop or window is now: a Block closure queued by a loop     *)
(* that is created during an episode must already be promised an Unblock   *)
(* closure behind it.  It needs to know that a loop outside the map has an *)
(* empty queue (EntriesClean) and that no closure waits for a window that  *)
(* was never seen (QueuesOwned).                                           *)
(*                                                                         *)
(* The second part is about an IPC task that nobody races (no WM_CLOSE):   *)
(* the invariants Phases and Covering.  The third is about ClipCursor.     *)
(***************************************************************************)
EXTENDS InputBlocking, ClipCursor, FiniteSetTheorems, TLAPS

(* An entry outside its map holds no blocking state, a loop no closure. *)
EntriesClean ==
  /\ \A t \in Threads \ registered : queue[t] = <<>>
  /\ \A x \in Objects \ registered : ~blocked[x]

(* A closure sits in the queue of the thread that owns its target, and its *)
(* target has been in its map.                                             *)
QueuesOwned ==
  \A t \in Threads : \A i \in DOMAIN queue[t] :
    /\ Home(queue[t][i].target) = t
    /\ queue[t][i].target \in registered \cup destroyed

(* A thread inside read_message has its loop in the map. *)
ReadersRegistered ==
  \A t \in Threads : pc[t] \in {"read", "lock", "drain"} => t \in registered

Shape == TypeOK /\ ReadersRegistered

IInv == Shape /\ EntriesClean /\ QueuesOwned /\ PendingAccounted

-----------------------------------------------------------------------------
(* Operators. *)

LEMMA HomeType == \A x \in Objects : Home(x) \in Threads
BY ConstantsAssumption DEF Home, Objects

LEMMA DoType == \A o \in Op, x \in Objects : Do(o, x) \in Closure
BY DEF Do, Closure

(* A closure for another target leaves the fate of x as it is. *)
LEMMA AppendOther ==
  ASSUME NEW q \in Seq(Closure), NEW cl \in Closure, NEW b \in BOOLEAN,
         NEW x \in Objects, cl.target # x, EndsBlocked(Append(q, cl), b, x)
  PROVE  EndsBlocked(q, b, x)
<1>1. DOMAIN Append(q, cl) = 1 .. Len(q) + 1 /\ DOMAIN q = 1 .. Len(q)
  OBVIOUS
<1>2. \A i \in 1 .. Len(q) : Append(q, cl)[i] = q[i]
  OBVIOUS
<1>3. Append(q, cl)[Len(q) + 1] = cl
  OBVIOUS
<1>4. Do("Block", x).target = x
  BY DEF Do
<1>5. CASE \E i \in DOMAIN Append(q, cl) :
             /\ Append(q, cl)[i] = Do("Block", x)
             /\ \A j \in DOMAIN Append(q, cl) : j > i => Append(q, cl)[j].target # x
  <2>1. PICK i \in DOMAIN Append(q, cl) :
             /\ Append(q, cl)[i] = Do("Block", x)
             /\ \A j \in DOMAIN Append(q, cl) : j > i => Append(q, cl)[j].target # x
    BY <1>5
  <2>2. i \in 1 .. Len(q)
    BY <2>1, <1>1, <1>3, <1>4
  <2>3. q[i] = Do("Block", x) /\ \A j \in DOMAIN q : j > i => q[j].target # x
    BY <2>1, <2>2, <1>1, <1>2
  <2>4. QED
    BY <2>2, <2>3, <1>1 DEF EndsBlocked
<1>6. CASE b /\ \A j \in DOMAIN Append(q, cl) : Append(q, cl)[j].target # x
  BY <1>6, <1>1, <1>2 DEF EndsBlocked
<1>7. QED
  BY <1>5, <1>6 DEF EndsBlocked

(* An Unblock closure at the end of a queue settles the fate of its target. *)
LEMMA AppendUnblock ==
  ASSUME NEW q \in Seq(Closure), NEW b \in BOOLEAN, NEW x \in Objects
  PROVE  ~EndsBlocked(Append(q, Do("Unblock", x)), b, x)
<1> DEFINE cl == Do("Unblock", x)
<1>1. cl \in Closure /\ cl.target = x /\ cl # Do("Block", x)
  BY DEF Do, Closure, Op
<1>2. DOMAIN Append(q, cl) = 1 .. Len(q) + 1 /\ Append(q, cl)[Len(q) + 1] = cl
  BY <1>1
<1>3. Len(q) \in Nat
  OBVIOUS
<1> HIDE DEF cl
<1>4. ~EndsBlocked(Append(q, cl), b, x)
  BY <1>1, <1>2, <1>3 DEF EndsBlocked
<1>5. QED
  BY <1>4 DEF cl

(* Running the first closure of a queue does not change where it leads. *)
LEMMA RunHead ==
  ASSUME NEW q \in Seq(Closure), q # <<>>, NEW b \in BOOLEAN, NEW x \in Objects,
         EndsBlocked(Tail(q), IF Head(q).target = x THEN Head(q).op = "Block" ELSE b, x)
  PROVE  EndsBlocked(q, b, x)
<1>1. /\ DOMAIN q = 1 .. Len(q)
      /\ DOMAIN Tail(q) = 1 .. Len(q) - 1
      /\ Len(q) \in Nat /\ Len(q) # 0
      /\ \A i \in 1 .. Len(q) - 1 : Tail(q)[i] = q[i + 1]
      /\ Head(q) = q[1]
  OBVIOUS
<1>2. CASE \E i \in DOMAIN Tail(q) :
             /\ Tail(q)[i] = Do("Block", x)
             /\ \A j \in DOMAIN Tail(q) : j > i => Tail(q)[j].target # x
  <2>1. PICK i \in DOMAIN Tail(q) :
             /\ Tail(q)[i] = Do("Block", x)
             /\ \A j \in DOMAIN Tail(q) : j > i => Tail(q)[j].target # x
    BY <1>2
  <2>2. i + 1 \in DOMAIN q /\ q[i + 1] = Do("Block", x)
    BY <2>1, <1>1
  <2>3. ASSUME NEW j \in DOMAIN q, j > i + 1
        PROVE  q[j].target # x
    <3>1. j - 1 \in DOMAIN Tail(q) /\ j - 1 > i /\ Tail(q)[j - 1] = q[j]
      BY <2>1, <2>3, <1>1
    <3>2. QED
      BY <3>1, <2>1
  <2>4. QED
    BY <2>2, <2>3 DEF EndsBlocked
<1>3. CASE /\ IF Head(q).target = x THEN Head(q).op = "Block" ELSE b
           /\ \A j \in DOMAIN Tail(q) : Tail(q)[j].target # x
  <2>1. \A j \in DOMAIN q : j > 1 => q[j].target # x
    <3>1. SUFFICES ASSUME NEW j \in DOMAIN q, j > 1
                   PROVE  q[j].target # x
      OBVIOUS
    <3>2. j - 1 \in DOMAIN Tail(q) /\ Tail(q)[j - 1] = q[j]
      BY <3>1, <1>1
    <3>3. QED
      BY <3>2, <1>3
  <2>2. CASE Head(q).target = x
    <3>1. Head(q) \in Closure
      BY <1>1
    <3>2. Head(q) = Do("Block", x)
      BY <3>1, <2>2, <1>3 DEF Closure, Do
    <3>3. QED
      BY <3>2, <2>1, <1>1 DEF EndsBlocked
  <2>3. CASE Head(q).target # x
    <3>1. b /\ \A j \in DOMAIN q : q[j].target # x
      BY <2>1, <2>3, <1>1, <1>3
    <3>2. QED
      BY <3>1 DEF EndsBlocked
  <2>4. QED
    BY <2>2, <2>3
<1>4. QED
  BY <1>2, <1>3 DEF EndsBlocked

LEMMA EmptyQueue ==
  ASSUME NEW b \in BOOLEAN, NEW x
  PROVE  EndsBlocked(<<>>, b, x) <=> b
BY DEF EndsBlocked

-----------------------------------------------------------------------------
(* Type correctness. *)

LEMMA LoopQueueType == TypeOK => \A t \in Threads : LoopQueue(t) \in Seq(Closure)
BY DoType DEF TypeOK, LoopQueue, Objects, Op

LEMMA InitTypeOK == Init => TypeOK
<1> SUFFICES ASSUME Init PROVE TypeOK
  OBVIOUS
<1>1. <<>> \in Seq(Closure)
  OBVIOUS
<1>2. queue \in [Threads -> Seq(Closure)]
  BY <1>1 DEF Init
<1>3. pc \in [Callers -> {"idle", "block", "unblock", "replyBlock", "replyUnblock",
                         "enter", "read", "lock", "drain"}]
  BY DEF Init
<1>4. \A c \in Callers : pc[c] \in PcOf(c)
  BY DEF Init, PcOf
<1>5. /\ registered \in SUBSET Objects
      /\ blocked \in [Objects -> BOOLEAN]
      /\ ahead \in [Callers -> SUBSET Objects]
  BY ConstantsAssumption DEF Init
<1>6. blocking \in BOOLEAN /\ connected \in BOOLEAN /\ aborted \in BOOLEAN
  BY Zenon DEF Init
<1>7. /\ destroyed \in SUBSET Windows
      /\ heard \in {"nothing", "blocked", "unblocked", "ended"}
      /\ missed \in SUBSET Objects
  BY Zenon DEF Init
<1>8. owed \in Int
  BY DEF Init
<1>9. QED
  BY <1>2, <1>3, <1>4, <1>5, <1>6, <1>7, <1>8 DEF TypeOK

LEMMA SpawnType ==
  ASSUME TypeOK, NEW t \in Threads, NEW cl \in Closure, Spawn(t, cl)
  PROVE  /\ queue' \in [Threads -> Seq(Closure)]
         /\ registered' \in SUBSET Objects
         /\ missed' \in SUBSET Objects
<1>1. LoopQueue(t) \in Seq(Closure)
  BY LoopQueueType
<1>2. QED
  BY <1>1 DEF Spawn, TypeOK, BlindSpot, Objects

LEMMA VisitType ==
  ASSUME TypeOK, NEW c \in Callers, NEW x \in Objects, Visit(c, x)
  PROVE  TypeOK'
<1>1. /\ queue' \in [Threads -> Seq(Closure)]
      /\ registered' \in SUBSET Objects
      /\ missed' \in SUBSET Objects
  <2>1. CASE x \in registered
    <3>1. Home(x) \in Threads
      BY HomeType
    <3>2. Do(IF pc[c] = "block" THEN "Block" ELSE "Unblock", x) \in Closure
      BY DoType DEF Op
    <3>3. Spawn(Home(x), Do(IF pc[c] = "block" THEN "Block" ELSE "Unblock", x))
      BY <2>1 DEF Visit
    <3>4. QED
      BY <3>1, <3>2, <3>3, SpawnType
  <2>2. CASE x \notin registered
    BY <2>2 DEF Visit, TypeOK
  <2>3. QED
    BY <2>1, <2>2
<1>2. QED
  BY <1>1 DEF Visit, TypeOK, PcOf

LEMMA TypeStep == TypeOK /\ [Next]_vars => TypeOK'
<1> SUFFICES ASSUME TypeOK, [Next]_vars PROVE TypeOK'
  OBVIOUS
<1> USE ConstantsAssumption
<1>1. ASSUME NEW c \in Callers, Call(c) PROVE TypeOK'
  <2>1. ASSUME NEW x \in Objects, Visit(c, x) PROVE TypeOK'
    BY <2>1, VisitType
  <2>2. CASE UnblockEnd(c)
    BY <2>2 DEF UnblockEnd, TypeOK, PcOf
  <2>3. QED
    BY <1>1, <2>1, <2>2 DEF Call
<1>2. CASE IpcTask
  <2>1. CASE BlockStart
    BY <2>1 DEF BlockStart, TypeOK, PcOf, Callers
  <2>2. CASE BlockPublish
    BY <2>2 DEF BlockPublish, TypeOK, PcOf, Callers
  <2>3. CASE RequestNoop
    BY <2>3 DEF RequestNoop, TypeOK, PcOf, Callers
  <2>4. CASE UnblockRequest
    BY <2>4 DEF UnblockRequest, Take, TypeOK, PcOf, Callers
  <2>5. CASE Reply
    BY <2>5 DEF Reply, TypeOK, PcOf, Callers
  <2>6. CASE Disconnect
    <3>1. CASE blocking
      <4>1. /\ pc' = [pc EXCEPT ![Ipc] = "unblock"]
            /\ ahead' = [ahead EXCEPT ![Ipc] = Objects]
            /\ blocking' = FALSE /\ connected' = FALSE /\ heard' = "nothing"
            /\ UNCHANGED <<registered, destroyed, queue, blocked, owed, missed, aborted>>
        BY <2>6, <3>1 DEF Disconnect, Take
      <4>2. QED
        BY <4>1 DEF TypeOK, PcOf, Callers
    <3>2. CASE ~blocking
      <4>1. UNCHANGED <<blocking, registered, destroyed, queue, blocked, pc,
                        ahead, owed, missed, aborted>>
        BY <2>6, <3>2 DEF Disconnect
      <4>2. connected' \in BOOLEAN /\ heard' \in {"nothing", "blocked", "unblocked", "ended"}
        BY <2>6 DEF Disconnect
      <4>3. QED
        BY <4>1, <4>2 DEF TypeOK, PcOf
    <3>3. QED
      BY <3>1, <3>2
  <2>7. CASE Connect
    BY <2>7 DEF Connect, TypeOK, PcOf, Callers
  <2>8. QED
    BY <1>2, <2>1, <2>2, <2>3, <2>4, <2>5, <2>6, <2>7 DEF IpcTask
<1>3. ASSUME NEW t \in Threads, CloseMessage(t) PROVE TypeOK'
  BY <1>3 DEF CloseMessage, Take, TypeOK, PcOf, Callers
<1>4. ASSUME NEW t \in Threads, QuitMessage(t) PROVE TypeOK'
  BY <1>4 DEF QuitMessage, TypeOK, PcOf, Callers, Objects
<1>5. ASSUME NEW t \in Threads, Pump(t) PROVE TypeOK'
  <2>1. CASE EnterLoop(t)
    <3>1. LoopQueue(t) \in Seq(Closure)
      BY LoopQueueType
    <3>2. QED
      BY <2>1, <3>1 DEF EnterLoop, BlindSpot, TypeOK, PcOf, Callers, Objects
  <2>2. ASSUME NEW w \in Windows, TouchWindow(t, w) PROVE TypeOK'
    <3>1. Do("Block", w) \in Closure
      BY DoType DEF Op, Objects
    <3>2. queue' \in [Threads -> Seq(Closure)]
      BY <2>2, <3>1 DEF TouchWindow, TypeOK
    <3>3. QED
      BY <2>2, <3>2 DEF TouchWindow, BlindSpot, TypeOK, PcOf, Callers, Objects
  <2>3. CASE LockQueue(t)
    BY <2>3 DEF LockQueue, TypeOK, PcOf, Callers
  <2>4. CASE RunClosure(t)
    <3>1. (Head(queue[t]).op = "Block") \in BOOLEAN
      OBVIOUS
    <3>2. Tail(queue[t]) \in Seq(Closure)
      BY <2>4 DEF RunClosure, TypeOK
    <3>3. queue' \in [Threads -> Seq(Closure)]
      BY <2>4, <3>2 DEF RunClosure, TypeOK
    <3>4. blocked' \in [Objects -> BOOLEAN] /\ aborted' \in BOOLEAN
      BY <2>4 DEF RunClosure, TypeOK
    <3>5. QED
      BY <2>4, <3>3, <3>4 DEF RunClosure, TypeOK, PcOf, Callers
  <2>5. CASE UnlockQueue(t)
    BY <2>5 DEF UnlockQueue, TypeOK, PcOf, Callers
  <2>6. QED
    BY <1>5, <2>1, <2>2, <2>3, <2>4, <2>5 DEF Pump
<1>6. ASSUME NEW w \in Windows, DestroyWindow(w) PROVE TypeOK'
  BY <1>6 DEF DestroyWindow, TypeOK, PcOf, Callers, Objects
<1>7. CASE UNCHANGED vars
  BY <1>7 DEF vars, TypeOK, PcOf
<1>8. QED
  BY <1>1, <1>2, <1>3, <1>4, <1>5, <1>6, <1>7 DEF Next

(***************************************************************************)
(* Every behaviour keeps the types of the state: the maps, queues and      *)
(* program counters of global.rs and message_loop.rs.                      *)
(***************************************************************************)
THEOREM TypeCorrect == Spec => []TypeOK
<1>1. Init => TypeOK
  BY InitTypeOK
<1>2. TypeOK /\ [Next]_vars => TypeOK'
  BY TypeStep
<1>3. QED
  BY <1>1, <1>2, PTL DEF Spec

-----------------------------------------------------------------------------
(* The inductive invariant. *)

LEMMA InitIInv == Init => IInv
<1> SUFFICES ASSUME Init PROVE IInv
  OBVIOUS
<1>1. TypeOK
  BY InitTypeOK
<1>2. EntriesClean
  BY DEF Init, EntriesClean, Objects
<1>3. QueuesOwned
  BY DEF Init, QueuesOwned
<1>4. PendingAccounted
  <2>1. SUFFICES ASSUME NEW x \in registered
                 PROVE  ~WillBlock(x)
    BY DEF PendingAccounted
  <2>2. x \in Objects
    BY <1>1 DEF TypeOK
  <2>3. queue[Home(x)] = <<>> /\ blocked[x] = FALSE
    BY <2>2, HomeType DEF Init
  <2>4. QED
    BY <2>3, EmptyQueue DEF WillBlock
<1>5. ReadersRegistered
  BY DEF Init, ReadersRegistered, Callers
<1>6. QED
  BY <1>1, <1>2, <1>3, <1>4, <1>5 DEF IInv, Shape

LEMMA ShapeStep == Shape /\ [Next]_vars => Shape'
<1> SUFFICES ASSUME Shape, [Next]_vars PROVE Shape'
  OBVIOUS
<1> USE ConstantsAssumption
<1>1. TypeOK /\ TypeOK'
  BY TypeStep DEF Shape
<1>2. ASSUME NEW t \in Threads, pc'[t] \in {"read", "lock", "drain"}
      PROVE  t \in registered'
  <2>1. t \in Callers /\ t # Ipc /\ Ipc \in Callers
    BY DEF Callers
  <2>2. pc[t] \in {"read", "lock", "drain"} => t \in registered
    BY DEF Shape, ReadersRegistered
  <2> USE DEF TypeOK
  <2>3. ASSUME NEW c \in Callers, Call(c) PROVE t \in registered'
    <3>1. ASSUME NEW x \in Objects, Visit(c, x) PROVE t \in registered'
      BY <1>2, <2>2, <3>1 DEF Visit, Spawn
    <3>2. CASE UnblockEnd(c)
      BY <1>1, <1>2, <2>1, <2>2, <3>2 DEF UnblockEnd
    <3>3. QED
      BY <2>3, <3>1, <3>2 DEF Call
  <2>4. CASE IpcTask
    <3>1. pc'[t] \in {pc[t], "unblock"} /\ registered' = registered
      BY <1>1, <2>1, <2>4 DEF IpcTask, BlockStart, BlockPublish, RequestNoop,
         UnblockRequest, Take, Reply, Disconnect, Connect
    <3>2. QED
      BY <1>2, <2>2, <3>1
  <2>5. ASSUME NEW u \in Threads, CloseMessage(u) PROVE t \in registered'
    BY <1>1, <1>2, <2>1, <2>2, <2>5 DEF CloseMessage, Take
  <2>6. ASSUME NEW u \in Threads, QuitMessage(u) PROVE t \in registered'
    BY <1>1, <1>2, <2>1, <2>2, <2>6 DEF QuitMessage
  <2>7. ASSUME NEW u \in Threads, Pump(u) PROVE t \in registered'
    BY <1>1, <1>2, <2>1, <2>2, <2>7 DEF Pump, EnterLoop, TouchWindow,
       LockQueue, RunClosure, UnlockQueue
  <2>8. ASSUME NEW w \in Windows, DestroyWindow(w) PROVE t \in registered'
    BY <1>1, <1>2, <2>1, <2>2, <2>8 DEF DestroyWindow
  <2>9. CASE UNCHANGED vars
    BY <1>2, <2>2, <2>9 DEF vars
  <2>10. QED
    BY <2>3, <2>4, <2>5, <2>6, <2>7, <2>8, <2>9 DEF Next
<1>3. QED
  BY <1>1, <1>2 DEF Shape, ReadersRegistered

(* A step that leaves the entries alone only has to keep what is accounted. *)
LEMMA FrameStep ==
  ASSUME IInv, Shape', UNCHANGED <<registered, destroyed, queue, blocked>>,
         \A x \in registered : Accounted(x) => Accounted(x)'
  PROVE  IInv'
<1>1. EntriesClean' /\ QueuesOwned'
  BY DEF IInv, EntriesClean, QueuesOwned
<1>2. PendingAccounted'
  BY DEF IInv, PendingAccounted, WillBlock
<1>3. QED
  BY <1>1, <1>2 DEF IInv

(* An unblock call that has just taken the state has every entry ahead. *)
LEMMA TakeStep ==
  ASSUME TypeOK, NEW c \in Callers, Take(c), NEW x \in registered
  PROVE  Accounted(x)'
BY DEF Take, Accounted, Unblocking, TypeOK

LEMMA VisitStep ==
  ASSUME IInv, Shape', NEW c \in Callers, NEW x \in Objects, Visit(c, x)
  PROVE  IInv'
<1> DEFINE t == Home(x)
           cl == Do(IF pc[c] = "block" THEN "Block" ELSE "Unblock", x)
<1>1. TypeOK /\ t \in Threads /\ cl \in Closure /\ cl.target = x
  BY HomeType, DoType DEF IInv, Shape, Do, Op
<1>2. UNCHANGED <<blocking, destroyed, blocked, pc>> /\ pc[c] \in {"block", "unblock"}
  BY DEF Visit
<1>3. \A y \in Objects : y # x => (Accounted(y) => Accounted(y)')
  BY <1>1, <1>2 DEF Visit, Accounted, Unblocking, TypeOK
<1>4. pc[c] = "block" => \A y : Accounted(y)'
  BY <1>1, <1>2 DEF Accounted, TypeOK, PcOf
<1>5. CASE x \notin registered
  <2>1. UNCHANGED <<queue, registered>>
    BY <1>5 DEF Visit
  <2>2. \A y \in registered : Accounted(y) => Accounted(y)'
    BY <1>1, <1>3, <1>5 DEF TypeOK
  <2>3. QED
    BY <2>1, <2>2, <1>2, FrameStep
<1>6. CASE x \in registered
  <2>1. Spawn(t, cl)
    BY <1>6 DEF Visit
  <2> DEFINE lq == LoopQueue(t)
  <2>2. /\ lq \in Seq(Closure)
        /\ queue' = [queue EXCEPT ![t] = Append(lq, cl)]
        /\ registered' = registered \cup {t}
    BY <2>1, <1>1, LoopQueueType DEF Spawn
  <2> HIDE DEF cl, lq, t
  <2>3. queue'[t] = Append(lq, cl) /\ \A u \in Threads : u # t => queue'[u] = queue[u]
    BY <2>2, <1>1 DEF TypeOK
  <2>4. EntriesClean'
    BY <2>2, <2>3, <1>2, <1>1 DEF IInv, EntriesClean, Objects
  <2>5. \A i \in DOMAIN lq : /\ Home(lq[i].target) = t
                             /\ lq[i].target \in registered' \cup destroyed
    <3>1. CASE t \in registered
      BY <3>1, <1>1, <2>2 DEF IInv, QueuesOwned, lq, LoopQueue
    <3>2. CASE t \notin registered
      <4>1. Home(t) = t
        BY <1>1 DEF Home
      <4>2. QED
        BY <3>2, <4>1, <2>2 DEF lq, LoopQueue, Do
    <3>3. QED
      BY <3>1, <3>2
  <2>6. QueuesOwned'
    <3>1. SUFFICES ASSUME NEW u \in Threads, NEW i \in DOMAIN queue'[u]
                   PROVE  /\ Home(queue'[u][i].target) = u
                          /\ queue'[u][i].target \in registered' \cup destroyed
      BY <1>2 DEF QueuesOwned
    <3>2. CASE u # t
      BY <3>2, <2>2, <2>3 DEF IInv, QueuesOwned
    <3>3. CASE u = t
      <4>1. Home(cl.target) = t /\ cl.target \in registered
        BY <1>1, <1>6 DEF t
      <4>2. i \in DOMAIN lq \/ queue'[u][i] = cl
        BY <3>3, <2>2, <2>3, <1>1
      <4>3. i \in DOMAIN lq => queue'[u][i] = lq[i]
        BY <3>3, <2>2, <2>3, <1>1
      <4>4. QED
        BY <4>1, <4>2, <4>3, <2>5, <2>2, <3>3
    <3>4. QED
      BY <3>2, <3>3
  <2>7. PendingAccounted'
    <3>1. SUFFICES ASSUME NEW y \in registered', Home(y) \notin Quitters, WillBlock(y)'
                   PROVE  Accounted(y)'
      BY DEF PendingAccounted
    <3>2. y \in Objects /\ Home(y) \in Threads /\ blocked[y] \in BOOLEAN
      BY <1>1, <2>2, HomeType DEF TypeOK, Objects
    <3>3. EndsBlocked(queue'[Home(y)], blocked[y], y)
      BY <3>1, <1>2 DEF WillBlock
    <3>4. CASE Home(y) # t
      <4>1. y \in registered
        BY <3>4, <2>2, <1>1 DEF Home
      <4>2. WillBlock(y)
        BY <3>2, <3>3, <3>4, <2>3 DEF WillBlock
      <4>3. y # x
        BY <3>4 DEF t
      <4>4. QED
        BY <4>1, <4>2, <4>3, <3>1, <3>2, <1>3 DEF IInv, PendingAccounted
    <3>5. CASE y = x
      <4>1. CASE pc[c] = "block"
        BY <4>1, <1>4
      <4>2. CASE pc[c] # "block"
        <5>1. cl = Do("Unblock", x)
          BY <4>2 DEF cl
        <5>2. EndsBlocked(Append(lq, Do("Unblock", x)), blocked[x], x)
          BY <3>3, <3>5, <5>1, <2>3 DEF t
        <5>3. QED
          BY <5>2, <3>2, <3>5, <2>2, AppendUnblock
      <4>3. QED
        BY <4>1, <4>2
    <3>6. CASE Home(y) = t /\ y # x
      <4>1. EndsBlocked(lq, blocked[y], y)
        <5>1. EndsBlocked(Append(lq, cl), blocked[y], y)
          BY <3>3, <3>6, <2>3
        <5>2. cl.target # y /\ cl \in Closure /\ lq \in Seq(Closure)
          BY <3>6, <2>2, <1>1
        <5>3. QED
          BY <5>1, <5>2, <3>2, AppendOther
      <4>2. CASE t \in registered
        <5>1. lq = queue[t] /\ y \in registered
          BY <4>2, <2>2 DEF lq, LoopQueue
        <5>2. QED
          BY <5>1, <4>1, <3>1, <3>2, <3>6, <1>3 DEF IInv, PendingAccounted, WillBlock
      <4>3. CASE t \notin registered /\ blocking
        BY <4>3, <1>2 DEF Accounted
      <4>4. CASE t \notin registered /\ ~blocking
        <5>1. lq = <<>> /\ queue[t] = <<>>
          BY <4>4, <1>1 DEF lq, LoopQueue, IInv, EntriesClean
        <5>2. blocked[y] = TRUE
          BY <5>1, <4>1, <3>2, EmptyQueue
        <5>3. y \in registered
          BY <5>2, <3>2 DEF IInv, EntriesClean
        <5>4. WillBlock(y)
          BY <5>1, <4>1, <3>6 DEF WillBlock
        <5>5. QED
          BY <5>3, <5>4, <3>1, <3>2, <3>6, <1>3 DEF IInv, PendingAccounted
      <4>5. QED
        BY <4>2, <4>3, <4>4
    <3>7. QED
      BY <3>4, <3>5, <3>6
  <2>8. QED
    BY <2>4, <2>6, <2>7 DEF IInv
<1>7. QED
  BY <1>5, <1>6

LEMMA EnterLoopStep ==
  ASSUME IInv, Shape', NEW t \in Threads, EnterLoop(t)
  PROVE  IInv'
<1>1. TypeOK /\ Home(t) = t /\ t \in Objects
  BY DEF IInv, Shape, Home, Objects
<1>2. /\ UNCHANGED <<blocking, destroyed, blocked, ahead>>
      /\ queue' = [queue EXCEPT ![t] = LoopQueue(t)]
      /\ registered' = registered \cup {t}
  BY DEF EnterLoop
<1>3. queue'[t] = LoopQueue(t) /\ \A u \in Threads : u # t => queue'[u] = queue[u]
  BY <1>1, <1>2 DEF TypeOK
<1>4. \A y : Accounted(y) => Accounted(y)'
  BY <1>1 DEF EnterLoop, Accounted, Unblocking, TypeOK, PcOf, Callers
<1>5. CASE t \in registered
  <2>1. queue' = queue /\ registered' = registered
    BY <1>1, <1>2, <1>5 DEF LoopQueue, TypeOK
  <2>2. QED
    BY <2>1, <1>2, <1>4, FrameStep
<1>6. CASE t \notin registered
  <2>1. queue[t] = <<>> /\ blocked[t] = FALSE
    BY <1>1, <1>6 DEF IInv, EntriesClean, TypeOK
  <2>2. queue'[t] = IF blocking THEN <<Do("Block", t)>> ELSE <<>>
    BY <1>3, <1>6 DEF LoopQueue
  <2>3. EntriesClean'
    BY <1>2, <1>3 DEF IInv, EntriesClean
  <2>4. QueuesOwned'
    <3>1. \A i \in DOMAIN queue'[t] : queue'[t][i].target = t
      BY <2>2 DEF Do
    <3>2. QED
      BY <3>1, <1>1, <1>2, <1>3 DEF IInv, QueuesOwned
  <2>5. PendingAccounted'
    <3>1. CASE blocking
      BY <3>1, <1>2 DEF PendingAccounted, Accounted
    <3>2. CASE ~blocking
      <4>1. queue' = queue
        BY <3>2, <2>1, <2>2, <1>1, <1>2, <1>3 DEF TypeOK
      <4>2. ~WillBlock(t)
        BY <2>1, <1>1, EmptyQueue DEF WillBlock
      <4>3. QED
        BY <4>1, <4>2, <1>2, <1>4 DEF IInv, PendingAccounted, WillBlock
    <3>3. QED
      BY <3>1, <3>2
  <2>6. QED
    BY <2>3, <2>4, <2>5 DEF IInv
<1>7. QED
  BY <1>5, <1>6

LEMMA TouchWindowStep ==
  ASSUME IInv, Shape', NEW t \in Threads, NEW w \in Windows, TouchWindow(t, w)
  PROVE  IInv'
<1>1. TypeOK /\ w \in Objects /\ w \notin Threads /\ Home(w) = t /\ t \in registered
  BY ConstantsAssumption DEF IInv, Shape, ReadersRegistered, Home, Objects, TouchWindow
<1>2. /\ UNCHANGED <<blocking, destroyed, blocked, ahead>>
      /\ registered' = registered \cup {w}
      /\ w \notin registered \cup destroyed
  BY DEF TouchWindow
<1>3. \A y : Accounted(y) => Accounted(y)'
  BY <1>1 DEF TouchWindow, Accounted, Unblocking, TypeOK, PcOf, Callers
<1>4. Do("Block", w) \in Closure /\ Do("Block", w).target = w
  BY <1>1, DoType DEF Op, Do
<1>5. /\ queue'[t] \in {queue[t], Append(queue[t], Do("Block", w))}
      /\ \A u \in Threads : u # t => queue'[u] = queue[u]
  BY <1>1 DEF TouchWindow, TypeOK
<1>6. EntriesClean'
  BY <1>1, <1>2, <1>5 DEF IInv, EntriesClean
<1>7. QueuesOwned'
  <2>1. SUFFICES ASSUME NEW u \in Threads, NEW i \in DOMAIN queue'[u]
                 PROVE  /\ Home(queue'[u][i].target) = u
                        /\ queue'[u][i].target \in registered' \cup destroyed'
    BY DEF QueuesOwned
  <2>2. CASE queue'[u] = queue[u]
    BY <2>2, <1>2 DEF IInv, QueuesOwned
  <2>3. CASE queue'[u] # queue[u]
    <3>1. u = t /\ queue'[u] = Append(queue[u], Do("Block", w)) /\ queue[u] \in Seq(Closure)
      BY <2>3, <1>1, <1>5 DEF TypeOK
    <3>2. \/ i \in DOMAIN queue[u] /\ queue'[u][i] = queue[u][i]
          \/ queue'[u][i] = Do("Block", w)
      BY <3>1, <1>4
    <3>3. QED
      BY <3>1, <3>2, <1>1, <1>2, <1>4 DEF IInv, QueuesOwned
  <2>4. QED
    BY <2>2, <2>3
<1>8. PendingAccounted'
  <2>1. CASE blocking
    BY <2>1, <1>2 DEF PendingAccounted, Accounted
  <2>2. CASE ~blocking
    <3>1. queue' = queue
      BY <2>2 DEF TouchWindow
    <3>2. ~WillBlock(w)
      <4>1. blocked[w] = FALSE
        BY <1>1, <1>2 DEF IInv, EntriesClean, TypeOK
      <4>2. \A i \in DOMAIN queue[t] : queue[t][i].target # w
        BY <1>2 DEF IInv, QueuesOwned
      <4>3. \A i \in DOMAIN queue[t] : queue[t][i] # Do("Block", w)
        BY <4>2, <1>4
      <4>4. QED
        BY <4>1, <4>2, <4>3, <1>1 DEF WillBlock, EndsBlocked
    <3>3. QED
      BY <3>1, <3>2, <1>2, <1>3 DEF IInv, PendingAccounted, WillBlock
  <2>3. QED
    BY <2>1, <2>2
<1>9. QED
  BY <1>6, <1>7, <1>8 DEF IInv

LEMMA RunClosureStep ==
  ASSUME IInv, Shape', NEW t \in Threads, RunClosure(t)
  PROVE  IInv'
<1> DEFINE q == queue[t]
           cl == Head(q)
<1>1. TypeOK /\ t \in registered /\ q \in Seq(Closure) /\ q # <<>>
  BY DEF IInv, Shape, ReadersRegistered, RunClosure, TypeOK
<1>2. /\ UNCHANGED <<blocking, registered, destroyed, pc, ahead>>
      /\ queue' = [queue EXCEPT ![t] = Tail(q)]
      /\ cl.target \in registered =>
           blocked' = [blocked EXCEPT ![cl.target] = (cl.op = "Block")]
      /\ cl.target \notin registered => blocked' = blocked
  BY DEF RunClosure
<1>3. queue'[t] = Tail(q) /\ \A u \in Threads : u # t => queue'[u] = queue[u]
  BY <1>1, <1>2 DEF TypeOK
<1>4. Home(cl.target) = t /\ cl \in Closure /\ cl.target \in Objects
  <2>1. 1 \in DOMAIN q /\ cl = q[1] /\ cl \in Closure
    BY <1>1
  <2>2. QED
    BY <2>1 DEF IInv, QueuesOwned, Closure
<1>5. \A y : Accounted(y) => Accounted(y)'
  BY <1>2 DEF Accounted, Unblocking
<1> HIDE DEF q, cl
<1>6. \A y \in registered : blocked'[y] = IF cl.target = y THEN cl.op = "Block" ELSE blocked[y]
  BY <1>1, <1>2, <1>4 DEF TypeOK
<1>7. EntriesClean'
  <2>1. \A u \in Threads \ registered : queue'[u] = <<>>
    BY <1>1, <1>3 DEF IInv, EntriesClean
  <2>2. \A x \in Objects \ registered : blocked'[x] = blocked[x]
    BY <1>1, <1>2, <1>4 DEF TypeOK
  <2>3. QED
    BY <2>1, <2>2, <1>2 DEF IInv, EntriesClean
<1>8. QueuesOwned'
  <2>1. \A i \in DOMAIN Tail(q) : i + 1 \in DOMAIN q /\ Tail(q)[i] = q[i + 1]
    BY <1>1
  <2>2. QED
    BY <2>1, <1>2, <1>3 DEF IInv, QueuesOwned, q
<1>9. PendingAccounted'
  <2>1. SUFFICES ASSUME NEW y \in registered, Home(y) \notin Quitters, WillBlock(y)'
                 PROVE  Accounted(y)
    BY <1>2, <1>5 DEF PendingAccounted
  <2>2. y \in Objects /\ Home(y) \in Threads /\ blocked[y] \in BOOLEAN
    BY <1>1, HomeType DEF TypeOK
  <2>3. EndsBlocked(queue'[Home(y)], blocked'[y], y)
    BY <2>1 DEF WillBlock
  <2>4. CASE Home(y) # t
    <3>1. queue'[Home(y)] = queue[Home(y)] /\ blocked'[y] = blocked[y]
      BY <2>2, <2>4, <1>3, <1>4, <1>6
    <3>2. QED
      BY <3>1, <2>1, <2>3 DEF IInv, PendingAccounted, WillBlock
  <2>5. CASE Home(y) = t
    <3>1. EndsBlocked(Tail(q), IF Head(q).target = y THEN Head(q).op = "Block" ELSE blocked[y], y)
      BY <2>3, <2>5, <1>3, <1>6 DEF cl
    <3>2. EndsBlocked(q, blocked[y], y)
      BY <3>1, <2>2, <1>1, RunHead
    <3>3. QED
      BY <3>2, <2>1, <2>5 DEF IInv, PendingAccounted, WillBlock, q
  <2>6. QED
    BY <2>4, <2>5
<1>10. QED
  BY <1>7, <1>8, <1>9 DEF IInv

LEMMA QuitStep ==
  ASSUME IInv, Shape', NEW t \in Threads, QuitMessage(t)
  PROVE  IInv'
<1>1. TypeOK /\ t \in Quitters
  BY DEF IInv, Shape, QuitMessage
<1>2. /\ UNCHANGED <<blocking, destroyed, ahead>>
      /\ registered' = registered \ {t}
      /\ queue' = [queue EXCEPT ![t] = <<>>]
      /\ blocked' = [blocked EXCEPT ![t] = FALSE]
  BY DEF QuitMessage
<1>3. queue'[t] = <<>> /\ \A u \in Threads : u # t => queue'[u] = queue[u]
  BY <1>1, <1>2 DEF TypeOK
<1>4. EntriesClean'
  <2>1. \A x \in Objects : blocked'[x] = IF x = t THEN FALSE ELSE blocked[x]
    BY <1>1, <1>2 DEF TypeOK
  <2>2. QED
    BY <2>1, <1>2, <1>3 DEF IInv, EntriesClean
<1>5. QueuesOwned'
  <2>1. \A u \in Threads : u # t => \A i \in DOMAIN queue[u] : queue[u][i].target # t
    BY DEF IInv, QueuesOwned, Home
  <2>2. QED
    BY <2>1, <1>2, <1>3 DEF IInv, QueuesOwned
<1>6. PendingAccounted'
  <2>1. SUFFICES ASSUME NEW x \in registered', Home(x) \notin Quitters, WillBlock(x)'
                 PROVE  Accounted(x)'
    BY DEF PendingAccounted
  <2>2. x \in registered /\ x # t /\ x \in Objects /\ Home(x) \in Threads /\ Home(x) # t
    BY <2>1, <1>1, <1>2, HomeType DEF TypeOK
  <2>3. WillBlock(x)
    BY <2>1, <2>2, <1>1, <1>2, <1>3 DEF WillBlock, TypeOK
  <2>4. Accounted(x)
    BY <2>1, <2>2, <2>3 DEF IInv, PendingAccounted
  <2>5. QED
    BY <2>4, <1>1 DEF QuitMessage, Accounted, Unblocking, TypeOK, PcOf, Callers
<1>7. QED
  BY <1>4, <1>5, <1>6 DEF IInv

LEMMA DestroyStep ==
  ASSUME IInv, Shape', NEW w \in Windows, DestroyWindow(w)
  PROVE  IInv'
<1>1. TypeOK /\ w \in Objects /\ w \notin Threads
  BY ConstantsAssumption DEF IInv, Shape, Objects
<1>2. /\ UNCHANGED <<blocking, queue, pc, ahead>>
      /\ registered' = registered \ {w}
      /\ destroyed' = destroyed \cup {w}
      /\ \A x \in Objects : blocked'[x] = IF x = w THEN FALSE ELSE blocked[x]
  BY <1>1 DEF DestroyWindow, TypeOK
<1>3. EntriesClean'
  BY <1>1, <1>2 DEF IInv, EntriesClean
<1>4. QueuesOwned'
  BY <1>2 DEF IInv, QueuesOwned
<1>5. PendingAccounted'
  <2>1. SUFFICES ASSUME NEW x \in registered', Home(x) \notin Quitters, WillBlock(x)'
                 PROVE  Accounted(x)'
    BY DEF PendingAccounted
  <2>2. x \in registered /\ x \in Objects /\ blocked'[x] = blocked[x]
    BY <1>1, <1>2 DEF TypeOK
  <2>3. WillBlock(x)
    BY <2>1, <2>2, <1>2 DEF WillBlock
  <2>4. QED
    BY <2>1, <2>2, <2>3, <1>2 DEF IInv, PendingAccounted, Accounted, Unblocking
<1>6. QED
  BY <1>3, <1>4, <1>5 DEF IInv

LEMMA IpcTaskStep ==
  ASSUME IInv, Shape', IpcTask
  PROVE  IInv'
<1>1. TypeOK
  BY DEF IInv, Shape
<1>2. UNCHANGED <<registered, destroyed, queue, blocked>>
  BY DEF IpcTask, BlockStart, BlockPublish, RequestNoop, UnblockRequest, Reply,
     Disconnect, Connect
<1>3. ASSUME NEW x \in registered, Accounted(x)
      PROVE  Accounted(x)'
  <2>1. Ipc \in Callers
    BY DEF Callers
  <2>2. CASE BlockStart
    BY <2>1, <2>2, <1>1 DEF BlockStart, Accounted, TypeOK
  <2>3. CASE BlockPublish
    BY <2>3 DEF BlockPublish, Accounted
  <2>4. CASE RequestNoop
    BY <2>1, <2>4, <1>1, <1>3 DEF RequestNoop, Accounted, Unblocking, TypeOK
  <2>5. CASE UnblockRequest
    BY <2>1, <2>5, <1>1, TakeStep DEF UnblockRequest
  <2>6. CASE Reply
    BY <2>1, <2>6, <1>1, <1>3 DEF Reply, Accounted, Unblocking, TypeOK
  <2>7. CASE Disconnect
    <3>1. CASE blocking
      BY <2>1, <2>7, <3>1, <1>1, TakeStep DEF Disconnect
    <3>2. CASE ~blocking
      BY <2>7, <3>2, <1>3 DEF Disconnect, Accounted, Unblocking
    <3>3. QED
      BY <3>1, <3>2
  <2>8. CASE Connect
    BY <2>8, <1>3 DEF Connect, Accounted, Unblocking
  <2>9. QED
    BY <2>2, <2>3, <2>4, <2>5, <2>6, <2>7, <2>8 DEF IpcTask
<1>4. QED
  BY <1>2, <1>3, FrameStep

LEMMA IInvStep == IInv /\ [Next]_vars => IInv'
<1> SUFFICES ASSUME IInv, [Next]_vars PROVE IInv'
  OBVIOUS
<1>1. Shape' /\ TypeOK
  BY ShapeStep DEF IInv, Shape
<1>2. ASSUME NEW c \in Callers, Call(c) PROVE IInv'
  <2>1. ASSUME NEW x \in Objects, Visit(c, x) PROVE IInv'
    BY <2>1, <1>1, VisitStep
  <2>2. CASE UnblockEnd(c)
    <3>1. \A x \in registered : Accounted(x) => Accounted(x)'
      BY <2>2, <1>1 DEF UnblockEnd, Accounted, Unblocking, TypeOK
    <3>2. QED
      BY <3>1, <2>2, <1>1, FrameStep DEF UnblockEnd
  <2>3. QED
    BY <1>2, <2>1, <2>2 DEF Call
<1>3. CASE IpcTask
  BY <1>1, <1>3, IpcTaskStep
<1>4. ASSUME NEW t \in Threads, CloseMessage(t) PROVE IInv'
  <2>1. \A x \in registered : Accounted(x)'
    BY <1>4, <1>1, TakeStep DEF CloseMessage, Callers
  <2>2. QED
    BY <2>1, <1>1, <1>4, FrameStep DEF CloseMessage
<1>5. ASSUME NEW t \in Threads, QuitMessage(t) PROVE IInv'
  BY <1>1, <1>5, QuitStep
<1>6. ASSUME NEW t \in Threads, Pump(t) PROVE IInv'
  <2>1. CASE EnterLoop(t)
    BY <1>1, <2>1, EnterLoopStep
  <2>2. ASSUME NEW w \in Windows, TouchWindow(t, w) PROVE IInv'
    BY <1>1, <2>2, TouchWindowStep
  <2>3. CASE RunClosure(t)
    BY <1>1, <2>3, RunClosureStep
  <2>4. CASE LockQueue(t) \/ UnlockQueue(t)
    <3>1. \A x \in registered : Accounted(x) => Accounted(x)'
      BY <2>4, <1>1 DEF LockQueue, UnlockQueue, Accounted, Unblocking, TypeOK,
         PcOf, Callers
    <3>2. QED
      BY <3>1, <2>4, <1>1, FrameStep DEF LockQueue, UnlockQueue
  <2>5. QED
    BY <1>6, <2>1, <2>2, <2>3, <2>4 DEF Pump
<1>7. ASSUME NEW w \in Windows, DestroyWindow(w) PROVE IInv'
  BY <1>1, <1>7, DestroyStep
<1>8. CASE UNCHANGED vars
  <2>1. \A x \in registered : Accounted(x) => Accounted(x)'
    BY <1>8 DEF vars, Accounted, Unblocking
  <2>2. QED
    BY <2>1, <1>1, <1>8, FrameStep DEF vars
<1>9. QED
  BY <1>2, <1>3, <1>4, <1>5, <1>6, <1>7, <1>8 DEF Next

LEMMA IInvInvariant == Spec => []IInv
<1>1. Init => IInv
  BY InitIInv
<1>2. IInv /\ [Next]_vars => IInv'
  BY IInvStep
<1>3. QED
  BY <1>1, <1>2, PTL DEF Spec

(***************************************************************************)
(* However many threads and windows there are, every pending or effective  *)
(* block is accounted for (block_input, unblock_input, message_loop_state, *)
(* window_state).                                                          *)
(***************************************************************************)
THEOREM PendingAlwaysAccounted == Spec => []PendingAccounted
<1>1. IInv => PendingAccounted
  BY DEF IInv
<1>2. QED
  BY <1>1, IInvInvariant, PTL

(***************************************************************************)
(* Once no call runs and input is not blocked, a thread that has run its   *)
(* queue has its cursor count and its windows' IME contexts back.          *)
(***************************************************************************)
THEOREM RestoredAfterUnblock == Spec => []Restored
<1>1. IInv => Restored
  <2>1. SUFFICES ASSUME IInv, NoCall, ~blocking, NEW x \in registered,
                        Home(x) \notin Quitters, queue[Home(x)] = <<>>
                 PROVE  ~blocked[x]
    BY DEF Restored
  <2>2. ~Accounted(x)
    BY <2>1 DEF Accounted, NoCall
  <2>3. ~WillBlock(x)
    BY <2>1, <2>2 DEF IInv, PendingAccounted
  <2>4. blocked[x] \in BOOLEAN
    BY <2>1 DEF IInv, Shape, TypeOK
  <2>5. QED
    BY <2>1, <2>3, <2>4, EmptyQueue DEF WillBlock
<1>2. QED
  BY <1>1, IInvInvariant, PTL

-----------------------------------------------------------------------------
(* One InputBlockingEnded per blocking episode. *)

LEMMA UnblockingFinite == IsFiniteSet(Unblocking)
<1>1. IsFiniteSet(Callers)
  BY FiniteThreads, FS_AddElement DEF Callers
<1>2. QED
  BY <1>1, FS_Subset DEF Unblocking

(* Only the block call publishes a blocking state: it overwrites none. *)
PublishesOnce == pc[Ipc] = "block" => ~blocking

LEMMA PublishesOnceStep == TypeOK /\ PublishesOnce /\ [Next]_vars => PublishesOnce'
<1> SUFFICES ASSUME TypeOK, PublishesOnce, [Next]_vars, pc'[Ipc] = "block"
             PROVE  ~blocking'
  BY DEF PublishesOnce
<1> USE ConstantsAssumption DEF Callers, PublishesOnce, TypeOK
<1>1. ASSUME NEW c \in Callers, Call(c) PROVE ~blocking'
  BY <1>1 DEF Call, Visit, UnblockEnd
<1>2. CASE IpcTask
  <2>1. CASE Disconnect
    <3>1. blocking => ~blocking'
      BY <2>1 DEF Disconnect, Take
    <3>2. ~blocking => blocking' = blocking
      BY <2>1 DEF Disconnect
    <3>3. QED
      BY <3>1, <3>2
  <2>2. QED
    BY <1>2, <2>1 DEF IpcTask, BlockStart, BlockPublish, RequestNoop,
       UnblockRequest, Take, Reply, Connect
<1>3. ASSUME NEW t \in Threads, CloseMessage(t) PROVE ~blocking'
  BY <1>3 DEF CloseMessage, Take
<1>4. ASSUME NEW t \in Threads, QuitMessage(t) \/ Pump(t) PROVE ~blocking'
  BY <1>4 DEF QuitMessage, Pump, EnterLoop, TouchWindow, LockQueue, RunClosure,
     UnlockQueue
<1>5. ASSUME NEW w \in Windows, DestroyWindow(w) PROVE ~blocking'
  BY <1>5 DEF DestroyWindow
<1>6. CASE UNCHANGED vars
  BY <1>6 DEF vars
<1>7. QED
  BY <1>1, <1>2, <1>3, <1>4, <1>5, <1>6 DEF Next

(* Taking the blocking state adds its taker to the unblock calls. *)
LEMMA TakeCounts ==
  ASSUME TypeOK, OneEndedPerEpisode, NEW c \in Callers, pc[c] = "idle",
         Take(c), owed' = owed
  PROVE  OneEndedPerEpisode'
<1>1. Unblocking' = Unblocking \cup {c} /\ c \notin Unblocking
  BY DEF Take, Unblocking, TypeOK
<1>2. Cardinality(Unblocking') = Cardinality(Unblocking) + 1
  BY <1>1, UnblockingFinite, FS_AddElement
<1>3. blocking = TRUE /\ blocking' = FALSE
  BY DEF Take, TypeOK
<1>4. Cardinality(Unblocking) \in Nat
  BY UnblockingFinite, FS_CardinalityType
<1>5. QED
  BY <1>2, <1>3, <1>4 DEF OneEndedPerEpisode

LEMMA SameCount ==
  ASSUME OneEndedPerEpisode, Unblocking' = Unblocking,
         UNCHANGED <<owed, blocking>>
  PROVE  OneEndedPerEpisode'
BY DEF OneEndedPerEpisode

LEMMA CountStep ==
  TypeOK /\ PublishesOnce /\ OneEndedPerEpisode /\ [Next]_vars => OneEndedPerEpisode'
<1> SUFFICES ASSUME TypeOK, PublishesOnce, OneEndedPerEpisode, [Next]_vars
             PROVE  OneEndedPerEpisode'
  OBVIOUS
<1>1. Ipc \in Callers /\ Threads \subseteq Callers
  BY DEF Callers
<1>2. ASSUME NEW c \in Callers, Call(c) PROVE OneEndedPerEpisode'
  <2>1. ASSUME NEW x \in Objects, Visit(c, x) PROVE OneEndedPerEpisode'
    BY <2>1, SameCount DEF Visit, Unblocking
  <2>2. CASE UnblockEnd(c)
    <3>1. Unblocking' = Unblocking \ {c} /\ c \in Unblocking
      BY <2>2 DEF UnblockEnd, Unblocking, TypeOK
    <3>2. Cardinality(Unblocking') = Cardinality(Unblocking) - 1
      BY <3>1, UnblockingFinite, FS_RemoveElement
    <3>3. Cardinality(Unblocking) \in Nat
      BY UnblockingFinite, FS_CardinalityType
    <3>4. blocking' = blocking /\ owed' = owed - 1
      BY <2>2 DEF UnblockEnd
    <3>5. QED
      BY <3>2, <3>3, <3>4 DEF OneEndedPerEpisode
  <2>3. QED
    BY <1>2, <2>1, <2>2 DEF Call
<1>3. CASE IpcTask
  <2>1. CASE BlockStart \/ RequestNoop \/ Reply \/ Connect \/ (Disconnect /\ ~blocking)
    <3>1. Unblocking' = Unblocking
      BY <2>1, <1>1 DEF BlockStart, RequestNoop, Reply, Connect, Disconnect,
         Unblocking, TypeOK
    <3>2. UNCHANGED <<owed, blocking>>
      BY <2>1 DEF BlockStart, RequestNoop, Reply, Connect, Disconnect
    <3>3. QED
      BY <3>1, <3>2, SameCount
  <2>2. CASE BlockPublish
    <3>1. Unblocking' = Unblocking
      BY <2>2, <1>1 DEF BlockPublish, Unblocking, TypeOK
    <3>2. blocking' = TRUE /\ owed' = owed + 1
      BY <2>2 DEF BlockPublish
    <3>3. Cardinality(Unblocking) \in Nat
      BY UnblockingFinite, FS_CardinalityType
    <3>4. blocking = FALSE
      BY <2>2 DEF BlockPublish, PublishesOnce, TypeOK
    <3>5. QED
      BY <3>1, <3>2, <3>3, <3>4 DEF OneEndedPerEpisode
  <2>3. CASE UnblockRequest
    BY <2>3, <1>1, TakeCounts DEF UnblockRequest
  <2>4. CASE Disconnect /\ blocking
    BY <2>4, <1>1, TakeCounts DEF Disconnect
  <2>5. QED
    BY <1>3, <2>1, <2>2, <2>3, <2>4 DEF IpcTask
<1>4. ASSUME NEW t \in Threads, CloseMessage(t) PROVE OneEndedPerEpisode'
  BY <1>1, <1>4, TakeCounts DEF CloseMessage
<1>5. ASSUME NEW t \in Threads, QuitMessage(t) \/ Pump(t) PROVE OneEndedPerEpisode'
  <2>1. Unblocking' = Unblocking
    BY <1>1, <1>5 DEF QuitMessage, Pump, EnterLoop, TouchWindow, LockQueue,
       RunClosure, UnlockQueue, Unblocking, TypeOK
  <2>2. UNCHANGED <<owed, blocking>>
    BY <1>5 DEF QuitMessage, Pump, EnterLoop, TouchWindow, LockQueue,
       RunClosure, UnlockQueue
  <2>3. QED
    BY <2>1, <2>2, SameCount
<1>6. ASSUME NEW w \in Windows, DestroyWindow(w) PROVE OneEndedPerEpisode'
  BY <1>6, SameCount DEF DestroyWindow, Unblocking
<1>7. CASE UNCHANGED vars
  BY <1>7, SameCount DEF vars, Unblocking
<1>8. QED
  BY <1>2, <1>3, <1>4, <1>5, <1>6, <1>7 DEF Next

(***************************************************************************)
(* Whoever wins the race to unblock, each blocking episode is reported by  *)
(* exactly one InputBlockingEnded (block_input, unblock_input).            *)
(***************************************************************************)
THEOREM EndedExactlyOnce == Spec => []OneEndedPerEpisode
<1>1. Init => OneEndedPerEpisode
  <2>1. Init => Unblocking = {} /\ blocking = FALSE /\ owed = 0
    BY DEF Init, Unblocking
  <2>2. QED
    BY <2>1, FS_EmptySet DEF OneEndedPerEpisode
<1>2. TypeOK /\ PublishesOnce /\ OneEndedPerEpisode /\ [Next]_vars => OneEndedPerEpisode'
  BY CountStep
<1>3. Init => PublishesOnce
  BY DEF Init, PublishesOnce, Callers
<1>4. TypeOK /\ PublishesOnce /\ [Next]_vars => PublishesOnce'
  BY PublishesOnceStep
<1>5. QED
  BY <1>1, <1>2, <1>3, <1>4, TypeCorrect, PTL DEF Spec

(***************************************************************************)
(* For any threads and windows, no interleaving of the calls leaves a loop *)
(* or a window blocked.                                                    *)
(***************************************************************************)
THEOREM NothingBlockedForGood == Spec => []NothingStaysBlocked
<1>1. PendingAccounted /\ Restored => NothingStaysBlocked
  BY DEF NothingStaysBlocked
<1>2. QED
  BY <1>1, PendingAlwaysAccounted, RestoredAfterUnblock, PTL
-----------------------------------------------------------------------------
(***************************************************************************)
(* Without WM_CLOSE the calls of the IPC task are the only ones: they run  *)
(* one after the other.  Then the phase the task is in tells whether input *)
(* is blocked and what the client was told (Phases), and a block call      *)
(* leaves behind it no loop or window that will not be blocked, but those  *)
(* created in its blind spot (Covering).                                   *)
(***************************************************************************)
Serial == \A t \in Threads : pc[t] # "unblock"

Phases ==
  /\ pc[Ipc] \in {"block", "unblock", "replyUnblock"} => ~blocking
  /\ pc[Ipc] = "replyBlock" => blocking
  /\ ~connected => ~blocking /\ heard # "blocked" /\ pc[Ipc] \in {"idle", "unblock"}
  /\ pc[Ipc] = "idle" /\ connected => (heard = "blocked" <=> blocking)

Covered(x) == x \in missed \/ Home(x) \in Quitters \/ WillBlock(x)

Covering ==
  /\ blocking => \A x \in registered : Covered(x)
  /\ pc[Ipc] = "block" => \A x \in registered \ ahead[Ipc] : Covered(x)

(* A Block closure at the end of a queue settles the fate of its target.   *)
LEMMA AppendBlock ==
  ASSUME NEW q \in Seq(Closure), NEW b \in BOOLEAN, NEW x \in Objects
  PROVE  EndsBlocked(Append(q, Do("Block", x)), b, x)
<1> DEFINE cl == Do("Block", x)
           r == Append(q, cl)
<1>1. cl \in Closure
  BY DoType DEF Op
<1>2. DOMAIN r = 1 .. Len(q) + 1 /\ r[Len(q) + 1] = cl /\ Len(q) \in Nat
  BY <1>1
<1> HIDE DEF cl, r
<1>3. Len(q) + 1 \in DOMAIN r /\ \A j \in DOMAIN r : ~(j > Len(q) + 1)
  BY <1>2
<1>4. EndsBlocked(r, b, x)
  BY <1>2, <1>3 DEF EndsBlocked, cl
<1>5. QED
  BY <1>4 DEF r, cl

(* A closure for another target keeps a block that is to come.             *)
LEMMA AppendKeeps ==
  ASSUME NEW q \in Seq(Closure), NEW cl \in Closure, NEW b \in BOOLEAN,
         NEW x \in Objects, cl.target # x, EndsBlocked(q, b, x)
  PROVE  EndsBlocked(Append(q, cl), b, x)
<1> DEFINE r == Append(q, cl)
<1>1. /\ DOMAIN r = 1 .. Len(q) + 1 /\ DOMAIN q = 1 .. Len(q)
      /\ \A i \in 1 .. Len(q) : r[i] = q[i]
      /\ r[Len(q) + 1] = cl
      /\ Len(q) \in Nat
  OBVIOUS
<1> HIDE DEF r
<1>2. \A j \in DOMAIN r : (j \in DOMAIN q /\ r[j] = q[j]) \/ r[j].target # x
  BY <1>1
<1>3. CASE \E i \in DOMAIN q : /\ q[i] = Do("Block", x)
                               /\ \A j \in DOMAIN q : j > i => q[j].target # x
  <2>1. PICK i \in DOMAIN q : /\ q[i] = Do("Block", x)
                              /\ \A j \in DOMAIN q : j > i => q[j].target # x
    BY <1>3
  <2>2. i \in DOMAIN r /\ r[i] = Do("Block", x)
    BY <1>1, <2>1
  <2>3. \A j \in DOMAIN r : j > i => r[j].target # x
    BY <1>2, <2>1
  <2>4. EndsBlocked(r, b, x)
    BY <2>2, <2>3 DEF EndsBlocked
  <2>5. QED
    BY <2>4 DEF r
<1>4. CASE b /\ \A j \in DOMAIN q : q[j].target # x
  <2>1. EndsBlocked(r, b, x)
    BY <1>2, <1>4 DEF EndsBlocked
  <2>2. QED
    BY <2>1 DEF r
<1>5. QED
  BY <1>3, <1>4 DEF EndsBlocked

(* Running the first closure of a queue keeps a block that is to come.     *)
LEMMA RunHeadKeeps ==
  ASSUME NEW q \in Seq(Closure), q # <<>>, NEW b \in BOOLEAN, NEW x \in Objects,
         EndsBlocked(q, b, x)
  PROVE  EndsBlocked(Tail(q), IF Head(q).target = x THEN Head(q).op = "Block" ELSE b, x)
<1> DEFINE d == IF Head(q).target = x THEN Head(q).op = "Block" ELSE b
<1>1. /\ DOMAIN q = 1 .. Len(q)
      /\ DOMAIN Tail(q) = 1 .. Len(q) - 1
      /\ Len(q) \in Nat /\ Len(q) # 0
      /\ \A i \in 1 .. Len(q) - 1 : Tail(q)[i] = q[i + 1]
      /\ Head(q) = q[1]
  OBVIOUS
<1>2. CASE \E i \in DOMAIN q : /\ q[i] = Do("Block", x)
                               /\ \A j \in DOMAIN q : j > i => q[j].target # x
  <2>1. PICK i \in DOMAIN q : /\ q[i] = Do("Block", x)
                              /\ \A j \in DOMAIN q : j > i => q[j].target # x
    BY <1>2
  <2>2. \A j \in DOMAIN Tail(q) : j + 1 \in DOMAIN q /\ Tail(q)[j] = q[j + 1]
    BY <1>1
  <2>3. CASE i = 1
    <3>1. \A j \in DOMAIN Tail(q) : j + 1 > i
      BY <1>1, <2>3
    <3>2. \A j \in DOMAIN Tail(q) : Tail(q)[j].target # x
      BY <2>1, <2>2, <3>1
    <3>3. d = TRUE
      BY <1>1, <2>1, <2>3 DEF Do
    <3>4. QED
      BY <3>2, <3>3 DEF EndsBlocked
  <2>4. CASE i # 1
    <3>1. i - 1 \in DOMAIN Tail(q) /\ Tail(q)[i - 1] = Do("Block", x)
      BY <1>1, <2>1, <2>4
    <3>2. \A j \in DOMAIN Tail(q) : j > i - 1 => Tail(q)[j].target # x
      <4>1. \A j \in DOMAIN Tail(q) : j > i - 1 => j + 1 > i
        BY <1>1
      <4>2. QED
        BY <2>1, <2>2, <4>1
    <3>3. QED
      BY <3>1, <3>2 DEF EndsBlocked
  <2>5. QED
    BY <2>3, <2>4
<1>3. CASE b /\ \A j \in DOMAIN q : q[j].target # x
  <2>1. \A j \in DOMAIN Tail(q) : j + 1 \in DOMAIN q /\ Tail(q)[j] = q[j + 1]
    BY <1>1
  <2>2. 1 \in DOMAIN q
    BY <1>1
  <2>3. d = b /\ \A j \in DOMAIN Tail(q) : Tail(q)[j].target # x
    BY <1>1, <1>3, <2>1, <2>2
  <2>4. QED
    BY <1>3, <2>3 DEF EndsBlocked
<1>4. QED
  BY <1>2, <1>3 DEF EndsBlocked

(* The state a loop gets when it is created spoils no block to come.       *)
LEMMA LoopQueueKeeps ==
  ASSUME IInv, NEW t \in Threads, NEW x \in Objects, Home(x) = t, WillBlock(x)
  PROVE  EndsBlocked(LoopQueue(t), blocked[x], x)
<1>1. TypeOK /\ blocked[x] \in BOOLEAN /\ t \in Objects
  BY DEF IInv, Shape, TypeOK, Objects
<1>2. CASE t \in registered
  BY <1>2 DEF LoopQueue, WillBlock
<1>3. CASE t \notin registered
  <2>1. queue[t] = <<>>
    BY <1>3 DEF IInv, EntriesClean
  <2>2. EndsBlocked(<<>>, blocked[x], x)
    BY <2>1 DEF WillBlock
  <2>3. CASE ~blocking
    BY <1>3, <2>2, <2>3 DEF LoopQueue
  <2>4. CASE blocking
    <3>1. LoopQueue(t) = Append(<<>>, Do("Block", t))
      BY <1>3, <2>4 DEF LoopQueue
    <3>2. Do("Block", t) \in Closure /\ Do("Block", t).target = t /\ <<>> \in Seq(Closure)
      BY <1>1, DoType DEF Do, Op
    <3>3. CASE x = t
      BY <1>1, <3>1, <3>2, <3>3, AppendBlock
    <3>4. CASE x # t
      BY <1>1, <2>2, <3>1, <3>2, <3>4, AppendKeeps
    <3>5. QED
      BY <3>3, <3>4
  <2>5. QED
    BY <2>3, <2>4
<1>4. QED
  BY <1>2, <1>3

(* Only WM_CLOSE makes a thread run an unblock call.                       *)
LEMMA SerialStep ==
  ASSUME Closers = {}, TypeOK, Serial, [Next]_vars
  PROVE  Serial'
<1> USE ConstantsAssumption DEF Callers, Serial, TypeOK
<1>1. ASSUME NEW c \in Callers, Call(c) PROVE Serial'
  BY <1>1 DEF Call, Visit, UnblockEnd
<1>2. CASE IpcTask
  BY <1>2 DEF IpcTask, BlockStart, BlockPublish, RequestNoop, UnblockRequest, Take, Reply,
              Disconnect, Connect
<1>3. ASSUME NEW t \in Threads, CloseMessage(t) PROVE FALSE
  BY <1>3 DEF CloseMessage
<1>4. ASSUME NEW t \in Threads, QuitMessage(t) \/ Pump(t) PROVE Serial'
  BY <1>4 DEF QuitMessage, Pump, EnterLoop, TouchWindow, LockQueue, RunClosure, UnlockQueue
<1>5. ASSUME NEW w \in Windows, DestroyWindow(w) PROVE Serial'
  BY <1>5 DEF DestroyWindow
<1>6. CASE UNCHANGED vars
  BY <1>6 DEF vars
<1>7. QED
  BY <1>1, <1>2, <1>3, <1>4, <1>5, <1>6 DEF Next

(* What the steps of the IPC task and of its calls do to its phase.        *)
LEMMA PhasesStep ==
  ASSUME Closers = {}, TypeOK, Serial, Phases, [Next]_vars
  PROVE  Phases'
<1> USE ConstantsAssumption DEF Callers, TypeOK, Phases
<1>a. ASSUME UNCHANGED <<blocking, connected, heard>>, pc'[Ipc] = pc[Ipc] PROVE Phases'
  BY <1>a
<1>1. ASSUME NEW c \in Callers, Call(c) PROVE Phases'
  <2>1. ASSUME NEW x \in Objects, Visit(c, x) PROVE Phases'
    BY <1>a, <2>1 DEF Visit
  <2>2. CASE UnblockEnd(c)
    <3>1. c = Ipc
      BY <2>2 DEF UnblockEnd, Serial
    <3>2. QED
      BY <2>2, <3>1 DEF UnblockEnd
  <2>3. QED
    BY <1>1, <2>1, <2>2 DEF Call
<1>2. CASE IpcTask
  <2>1. CASE BlockStart
    BY <2>1 DEF BlockStart
  <2>2. CASE BlockPublish
    BY <2>2 DEF BlockPublish
  <2>3. CASE RequestNoop
    BY <2>3 DEF RequestNoop
  <2>4. CASE UnblockRequest
    BY <2>4 DEF UnblockRequest, Take
  <2>5. CASE Reply
    BY <2>5 DEF Reply
  <2>6. CASE Disconnect
    <3>1. CASE blocking
      BY <2>6, <3>1 DEF Disconnect, Take
    <3>2. CASE ~blocking
      BY <2>6, <3>2 DEF Disconnect
    <3>3. QED
      BY <3>1, <3>2
  <2>7. CASE Connect
    BY <2>7 DEF Connect
  <2>8. QED
    BY <1>2, <2>1, <2>2, <2>3, <2>4, <2>5, <2>6, <2>7 DEF IpcTask
<1>3. ASSUME NEW t \in Threads, CloseMessage(t) PROVE FALSE
  BY <1>3 DEF CloseMessage
<1>4. ASSUME NEW t \in Threads, QuitMessage(t) \/ Pump(t) PROVE Phases'
  BY <1>a, <1>4 DEF QuitMessage, Pump, EnterLoop, TouchWindow, LockQueue, RunClosure, UnlockQueue
<1>5. ASSUME NEW w \in Windows, DestroyWindow(w) PROVE Phases'
  BY <1>a, <1>5 DEF DestroyWindow
<1>6. CASE UNCHANGED vars
  BY <1>a, <1>6 DEF vars
<1>7. QED
  BY <1>1, <1>2, <1>3, <1>4, <1>5, <1>6 DEF Next

(* It is enough that a step keeps what is covered and covers what is new.  *)
LEMMA CoverFrame ==
  ASSUME Covering, UNCHANGED blocking, pc'[Ipc] = "block" => pc[Ipc] = "block",
         \A x \in registered' : x \in registered /\ Covered(x) => Covered(x)',
         blocking => \A x \in registered' \ registered : Covered(x)',
         pc'[Ipc] = "block" =>
           \A x \in registered' \ ahead'[Ipc] :
             Covered(x)' \/ (x \in registered /\ x \notin ahead[Ipc])
  PROVE  Covering'
BY DEF Covering

(* A loop or window created during a block call is yet to be passed, or is *)
(* in the blind spot of the call.                                          *)
LEMMA NewMissed ==
  ASSUME NEW S, missed' = missed \cup BlindSpot(S), registered' = registered \cup S,
         pc[Ipc] = "block", NEW x \in registered' \ registered, x \notin ahead[Ipc]
  PROVE  x \in missed'
BY DEF BlindSpot

LEMMA VisitCovers ==
  ASSUME IInv, Phases, Serial, Covering, NEW c \in Callers, NEW x \in Objects, Visit(c, x)
  PROVE  Covering'
<1> DEFINE t == Home(x)
           cl == Do(IF pc[c] = "block" THEN "Block" ELSE "Unblock", x)
<1> USE ConstantsAssumption
<1>1. /\ TypeOK /\ t \in Threads /\ cl \in Closure /\ cl.target = x
      /\ x \in Windows => Home(x) = ThreadOf[x]
  BY HomeType, DoType DEF IInv, Shape, Do, Op, Home, Objects
<1>2. /\ UNCHANGED <<blocking, destroyed, blocked, pc>> /\ pc[c] \in {"block", "unblock"}
      /\ ahead' = [ahead EXCEPT ![c] = @ \ {x}]
      /\ x \in Windows => ahead[c] \cap Threads = {}
  BY DEF Visit
<1>3. c = Ipc /\ ~blocking /\ pc' = pc /\ blocking' = blocking
      /\ ahead'[Ipc] = ahead[Ipc] \ {x}
  BY <1>1, <1>2 DEF Serial, Callers, TypeOK, PcOf, Phases
<1>4. CASE pc[Ipc] # "block"
  BY <1>3, <1>4 DEF Covering
<1>5. CASE pc[Ipc] = "block" /\ x \notin registered
  <2>1. UNCHANGED <<queue, registered, missed>>
    BY <1>5 DEF Visit
  <2>2. \A y : Covered(y)' <=> Covered(y)
    BY <1>2, <2>1 DEF Covered, WillBlock
  <2>3. QED
    BY <1>3, <1>5, <2>1, <2>2 DEF Covering
<1>6. CASE pc[Ipc] = "block" /\ x \in registered
  <2> DEFINE lq == LoopQueue(t)
  <2>1. cl = Do("Block", x)
    BY <1>3, <1>6
  <2>2. /\ lq \in Seq(Closure)
        /\ queue' = [queue EXCEPT ![t] = Append(lq, cl)]
        /\ registered' = registered \cup {t}
        /\ missed' = missed \cup BlindSpot({t})
    BY <1>1, <1>6, LoopQueueType DEF Visit, Spawn
  <2> HIDE DEF cl, lq, t
  <2>3. queue'[t] = Append(lq, cl) /\ \A u \in Threads : u # t => queue'[u] = queue[u]
    BY <1>1, <2>2 DEF TypeOK
  <2>4. ASSUME NEW y \in Objects, y # x, WillBlock(y) PROVE WillBlock(y)'
    <3>1. blocked[y] \in BOOLEAN /\ Home(y) \in Threads
      BY <1>1, HomeType DEF TypeOK
    <3>2. CASE Home(y) = t
      <4>1. EndsBlocked(lq, blocked[y], y)
        BY <1>1, <2>4, <3>2, LoopQueueKeeps DEF lq
      <4>2. EndsBlocked(Append(lq, cl), blocked[y], y)
        BY <1>1, <2>2, <2>4, <3>1, <4>1, AppendKeeps
      <4>3. QED
        BY <1>2, <2>3, <3>2, <4>2 DEF WillBlock
    <3>3. CASE Home(y) # t
      BY <1>2, <2>3, <2>4, <3>1, <3>3 DEF WillBlock
    <3>4. QED
      BY <3>2, <3>3
  <2>5. WillBlock(x)'
    <3>1. EndsBlocked(Append(lq, cl), blocked[x], x)
      BY <1>1, <2>1, <2>2, AppendBlock DEF TypeOK
    <3>2. QED
      BY <1>2, <2>3, <3>1 DEF WillBlock, t
  <2>6. ASSUME NEW y \in Objects, Covered(y) \/ y = x PROVE Covered(y)'
    BY <2>2, <2>4, <2>5, <2>6 DEF Covered
  <2>7. ASSUME NEW y \in registered' \ ahead'[Ipc] PROVE Covered(y)'
    <3>1. y \in Objects
      BY <1>1, <2>2, <2>7 DEF TypeOK, Objects
    <3>2. CASE y \in registered /\ y \notin ahead[Ipc]
      BY <1>6, <2>6, <3>1, <3>2 DEF Covering
    <3>3. CASE y = x
      BY <2>6, <3>1, <3>3
    <3>4. CASE y \notin registered /\ y # x
      <4>1. y = t /\ y \notin ahead[Ipc]
        BY <1>3, <2>2, <2>7, <3>4
      <4>2. y \in missed'
        BY <1>6, <2>2, <3>4, <4>1 DEF BlindSpot
      <4>3. QED
        BY <4>2 DEF Covered
    <3>5. QED
      BY <1>3, <2>7, <3>2, <3>3, <3>4
  <2>8. QED
    BY <1>3, <2>7 DEF Covering
<1>7. QED
  BY <1>4, <1>5, <1>6

LEMMA EnterLoopCovers ==
  ASSUME IInv, Phases, Covering, NEW t \in Threads, EnterLoop(t)
  PROVE  Covering'
<1> USE ConstantsAssumption
<1>1. TypeOK /\ Home(t) = t /\ t \in Objects /\ LoopQueue(t) \in Seq(Closure)
  BY LoopQueueType DEF IInv, Shape, Home, Objects
<1>2. /\ UNCHANGED <<blocking, destroyed, blocked, ahead>> /\ pc'[Ipc] = pc[Ipc]
      /\ queue' = [queue EXCEPT ![t] = LoopQueue(t)]
      /\ registered' = registered \cup {t}
      /\ missed' = missed \cup BlindSpot({t})
  BY <1>1 DEF EnterLoop, TypeOK, Callers
<1>3. queue'[t] = LoopQueue(t) /\ \A u \in Threads : u # t => queue'[u] = queue[u]
  BY <1>1, <1>2 DEF TypeOK
<1>4. ASSUME NEW y \in Objects, WillBlock(y) PROVE WillBlock(y)'
  BY <1>1, <1>2, <1>3, <1>4, HomeType, LoopQueueKeeps DEF WillBlock
<1>5. ASSUME NEW y \in registered', y \in registered, Covered(y) PROVE Covered(y)'
  BY <1>1, <1>2, <1>4, <1>5 DEF Covered, TypeOK
<1>6. ASSUME blocking, NEW y \in registered' \ registered PROVE Covered(y)'
  <2>1. y = t /\ queue'[t] = Append(<<>>, Do("Block", t))
    BY <1>2, <1>3, <1>6 DEF LoopQueue
  <2>2. EndsBlocked(queue'[t], blocked[t], t)
    <3>1. <<>> \in Seq(Closure) /\ blocked[t] \in BOOLEAN
      BY <1>1 DEF TypeOK
    <3>2. EndsBlocked(Append(<<>>, Do("Block", t)), blocked[t], t)
      BY <1>1, <3>1, AppendBlock
    <3>3. QED
      BY <2>1, <3>2
  <2>3. QED
    BY <1>1, <1>2, <2>1, <2>2 DEF Covered, WillBlock
<1>7. ASSUME pc'[Ipc] = "block", NEW y \in registered' \ ahead'[Ipc]
      PROVE  Covered(y)' \/ (y \in registered /\ y \notin ahead[Ipc])
  BY <1>2, <1>7, NewMissed DEF Covered
<1>8. QED
  BY <1>2, <1>5, <1>6, <1>7, CoverFrame

LEMMA TouchWindowCovers ==
  ASSUME IInv, Phases, Covering, NEW t \in Threads, NEW w \in Windows, TouchWindow(t, w)
  PROVE  Covering'
<1> USE ConstantsAssumption
<1>1. /\ TypeOK /\ w \in Objects /\ Home(w) = t
      /\ Do("Block", w) \in Closure /\ Do("Block", w).target = w
      /\ queue[t] \in Seq(Closure)
  BY DoType DEF IInv, Shape, TypeOK, Home, Objects, TouchWindow, Op, Do
<1>2. /\ UNCHANGED <<blocking, destroyed, blocked, ahead>> /\ pc'[Ipc] = pc[Ipc]
      /\ registered' = registered \cup {w} /\ w \notin registered
      /\ missed' = missed \cup BlindSpot({w})
  BY <1>1 DEF TouchWindow, TypeOK, Callers
<1>3. /\ queue'[t] = IF blocking THEN Append(queue[t], Do("Block", w)) ELSE queue[t]
      /\ \A u \in Threads : u # t => queue'[u] = queue[u]
  BY <1>1 DEF TouchWindow, TypeOK
<1>4. ASSUME NEW y \in Objects, y # w, WillBlock(y) PROVE WillBlock(y)'
  <2>1. blocked[y] \in BOOLEAN /\ Home(y) \in Threads
    BY <1>1, HomeType DEF TypeOK
  <2>2. CASE Home(y) = t /\ blocking
    <3>1. EndsBlocked(queue[t], blocked[y], y)
      BY <1>4, <2>2 DEF WillBlock
    <3>2. EndsBlocked(Append(queue[t], Do("Block", w)), blocked[y], y)
      BY <1>1, <1>4, <2>1, <3>1, AppendKeeps
    <3>3. QED
      BY <1>2, <1>3, <2>2, <3>2 DEF WillBlock
  <2>3. CASE ~(Home(y) = t /\ blocking)
    BY <1>2, <1>3, <1>4, <2>1, <2>3 DEF WillBlock
  <2>4. QED
    BY <2>2, <2>3
<1>5. ASSUME NEW y \in registered', y \in registered, Covered(y) PROVE Covered(y)'
  BY <1>1, <1>2, <1>4, <1>5 DEF Covered, TypeOK
<1>6. ASSUME blocking, NEW y \in registered' \ registered PROVE Covered(y)'
  <2>1. y = w /\ queue'[t] = Append(queue[t], Do("Block", w))
    BY <1>2, <1>3, <1>6
  <2>2. EndsBlocked(queue'[t], blocked[w], w)
    BY <1>1, <2>1, AppendBlock DEF TypeOK
  <2>3. QED
    BY <1>1, <1>2, <2>1, <2>2 DEF Covered, WillBlock
<1>7. ASSUME pc'[Ipc] = "block", NEW y \in registered' \ ahead'[Ipc]
      PROVE  Covered(y)' \/ (y \in registered /\ y \notin ahead[Ipc])
  BY <1>2, <1>7, NewMissed DEF Covered
<1>8. QED
  BY <1>2, <1>5, <1>6, <1>7, CoverFrame

LEMMA RunClosureCovers ==
  ASSUME IInv, Covering, NEW t \in Threads, RunClosure(t)
  PROVE  Covering'
<1> DEFINE q == queue[t]
           cl == Head(q)
<1>1. TypeOK /\ q \in Seq(Closure) /\ q # <<>>
  BY DEF IInv, Shape, RunClosure, TypeOK
<1>2. /\ UNCHANGED <<blocking, registered, pc, ahead, missed>>
      /\ queue' = [queue EXCEPT ![t] = Tail(q)]
      /\ cl.target \in registered =>
           blocked' = [blocked EXCEPT ![cl.target] = (cl.op = "Block")]
      /\ cl.target \notin registered => blocked' = blocked
  BY DEF RunClosure
<1>3. queue'[t] = Tail(q) /\ \A u \in Threads : u # t => queue'[u] = queue[u]
  BY <1>1, <1>2 DEF TypeOK
<1>4. Home(cl.target) = t
  <2>1. 1 \in DOMAIN q /\ cl = q[1]
    BY <1>1
  <2>2. QED
    BY <2>1 DEF IInv, QueuesOwned
<1> HIDE DEF q, cl
<1>5. \A y \in registered : blocked'[y] = IF cl.target = y THEN cl.op = "Block" ELSE blocked[y]
  BY <1>1, <1>2 DEF TypeOK
<1>6. ASSUME NEW y \in registered, WillBlock(y) PROVE WillBlock(y)'
  <2>1. y \in Objects /\ Home(y) \in Threads /\ blocked[y] \in BOOLEAN
    BY <1>1, HomeType DEF TypeOK
  <2>2. CASE Home(y) # t
    <3>1. queue'[Home(y)] = queue[Home(y)] /\ blocked'[y] = blocked[y]
      BY <1>3, <1>4, <1>5, <2>1, <2>2
    <3>2. QED
      BY <1>6, <3>1 DEF WillBlock
  <2>3. CASE Home(y) = t
    <3>1. EndsBlocked(q, blocked[y], y)
      BY <1>6, <2>3 DEF WillBlock, q
    <3>2. EndsBlocked(Tail(q), IF Head(q).target = y THEN Head(q).op = "Block" ELSE blocked[y], y)
      BY <1>1, <2>1, <3>1, RunHeadKeeps
    <3>3. QED
      BY <1>3, <1>5, <2>3, <3>2 DEF WillBlock, cl
  <2>4. QED
    BY <2>2, <2>3
<1>7. \A y \in registered : Covered(y) => Covered(y)'
  BY <1>2, <1>6 DEF Covered
<1>8. QED
  BY <1>2, <1>7 DEF Covering

(* A thread that quits, a window that is destroyed.                        *)
LEMMA LeaveCovers ==
  ASSUME IInv, Covering,
         (\E t \in Threads : QuitMessage(t)) \/ (\E w \in Windows : DestroyWindow(w))
  PROVE  Covering'
<1> USE ConstantsAssumption
<1>0. TypeOK
  BY DEF IInv, Shape
<1>1. ASSUME NEW t \in Threads, QuitMessage(t) PROVE Covering'
  <2>1. /\ UNCHANGED <<blocking, ahead>> /\ registered' = registered \ {t}
        /\ missed' = missed \ {t} /\ t \in Quitters
        /\ pc'[Ipc] = pc[Ipc]
        /\ \A u \in Threads : u # t => queue'[u] = queue[u]
        /\ \A x \in Objects : x # t => blocked'[x] = blocked[x]
    BY <1>0, <1>1 DEF QuitMessage, TypeOK, Callers
  <2>2. ASSUME NEW x \in registered', Covered(x) PROVE Covered(x)'
    <3>1. x \in Objects /\ x # t /\ Home(x) \in Threads
      BY <1>0, <2>1, HomeType DEF TypeOK
    <3>2. CASE Home(x) = t
      BY <2>1, <3>2 DEF Covered
    <3>3. CASE Home(x) # t
      BY <2>1, <2>2, <3>1, <3>3 DEF Covered, WillBlock
    <3>4. QED
      BY <3>2, <3>3
  <2>3. QED
    BY <2>1, <2>2 DEF Covering
<1>2. ASSUME NEW w \in Windows, DestroyWindow(w) PROVE Covering'
  <2>1. /\ UNCHANGED <<blocking, ahead, pc, queue>> /\ registered' = registered \ {w}
        /\ missed' = missed \ {w}
        /\ \A x \in Objects : x # w => blocked'[x] = blocked[x]
    BY <1>0, <1>2 DEF DestroyWindow, TypeOK
  <2>2. ASSUME NEW x \in registered', Covered(x) PROVE Covered(x)'
    <3>1. x \in Objects /\ x # w
      BY <1>0, <2>1 DEF TypeOK
    <3>2. QED
      BY <2>1, <2>2, <3>1 DEF Covered, WillBlock
  <2>3. QED
    BY <2>1, <2>2 DEF Covering
<1>3. QED
  BY <1>1, <1>2

LEMMA IpcTaskCovers ==
  ASSUME TypeOK, Phases, Covering, IpcTask
  PROVE  Covering'
<1> USE DEF Callers
<1>1. UNCHANGED <<registered, queue, blocked>>
  BY DEF IpcTask, BlockStart, BlockPublish, RequestNoop, UnblockRequest, Reply, Disconnect,
         Connect
<1>2. CASE BlockStart
  <2>1. pc'[Ipc] = "block" /\ ahead'[Ipc] = Objects /\ blocking' = FALSE
    BY <1>2 DEF BlockStart, TypeOK
  <2>2. QED
    BY <1>1, <2>1 DEF Covering, TypeOK
<1>3. ASSUME missed' = missed PROVE \A x : Covered(x)' <=> Covered(x)
  BY <1>1, <1>3 DEF Covered, WillBlock
<1>4. CASE BlockPublish
  <2>1. missed' = missed /\ pc'[Ipc] # "block" /\ pc[Ipc] = "block" /\ ahead[Ipc] = {}
    BY <1>4 DEF BlockPublish, TypeOK
  <2>2. QED
    BY <1>1, <1>3, <2>1 DEF Covering
<1>5. CASE RequestNoop \/ Reply \/ Connect \/ (Disconnect /\ ~blocking)
  <2>1. missed' = missed /\ blocking' = blocking /\ pc'[Ipc] # "block"
    BY <1>5 DEF RequestNoop, Reply, Connect, Disconnect, TypeOK
  <2>2. QED
    BY <1>1, <1>3, <2>1 DEF Covering
<1>6. CASE UnblockRequest \/ (Disconnect /\ blocking)
  <2>1. blocking' = FALSE /\ pc'[Ipc] # "block"
    BY <1>6 DEF UnblockRequest, Disconnect, Take, TypeOK
  <2>2. QED
    BY <2>1 DEF Covering
<1>7. QED
  BY <1>2, <1>4, <1>5, <1>6 DEF IpcTask

LEMMA CoveringStep ==
  ASSUME Closers = {}, IInv, Serial, Phases, Covering, [Next]_vars
  PROVE  Covering'
<1> USE ConstantsAssumption
<1>0. TypeOK
  BY DEF IInv, Shape
<1>a. ASSUME UNCHANGED <<blocking, registered, queue, blocked, missed, ahead>>,
             pc'[Ipc] = pc[Ipc] \/ pc'[Ipc] # "block"
      PROVE  Covering'
  <2>1. \A x : Covered(x)' <=> Covered(x)
    BY <1>a DEF Covered, WillBlock
  <2>2. QED
    BY <1>a, <2>1 DEF Covering
<1>1. ASSUME NEW c \in Callers, Call(c) PROVE Covering'
  <2>1. CASE UnblockEnd(c)
    BY <1>0, <1>a, <2>1 DEF UnblockEnd, TypeOK
  <2>2. QED
    BY <1>1, <2>1, VisitCovers DEF Call
<1>2. CASE IpcTask
  BY <1>0, <1>2, IpcTaskCovers
<1>3. ASSUME NEW t \in Threads, CloseMessage(t) PROVE FALSE
  BY <1>3 DEF CloseMessage
<1>4. ASSUME NEW t \in Threads, Pump(t) PROVE Covering'
  <2>1. CASE LockQueue(t) \/ UnlockQueue(t)
    BY <1>0, <1>a, <2>1 DEF LockQueue, UnlockQueue, TypeOK, Callers
  <2>2. QED
    BY <1>4, <2>1, EnterLoopCovers, TouchWindowCovers, RunClosureCovers DEF Pump
<1>5. CASE UNCHANGED vars
  BY <1>a, <1>5 DEF vars
<1>6. QED
  BY <1>1, <1>2, <1>3, <1>4, <1>5, LeaveCovers DEF Next

LEMMA SerialInvariant ==
  ASSUME Closers = {} PROVE Spec => [](Serial /\ Phases /\ Covering)
<1>1. Init => Serial /\ Phases /\ Covering
  BY ConstantsAssumption DEF Init, Serial, Phases, Covering, Callers
<1>2. IInv /\ Serial /\ Phases /\ Covering /\ [Next]_vars => (Serial /\ Phases /\ Covering)'
  BY SerialStep, PhasesStep, CoveringStep DEF IInv, Shape
<1>3. QED
  BY <1>1, <1>2, IInvInvariant, PTL DEF Spec

(***************************************************************************)
(* For any threads and windows, while no thread gets WM_CLOSE: block_input *)
(* misses only what is created in its blind spot.                          *)
(***************************************************************************)
THEOREM BlockCoversAll == ASSUME Closers = {} PROVE Spec => []BlockCovers
<1>1. Covering => BlockCovers
  BY DEF Covering, Covered, BlockCovers
<1>2. QED
  BY <1>1, SerialInvariant, PTL

(***************************************************************************)
(* For any threads and windows, while no thread gets WM_CLOSE: what the    *)
(* client was last told is true whenever nothing is running, also after a  *)
(* client went and another came.                                           *)
(***************************************************************************)
THEOREM ClientViewTrue == ASSUME Closers = {} PROVE Spec => []ClientViewAgrees
<1>1. Phases => ClientViewAgrees
  BY DEF Phases, ClientViewAgrees
<1>2. QED
  BY <1>1, SerialInvariant, PTL
-----------------------------------------------------------------------------
(***************************************************************************)
(* ClipCursor.  The invariant says where the rectangle owed to the         *)
(* application is kept at each step of a call: in the system, in got, in   *)
(* took, or in blocking_state.  What is saved of the free cursor depends   *)
(* on the origin of the screen: nothing, or a rectangle (Saves).           *)
(***************************************************************************)

Blocking == {"block", "blockFree", "publish"}

(* block_input finds the state as it left it. *)
BlockAlone == step[IpcCaller] \in Blocking => state = Free

(* One call at a time. *)
OneCall == step[IpcCaller] = "idle" \/ step[AppCaller] = "idle"

(* r was saved for the rectangle owed; if found by get_clip_cursor, the    *)
(* free cursor is a rectangle only on a screen that starts elsewhere.      *)
Saves(r) == r = Owed \/ (r = None /\ Owed = Full)
Found(r) == IF atOrigin THEN r = AsSaved(Owed) ELSE r = Owed

(* unblock_input puts back what it found, or what it took. *)
Restores(c) ==
  IF got[c] = None THEN Saves(took[c])
  ELSE IF got[c] = Full /\ took[c] \in Rects THEN ~atOrigin ELSE got[c] = Owed

(* Where a call that no other one ran into keeps what is owed. *)
Kept(c) ==
  /\ step[c] = "block" => clip = Owed
  /\ step[c] = "blockFree" => Found(got[c])
  /\ step[c] = "publish" => clip = Full /\ Found(got[c])
  /\ step[c] = "unblock" => state = Free /\ (IF clip = Full THEN Saves(took[c]) ELSE clip = Owed)
  /\ step[c] \in {"unblockFree", "restore"} => state = Free /\ Restores(c)
  /\ step[c] = "restore" => clip = Full

Settled ==
  NoClipCall => IF state = Free THEN clip = Owed ELSE clip = Full /\ Saves(state)

(* Only where the screen starts elsewhere a free cursor is a rectangle. *)
OnlyElsewhere ==
  /\ forgot => ~atOrigin
  /\ \A c \in ClipCallers : got[c] = Full => ~atOrigin

ClipInv ==
  /\ ClipTypeOK /\ BlockAlone /\ OnlyElsewhere
  /\ ~raced => OneCall /\ Settled /\ \A c \in ClipCallers : Kept(c)

USE ClipAssumption

LEMMA ClipTypeInit == ClipInit => ClipTypeOK
  BY DEF ClipInit, ClipTypeOK, ClipCallers, Shown, Saved

LEMMA ClipTypeStep == ClipTypeOK /\ [ClipNext]_clipVars => ClipTypeOK'
<1> SUFFICES ASSUME ClipTypeOK, [ClipNext]_clipVars PROVE ClipTypeOK'
  OBVIOUS
<1> USE DEF ClipTypeOK, ClipCallers, Shown, Saved
<1>1. CASE StartBlock
  BY <1>1 DEF StartBlock, NoClipCall
<1>2. CASE Publish
  BY <1>2 DEF Publish
<1>3. CASE ClipSystem
  BY <1>3 DEF ClipSystem, TooLate, NoClipCall
<1>4. ASSUME NEW c \in ClipCallers, TakeState(c) PROVE ClipTypeOK'
  BY <1>4 DEF TakeState, NoClipCall
<1>5. ASSUME NEW c \in ClipCallers, ReadClip(c) PROVE ClipTypeOK'
  BY <1>5 DEF ReadClip
<1>6. ASSUME NEW c \in ClipCallers, FreeCursor(c) PROVE ClipTypeOK'
  BY <1>6 DEF FreeCursor
<1>7. ASSUME NEW c \in ClipCallers, Restore(c) PROVE ClipTypeOK'
  BY <1>7 DEF Restore
<1>8. ASSUME NEW r \in Shown, ClipBlocked(r) \/ ClipPass(r) PROVE ClipTypeOK'
  BY <1>8 DEF ClipBlocked, ClipPass, AsSaved, NoClipCall
<1>9. CASE UNCHANGED clipVars
  BY <1>9 DEF clipVars
<1> QED
  BY <1>1, <1>2, <1>3, <1>4, <1>5, <1>6, <1>7, <1>8, <1>9 DEF ClipNext

(***************************************************************************)
(* Every variable keeps its type for any rectangles and either screen; in  *)
(* particular only the IPC task ever publishes a blocking state.           *)
(***************************************************************************)
THEOREM ClipTypeCorrect == ClipSpec => []ClipTypeOK
  BY ClipTypeInit, ClipTypeStep, PTL DEF ClipSpec

LEMMA ClipInvInit == ClipInit => ClipInv
  BY ClipTypeInit DEF ClipInit, ClipInv, BlockAlone, Blocking, OnlyElsewhere, OneCall, Settled,
                        Kept, Owed, NoClipCall, ClipCallers

LEMMA ClipInvStep ==
  ClipInv /\ [ClipNext]_clipVars => ClipInv'
<1> SUFFICES ASSUME ClipInv, [ClipNext]_clipVars PROVE ClipInv'
  OBVIOUS
<1>t. ClipTypeOK'
  BY ClipTypeStep DEF ClipInv
<1> USE <1>t DEF ClipInv, ClipTypeOK, BlockAlone, Blocking, OnlyElsewhere, OneCall, Settled,
                 Kept, Found, Saves, Restores, Owed, NoClipCall, ClipCallers, Shown, Saved, AsSaved
<1>1. CASE StartBlock
  BY <1>1 DEF StartBlock
<1>2. CASE Publish
  BY <1>2 DEF Publish
<1>3. CASE ClipSystem
  BY <1>3 DEF ClipSystem, TooLate
<1>4. ASSUME NEW c \in ClipCallers, TakeState(c) PROVE ClipInv'
  BY <1>4 DEF TakeState
<1>5. ASSUME NEW c \in ClipCallers, ReadClip(c) PROVE ClipInv'
  BY <1>5 DEF ReadClip
<1>6. ASSUME NEW c \in ClipCallers, FreeCursor(c) PROVE ClipInv'
  BY <1>6 DEF FreeCursor
<1>7. ASSUME NEW c \in ClipCallers, Restore(c) PROVE ClipInv'
  BY <1>7 DEF Restore
<1>8. ASSUME NEW r \in Shown, ClipBlocked(r) PROVE ClipInv'
  BY <1>8 DEF ClipBlocked
<1>9. ASSUME NEW r \in Shown, ClipPass(r) PROVE ClipInv'
  BY <1>9 DEF ClipPass
<1>10. CASE UNCHANGED clipVars
  BY <1>10 DEF clipVars
<1> QED
  BY <1>1, <1>2, <1>3, <1>4, <1>5, <1>6, <1>7, <1>8, <1>9, <1>10 DEF ClipNext

(***************************************************************************)
(* For any rectangles, what the application asked for last is in force     *)
(* after unblock_input, also if it asked during the call but before the    *)
(* call looked.  Otherwise two calls ran into each other, or the screen    *)
(* does not start at (0, 0) and the cursor is free (get_clip_cursor).      *)
(***************************************************************************)
THEOREM ClipComesBack == ClipSpec => []ClipRestored
<1>1. ClipInv => ClipRestored
  BY DEF ClipInv, OnlyElsewhere, ClipRestored, Settled
<1> QED
  BY <1>1, ClipInvInit, ClipInvStep, PTL DEF ClipSpec

(***************************************************************************)
(* For any rectangles and either screen, the cursor is free while input is *)
(* blocked, unless a call ran into another (get_clip_cursor).              *)
(***************************************************************************)
THEOREM CursorFreed == ClipSpec => []FreeWhileBlocked
<1>1. ClipInv => FreeWhileBlocked
  BY DEF ClipInv, FreeWhileBlocked, Settled
<1> QED
  BY <1>1, ClipInvInit, ClipInvStep, PTL DEF ClipSpec

(***************************************************************************)
(* For any rectangles, GetClipCursor tells the application during a        *)
(* blocking episode what it asked for last (hooked_get_clip_cursor),       *)
(* unless a call ran into another, or an earlier episode has forgotten it  *)
(* because the screen does not start at (0, 0).                            *)
(***************************************************************************)
THEOREM BlockingUnseen == ClipSpec => []SeesOwnClip
<1>1. ClipInv => SeesOwnClip
  BY DEF ClipInv, SeesOwnClip, Settled, Saves, Owed, Seen, ClipTypeOK, Shown, Saved
<1> QED
  BY <1>1, ClipInvInit, ClipInvStep, PTL DEF ClipSpec
=============================================================================
