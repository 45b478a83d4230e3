--------------------------- MODULE InputBlocking ---------------------------
(***************************************************************************)
(* Blocking and unblocking of the input of the hooked process              *)
(* (src/crates/window).  GlobalState keeps a map of message loops (one per *)
(* application thread that reads messages), a map of windows, and an       *)
(* optional blocking_state.  block_input and unblock_input are called from *)
(* the IPC task; unblock_input is also called by an application thread     *)
(* that gets WM_CLOSE (Alt+F4) while input is blocked.  Neither call       *)
(* touches a loop or a window directly: it queues a closure on the         *)
(* message loop that owns it, and the owning thread runs the queue the     *)
(* next time it reads a message.                                           *)
(*                                                                         *)
(* The saved clipping rectangle of the cursor, which the same two calls    *)
(* carry, is the subject of ClipCursor.tla.                                *)
(***************************************************************************)
EXTENDS Integers, Sequences, FiniteSets

CONSTANTS
  Threads,      \* application threads, the keys of message_loops
  Windows,      \* window handles, the keys of windows
  ThreadOf,     \* WindowProcState::thread_id
  Ipc,          \* the task that serves the IPC client
  InitRegistered, \* entries both maps hold when the client connects
  Closers,      \* threads that may get WM_CLOSE
  Quitters,     \* threads that may read WM_QUIT
  Mortal,       \* windows that may be destroyed
  MaxQueue      \* bound: a block call starts only below this queue length

Objects == Threads \cup Windows
Callers == Threads \cup {Ipc}
Home(x) == IF x \in Threads THEN x ELSE ThreadOf[x]

ASSUME ConstantsAssumption ==
  /\ Threads \cap Windows = {}
  /\ Ipc \notin Threads
  /\ ThreadOf \in [Windows -> Threads]
  /\ InitRegistered \subseteq Objects
  /\ \A w \in InitRegistered \cap Windows : ThreadOf[w] \in InitRegistered
  /\ Closers \subseteq Threads
  /\ Quitters \subseteq Threads
  /\ Mortal \subseteq Windows
  /\ MaxQueue \in Nat

ASSUME FiniteThreads == IsFiniteSet(Threads)

Op == {"Block", "Unblock"}
Closure == [op : Op, target : Objects]
Do(op, x) == [op |-> op, target |-> x]

VARIABLES
  blocking,     \* blocking_state.is_some()
  registered,   \* the entries present in message_loops and in windows
  destroyed,    \* windows the system has destroyed
  queue,        \* proc_queue of each message loop
  blocked,      \* the blocking_state of a loop or of a window is_some()
  pc,           \* what each caller is doing
  ahead,        \* keys the iteration of a block or unblock call has yet to pass
  connected,    \* an event sink is set: a client is connected
  heard,        \* the last thing the client was told about blocking
  owed,         \* blocking episodes begun minus InputBlockingEnded emitted
  missed,       \* history: entries created in the blind spot of a block call
  aborted       \* a panic left an extern "system" hook: the process is gone

vars == <<blocking, registered, destroyed, queue, blocked, pc, ahead,
          connected, heard, owed, missed, aborted>>

PcOf(c) == IF c = Ipc
             THEN {"idle", "block", "unblock", "replyBlock", "replyUnblock"}
             ELSE {"idle", "enter", "read", "lock", "drain", "unblock"}

TypeOK ==
  /\ blocking \in BOOLEAN
  /\ registered \in SUBSET Objects
  /\ destroyed \in SUBSET Windows
  /\ queue \in [Threads -> Seq(Closure)]
  /\ blocked \in [Objects -> BOOLEAN]
  /\ pc \in [Callers -> {"idle", "block", "unblock", "replyBlock", "replyUnblock",
                         "enter", "read", "lock", "drain"}]
  /\ \A c \in Callers : pc[c] \in PcOf(c)
  /\ ahead \in [Callers -> SUBSET Objects]
  /\ connected \in BOOLEAN
  /\ heard \in {"nothing", "blocked", "unblocked", "ended"}
  /\ owed \in Int
  /\ missed \in SUBSET Objects
  /\ aborted \in BOOLEAN

Init ==
  /\ blocking = FALSE
  /\ registered = InitRegistered
  /\ destroyed = {}
  /\ queue = [t \in Threads |-> <<>>]
  /\ blocked = [x \in Objects |-> FALSE]
  /\ pc = [c \in Callers |-> "idle"]
  /\ ahead = [c \in Callers |-> {}]
  /\ connected = TRUE
  /\ heard = "nothing"
  /\ owed = 0
  /\ missed = {}
  /\ aborted = FALSE

-----------------------------------------------------------------------------
(* The two maps.                                                           *)

(* The queue message_loop_state leaves to its callback: a loop it has to   *)
(* create starts with a Block closure when input is blocked.               *)
LoopQueue(t) ==
  IF t \in registered THEN queue[t]
  ELSE IF blocking THEN <<Do("Block", t)>> ELSE <<>>

(* The entries of S that a running block call will not pass any more and   *)
(* that are created while blocking_state is still None.                    *)
BlindSpot(S) ==
  IF pc[Ipc] = "block" THEN S \ (registered \cup ahead[Ipc]) ELSE {}

(* spawn_fn: the closure goes to the queue of thread t, whose loop state is *)
(* created if it is missing; the queue's mutex is free.                    *)
Spawn(t, closure) ==
  /\ pc[t] # "drain"
  /\ queue' = [queue EXCEPT ![t] = Append(LoopQueue(t), closure)]
  /\ registered' = registered \cup {t}
  /\ missed' = missed \cup BlindSpot({t})

-----------------------------------------------------------------------------
(* block_input and unblock_input.                                          *)

(* Mutant of Visit: an unblock call forgets the windows. *)
Visit_SkipWindows(c, x) ==
  /\ ~aborted
  /\ pc[c] \in {"block", "unblock"}
  /\ x \in ahead[c]
  /\ x \in Windows => ahead[c] \cap Threads = {}
  /\ ahead' = [ahead EXCEPT ![c] = @ \ {x}]
  /\ IF x \in registered /\ (x \in Threads \/ pc[c] = "block")
       THEN Spawn(Home(x), Do(IF pc[c] = "block" THEN "Block" ELSE "Unblock", x))
       ELSE UNCHANGED <<queue, registered, missed>>
  /\ UNCHANGED <<blocking, destroyed, blocked, pc, connected, heard, owed, aborted>>

(* One key of an iteration: loops first, then windows.  The iteration of a *)
(* sharded map passes every key once, in an order given by its hash, and   *)
(* meets the entry if it is present at that moment.                        *)
Visit(c, x) ==
  /\ ~aborted
  /\ pc[c] \in {"block", "unblock"}
  /\ x \in ahead[c]
  /\ x \in Windows => ahead[c] \cap Threads = {}
  /\ ahead' = [ahead EXCEPT ![c] = @ \ {x}]
  /\ IF x \in registered
       THEN Spawn(Home(x), Do(IF pc[c] = "block" THEN "Block" ELSE "Unblock", x))
       ELSE UNCHANGED <<queue, registered, missed>>
  /\ UNCHANGED <<blocking, destroyed, blocked, pc, connected, heard, owed, aborted>>

(* A request to block while nothing is blocked. *)
BlockStart ==
  /\ ~aborted
  /\ pc[Ipc] = "idle" /\ connected
  /\ \A t \in Threads : Len(queue[t]) < MaxQueue
  /\ ~blocking
  /\ pc' = [pc EXCEPT ![Ipc] = "block"]
  /\ ahead' = [ahead EXCEPT ![Ipc] = Objects]
  /\ missed' = {}
  /\ UNCHANGED <<blocking, registered, destroyed, queue, blocked, connected,
                 heard, owed, aborted>>

(* The last statement of block_input publishes the new state. *)
BlockPublish ==
  /\ ~aborted
  /\ pc[Ipc] = "block" /\ ahead[Ipc] = {}
  /\ blocking' = TRUE
  /\ owed' = owed + 1
  /\ pc' = [pc EXCEPT ![Ipc] = "replyBlock"]
  /\ UNCHANGED <<registered, destroyed, queue, blocked, ahead, connected,
                 heard, missed, aborted>>

(* A request to block, or to unblock, that finds nothing to do. *)
RequestNoop ==
  /\ ~aborted
  /\ pc[Ipc] = "idle" /\ connected
  /\ pc' = [pc EXCEPT ![Ipc] = IF blocking THEN "replyBlock" ELSE "replyUnblock"]
  /\ UNCHANGED <<blocking, registered, destroyed, queue, blocked, ahead,
                 connected, heard, owed, missed, aborted>>

(* Mutant of Take: no early return when there is no blocking state. *)
Take_NoCheck(c) ==
  /\ blocking' = FALSE
  /\ pc' = [pc EXCEPT ![c] = "unblock"]
  /\ ahead' = [ahead EXCEPT ![c] = Objects]

(* Mutant of Take: the iteration stops after the message loops. *)
Take_LoopsOnly(c) ==
  /\ blocking
  /\ blocking' = FALSE
  /\ pc' = [pc EXCEPT ![c] = "unblock"]
  /\ ahead' = [ahead EXCEPT ![c] = Threads]

(* unblock_input takes the state out of blocking_state; only the caller    *)
(* that gets it goes on.                                                   *)
Take(c) ==
  /\ blocking
  /\ blocking' = FALSE
  /\ pc' = [pc EXCEPT ![c] = "unblock"]
  /\ ahead' = [ahead EXCEPT ![c] = Objects]

UnblockRequest ==
  /\ ~aborted
  /\ pc[Ipc] = "idle" /\ connected
  /\ Take(Ipc)
  /\ UNCHANGED <<registered, destroyed, queue, blocked, connected, heard,
                 owed, missed, aborted>>

(* hooked_wnd_proc of a registered window gets WM_CLOSE: the message is    *)
(* swallowed and input is unblocked.                                       *)
CloseMessage(t) ==
  /\ ~aborted
  /\ t \in Closers
  /\ pc[t] = "idle"
  /\ \E w \in registered \cap Windows : ThreadOf[w] = t
  /\ Take(t)
  /\ UNCHANGED <<registered, destroyed, queue, blocked, connected, heard,
                 owed, missed, aborted>>

(* The last statement of unblock_input emits InputBlockingEnded, which     *)
(* reaches the client if there is one.                                     *)
UnblockEnd(c) ==
  /\ ~aborted
  /\ pc[c] = "unblock" /\ ahead[c] = {}
  /\ owed' = owed - 1
  /\ heard' = IF connected THEN "ended" ELSE heard
  /\ pc' = [pc EXCEPT ![c] = IF c = Ipc /\ connected THEN "replyUnblock" ELSE "idle"]
  /\ UNCHANGED <<blocking, registered, destroyed, queue, blocked, ahead,
                 connected, missed, aborted>>

(* The response is queued after the call, behind any event already queued. *)
Reply ==
  /\ ~aborted
  /\ pc[Ipc] \in {"replyBlock", "replyUnblock"}
  /\ heard' = IF pc[Ipc] = "replyBlock" THEN "blocked" ELSE "unblocked"
  /\ pc' = [pc EXCEPT ![Ipc] = "idle"]
  /\ UNCHANGED <<blocking, registered, destroyed, queue, blocked, ahead,
                 connected, owed, missed, aborted>>

(* Mutant of Disconnect: the session ends without a reset. *)
Disconnect_NoReset ==
  /\ ~aborted
  /\ pc[Ipc] = "idle" /\ connected
  /\ connected' = FALSE
  /\ heard' = "nothing"
  /\ UNCHANGED <<blocking, pc, ahead, registered, destroyed, queue, blocked,
                 owed, missed, aborted>>

(* The connection ends: the event sink is cleared, then everything is reset. *)
Disconnect ==
  /\ ~aborted
  /\ pc[Ipc] = "idle" /\ connected
  /\ connected' = FALSE
  /\ heard' = "nothing"
  /\ IF blocking THEN Take(Ipc) ELSE UNCHANGED <<blocking, pc, ahead>>
  /\ UNCHANGED <<registered, destroyed, queue, blocked, owed, missed, aborted>>

Connect ==
  /\ ~aborted
  /\ pc[Ipc] = "idle" /\ ~connected
  /\ connected' = TRUE
  /\ UNCHANGED <<blocking, registered, destroyed, queue, blocked, pc, ahead,
                 heard, owed, missed, aborted>>

-----------------------------------------------------------------------------
(* An application thread reads a message: read_message.                    *)

(* WM_QUIT drops the loop state, with whatever is queued on it. *)
QuitMessage(t) ==
  /\ ~aborted
  /\ t \in Quitters
  /\ pc[t] = "idle"
  /\ registered' = registered \ {t}
  /\ queue' = [queue EXCEPT ![t] = <<>>]
  /\ blocked' = [blocked EXCEPT ![t] = FALSE]
  /\ missed' = missed \ {t}
  /\ pc' = [pc EXCEPT ![t] = "enter"]
  /\ UNCHANGED <<blocking, destroyed, ahead, connected, heard, owed, aborted>>

(* message_loop_state(id, ..) for the thread's own id. *)
EnterLoop(t) ==
  /\ ~aborted
  /\ pc[t] \in {"idle", "enter"}
  /\ queue' = [queue EXCEPT ![t] = LoopQueue(t)]
  /\ registered' = registered \cup {t}
  /\ missed' = missed \cup BlindSpot({t})
  /\ pc' = [pc EXCEPT ![t] = "read"]
  /\ UNCHANGED <<blocking, destroyed, blocked, ahead, connected, heard, owed, aborted>>

(* Mutant of TouchWindow: a new window is not blocked. *)
TouchWindow_NoBlock(t, w) ==
  /\ ~aborted
  /\ pc[t] = "read"
  /\ ThreadOf[w] = t
  /\ w \notin registered \cup destroyed
  /\ registered' = registered \cup {w}
  /\ missed' = missed \cup BlindSpot({w})
  /\ pc' = [pc EXCEPT ![t] = "lock"]
  /\ UNCHANGED <<blocking, destroyed, queue, blocked, ahead, connected, heard,
                 owed, aborted>>

(* window_state(msg.hwnd, ..): a window seen for the first time is hooked, *)
(* announced, and blocked if input is.                                     *)
TouchWindow(t, w) ==
  /\ ~aborted
  /\ pc[t] = "read"
  /\ ThreadOf[w] = t
  /\ w \notin registered \cup destroyed
  /\ registered' = registered \cup {w}
  /\ missed' = missed \cup BlindSpot({w})
  /\ queue' = IF blocking THEN [queue EXCEPT ![t] = Append(@, Do("Block", w))]
                          ELSE queue
  /\ pc' = [pc EXCEPT ![t] = "lock"]
  /\ UNCHANGED <<blocking, destroyed, blocked, ahead, connected, heard, owed, aborted>>

(* The queue's mutex is held while the queue is drained. *)
LockQueue(t) ==
  /\ ~aborted
  /\ pc[t] \in {"read", "lock"}
  /\ pc' = [pc EXCEPT ![t] = "drain"]
  /\ UNCHANGED <<blocking, registered, destroyed, queue, blocked, ahead,
                 connected, heard, owed, missed, aborted>>

(* One queued closure.  A Block (Unblock) closure leaves a loop or window  *)
(* that is already blocked (unblocked) as it is.  The closure of a window  *)
(* that left the map asks window_state to hook a dead handle, which fails  *)
(* and panics.                                                             *)
RunClosure(t) ==
  /\ ~aborted
  /\ pc[t] = "drain"
  /\ queue[t] # <<>>
  /\ LET closure == Head(queue[t]) IN
       IF closure.target \in registered
         THEN /\ blocked' = [blocked EXCEPT ![closure.target] = (closure.op = "Block")]
              /\ UNCHANGED aborted
         ELSE /\ aborted' = TRUE
              /\ UNCHANGED blocked
  /\ queue' = [queue EXCEPT ![t] = Tail(@)]
  /\ UNCHANGED <<blocking, registered, destroyed, pc, ahead, connected, heard,
                 owed, missed>>

(* Mutant of UnlockQueue: the mutex is kept when nothing was queued. *)
UnlockQueue_Kept(t) ==
  /\ ~aborted
  /\ pc[t] = "drain"
  /\ queue[t] = <<>>
  /\ UNCHANGED vars

UnlockQueue(t) ==
  /\ ~aborted
  /\ pc[t] = "drain"
  /\ queue[t] = <<>>
  /\ pc' = [pc EXCEPT ![t] = "idle"]
  /\ UNCHANGED <<blocking, registered, destroyed, queue, blocked, ahead,
                 connected, heard, owed, missed, aborted>>

(* WM_NCDESTROY: the entry of the window is removed. *)
DestroyWindow(w) ==
  /\ ~aborted
  /\ w \in Mortal \cap registered
  /\ pc[ThreadOf[w]] = "idle"
  /\ registered' = registered \ {w}
  /\ destroyed' = destroyed \cup {w}
  /\ blocked' = [blocked EXCEPT ![w] = FALSE]
  /\ missed' = missed \ {w}
  /\ UNCHANGED <<blocking, queue, pc, ahead, connected, heard, owed, aborted>>

-----------------------------------------------------------------------------
Call(c) == (\E x \in Objects : Visit(c, x)) \/ UnblockEnd(c)

IpcTask ==
  \/ BlockStart \/ BlockPublish \/ RequestNoop \/ UnblockRequest \/ Reply
  \/ Disconnect \/ Connect

Pump(t) ==
  \/ EnterLoop(t)
  \/ \E w \in Windows : TouchWindow(t, w)
  \/ LockQueue(t) \/ RunClosure(t) \/ UnlockQueue(t)

Next ==
  \/ \E c \in Callers : Call(c)
  \/ IpcTask
  \/ \E t \in Threads : CloseMessage(t) \/ QuitMessage(t) \/ Pump(t)
  \/ \E w \in Windows : DestroyWindow(w)

Spec == Init /\ [][Next]_vars

(***************************************************************************)
(* A call that has begun runs to its end: it may have to wait for the      *)
(* mutex of a queue that is drained again and again, and parking_lot's     *)
(* Mutex is eventually fair, hence SF.  A thread keeps reading messages:   *)
(* spawn_fn posts WM_NULL to it, so GetMessage returns.  The thread is not *)
(* assumed to ever get WM_CLOSE or WM_QUIT, nor the client to send         *)
(* anything.                                                               *)
(***************************************************************************)
Fairness ==
  /\ \A c \in Callers : SF_vars(Call(c))
  /\ WF_vars(BlockPublish) /\ WF_vars(Reply)
  /\ \A t \in Threads : WF_vars(Pump(t))

FairSpec == Spec /\ Fairness
-----------------------------------------------------------------------------
Unblocking == {c \in Callers : pc[c] = "unblock"}

(* No block or unblock call is running. *)
NoCall == pc[Ipc] # "block" /\ Unblocking = {}

(* Whether running the closures q, from a state of x where blocked is b,   *)
(* leaves x blocked: the last closure for x decides.                       *)
EndsBlocked(q, b, x) ==
  \/ \E i \in DOMAIN q : /\ q[i] = Do("Block", x)
                         /\ \A j \in DOMAIN q : j > i => q[j].target # x
  \/ b /\ \A j \in DOMAIN q : q[j].target # x

WillBlock(x) == EndsBlocked(queue[Home(x)], blocked[x], x)

(* Something is left to restore x, or input is still (about to be) blocked. *)
Accounted(x) ==
  \/ blocking
  \/ pc[Ipc] = "block"
  \/ \E c \in Unblocking : x \in ahead[c]

(***************************************************************************)
(* Every pending or effective block of a loop or window is accounted for:  *)
(* input is blocked, or the block call is still running, or an unblock     *)
(* call has yet to pass it.  Holds for every thread that reads no WM_QUIT  *)
(* (unblock_input, message_loop_state, window_state).                      *)
(***************************************************************************)
PendingAccounted ==
  \A x \in registered :
    (Home(x) \notin Quitters /\ WillBlock(x)) => Accounted(x)

(***************************************************************************)
(* However block_input, unblock_input, WM_CLOSE and new loops and windows  *)
(* interleave, once no call runs, input is not blocked and the queue of a  *)
(* thread is empty, its loop and its windows are back as they were: cursor *)
(* count and IME context restored.                                         *)
(***************************************************************************)
Restored ==
  (NoCall /\ ~blocking) =>
    \A x \in registered :
      (Home(x) \notin Quitters /\ queue[Home(x)] = <<>>) => ~blocked[x]

(***************************************************************************)
(* No loop or window is left blocked: a block is always accounted for, and *)
(* when it is over and the queues are empty everything is restored.        *)
(***************************************************************************)
NothingStaysBlocked == PendingAccounted /\ Restored

(***************************************************************************)
(* Racing callers of unblock_input emit exactly one InputBlockingEnded per *)
(* blocking episode: the episodes not yet reported are the current one and *)
(* those of the unblock calls still running.                               *)
(***************************************************************************)
OneEndedPerEpisode ==
  owed = Cardinality(Unblocking) + (IF blocking THEN 1 ELSE 0)

(***************************************************************************)
(* Without a WM_CLOSE racing it, block_input misses only the loops and     *)
(* windows created after its iteration passed them and before it           *)
(* published blocking_state.                                               *)
(***************************************************************************)
BlockCovers ==
  (blocking /\ NoCall) =>
    \A x \in registered \ missed : Home(x) \notin Quitters => WillBlock(x)

(***************************************************************************)
(* What the client was last told is true once nothing is running: after    *)
(* the reply to a block request input is blocked, after the reply to an    *)
(* unblock request or an InputBlockingEnded it is not.                     *)
(***************************************************************************)
ClientViewAgrees ==
  (NoCall /\ pc[Ipc] = "idle" /\ connected) =>
    (heard = "blocked" <=> blocking)

(***************************************************************************)
(* A window or loop left blocked by a finished episode is restored, unless *)
(* input is blocked again: the queued closures do run.  Holds for every    *)
(* thread that reads no WM_QUIT.                                           *)
(***************************************************************************)
EventuallyRestored ==
  \A x \in Objects :
    (x \in registered /\ Home(x) \notin Quitters /\ ~blocking) ~>
      (~blocked[x] \/ blocking \/ pc[Ipc] = "block" \/ aborted)

(***************************************************************************)
(* Each blocking episode that was ended is reported: a call that took the  *)
(* blocking state always comes to its InputBlockingEnded, whatever queue   *)
(* it has to wait for.                                                     *)
(***************************************************************************)
UnblockReturns ==
  \A c \in Callers : (pc[c] = "unblock") ~> (pc[c] # "unblock" \/ aborted)
=============================================================================
