----------------------------- MODULE Dx12Frames -----------------------------
(***************************************************************************)
(* Frames of Direct3D 12 on the GPU: overlay/src/renderer/dx12.rs, its     *)
(* dx12/sync.rs, and draw_overlay of hook/dx/dx12.rs.                      *)
(*                                                                         *)
(* One thread presents one swapchain on Main; the overlay is drawn on the  *)
(* queue that executed last.  Each queue finishes its work in order.       *)
(***************************************************************************)
EXTENDS GpuTextures

CONSTANTS
  Queues,        \* DIRECT queues of the device
  Main,          \* the one of the swapchain
  BackBuffers,   \* number of back buffers of the swapchain
  MaxVal         \* bound on the values of the fence

ASSUME Dx12Assumption ==
  /\ Main \in Queues /\ None \notin Queues
  /\ BackBuffers \in Nat \ {0} /\ MaxVal \in Nat
  /\ \A k \in Cases : k.queues \subseteq Queues

VARIABLES
  lists,         \* [Queues -> what it has of the overlay and of Present]
  fence,         \* the value of the fence
  fenceVal,      \* the value the renderer registered last
  allocs,        \* [buffers -> the object its command list has the GPU read, or
                 \* None; of no interest once that is done]
  frame,         \* "app", "present", "draw", or "execute"
  buffer,        \* the current back buffer
  last,          \* the queue in QUEUE_MAP, or None
  lapses         \* what the code relies on and did not get

dxVars == <<lists, fence, fenceVal, allocs, frame, buffer, last, lapses>>

Item(k, b, t, v) == [kind |-> k, buffer |-> b, tex |-> t, val |-> v]
Items(q) == {lists[q][i] : i \in DOMAIN lists[q]}
Unfinished == UNION {Items(q) : q \in Queues}
Bufs == 0 .. BackBuffers - 1

ItemSet ==
  [kind : {"list", "signal", "present", "void"}, buffer : Bufs,
   tex : Objects \cup {None}, val : 0 .. MaxVal]

DxTypeOK ==
  /\ lists \in [Queues -> Seq(ItemSet)]
  /\ fence \in 0 .. MaxVal /\ fenceVal \in 0 .. MaxVal
  /\ allocs \in [Bufs -> Objects \cup {None}]
  /\ frame \in {"app", "present", "draw", "execute"} /\ buffer \in Bufs
  /\ last \in Queues \cup {None}
  /\ lapses \subseteq {"ahead", "other", "queues", "signal"}

DxInit ==
  /\ lists = [q \in Queues |-> <<>>]
  /\ fence = 0 /\ fenceVal = 0
  /\ allocs = [b \in Bufs |-> None]
  /\ frame = "app" /\ buffer = 0 /\ last = None /\ lapses = {}
-----------------------------------------------------------------------------
Chain == CHOOSE c \in gpu.chains : TRUE

(* The application renders to the current back buffer.  It has waited for  *)
(* what was put on Main for that buffer before, or runs ahead of the GPU.  *)
Execute(q) ==
  /\ frame = "app" /\ fenceVal < MaxVal /\ \A r \in Queues : Len(lists[r]) < gpu.depth
  /\ last' = q /\ frame' = "present"
  /\ lapses' = lapses \cup IF \E i \in Items(Main) : i.buffer = buffer THEN {"ahead"} ELSE {}
  /\ UNCHANGED <<gpu, texVars, lists, fence, fenceVal, allocs, buffer>>

(* draw_overlay: the queue is taken from the map in any case.  Without     *)
(* one, without a texture or without a surface or renderer there is        *)
(* nothing to draw and the flag stays.                                     *)
NoOverlay ==
  /\ frame = "present"
  /\ frame' = "execute" /\ last' = None
  /\ UNCHANGED <<gpu, texVars, lists, fence, fenceVal, allocs, buffer, lapses>>

(* RendererFence::wait_pending                                             *)
Reached == fence >= fenceVal

(* update_texture, which drops the texture and may fail to open another.   *)
Updates ==
  /\ frame = "present" /\ last # None /\ updated[Chain]
  /\ Reached
  /\ Taken(Chain)
  /\ \E t \in Objects \cup {None} :
       /\ Replace(Chain, t)
       /\ IF t = None THEN frame' = "execute" /\ last' = None
                      ELSE frame' = "draw" /\ UNCHANGED last
  /\ UNCHANGED <<gpu, lists, fence, fenceVal, allocs, buffer, lapses>>

Keeps ==
  /\ frame = "present" /\ last # None /\ ~updated[Chain]
  /\ IF texture[Chain] = None THEN frame' = "execute" /\ last' = None
                              ELSE frame' = "draw" /\ UNCHANGED last
  /\ UNCHANGED <<gpu, texVars, lists, fence, fenceVal, allocs, buffer, lapses>>

(* with_keyed_mutex: the mutex may not be had, and then nothing is         *)
(* executed of what was recorded.                                          *)
MutexFails ==
  /\ frame = "draw"
  /\ frame' = "execute" /\ last' = None
  /\ allocs' = [allocs EXCEPT ![buffer] = None]
  /\ UNCHANGED <<gpu, texVars, lists, fence, fenceVal, buffer, lapses>>

(* RendererFence::register: the value is counted before the queue is asked *)
(* to signal it, which may fail.                                           *)
Register(ok) ==
  /\ fenceVal' = fenceVal + 1
  /\ lists' = [lists EXCEPT ![last] =
       @ \o <<Item("list", buffer, texture[Chain], 0)>>
         \o IF ok THEN <<Item("signal", buffer, None, fenceVal + 1)>> ELSE <<>>]

TwoQueues == \E q \in Queues \ {last} : \E i \in Items(q) : i.kind \in {"list", "signal"}

(* Dx12Renderer::draw: the allocator of the back buffer is reset without a *)
(* wait.                                                                   *)
Submit ==
  /\ frame = "draw"
  /\ frame' = "execute" /\ last' = None
  /\ allocs' = [allocs EXCEPT ![buffer] = texture[Chain]]
  /\ \E ok \in BOOLEAN :
       /\ Register(ok)
       /\ lapses' = lapses \cup (IF ok THEN {} ELSE {"signal"})
                           \cup (IF last = Main THEN {} ELSE {"other"})
                           \cup (IF TwoQueues THEN {"queues"} ELSE {})
  /\ UNCHANGED <<gpu, texVars, fence, buffer>>

(* The original Present, after which the next buffer is current.           *)
Flip ==
  /\ frame = "execute"
  /\ lists' = [lists EXCEPT ![Main] = Append(@, Item("present", buffer, None, 0))]
  /\ buffer' = (buffer + 1) % BackBuffers
  /\ frame' = "app"
  /\ UNCHANGED <<gpu, texVars, fence, fenceVal, allocs, last, lapses>>

(* The signal of a fence that is gone.                                     *)
Void(i) == IF i.kind = "signal" THEN Item("void", i.buffer, None, 0) ELSE i

(* cleanup_swapchain: the renderer is dropped after a wait, and the next   *)
(* swapchain has another, with a fence of its own.                         *)
DropFrames ==
  /\ frame = "app" /\ Reached
  /\ \A i \in Unfinished : i.kind # "present"
  /\ Replace(Chain, None)
  /\ updated' = [updated EXCEPT ![Chain] = TRUE]
  /\ fence' = 0 /\ fenceVal' = 0
  /\ allocs' = [b \in Bufs |-> None] /\ buffer' = 0
  /\ lists' = [q \in Queues |-> [i \in DOMAIN lists[q] |-> Void(lists[q][i])]]
  /\ UNCHANGED <<gpu, frame, last, lapses>>

Complete(q) ==
  /\ lists[q] # <<>>
  /\ lists' = [lists EXCEPT ![q] = Tail(@)]
  /\ fence' = IF Head(lists[q]).kind = "signal" THEN Head(lists[q]).val ELSE fence
  /\ allocs' = IF Head(lists[q]).kind = "list"
               THEN [allocs EXCEPT ![Head(lists[q]).buffer] = None] ELSE allocs
  /\ UNCHANGED <<gpu, texVars, fenceVal, frame, buffer, last, lapses>>

Renders == NoOverlay \/ Updates \/ Keeps \/ MutexFails \/ Submit \/ Flip

DxNext ==
  \/ Renders \/ DropFrames
  \/ \E q \in gpu.queues : Execute(q) \/ Complete(q)
  \/ Commit(Chain) /\ UNCHANGED dxVars
=============================================================================
