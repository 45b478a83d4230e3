---------------------------- MODULE VulkanFrames ----------------------------
(***************************************************************************)
(* Frames of the Vulkan layer on the GPU: vulkan-layer/src/renderer.rs,    *)
(* renderer/frame.rs and present of device/queue.rs.                       *)
(*                                                                         *)
(* One thread presents on one queue.  The GPU starts what is on the queue  *)
(* in order, when its semaphores allow, and finishes it in any order; an   *)
(* image can be acquired again once its present is finished.               *)
(***************************************************************************)
EXTENDS GpuTextures, SequencesExt

CONSTANTS
  Images,        \* indices of the images of swapchains
  Sems           \* semaphores of the application

Frames == Chains \X Images

(* A present under way: its images, the semaphores it is to wait for, the  *)
(* swapchains it has not come to, the one it is at, and the images that    *)
(* the overlay was drawn on.                                               *)
Calls ==
  [frames : SUBSET Frames, sems : SUBSET Sems, todo : SUBSET Chains,
   at : Chains \cup {None}, buf : SUBSET Frames]

ASSUME VulkanAssumption ==
  /\ IsFiniteSet(Chains) /\ IsFiniteSet(Images) /\ IsFiniteSet(Sems)
  /\ Sems \cap Frames = {} /\ None \notin Calls
  /\ \A k \in Cases : k.images \subseteq Images

VARIABLES
  queue,         \* what the queue of the device has yet to start
  running,       \* what the GPU has started
  signalled,     \* semaphores that are signalled; those of frames too
  fenced,        \* frames whose fence is signalled
  recorded,      \* [Frames -> the object that its command buffer has the GPU
                 \* read, or None; of no interest once that is done]
  rendered,      \* images the application has rendered, yet to present
  call,          \* the present under way, or None
  broken,        \* what the semaphores cannot recover from, "" if nothing
  failed         \* frames that failed after their fence was reset

vkVars == <<queue, running, signalled, fenced, recorded, rendered, call,
            broken, failed>>

(* An operation waits for all of waits, for blocks before it starts.       *)
Op(k, w, b, s, fs, t) ==
  [kind |-> k, waits |-> w, blocks |-> b, signals |-> s, frames |-> fs, tex |-> t]

Pending == ToSet(queue) \cup running
Used(f) ==
  \/ \E op \in Pending : f \in op.frames
  \/ \E b \in rendered : f \in b.frames
  \/ call # None /\ f \in call.frames
SemUsed(s) ==
  \/ s \in signalled
  \/ \E op \in Pending : s \in op.waits \cup op.signals
  \/ \E b \in rendered : s \in b.sems
  \/ call # None /\ s \in call.sems

VkTypeOK ==
  /\ \A op \in Pending :
       /\ op.kind \in {"app", "draw", "present"}
       /\ op.waits \cup op.signals \subseteq Sems \cup Frames
       /\ op.blocks \subseteq op.waits
       /\ op.frames \subseteq Frames /\ op.tex \in Objects \cup {None}
  /\ signalled \subseteq Sems \cup Frames
  /\ fenced \subseteq Frames /\ failed \subseteq Frames
  /\ recorded \in [Frames -> Objects \cup {None}]
  /\ rendered \subseteq [frames : SUBSET Frames, sems : SUBSET Sems]
  /\ call = None \/ call \in Calls
  /\ broken \in {"", "twice", "refused"}

(* Mutant of VkInit: fences are made unsignalled. *)
VkInit_Unsignalled ==
  /\ queue = <<>> /\ running = {} /\ signalled = {}
  /\ fenced = {} /\ recorded = [f \in Frames |-> None]
  /\ rendered = {} /\ call = None
  /\ broken = "" /\ failed = {}

VkInit ==
  /\ queue = <<>> /\ running = {} /\ signalled = {}
  /\ fenced = Frames /\ recorded = [f \in Frames |-> None]
  /\ rendered = {} /\ call = None
  /\ broken = "" /\ failed = {}
-----------------------------------------------------------------------------
(* The application acquires images of some swapchains and submits what it  *)
(* renders to them: one submission with one semaphore, one for each image, *)
(* or none, when it waits for the GPU before it presents.  What it does    *)
(* when the semaphores are beyond repair is not followed.                  *)
Render ==
  /\ broken = "" /\ call = None
  /\ \E fs \in (SUBSET {f \in gpu.chains \X gpu.images : ~Used(f)}) \ {{}},
       S \in SUBSET {s \in Sems : ~SemUsed(s)} :
    /\ \A f, g \in fs : f[1] = g[1] => f = g
    /\ Cardinality(S) \in {0, 1, Cardinality(fs)}
    /\ LET apart == Cardinality(S) = Cardinality(fs)
           of == SetToSeq(S)
           fseq == SetToSeq(fs)
       IN queue' = queue \o
            IF apart THEN [i \in 1..Len(of) |-> Op("app", {}, {}, {of[i]}, {fseq[i]}, None)]
            ELSE <<Op("app", {}, {}, S, fs, None)>>
    /\ rendered' = rendered \cup {[frames |-> fs, sems |-> S]}
    /\ UNCHANGED <<gpu, texVars, running, signalled, fenced, recorded, call, broken, failed>>

(* vkQueuePresentKHR: the table of the device is locked to the end.        *)
Call ==
  \E b \in rendered :
    /\ call = None
    /\ b.sems = {} => \A op \in Pending : op.frames \cap b.frames = {}
    /\ call' = [frames |-> b.frames, sems |-> b.sems, todo |-> {f[1] : f \in b.frames},
                at |-> None, buf |-> {}]
    /\ rendered' = rendered \ {b}
    /\ UNCHANGED <<gpu, texVars, queue, running, signalled, fenced, recorded, broken, failed>>

Turn(c, at) == call' = [call EXCEPT !.todo = @ \ {c}, !.at = at]

(* Without a sink, an entry of the swapchain, a surface, a renderer or a   *)
(* texture nothing is done for c, and the flag stays.                      *)
Skip(c) ==
  /\ call # None /\ call.at = None /\ c \in call.todo
  /\ Turn(c, None)
  /\ UNCHANGED <<gpu, texVars, queue, running, signalled, fenced, recorded, rendered, broken, failed>>

Keep(c) ==
  /\ call # None /\ call.at = None /\ c \in call.todo
  /\ ~updated[c]
  /\ Turn(c, c)
  /\ UNCHANGED <<gpu, texVars, queue, running, signalled, fenced, recorded, rendered, broken, failed>>

(* Mutant of Idle: nothing is waited for. *)
Idle_Never == TRUE

Idle == queue = <<>> /\ running = {}

(* update_texture: an object is destroyed when the device is idle; the new *)
(* one may not be made, and then the frame is over and the flag is down.   *)
Update(c) ==
  /\ call # None /\ call.at = None /\ c \in call.todo
  /\ updated[c]
  /\ texture[c] # None => Idle
  /\ Taken(c)
  /\ \E t \in Objects \cup {None} :
       Replace(c, t) /\ Turn(c, IF t = None THEN None ELSE c)
  /\ UNCHANGED <<gpu, queue, running, signalled, fenced, recorded, rendered, broken, failed>>

Current == CHOOSE f \in call.frames : f[1] = call.at

(* VulkanRenderer::draw.  wait_dst_stage_mask has one element: what holds  *)
(* the waits after the first is whatever follows it in memory.             *)
Draw ==
  /\ call # None /\ call.at # None /\ texture[call.at] # None
  /\ Current \in fenced
  /\ \E blocks \in SUBSET call.sems :
       /\ call.sems # {} => blocks # {}
       /\ queue' = Append(queue, Op("draw", call.sems, blocks, {Current}, {Current},
                                    texture[call.at]))
  /\ fenced' = fenced \ {Current}
  /\ recorded' = [recorded EXCEPT ![Current] = texture[call.at]]
  /\ broken' = IF call.buf # {} /\ call.sems # {} THEN "twice" ELSE broken
  /\ call' = [call EXCEPT !.buf = @ \cup {Current}, !.at = None]
  /\ UNCHANGED <<gpu, texVars, running, signalled, rendered, failed>>

(* It fails when the pool is reset, or afterwards, when the fence is too;  *)
(* one frame does at a time.                                               *)
DrawFails ==
  /\ call # None /\ call.at # None /\ texture[call.at] # None
  /\ Current \in fenced
  /\ recorded' = [recorded EXCEPT ![Current] = None]
  /\ \/ UNCHANGED <<fenced, failed>>
     \/ failed = {} /\ fenced' = fenced \ {Current} /\ failed' = {Current}
  /\ call' = [call EXCEPT !.at = None]
  /\ UNCHANGED <<gpu, texVars, queue, running, signalled, rendered, broken>>

(* Nothing to draw: an earlier update failed.                              *)
Nothing ==
  /\ call # None /\ call.at # None /\ texture[call.at] = None
  /\ call' = [call EXCEPT !.at = None]
  /\ UNCHANGED <<gpu, texVars, queue, running, signalled, fenced, recorded, rendered, broken, failed>>

PresentWaits == IF call.buf = {} THEN call.sems ELSE call.buf

(* The real present.  When there is no memory for it, nothing was done and *)
(* the application may present the same images again.                      *)
Present ==
  /\ call # None /\ call.at = None /\ call.todo = {}
  /\ \/ /\ queue' = Append(queue, Op("present", PresentWaits, PresentWaits, {}, call.frames, None))
        /\ UNCHANGED <<rendered, broken>>
     \/ /\ rendered' = rendered \cup {[frames |-> call.frames, sems |-> call.sems]}
        /\ broken' = IF call.buf # {} THEN "refused" ELSE broken
        /\ UNCHANGED queue
  /\ call' = None
  /\ UNCHANGED <<gpu, texVars, running, signalled, fenced, recorded, failed>>

(* The swapchain is destroyed or replaced between frames: its renderer is  *)
(* dropped when the device is idle, and the next starts anew.              *)
DropRenderer(c) ==
  LET mine == {f \in Frames : f[1] = c} IN
  /\ c \in gpu.chains
  /\ call = None /\ \A b \in rendered : b.frames \cap mine = {}
  /\ Idle
  /\ Replace(c, None)
  /\ updated' = [updated EXCEPT ![c] = TRUE]
  /\ fenced' = fenced \cup mine /\ failed' = failed \ mine
  /\ signalled' = signalled \ mine
  /\ recorded' = [f \in Frames |-> IF f \in mine THEN None ELSE recorded[f]]
  /\ UNCHANGED <<gpu, queue, running, rendered, call, broken>>

Start ==
  /\ queue # <<>> /\ Head(queue).blocks \subseteq signalled
  /\ queue' = Tail(queue) /\ running' = running \cup {Head(queue)}
  /\ signalled' = signalled \ Head(queue).blocks
  /\ UNCHANGED <<gpu, texVars, fenced, recorded, rendered, call, broken, failed>>

Finish(op) ==
  /\ op \in running
  /\ op.waits \ op.blocks \subseteq signalled
  /\ running' = running \ {op}
  /\ signalled' = (signalled \ (op.waits \ op.blocks)) \cup op.signals
  /\ fenced' = IF op.kind = "draw" THEN fenced \cup op.frames ELSE fenced
  /\ recorded' = [f \in Frames |-> IF op.kind = "draw" /\ f \in op.frames THEN None
                                  ELSE recorded[f]]
  /\ UNCHANGED <<gpu, texVars, queue, rendered, call, broken, failed>>

Frame == Call \/ (\E c \in Chains : Skip(c) \/ Keep(c) \/ Update(c))
         \/ Draw \/ DrawFails \/ Nothing \/ Present
Gpu == Start \/ \E op \in running : Finish(op)

VkNext ==
  \/ Render \/ Frame \/ Gpu
  \/ \E c \in Chains : DropRenderer(c) \/ (Commit(c) /\ UNCHANGED vkVars)
=============================================================================
