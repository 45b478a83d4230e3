------------------------------ MODULE GpuFrames ------------------------------
(***************************************************************************)
(* What the overlay gives the GPU, for an application that presents with   *)
(* Vulkan or with Direct3D 12.                                             *)
(***************************************************************************)
EXTENDS VulkanFrames, Dx12Frames

vars == <<gpu, texVars, vkVars, dxVars>>

TypeOK == TexTypeOK /\ VkTypeOK /\ DxTypeOK

Init == TexInit /\ VkInit /\ DxInit

Next ==
  \/ gpu.api = "vulkan" /\ VkNext /\ UNCHANGED dxVars
  \/ gpu.api = "dx12" /\ DxNext /\ UNCHANGED vkVars

Thread ==
  \/ gpu.api = "vulkan" /\ Frame /\ UNCHANGED dxVars
  \/ gpu.api = "dx12" /\ Renders /\ UNCHANGED vkVars

Hardware ==
  \/ gpu.api = "vulkan" /\ Gpu /\ UNCHANGED dxVars
  \/ gpu.api = "dx12" /\ (\E q \in Queues : Complete(q)) /\ UNCHANGED vkVars

(* The thread in a present runs on, and the GPU does what it was given;    *)
(* nothing more is given to it meanwhile.                                  *)
Fairness == WF_vars(Thread) /\ WF_vars(Hardware)

Spec == Init /\ [][Next]_vars /\ Fairness
-----------------------------------------------------------------------------
(* Draws and command lists with their places: two that are equal count as  *)
(* two.                                                                    *)
Draws ==
  {<<0, op>> : op \in {o \in running : o.kind = "draw"}}
  \cup {<<i, queue[i]>> : i \in {j \in DOMAIN queue : queue[j].kind = "draw"}}
ListsOn(q) == {i \in DOMAIN lists[q] : lists[q][i].kind = "list"}
OnlyList(q, i) ==
  \A r \in Queues : \A j \in ListsOn(r) :
    lists[r][j].buffer = lists[q][i].buffer => r = q /\ j = i

(* The texture that the GPU reads is one that exists, and what it runs for *)
(* a frame is what was recorded for it: the fence of the frame, the wait   *)
(* for the device (draw, update_texture, drop of VulkanRenderer) and the   *)
(* one fence of Dx12Renderer keep them apart from the next frame.  With    *)
(* Direct3D 12 a texture may go while it is read if frames went to two     *)
(* queues at a time (the one fence takes the value of the last to finish), *)
(* and a command allocator is reset while it is run if the application     *)
(* renders to a back buffer without waiting for what it had put on the     *)
(* queue of the swapchain, or if the frame went to another queue.          *)
InFlight ==
  /\ \A d \in Draws :
       d[2].tex \in alive /\ \A f \in d[2].frames : recorded[f] = d[2].tex
  /\ \A d, e \in Draws : d[2].frames \cap e[2].frames # {} => d = e
  /\ \A q \in Queues : \A i \in ListsOn(q) :
       /\ lists[q][i].tex \in alive \/ "queues" \in lapses
       /\ \/ allocs[lists[q][i].buffer] = lists[q][i].tex /\ OnlyList(q, i)
          \/ lapses \cap {"ahead", "other", "queues"} # {}

(* A semaphore is signalled only when the last signal was taken by what    *)
(* waits for it (submit_semaphore of FrameData by the present of the same  *)
(* image), through frames that fail and swapchains that go, unless a       *)
(* present that was to wait for it was refused.                            *)
SemaphoreOnce ==
  \A op \in running : op.signals # {} =>
    \/ op.signals \cap signalled = {}
       /\ \A other \in running \ {op} : op.signals \cap other.signals = {}
    \/ broken # ""

(* An image is presented after all that was rendered to it, the overlay    *)
(* included (draw_overlay chains its semaphore to those of the             *)
(* application), and the overlay is drawn over what the application        *)
(* rendered, but for the semaphores after the first.                       *)
PresentOrdered ==
  broken = "" =>
  \A op \in running : \A other \in Pending \ {op} :
    other.frames \cap op.frames # {} /\ other.kind # "present" =>
      /\ op.kind # "present"
      /\ op.kind = "draw" => op.blocks # op.waits

(* What the GPU was given for one frame and what the thread does for the   *)
(* next are kept apart by fences, semaphores and waits: nothing it still   *)
(* uses is changed, no signal is lost, and all is in the order of the      *)
(* frame.                                                                  *)
GpuInOrder == TypeOK /\ InFlight /\ SemaphoreOnce /\ PresentOrdered

(* A present comes back: no frame waits for a fence that nothing will      *)
(* signal, and the GPU is not given a wait that nothing ends; except when  *)
(* two overlays are drawn in one present, when a present with an overlay   *)
(* was refused, or an earlier frame failed after its fence was reset.      *)
PresentReturns ==
  /\ call # None ~> call = None \/ broken # "" \/ failed # {}
  /\ frame # "app" ~> frame = "app" \/ lapses \cap {"signal", "queues"} # {}
=============================================================================
