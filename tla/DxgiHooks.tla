----------------------------- MODULE DxgiHooks -----------------------------
(***************************************************************************)
(* The hooks of Direct3D 11 and 12 (src/crates/overlay/src/hook/dx): what  *)
(* Present, ResizeBuffers, ExecuteCommandLists and the destruction of a    *)
(* swapchain do to the map of surfaces, to the map of renderers and, for   *)
(* Direct3D 12, to the render target views and the map of queues.  The     *)
(* frame of one swapchain runs under its entry in SURFACES and RENDERERS.  *)
(* The swapchains of the model are those of one device.                    *)
(***************************************************************************)
EXTENDS Surfaces

CONSTANTS
  Direct,   \* queues of type DIRECT of the device
  Other,    \* its compute and copy queues
  Buffers   \* indices of the back buffers

ASSUME QueuesAssumption == Direct \cap Other = {} /\ None \notin Direct \cup Other

VARIABLES
  rend,     \* RENDERERS
  hooked,   \* ExecuteCommandLists is hooked
  queueMap, \* QUEUE_MAP, for the device
  lastQ     \* history: the last DIRECT queue that executed

dxgiVars == <<rend, hooked, queueMap, lastQ>>

(* flags: RtvDescriptors::flags, the views taken for good; now: those made *)
(* for the back buffers there are now.  History: missed, the buffer could  *)
(* not be got when the flag went up; failed, nor the texture be opened.    *)
Renderer == [tex : Textures \cup {None}, failed : BOOLEAN, flags : SUBSET Buffers,
             now : SUBSET Buffers, missed : SUBSET Buffers]
NewRenderer == [tex |-> None, failed |-> FALSE, flags |-> {}, now |-> {}, missed |-> {}]

DxgiTypeOK ==
  /\ rend \in [Ids -> Renderer \cup {None}]
  /\ hooked \in BOOLEAN
  /\ queueMap \in Direct \cup Other \cup {None} /\ lastQ \in Direct \cup {None}

DxgiInit ==
  /\ rend = [c \in Ids |-> None]
  /\ hooked = FALSE /\ queueMap = None /\ lastQ = None
-----------------------------------------------------------------------------
(* The application executes command lists; the hook keeps a DIRECT queue.  *)
Execute(q) ==
  /\ api = "dx12" /\ hooked
  /\ queueMap' = IF q \in Direct THEN q ELSE queueMap
  /\ lastQ' = IF q \in Direct THEN q ELSE lastQ
  /\ drawn' = None
  /\ UNCHANGED <<env, connected, gen, objs, surfaces, rend, hooked>>

(* RtvDescriptors::with_next_swapchain: the flag goes up before the buffer *)
(* is got.  Direct3D 11 makes a view for each frame.                       *)
Target(r, i, got) ==
  IF api = "dx11" \/ i \in r.flags THEN r
  ELSE [r EXCEPT !.flags = @ \cup {i},
                 !.now = IF got THEN @ \cup {i} ELSE @,
                 !.missed = IF got THEN @ ELSE @ \cup {i}]

(* The renderer takes the update and opens the texture of the slot.        *)
Opened(r, s, opens) ==
  IF ~s.updated THEN r
  ELSE [r EXCEPT !.tex = IF opens THEN s.tex ELSE None, !.failed = ~opens]

(* The part of a frame under the entry of RENDERERS, for a surface that    *)
(* has a texture.  Making the renderer, opening the texture, getting the   *)
(* back buffer or recording the commands may fail: the frame ends there.   *)
Render(c, s, q, i) ==
  \/ /\ rend[c] = None
     /\ surfaces' = [surfaces EXCEPT ![c] = s]
     /\ drawn' = None
     /\ UNCHANGED rend
  \/ \E opens \in {~s.updated, TRUE}, got \in BOOLEAN, done \in BOOLEAN :
       LET r == Opened(IF rend[c] = None THEN NewRenderer ELSE rend[c], s, opens)
           n == IF opens THEN Target(r, i, got) ELSE r
       IN /\ done => opens /\ got
          /\ rend' = [rend EXCEPT ![c] = n]
          /\ surfaces' = [surfaces EXCEPT ![c] = [s EXCEPT !.updated = FALSE]]
          /\ drawn' = IF ~done THEN None
                      ELSE [tex |-> n.tex, want |-> s.tex, failed |-> n.failed,
                            fresh |-> api = "dx11" \/ i \in n.now \cup n.missed,
                            queue |-> q, last |-> lastQ]

(* Present with Direct3D 11. *)
Present11(c) ==
  /\ api = "dx11" /\ connected /\ objs[c] # None
  /\ LET s == With(c) IN
       IF s.tex = None
       THEN surfaces' = [surfaces EXCEPT ![c] = s] /\ drawn' = None /\ UNCHANGED rend
       ELSE \E i \in Buffers : Render(c, s, None, i)
  /\ UNCHANGED <<env, connected, gen, objs, hooked, queueMap, lastQ>>

(* Present with Direct3D 12: the first surface installs the hook that      *)
(* finds queues; a frame takes the queue away, even one without a texture. *)
Present12(c) ==
  /\ api = "dx12" /\ connected /\ objs[c] # None
  /\ hooked' = TRUE
  /\ queueMap' = None
  /\ LET s == With(c) IN
       IF queueMap = None \/ s.tex = None
       THEN surfaces' = [surfaces EXCEPT ![c] = s] /\ drawn' = None /\ UNCHANGED rend
       ELSE \E i \in Buffers : Render(c, s, queueMap, i)
  /\ UNCHANGED <<env, connected, gen, objs, lastQ>>

(* The surface cannot be set up (no interop device): nothing is drawn.     *)
SetupFails(c) ==
  /\ api = "dx12" /\ connected /\ objs[c] # None /\ surfaces[c] = None
  /\ hooked' = TRUE
  /\ drawn' = None
  /\ UNCHANGED <<env, connected, gen, objs, surfaces, rend, queueMap, lastQ>>

(* Mutant of Unviewed: the views are kept. *)
Unviewed_Kept(r, replaced) ==
  IF r = None THEN None ELSE [r EXCEPT !.now = IF replaced THEN {} ELSE @]

(* RtvDescriptors::reset, before the back buffers are maybe replaced.      *)
Unviewed(r, replaced) ==
  IF r = None THEN None
  ELSE [r EXCEPT !.flags = {}, !.missed = {}, !.now = IF replaced THEN {} ELSE @]

(* ResizeBuffers: the views are given up first; the new size is taken over *)
(* and reported only if the call succeeds, connected or not.               *)
ResizeBuffers(c, size, ok) ==
  /\ objs[c] # None
  /\ rend' = [rend EXCEPT ![c] = Unviewed(@, ok)]
  /\ IF ok
     THEN objs' = [objs EXCEPT ![c].size = size] /\ surfaces' = Resized(c, size)
     ELSE UNCHANGED <<objs, surfaces>>
  /\ drawn' = None
  /\ UNCHANGED <<env, connected, gen, hooked, queueMap, lastQ>>

(* Mutant of DestroyChain: the surface is left. *)
DestroyChain_KeepSurface(c) ==
  /\ objs[c] # None
  /\ objs' = [objs EXCEPT ![c] = None]
  /\ rend' = [rend EXCEPT ![c] = None]
  /\ surfaces' = IF rend[c] # None THEN surfaces ELSE Abandoned(c)
  /\ drawn' = None
  /\ UNCHANGED <<env, connected, gen, hooked, lastQ, queueMap>>

(* The last reference to a swapchain goes.  The destruction callback was   *)
(* registered with the renderer: without one nothing is cleaned up.        *)
DestroyChain(c) ==
  /\ objs[c] # None
  /\ objs' = [objs EXCEPT ![c] = None]
  /\ rend' = [rend EXCEPT ![c] = None]
  /\ IF rend[c] # None
     THEN surfaces' = Cleaned(c) /\ queueMap' = None
     ELSE surfaces' = Abandoned(c) /\ UNCHANGED queueMap
  /\ drawn' = None
  /\ UNCHANGED <<env, connected, gen, hooked, lastQ>>

DxgiNext ==
  \/ Client /\ UNCHANGED dxgiVars
  \/ \E q \in Direct \cup Other : Execute(q)
  \/ \E c \in Ids :
       \/ \E size \in env.sizes : Make(c, size) /\ UNCHANGED dxgiVars
       \/ Present11(c)
       \/ Present12(c)
       \/ SetupFails(c)
       \/ \E size \in env.sizes, ok \in BOOLEAN : ResizeBuffers(c, size, ok)
       \/ DestroyChain(c)
=============================================================================
