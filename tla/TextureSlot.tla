---------------------------- MODULE TextureSlot ----------------------------
(***************************************************************************)
(* How a shared texture committed by the client reaches the screen         *)
(* (src/crates/overlay).  OverlayTextureSlot keeps the texture of a        *)
(* surface behind a RwLock, beside an atomic flag.  The IPC task raises    *)
(* the flag, opens the handle and stores the texture; the thread that      *)
(* presents a frame takes the flag and, if it was raised, makes its        *)
(* renderer open the texture the slot holds by then.  Only one frame of a  *)
(* surface is drawn at a time (the entry of RENDERERS is locked), only one *)
(* commit runs at a time (the IPC task), and the surface is not removed    *)
(* while either holds its entry in SURFACES.                               *)
(***************************************************************************)
EXTENDS FiniteSets

CONSTANTS
  Handles,   \* shared texture handles a client may commit
  Nt,        \* those that are NT handles, which the overlay owns
  NoTex      \* no texture

ASSUME HandlesAssumption == Nt \subseteq Handles /\ NoTex \notin Handles

Textures == Handles \cup {NoTex}

VARIABLES
  exists,    \* the surface has an entry in SURFACES
  updated,   \* OverlayTextureSlot::updated
  inner,     \* OverlayTextureSlot::inner: a texture is named by its handle
  open,      \* NT handles handed to the overlay and not closed
  commit,    \* the IPC task: "idle", or "store" once the flag is raised
  arg,       \* the texture being committed
  frame,     \* the presenting thread
  sized,     \* the texture whose size the frame uses
  held,      \* the texture the frame reads under the lock of the slot
  renderer,  \* the renderer of the surface exists
  shown,     \* the texture that renderer has opened
  raced,     \* history: a frame took the flag before the texture was stored
  failed,    \* history: the renderer failed to open the texture
  disturbed, \* history: a commit step happened during the frame
  leaked     \* history: NT handles nobody will close

vars == <<exists, updated, inner, open, commit, arg, frame, sized, held,
          renderer, shown, raced, failed, disturbed, leaked>>

TypeOK ==
  /\ exists \in BOOLEAN /\ updated \in BOOLEAN /\ renderer \in BOOLEAN
  /\ inner \in Textures /\ arg \in Textures
  /\ sized \in Textures /\ held \in Textures /\ shown \in Textures
  /\ open \in SUBSET Nt /\ leaked \in SUBSET Nt
  /\ commit \in {"idle", "store"}
  /\ frame \in {"idle", "take", "load", "open", "draw"}
  /\ raced \in BOOLEAN /\ failed \in BOOLEAN /\ disturbed \in BOOLEAN

Init ==
  /\ exists = FALSE /\ updated = FALSE /\ renderer = FALSE
  /\ inner = NoTex /\ arg = NoTex
  /\ sized = NoTex /\ held = NoTex /\ shown = NoTex
  /\ open = {} /\ leaked = {}
  /\ commit = "idle" /\ frame = "idle"
  /\ raced = FALSE /\ failed = FALSE /\ disturbed = FALSE

(* Only an NT handle is owned, and closed with the texture opened from it. *)
Owned(h) == {h} \cap Nt
-----------------------------------------------------------------------------
(* The IPC task.                                                           *)

(* Mutant of Commit: the flag is not raised. *)
Commit_NoFlag(h) ==
  /\ commit = "idle" /\ exists
  /\ h \notin open
  /\ open' = open \cup Owned(h)
  /\ commit' = "store"
  /\ arg' = h
  /\ raced' = FALSE /\ failed' = FALSE
  /\ disturbed' = TRUE
  /\ UNCHANGED <<exists, updated, inner, frame, sized, held, renderer, shown, leaked>>

(* A commit of a texture, or of None (also the reset at the end of a       *)
(* session), first raises the flag.  The client gives an NT handle away.   *)
Commit(h) ==
  /\ commit = "idle" /\ exists
  /\ h \notin open
  /\ open' = open \cup Owned(h)
  /\ updated' = TRUE
  /\ commit' = "store"
  /\ arg' = h
  /\ raced' = FALSE /\ failed' = FALSE
  /\ disturbed' = TRUE
  /\ UNCHANGED <<exists, inner, frame, sized, held, renderer, shown, leaked>>

(* OpenSharedResource fails: the request is answered with an error, the    *)
(* slot keeps what it holds, and the handle stays open.                    *)
OpenFails ==
  /\ commit = "store" /\ arg # NoTex
  /\ commit' = "idle"
  /\ leaked' = leaked \cup Owned(arg)
  /\ UNCHANGED <<exists, updated, inner, open, arg, frame, sized, held, renderer,
                 shown, raced, failed, disturbed>>

(* "Surface not found": the handle was given away for nothing. *)
CommitMissing(h) ==
  /\ commit = "idle" /\ ~exists
  /\ h \in Nt \ open
  /\ open' = open \cup {h}
  /\ leaked' = leaked \cup {h}
  /\ UNCHANGED <<exists, updated, inner, commit, arg, frame, sized, held,
                 renderer, shown, raced, failed, disturbed>>

(* Mutant of Store: the write lock is not waited for. *)
Store_NoLock ==
  /\ commit = "store"
  /\ open' = open \ {inner}
  /\ inner' = arg
  /\ commit' = "idle"
  /\ disturbed' = TRUE
  /\ UNCHANGED <<exists, updated, arg, frame, sized, held, renderer, shown,
                 raced, failed, leaked>>

(* The opened texture replaces the old one, whose drop closes its handle;  *)
(* the write lock waits for a frame that reads the slot.                   *)
Store ==
  /\ commit = "store"
  /\ frame # "open"
  /\ open' = open \ {inner}
  /\ inner' = arg
  /\ commit' = "idle"
  /\ disturbed' = TRUE
  /\ UNCHANGED <<exists, updated, arg, frame, sized, held, renderer, shown,
                 raced, failed, leaked>>
-----------------------------------------------------------------------------
(* The presenting thread.                                                  *)

(* The first frame of a surface: it has no texture yet, so nothing is drawn. *)
AddSurface ==
  /\ ~exists
  /\ exists' = TRUE
  /\ updated' = TRUE
  /\ UNCHANGED <<inner, open, commit, arg, frame, sized, held, renderer, shown,
                 raced, failed, disturbed, leaked>>

(* A frame of a surface that has a texture. *)
FrameStart ==
  /\ exists
  /\ frame = "idle"
  /\ inner # NoTex
  /\ sized' = inner
  /\ renderer' = TRUE
  /\ frame' = "take"
  /\ disturbed' = FALSE
  /\ UNCHANGED <<exists, updated, inner, open, commit, arg, held, shown, raced,
                 failed, leaked>>

(* Mutant of FrameTake: a renderer that has a texture keeps it. *)
FrameTake_KeepOld ==
  /\ frame = "take"
  /\ frame' = IF updated /\ shown = NoTex THEN "load" ELSE "draw"
  /\ updated' = FALSE
  /\ raced' = (raced \/ (updated /\ commit = "store"))
  /\ UNCHANGED <<exists, inner, open, commit, arg, sized, held, renderer, shown,
                 failed, disturbed, leaked>>

(* take_update *)
FrameTake ==
  /\ frame = "take"
  /\ frame' = IF updated THEN "load" ELSE "draw"
  /\ updated' = FALSE
  /\ raced' = (raced \/ (updated /\ commit = "store"))
  /\ UNCHANGED <<exists, inner, open, commit, arg, sized, held, renderer, shown,
                 failed, disturbed, leaked>>

(* The slot is locked for reading until the renderer has opened its texture; *)
(* the renderer drops the texture it had.                                    *)
FrameLoad ==
  /\ frame = "load"
  /\ held' = inner
  /\ shown' = NoTex
  /\ frame' = "open"
  /\ UNCHANGED <<exists, updated, inner, open, commit, arg, sized, renderer,
                 raced, failed, disturbed, leaked>>

FrameOpen ==
  /\ frame = "open"
  /\ shown' = held
  /\ held' = NoTex
  /\ frame' = "draw"
  /\ UNCHANGED <<exists, updated, inner, open, commit, arg, sized, renderer,
                 raced, failed, disturbed, leaked>>

(* open_shared_texture fails: the frame ends with no texture. *)
FrameOpenFails ==
  /\ frame = "open" /\ held # NoTex
  /\ failed' = TRUE
  /\ held' = NoTex
  /\ frame' = "idle"
  /\ UNCHANGED <<exists, updated, inner, open, commit, arg, sized, renderer,
                 shown, raced, disturbed, leaked>>

FrameDraw ==
  /\ frame = "draw"
  /\ frame' = "idle"
  /\ UNCHANGED <<exists, updated, inner, open, commit, arg, sized, held, renderer,
                 shown, raced, failed, disturbed, leaked>>

(* The swapchain is destroyed: the callback registered with the renderer   *)
(* drops the renderer and the surface, with the texture of its slot.       *)
DestroySurface ==
  /\ exists /\ renderer
  /\ frame = "idle" /\ commit = "idle"
  /\ exists' = FALSE
  /\ renderer' = FALSE
  /\ shown' = NoTex
  /\ open' = open \ {inner}
  /\ inner' = NoTex
  /\ updated' = FALSE
  /\ raced' = FALSE /\ failed' = FALSE
  /\ UNCHANGED <<commit, arg, frame, sized, held, disturbed, leaked>>
-----------------------------------------------------------------------------
IpcTask ==
  \/ \E h \in Textures : Commit(h)
  \/ \E h \in Handles : CommitMissing(h)
  \/ OpenFails \/ Store

Present ==
  \/ AddSurface \/ FrameStart \/ FrameTake \/ FrameLoad
  \/ FrameOpen \/ FrameOpenFails \/ FrameDraw

Next == IpcTask \/ Present \/ DestroySurface

Spec == Init /\ [][Next]_vars

(***************************************************************************)
(* The application goes on presenting frames, and a commit that has begun  *)
(* ends: the lock of the slot is free again and again, and RwLock does not *)
(* starve writers.                                                         *)
(***************************************************************************)
FairSpec == Spec /\ WF_vars(Present) /\ SF_vars(OpenFails \/ Store)
-----------------------------------------------------------------------------
(***************************************************************************)
(* Once the flag is down and no frame is reloading, the renderer shows the *)
(* texture of the slot, unless a frame took the flag between its raise and *)
(* the store, or the renderer failed to open the texture.                  *)
(***************************************************************************)
LostOnlyByRace ==
  (~updated /\ frame \notin {"load", "open"}) => (shown = inner \/ raced \/ failed)

(***************************************************************************)
(* A frame draws a texture at the size of that texture, unless a commit    *)
(* step falls into the frame or an update was lost before.                 *)
(***************************************************************************)
FrameConsistent ==
  frame = "draw" =>
    (shown \in {sized, NoTex} \/ disturbed \/ raced \/ failed)

(***************************************************************************)
(* While the renderer opens the shared handle it read from the slot, the   *)
(* handle is open: no commit closes it under the renderer.                 *)
(***************************************************************************)
HandleLive == (frame = "open" /\ held \in Nt) => held \in open

(***************************************************************************)
(* Every NT handle the client gave away is owned by the slot, or by the    *)
(* commit that runs, or is lost for good; the slot's is never lost, so it  *)
(* is closed exactly once.                                                 *)
(***************************************************************************)
HandlesAccounted ==
  /\ open = Owned(inner) \cup leaked
              \cup (IF commit = "store" THEN Owned(arg) ELSE {})
  /\ Owned(inner) \cap leaked = {}

(***************************************************************************)
(* Each NT handle is closed once, never while a renderer opens it, but for *)
(* those leaked when they could not be opened or had no surface.           *)
(***************************************************************************)
HandlesSafe == HandleLive /\ HandlesAccounted

(***************************************************************************)
(* A texture that stays in the slot comes to the screen, unless its update *)
(* is lost to a race or to a failure of the renderer.                      *)
(***************************************************************************)
EventuallyShown ==
  \A h \in Handles :
    (inner = h) ~> (shown = h \/ inner # h \/ commit = "store" \/ raced \/ failed)
=============================================================================
