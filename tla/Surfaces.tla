------------------------------ MODULE Surfaces ------------------------------
(***************************************************************************)
(* The map of surfaces (src/crates/overlay/src/surface.rs), shared by the  *)
(* hooks of every graphics API and by the IPC task.  A surface stands for  *)
(* something the application presents: a DXGI swapchain, a Direct3D 9      *)
(* device, a window with an OpenGL context.  The map knows it only by its  *)
(* address or window handle, which the system gives out again; the model   *)
(* numbers the objects the application makes at an address.                *)
(***************************************************************************)
EXTENDS Naturals

CONSTANTS
  Ids,       \* addresses, or window handles
  Sizes,     \* sizes of a swapchain, device or window
  Textures,  \* textures a client may commit: [size : ..., format : ...]
  None,      \* no object, surface, texture, ...
  Cases,     \* what may be used together: an API, ids, sizes, textures
  MaxGen     \* bound: objects the application makes

ASSUME CasesAssumption ==
  \A k \in Cases : /\ k.api \in {"dx11", "dx12", "dx9", "gl"}
                   /\ k.ids \subseteq Ids /\ k.sizes \subseteq Sizes /\ k.textures \subseteq Textures

VARIABLES
  env,       \* what the application uses in this behaviour
  connected, \* OverlayEventSink::connected
  gen,       \* objects made so far
  objs,      \* the application's object at an id: [gen, size]
  surfaces,  \* SURFACES
  drawn      \* history: the frame just drawn

mapVars == <<env, connected, gen, objs, surfaces, drawn>>

api == env.api

Obj == [gen : 1..MaxGen, size : Sizes]
(* bare (history): its object went away while it had no renderer.          *)
Surface == [gen : 1..MaxGen, size : Sizes, tex : Textures \cup {None},
            updated : BOOLEAN, bare : BOOLEAN]

MapTypeOK ==
  /\ env \in Cases /\ connected \in BOOLEAN /\ gen \in 0..MaxGen
  /\ objs \in [Ids -> Obj \cup {None}]
  /\ surfaces \in [Ids -> Surface \cup {None}]

MapInit ==
  /\ env \in Cases /\ connected = FALSE /\ gen = 0
  /\ objs = [id \in Ids |-> None]
  /\ surfaces = [id \in Ids |-> None]
  /\ drawn = None

(* The surface of the object the application has at id now.                *)
Fresh(id) == surfaces[id] # None /\ objs[id] # None /\ surfaces[id].gen = objs[id].gen

(* What Surfaces::with runs its closure on: the surface that is there, or  *)
(* one set up from the object that is being presented.                     *)
With(id) ==
  IF surfaces[id] # None THEN surfaces[id]
  ELSE [gen |-> objs[id].gen, size |-> objs[id].size, tex |-> None,
        updated |-> FALSE, bare |-> FALSE]

(* Surfaces::state with SurfaceState::resize, for a surface that exists.   *)
Resized(id, size) ==
  [surfaces EXCEPT ![id] = IF @ = None THEN None ELSE [@ EXCEPT !.size = size]]

(* OverlayTextureSlot::invalidate, for a surface that exists.              *)
Invalidated(id) ==
  [surfaces EXCEPT ![id] = IF @ = None THEN None ELSE [@ EXCEPT !.updated = TRUE]]

(* Surfaces::cleanup_state removes whatever is there.                      *)
Cleaned(id) == [surfaces EXCEPT ![id] = None]

(* The object of id goes away and nothing cleans its surface up.           *)
Abandoned(id) ==
  [surfaces EXCEPT ![id] = IF ~Fresh(id) THEN @ ELSE [@ EXCEPT !.bare = TRUE]]
-----------------------------------------------------------------------------
(* The application makes an object, maybe where an earlier one was.        *)
Make(id, size) ==
  /\ id \in env.ids /\ objs[id] = None /\ gen < MaxGen
  /\ gen' = gen + 1
  /\ objs' = [objs EXCEPT ![id] = [gen |-> gen + 1, size |-> size]]
  /\ drawn' = None
  /\ UNCHANGED <<env, connected, surfaces>>

Connect ==
  /\ ~connected
  /\ connected' = TRUE /\ drawn' = None
  /\ UNCHANGED <<env, gen, objs, surfaces>>

(* The end of a session clears the sink, then resets every surface.        *)
Disconnect ==
  /\ connected
  /\ connected' = FALSE /\ drawn' = None
  /\ surfaces' = [id \in Ids |-> IF surfaces[id] = None THEN None
                                 ELSE [surfaces[id] EXCEPT !.tex = None, !.updated = TRUE]]
  /\ UNCHANGED <<env, gen, objs>>

(* A request of the client commits a texture, or removes it.  How a commit *)
(* races with a frame is the subject of TextureSlot.                       *)
Commit(id, t) ==
  /\ connected /\ surfaces[id] # None
  /\ surfaces' = [surfaces EXCEPT ![id].tex = t, ![id].updated = TRUE]
  /\ drawn' = None
  /\ UNCHANGED <<env, connected, gen, objs>>

Client == Connect \/ Disconnect \/ \E id \in Ids, t \in env.textures \cup {None} : Commit(id, t)
=============================================================================
