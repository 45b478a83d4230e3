---------------------------- MODULE SurfaceHooks ----------------------------
(***************************************************************************)
(* The hooks of DXGI, Direct3D 9 and OpenGL over the one map of surfaces,  *)
(* for an application that presents through one of them.                   *)
(***************************************************************************)
EXTENDS DxgiHooks, Dx9Hooks, GlHooks

vars == <<mapVars, dxgiVars, dx9Vars, glVars>>

(* None is not one of the things it stands for the absence of. *)
ASSUME HooksAssumption ==
  /\ MaxGen \in Nat
  /\ None \notin Textures \cup Obj \cup Surface \cup Ctxs
  /\ None \notin Renderer \cup Renderer9 \cup Current \cup GlData

TypeOK == MapTypeOK /\ DxgiTypeOK /\ Dx9TypeOK /\ GlTypeOK

Init == MapInit /\ DxgiInit /\ Dx9Init /\ GlInit

Next ==
  \/ api \in {"dx11", "dx12"} /\ DxgiNext /\ UNCHANGED <<dx9Vars, glVars>>
  \/ api = "dx9" /\ Dx9Next /\ UNCHANGED <<dxgiVars, glVars>>
  \/ api = "gl" /\ GlNext /\ UNCHANGED <<dxgiVars, dx9Vars>>

Spec == Init /\ [][Next]_vars
-----------------------------------------------------------------------------
(* A surface whose object is gone stays in the map only if that object had *)
(* no renderer to report its end (cleanup_swapchain, hooked_release), if   *)
(* the thread that removes it has yet to run (cleanup_renderer), or while  *)
(* the context of the window lives on (hooked_wgl_delete_context).  The    *)
(* next object at the id would be taken for the old one.                   *)
LeftBehind ==
  \A id \in Ids : surfaces[id] # None /\ ~Fresh(id) =>
    \/ surfaces[id].bare
    \/ workers[id] > 0
    \/ gl[id] # None /\ gl[id].ctx \in ctxs

(* The size of a surface is that of its object, through resizes that fail  *)
(* (hooked_resize_buffers, hooked_reset) and through windows that take the *)
(* handle of another (ogl_wnd_proc), unless setup_fn failed for that one.  *)
SizeAgrees ==
  \A id \in Ids : Fresh(id) =>
    \/ surfaces[id].size = objs[id].size
    \/ gl[id] # None /\ gl[id].broken

(* A frame shows the texture of the surface (take_update, update_texture), *)
(* and nothing when it could not be opened; Direct3D 9 copies it to one of *)
(* the same size.                                                          *)
ShowsCommitted ==
  drawn # None => IF api = "dx9" THEN drawn.tex.size = drawn.want.size
                  ELSE drawn.tex = IF drawn.failed THEN None ELSE drawn.want

(* A frame of OpenGL is drawn with names of the context that is current    *)
(* (OpenglRenderer::draw), unless the window was presented in one context  *)
(* and then in another: MAP has one renderer for both.                     *)
OwnNames ==
  drawn # None /\ api = "gl" /\ ~drawn.mixed => drawn.rend = drawn.at /\ drawn.texOf = drawn.at

(* A frame is drawn to the back buffer the swapchain has now, through any  *)
(* resize (RtvDescriptors::reset), except after GetBuffer failed for it.   *)
FreshTarget ==
  drawn # None /\ api \in {"dx11", "dx12"} => drawn.fresh

(* A frame goes to the DIRECT queue that executed last (QUEUE_MAP), never  *)
(* to one that cannot draw or that was replaced meanwhile.                 *)
LastDirectQueue ==
  drawn # None /\ api = "dx12" => drawn.queue = drawn.last

(* The overlay does not keep a Direct3D 9 device alive: when the           *)
(* application has released it, so has the renderer (hooked_release).      *)
NoLeak == \A d \in Ids : api = "dx9" /\ objs[d] # None => apps[d] > 0

(* While a texture is shown, no release of a device the application still  *)
(* holds (nor that of GetDevice after a frame) drops the renderer.         *)
ShownStays ==
  [][\A d \in Ids :
       /\ Release(d) \/ (PresentSwapchain(d) /\ drawn' # None)
       /\ rend9[d] # None /\ rend9[d].tex # None
       /\ apps'[d] > 0
       => rend9'[d] # None]_vars

(* The names of a renderer belong to a context that exists, unless the     *)
(* surface failed at first and the renderer was made in another context    *)
(* than GlData says (hooked_wgl_delete_context looks at GlData); those of  *)
(* its texture, too, unless the window was presented in two contexts.      *)
RendererInContext ==
  \A w \in Ids : gl[w] # None /\ ~gl[w].broken =>
    /\ gl[w].rend # None => gl[w].rend \in ctxs
    /\ gl[w].tex # None /\ ~gl[w].mixed => gl[w].texOf \in ctxs

(* Names are deleted in their own context, not objects of the application  *)
(* in another (hooked_wgl_delete_context, update_texture), unless the      *)
(* window is gone or was presented in two contexts.                        *)
DroppedInContext ==
  \A r \in dropped : r.at = r.of \/ ~r.win \/ r.broken \/ r.mixed

(* Deleting a context leaves another one that is current so, unless its    *)
(* window is gone (hooked_wgl_delete_context makes others current).        *)
CurrentKept ==
  [][\A c \in Ctxs : DeleteContext(c) /\ cur # None /\ cur.ctx # c /\ objs[cur.win] # None
       => cur' = cur]_vars

(* SwapBuffers leaves the context as the application had it, whatever      *)
(* failed in the frame (with_renderer_gl_data), in the states it expects:  *)
(* unit 0 active, no deleted program, a viewport, and no renderer of       *)
(* another context, which deletes textures of the application.             *)
AppStateKept ==
  swapped # None =>
    LET g == swapped.before IN
    g.unit = 0 /\ g.prog # "deleted" /\ g.view # "empty" /\ ~swapped.mixed => swapped.after = g

(* Every surface in the map is that of the object at its id, at its size,  *)
(* but for the lapses LeftBehind and SizeAgrees name.                      *)
SurfacesAgree == TypeOK /\ LeftBehind /\ SizeAgrees

(* A frame of the overlay is the right texture, on the back buffer of now, *)
(* on the queue of the application's last commands, with its own names.    *)
FramesRight == ShowsCommitted /\ OwnNames /\ FreshTarget /\ LastDirectQueue

(* Renderers keep to their devices and contexts and go with them, and what *)
(* the application set in its context is as it was after SwapBuffers.      *)
AppLeftAlone == NoLeak /\ RendererInContext /\ DroppedInContext /\ AppStateKept

(* No step of the hooks drops the renderer of a device in use              *)
(* (hooked_release), or leaves the thread without its context              *)
(* (hooked_wgl_delete_context).                                            *)
StepsKeep == ShownStays /\ CurrentKept
=============================================================================
