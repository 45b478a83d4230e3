------------------------------ MODULE GlHooks ------------------------------
(***************************************************************************)
(* The hooks of OpenGL (src/crates/overlay/src/hook/opengl.rs, data.rs,    *)
(* proc.rs and renderer/opengl.rs).  A surface is a window; its renderer   *)
(* consists of names that mean something in one context only, and every    *)
(* frame changes the state of the application's context and restores it.   *)
(* One thread renders, so a frame is one step.                             *)
(***************************************************************************)
EXTENDS Surfaces

CONSTANTS
  Ctxs,     \* handles of contexts
  AppStates \* for each case, the states the application may present in

(* What a frame touches of a context: the active texture unit, what is     *)
(* bound to units 0 and 1, the program ("deleted": current, and deleted by *)
(* the application meanwhile), whether the viewport is empty, and the      *)
(* capabilities that are on.                                               *)
GlState == [unit : {0, 1}, tex : [{0, 1} -> {"none", "app", "overlay"}],
            prog : {"none", "app", "deleted", "overlay"},
            view : {"app", "empty", "overlay"},
            caps : SUBSET {"blend", "cull"}]

ASSUME AppStatesAssumption == \A k \in Cases : AppStates[k] \subseteq GlState

VARIABLES
  ctxs,    \* contexts that exist
  cur,     \* what is current on the rendering thread: [ctx, win] or None
  gl,      \* MAP of opengl.rs: a GlData for each window that was presented
  procs,   \* MAP of proc.rs: windows with the hooked window procedure
  swapped, \* history: the state of the context around the frame just drawn
  dropped  \* history: the names just deleted, and in which context

glVars == <<ctxs, cur, gl, procs, swapped, dropped>>
NoHistory == drawn' = None /\ swapped' = None /\ dropped' = {}

Current == [ctx : Ctxs, win : Ids]
(* ctx is GlData::hglrc; rend and texOf are the contexts the names of the  *)
(* renderer and of its texture are of.  History: broken, setup_fn failed;  *)
(* mixed, names are used in another context than the one they are of.      *)
GlData == [ctx : Ctxs, rend : Ctxs \cup {None}, tex : Textures \cup {None},
           texOf : Ctxs \cup {None}, failed : BOOLEAN, broken : BOOLEAN, mixed : BOOLEAN]

GlTypeOK ==
  /\ ctxs \subseteq Ctxs
  /\ cur \in Current \cup {None}
  /\ gl \in [Ids -> GlData \cup {None}]
  /\ procs \subseteq Ids

GlInit ==
  /\ ctxs = {} /\ cur = None
  /\ gl = [w \in Ids |-> None]
  /\ procs = {}
  /\ swapped = None /\ dropped = {}
-----------------------------------------------------------------------------
MakeWindow(w, size) ==
  /\ api = "gl" /\ Make(w, size)
  /\ swapped' = None /\ dropped' = {}
  /\ UNCHANGED <<ctxs, cur, gl, procs>>

(* WM_NCDESTROY ends the hook of the window procedure; nothing else hears  *)
(* of the end of a window.                                                 *)
DestroyWindow(w) ==
  /\ api = "gl" /\ objs[w] # None
  /\ objs' = [objs EXCEPT ![w] = None]
  /\ procs' = procs \ {w}
  /\ NoHistory
  /\ UNCHANGED <<env, connected, gen, surfaces, ctxs, cur, gl>>

(* WM_WINDOWPOSCHANGED, handled by the hooked window procedure if there is *)
(* one, takes the new size over.                                           *)
ResizeWindow(w, size) ==
  /\ api = "gl" /\ objs[w] # None
  /\ objs' = [objs EXCEPT ![w].size = size]
  /\ surfaces' = IF w \in procs THEN Resized(w, size) ELSE surfaces
  /\ NoHistory
  /\ UNCHANGED <<env, connected, gen, ctxs, cur, gl, procs>>

MakeContext(c) ==
  /\ api = "gl" /\ c \notin ctxs
  /\ ctxs' = ctxs \cup {c}
  /\ NoHistory
  /\ UNCHANGED <<env, connected, gen, objs, surfaces, cur, gl, procs>>

MakeCurrent(c, w) ==
  /\ api = "gl" /\ c \in ctxs /\ objs[w] # None
  /\ cur' = [ctx |-> c, win |-> w]
  /\ NoHistory
  /\ UNCHANGED <<env, connected, gen, objs, surfaces, ctxs, gl, procs>>

(* The entry of MAP a frame works with, and its renderer, which is made if *)
(* there is none: nobody asks which context an older one was made in.      *)
Entry(w) ==
  IF gl[w] # None THEN gl[w]
  ELSE [ctx |-> cur.ctx, rend |-> None, tex |-> None, texOf |-> None,
        failed |-> FALSE, broken |-> FALSE, mixed |-> FALSE]

WithRenderer(e) ==
  IF e.rend = None THEN [e EXCEPT !.rend = cur.ctx]
  ELSE [e EXCEPT !.mixed = @ \/ e.rend # cur.ctx]

(* update_texture: the new name is one of the current context.             *)
Taken(r, s, opens) ==
  [r EXCEPT !.tex = IF opens THEN s.tex ELSE None,
            !.texOf = IF opens THEN cur.ctx ELSE None, !.failed = ~opens]

(* The names of the entry e of a window, deleted in the context at.        *)
Name(e, w, of, at) ==
  [of |-> of, at |-> at, win |-> objs[w] # None, broken |-> e.broken, mixed |-> e.mixed]
TexName(e, w, at) == IF e.tex = None THEN {} ELSE {Name(e, w, e.texOf, at)}
Names(e, w, at) ==
  IF e.rend = None THEN {} ELSE TexName(e, w, at) \cup {Name(e, w, e.rend, at)}

(* To delete a name of another context may delete textures of the          *)
(* application, which were bound to the units us.                          *)
Unbound(g, us) == [g EXCEPT !.tex = [u \in {0, 1} |-> IF u \in us THEN "none" ELSE @[u]]]

(* OpenglRenderer::draw binds its texture to unit 0.  A program of another *)
(* context may not be used: there is none of that name.                    *)
Drawn(g, used) ==
  [unit |-> 0, tex |-> [g.tex EXCEPT ![0] = "overlay"],
   prog |-> IF used THEN "overlay" ELSE g.prog, view |-> "overlay", caps |-> {"blend"}]

(* The end of with_renderer_gl_data: g is what it saved, n what is set.    *)
(* The texture of the unit active before is bound to the unit active now;  *)
(* neither a deleted program nor an empty viewport is set again.           *)
Restored(g, n) ==
  [unit |-> g.unit, tex |-> [n.tex EXCEPT ![n.unit] = g.tex[g.unit]],
   prog |-> IF g.prog = "deleted" /\ n.prog # "deleted" THEN n.prog ELSE g.prog,
   view |-> IF g.view = "empty" THEN n.view ELSE g.view,
   caps |-> (n.caps \ ({"blend"} \ g.caps)) \cup (g.caps \cap {"cull"})]

(* The import of a texture binds it to unit 0.  It may fail before that,   *)
(* or after: the texture is deleted again, which unbinds it.               *)
Imported(g, import) ==
  CASE import = "skipped" -> g
    [] import = "bound"   -> [g EXCEPT !.unit = 0, !.tex[0] = "overlay"]
    [] import = "undone"  -> [g EXCEPT !.unit = 0, !.tex[0] = "none"]

(* SwapBuffers of the current window in the state g.  The window procedure *)
(* is hooked with the entry of MAP.  Setting the surface up may fail, and  *)
(* so may opening the texture: what cannot be imported is opened through   *)
(* the interop of WGL, which leaves no binding changed.                    *)
SwapBuffers(g) ==
  /\ api = "gl" /\ connected /\ cur # None /\ objs[cur.win] # None
  /\ LET w == cur.win
         s == With(w)
         e == Entry(w)
         r == WithRenderer(e)
         takes == s.tex # None /\ s.updated
     IN /\ procs' = IF gl[w] = None THEN procs \cup {w} ELSE procs
        /\ \/ /\ surfaces[w] = None  \* setup_fn fails
              /\ gl' = [gl EXCEPT ![w] = [e EXCEPT !.broken = TRUE]]
              /\ drawn' = None
              /\ swapped' = [before |-> g, after |-> g, mixed |-> FALSE]
              /\ dropped' = {}
              /\ UNCHANGED surfaces
           \/ \E opens \in {~takes, TRUE},
                 import \in IF takes THEN {"skipped", "bound", "undone"} ELSE {"skipped"},
                 us \in IF takes /\ r.mixed THEN SUBSET {0, 1} ELSE {{}},
                 used \in IF r.mixed THEN BOOLEAN ELSE {TRUE} :
                LET n == IF ~takes THEN r ELSE Taken(r, s, opens)
                    i == Imported(Unbound(g, us), import)
                    draws == s.tex # None /\ n.tex # None
                IN /\ import = "bound" => opens
                   /\ us # {} => r.tex # None
                   /\ gl' = [gl EXCEPT ![w] = n]
                   /\ surfaces' = [surfaces EXCEPT ![w] =
                                     IF takes THEN [s EXCEPT !.updated = FALSE] ELSE s]
                   /\ drawn' = IF draws THEN [tex |-> n.tex, want |-> s.tex, failed |-> FALSE,
                                              rend |-> n.rend, texOf |-> n.texOf,
                                              at |-> cur.ctx, mixed |-> n.mixed]
                               ELSE None
                   /\ swapped' = [before |-> g, mixed |-> n.mixed,
                                  after |-> Restored(g, IF draws THEN Drawn(i, used) ELSE i)]
                   /\ dropped' = IF takes THEN TexName(r, w, cur.ctx) ELSE {}
  /\ UNCHANGED <<env, connected, gen, objs, ctxs, cur>>

(* Windows whose entry names the context. *)
Owned(c) == {w \in Ids : gl[w] # None /\ gl[w].ctx = c}

(* The hook of wglDeleteContext made the context current.                  *)
Switched(c) == \E w \in Owned(c) : gl[w].rend # None /\ objs[w] # None

(* What is current after wglDeleteContext: what was is made current again, *)
(* which fails if its window is gone; the deleted context never is.        *)
CurrentAfter(c) ==
  IF cur # None /\ (cur.ctx = c \/ (Switched(c) /\ objs[cur.win] = None)) THEN None
  ELSE cur

(* The entries that name the context go; names of it that others have, are *)
(* of no context any more.                                                 *)
Without(c) ==
  [w \in Ids |-> IF w \in Owned(c) THEN None
                 ELSE IF gl[w] = None THEN None
                 ELSE [gl[w] EXCEPT !.mixed = @ \/ c \in {gl[w].rend, gl[w].texOf}]]

(* Mutant of DeleteContext: the renderer is dropped wherever it is. *)
DeleteContext_NoSwitch(c) ==
  /\ api = "gl" /\ c \in ctxs
  /\ ctxs' = ctxs \ {c}
  /\ gl' = Without(c)
  /\ surfaces' = [w \in Ids |-> IF w \in Owned(c) THEN None ELSE surfaces[w]]
  /\ dropped' = UNION {Names(gl[w], w, IF cur = None THEN None ELSE cur.ctx) : w \in Owned(c)}
  /\ cur' = CurrentAfter(c)
  /\ drawn' = None /\ swapped' = None
  /\ UNCHANGED <<env, connected, gen, objs, procs>>

(* wglDeleteContext: the surface of every window with that context goes;   *)
(* its renderer is dropped in the context if the window is still there to  *)
(* make it current, else in whatever is current.                           *)
DeleteContext(c) ==
  /\ api = "gl" /\ c \in ctxs
  /\ ctxs' = ctxs \ {c}
  /\ gl' = Without(c)
  /\ surfaces' = [w \in Ids |-> IF w \in Owned(c) THEN None ELSE surfaces[w]]
  /\ dropped' = UNION {Names(gl[w], w, IF objs[w] # None THEN c
                                     ELSE IF cur = None THEN None ELSE cur.ctx) : w \in Owned(c)}
  /\ cur' = CurrentAfter(c)
  /\ drawn' = None /\ swapped' = None
  /\ UNCHANGED <<env, connected, gen, objs, procs>>

GlNext ==
  \/ Client /\ swapped' = None /\ dropped' = {} /\ UNCHANGED <<ctxs, cur, gl, procs>>
  \/ \E w \in Ids :
       \/ \E size \in env.sizes : MakeWindow(w, size) \/ ResizeWindow(w, size)
       \/ DestroyWindow(w)
       \/ \E c \in Ctxs : MakeCurrent(c, w)
  \/ \E c \in Ctxs : MakeContext(c) \/ DeleteContext(c)
  \/ \E g \in AppStates[env] : SwapBuffers(g)
=============================================================================
