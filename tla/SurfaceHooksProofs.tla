------------------------- MODULE SurfaceHooksProofs -------------------------
(***************************************************************************)
(* Theorems about SurfaceHooks, for any ids, sizes, textures, queues,      *)
(* buffers and contexts.  The invariant HooksInv says what each hook       *)
(* relies on in the maps the others write: which surface may be that of    *)
(* another object and what will put it right, what a renderer has taken of *)
(* its surface, and which context the names of a renderer are in.          *)
(***************************************************************************)
EXTENDS SurfaceHooks, TLAPS

(* The surface at id that is not that of the object there is marked, or    *)
(* will be removed by a thread, or when a context is deleted.              *)
Traced(id) ==
  surfaces[id].bare \/ workers[id] > 0 \/ (gl[id] # None /\ gl[id].ctx \in ctxs)

Excused(id) == gl[id] # None /\ gl[id].broken

(* No object has a number that is yet to be given.                         *)
Numbered == \A id \in Ids : objs[id] # None => objs[id].gen =< gen

(* Objects are numbered as they are made, so a new one has no surface yet. *)
Agrees(id) ==
  /\ surfaces[id] # None => surfaces[id].gen =< gen /\ (Fresh(id) \/ Traced(id))
  /\ Fresh(id) => surfaces[id].size = objs[id].size \/ Excused(id)

(* A renderer of Direct3D 11 or 12 has the texture of its surface while    *)
(* the flag is down, and made or missed each view it has the flag of.      *)
DxgiShows(c) ==
  /\ surfaces[c] # None /\ surfaces[c].tex # None /\ ~surfaces[c].updated =>
       /\ rend[c] # None
       /\ rend[c].tex = IF rend[c].failed THEN None ELSE surfaces[c].tex
  /\ rend[c] # None => rend[c].flags \subseteq rend[c].now \cup rend[c].missed

DxgiInv ==
  /\ queueMap # None => queueMap = lastQ
  /\ api \in {"dx11", "dx12"} => \A c \in Ids : DxgiShows(c)

(* A renderer of OpenGL has the texture of its surface, or none, while the *)
(* flag is down; its entry and the surface go together; and the window of  *)
(* a surface that is up to date has the hooked window procedure.           *)
GlShows(w) ==
  /\ surfaces[w] # None => gl[w] # None
  /\ surfaces[w] # None /\ surfaces[w].tex # None /\ ~surfaces[w].updated /\ gl[w].tex # None =>
       gl[w].tex = surfaces[w].tex
  /\ gl[w] # None /\ ~gl[w].broken => surfaces[w] # None
  /\ Fresh(w) /\ ~gl[w].broken => w \in procs

(* Entries name contexts that exist, and that of their renderer; what the  *)
(* renderer has of the texture is of the same context as the renderer.     *)
InContext(w) ==
  gl[w] # None =>
    /\ gl[w].ctx \in ctxs
    /\ gl[w].broken \/ gl[w].rend = gl[w].ctx
    /\ gl[w].tex # None => gl[w].rend # None /\ (gl[w].mixed \/ gl[w].texOf = gl[w].rend)

GlInv ==
  /\ cur # None => cur.ctx \in ctxs
  /\ \A w \in Ids : InContext(w)
  /\ api = "gl" => \A w \in Ids : GlShows(w)

HooksInv ==
  /\ TypeOK
  /\ Numbered
  /\ \A id \in Ids : Agrees(id)
  /\ DxgiInv /\ GlInv
  /\ FramesRight
  /\ NoLeak /\ DroppedInContext /\ AppStateKept

USE HooksAssumption, CasesAssumption, QueuesAssumption, RefsAssumption
-----------------------------------------------------------------------------
(* Surfaces.                                                               *)

LEMMA SurfaceFields ==
  ASSUME NEW s \in Surface
  PROVE  /\ s.gen \in 1 .. MaxGen /\ s.size \in Sizes /\ s.tex \in Textures \cup {None}
         /\ s.updated \in BOOLEAN /\ s.bare \in BOOLEAN /\ s # None
BY DEF Surface

LEMMA SurfaceFlagged ==
  ASSUME NEW s \in Surface, NEW u \in BOOLEAN
  PROVE  /\ [s EXCEPT !.updated = u] \in Surface
         /\ [s EXCEPT !.bare = TRUE] \in Surface
         /\ \A t \in Textures \cup {None} : [s EXCEPT !.tex = t, !.updated = u] \in Surface
         /\ \A z \in Sizes : [s EXCEPT !.size = z, !.updated = u] \in Surface
BY DEF Surface

LEMMA SurfaceResized ==
  ASSUME NEW s \in Surface, NEW z \in Sizes
  PROVE  [s EXCEPT !.size = z] \in Surface
BY DEF Surface

LEMMA WithFacts ==
  ASSUME MapTypeOK, NEW c \in Ids, objs[c] # None
  PROVE  /\ With(c) \in Surface
         /\ surfaces[c] # None => With(c) = surfaces[c]
         /\ surfaces[c] = None => /\ With(c).gen = objs[c].gen /\ With(c).size = objs[c].size
                                  /\ With(c).tex = None /\ With(c).updated = FALSE
                                  /\ With(c).bare = FALSE
<1>1. objs[c] \in Obj
  BY DEF MapTypeOK
<1>2. objs[c].gen \in 1 .. MaxGen /\ objs[c].size \in Sizes
  BY <1>1 DEF Obj
<1>3. CASE surfaces[c] # None
  BY <1>3 DEF With, MapTypeOK
<1>4. CASE surfaces[c] = None
  BY <1>2, <1>4 DEF With, Surface
<1> QED
  BY <1>3, <1>4

LEMMA ObjChanges ==
  ASSUME NEW o \in Obj, NEW z \in Sizes
  PROVE  [o EXCEPT !.size = z] \in Obj /\ o # None /\ o.gen \in 1 .. MaxGen
BY DEF Obj

(* What the operators on the map return.                                   *)
LEMMA MapOperators ==
  ASSUME MapTypeOK, NEW c \in Ids, NEW z \in Sizes
  PROVE  /\ Resized(c, z) \in [Ids -> Surface \cup {None}]
         /\ Invalidated(c) \in [Ids -> Surface \cup {None}]
         /\ Cleaned(c) \in [Ids -> Surface \cup {None}]
         /\ Abandoned(c) \in [Ids -> Surface \cup {None}]
         /\ objs[c] # None => [objs EXCEPT ![c].size = z] \in [Ids -> Obj \cup {None}]
<1>1. surfaces[c] # None => surfaces[c] \in Surface
  BY DEF MapTypeOK
<1>2. Resized(c, z) \in [Ids -> Surface \cup {None}]
  BY <1>1, SurfaceFlagged, SurfaceResized DEF MapTypeOK, Resized
<1>3. Invalidated(c) \in [Ids -> Surface \cup {None}]
  BY <1>1, SurfaceFlagged, SurfaceResized DEF MapTypeOK, Invalidated
<1>4. Cleaned(c) \in [Ids -> Surface \cup {None}]
  BY DEF MapTypeOK, Cleaned
<1>5. Abandoned(c) \in [Ids -> Surface \cup {None}]
  BY <1>1, SurfaceFlagged, SurfaceResized DEF MapTypeOK, Abandoned, Fresh
<1>6. ASSUME objs[c] # None PROVE [objs EXCEPT ![c].size = z] \in [Ids -> Obj \cup {None}]
  BY <1>6, ObjChanges DEF MapTypeOK
<1> QED
  BY <1>2, <1>3, <1>4, <1>5, <1>6

LEMMA EnvFacts ==
  MapTypeOK => /\ env.ids \subseteq Ids /\ env.sizes \subseteq Sizes
               /\ env.textures \subseteq Textures
               /\ api \in {"dx11", "dx12", "dx9", "gl"}
BY DEF MapTypeOK, api

LEMMA MakeType ==
  ASSUME MapTypeOK, NEW c \in Ids, NEW z \in env.sizes, Make(c, z)
  PROVE  MapTypeOK'
<1>1. z \in Sizes /\ gen + 1 \in 1 .. MaxGen
  BY EnvFacts DEF MapTypeOK, Make
<1>2. [gen |-> gen + 1, size |-> z] \in Obj
  BY <1>1 DEF Obj
<1> QED
  BY <1>1, <1>2 DEF MapTypeOK, Make

LEMMA ClientType ==
  ASSUME MapTypeOK, Client
  PROVE  MapTypeOK'
<1>1. CASE Connect
  BY <1>1 DEF MapTypeOK, Connect
<1>2. CASE Disconnect
  <2>1. \A id \in Ids : surfaces[id] # None =>
          [surfaces[id] EXCEPT !.tex = None, !.updated = TRUE] \in Surface
    BY SurfaceFlagged, SurfaceResized DEF MapTypeOK
  <2> QED
    BY <1>2, <2>1 DEF MapTypeOK, Disconnect
<1>3. ASSUME NEW id \in Ids, NEW t \in env.textures \cup {None}, Commit(id, t)
      PROVE  MapTypeOK'
  <2>1. t \in Textures \cup {None}
    BY EnvFacts
  <2>2. surfaces[id] \in Surface
    BY <1>3 DEF Commit, MapTypeOK
  <2>3. [surfaces[id] EXCEPT !.tex = t, !.updated = TRUE] \in Surface
    BY <2>1, <2>2, SurfaceFlagged, SurfaceResized
  <2>4. surfaces' = [surfaces EXCEPT ![id] = [surfaces[id] EXCEPT !.tex = t, !.updated = TRUE]]
    BY <1>3, <2>2 DEF Commit, MapTypeOK
  <2> QED
    BY <1>3, <2>3, <2>4 DEF MapTypeOK, Commit
<1> QED
  BY <1>1, <1>2, <1>3 DEF Client
-----------------------------------------------------------------------------
(* Steps that keep surfaces and objects in agreement.                      *)

(* What explains a surface of another object, or another size, stays.      *)
ExcusesStay ==
  \A id \in Ids :
    /\ workers[id] > 0 => workers'[id] > 0
    /\ gl[id] # None /\ gl[id].ctx \in ctxs => gl'[id] # None /\ gl'[id].ctx \in ctxs'
    /\ gl[id] # None /\ gl[id].broken => gl'[id] # None /\ gl'[id].broken

LEMMA SameStays ==
  ASSUME UNCHANGED <<workers, gl, ctxs>>
  PROVE  ExcusesStay
BY DEF ExcusesStay

LEMMA GonesAgree ==
  ASSUME NEW id \in Ids, surfaces'[id] = None
  PROVE  Agrees(id)'
BY DEF Agrees, Fresh

(* A surface of which at most the texture changes.                         *)
LEMMA KeptAgrees ==
  ASSUME MapTypeOK, NEW id \in Ids, Agrees(id), ExcusesStay, gen' = gen, objs'[id] = objs[id],
         surfaces[id] # None => /\ surfaces'[id].gen = surfaces[id].gen
                                /\ surfaces'[id].size = surfaces[id].size
                                /\ surfaces'[id].bare = surfaces[id].bare,
         surfaces[id] = None => surfaces'[id] = None
  PROVE  Agrees(id)'
BY DEF Agrees, Fresh, Traced, Excused, ExcusesStay

(* The surface of an object that is presented.                             *)
LEMMA PresentedAgrees ==
  ASSUME MapTypeOK, NEW c \in Ids, objs[c] # None, \A id \in Ids : Agrees(id), ExcusesStay,
         UNCHANGED <<gen, objs>>, objs[c].gen =< gen,
         NEW n \in Surface, n.gen = With(c).gen, n.size = With(c).size, n.bare = With(c).bare,
         surfaces' = [surfaces EXCEPT ![c] = n]
  PROVE  \A id \in Ids : Agrees(id)'
<1>1. ASSUME NEW id \in Ids, id # c PROVE Agrees(id)'
  <2>1. surfaces'[id] = surfaces[id] /\ objs'[id] = objs[id]
    BY <1>1
  <2> QED
    BY <2>1, KeptAgrees
<1>2. surfaces'[c] = n /\ objs'[c] = objs[c]
  BY DEF MapTypeOK
<1>3. ASSUME surfaces[c] # None PROVE Agrees(c)'
  <2>1. With(c) = surfaces[c]
    BY <1>3, WithFacts
  <2>2. /\ surfaces'[c].gen = surfaces[c].gen /\ surfaces'[c].size = surfaces[c].size
        /\ surfaces'[c].bare = surfaces[c].bare
    BY <1>2, <2>1
  <2> QED
    BY <1>2, <1>3, <2>2, KeptAgrees
<1>4. ASSUME surfaces[c] = None PROVE Agrees(c)'
  <2>1. With(c).gen = objs[c].gen /\ With(c).size = objs[c].size
    BY <1>4, WithFacts
  <2>2. surfaces'[c].gen = objs'[c].gen /\ surfaces'[c].size = objs'[c].size /\ objs'[c] # None
    BY <1>2, <2>1
  <2>3. surfaces'[c].gen =< gen'
    BY <1>2, <2>1
  <2>4. surfaces'[c] # None => Fresh(c)'
    BY <2>2 DEF Fresh
  <2> QED
    BY <2>2, <2>3, <2>4 DEF Agrees
<1>5. Agrees(c)'
  BY <1>3, <1>4
<1> QED
  BY <1>1, <1>5

(* An object that takes a new size, with its surface.                      *)
LEMMA ResizedAgrees ==
  ASSUME MapTypeOK, NEW c \in Ids, objs[c] # None, \A id \in Ids : Agrees(id), ExcusesStay,
         NEW z \in Sizes, gen' = gen, objs' = [objs EXCEPT ![c].size = z],
         \A id \in Ids \ {c} : surfaces'[id] = surfaces[id],
         surfaces[c] = None => surfaces'[c] = None,
         surfaces[c] # None => /\ surfaces'[c].gen = surfaces[c].gen
                               /\ surfaces'[c].bare <=> surfaces[c].bare
                               /\ surfaces'[c].size = z \/ Excused(c) \/ ~Fresh(c)
  PROVE  \A id \in Ids : Agrees(id)'
<1>1. ASSUME NEW id \in Ids, id # c PROVE Agrees(id)'
  <2>1. surfaces'[id] = surfaces[id] /\ objs'[id] = objs[id]
    BY <1>1
  <2> QED
    BY <2>1, KeptAgrees
<1>2. objs[c] \in Obj /\ objs'[c] = [objs[c] EXCEPT !.size = z]
  BY DEF MapTypeOK
<1>3. objs'[c].gen = objs[c].gen /\ objs'[c].size = z /\ objs'[c] # None
  BY <1>2, ObjChanges DEF Obj
<1>4. Agrees(c)'
  BY <1>3 DEF Agrees, Fresh, Traced, Excused, ExcusesStay
<1> QED
  BY <1>1, <1>4

LEMMA MadeAgrees ==
  ASSUME MapTypeOK, NEW c \in Ids, NEW z, Make(c, z), \A id \in Ids : Agrees(id), ExcusesStay
  PROVE  \A id \in Ids : Agrees(id)'
<1> SUFFICES ASSUME NEW id \in Ids PROVE Agrees(id)'
  OBVIOUS
<1>1. gen \in Nat /\ gen' = gen + 1 /\ surfaces' = surfaces /\ objs[c] = None
  BY DEF Make, MapTypeOK
<1>2. objs'[id] = IF id = c THEN [gen |-> gen + 1, size |-> z] ELSE objs[id]
  BY DEF Make, MapTypeOK
<1>3. surfaces[id] # None => surfaces[id].gen \in Nat
  BY SurfaceFields DEF MapTypeOK
<1>4. CASE id = c
  BY <1>1, <1>2, <1>3, <1>4 DEF Agrees, Fresh, Traced, Excused, ExcusesStay
<1>5. CASE id # c
  BY <1>1, <1>2, <1>3, <1>5 DEF Agrees, Fresh, Traced, Excused, ExcusesStay
<1> QED
  BY <1>4, <1>5

(* What is left of a surface that is removed, or that of an object that    *)
(* goes with nothing to clean it up.                                       *)
LEMMA Removals ==
  ASSUME MapTypeOK, NEW c \in Ids,
         surfaces' = Cleaned(c) \/ surfaces' = Abandoned(c)
  PROVE  /\ surfaces' \in [Ids -> Surface \cup {None}]
         /\ \A id \in Ids \ {c} : surfaces'[id] = surfaces[id]
         /\ surfaces'[c] # None =>
              /\ surfaces[c] # None /\ surfaces'[c].gen = surfaces[c].gen
              /\ surfaces'[c].tex = surfaces[c].tex
              /\ surfaces'[c].updated <=> surfaces[c].updated
              /\ IF Fresh(c) THEN surfaces'[c].bare ELSE surfaces'[c] = surfaces[c]
<1>1. CASE surfaces' = Cleaned(c)
  BY <1>1 DEF Cleaned, MapTypeOK
<1>2. CASE surfaces' = Abandoned(c)
  <2> DEFINE b == [surfaces[c] EXCEPT !.bare = TRUE]
  <2>1. surfaces' = [surfaces EXCEPT ![c] = IF ~Fresh(c) THEN surfaces[c] ELSE b]
    BY <1>2 DEF Abandoned
  <2>2. Fresh(c) => /\ surfaces[c] # None /\ b \in Surface
                    /\ b.gen = surfaces[c].gen /\ b.tex = surfaces[c].tex
                    /\ b.updated = surfaces[c].updated /\ b.bare
    BY DEF Fresh, MapTypeOK, Surface
  <2> HIDE DEF b
  <2> QED
    BY <2>1, <2>2 DEF MapTypeOK
<1> QED
  BY <1>1, <1>2

LEMMA EndedAgrees ==
  ASSUME MapTypeOK, NEW c \in Ids, \A id \in Ids : Agrees(id), ExcusesStay,
         objs' = [objs EXCEPT ![c] = None], gen' = gen,
         \A id \in Ids \ {c} : surfaces'[id] = surfaces[id],
         surfaces'[c] # None => surfaces'[c].gen =< gen /\ Traced(c)'
  PROVE  \A id \in Ids : Agrees(id)'
<1>1. ASSUME NEW id \in Ids, id # c PROVE Agrees(id)'
  <2>1. surfaces'[id] = surfaces[id] /\ objs'[id] = objs[id]
    BY <1>1 DEF MapTypeOK
  <2> QED
    BY <2>1, KeptAgrees
<1>2. objs'[c] = None
  BY DEF MapTypeOK
<1>3. Agrees(c)'
  BY <1>2 DEF Agrees, Fresh
<1> QED
  BY <1>1, <1>3

LEMMA ClientAgrees ==
  ASSUME MapTypeOK, Client, \A id \in Ids : Agrees(id), ExcusesStay
  PROVE  \A id \in Ids : Agrees(id)'
<1> SUFFICES ASSUME NEW id \in Ids PROVE Agrees(id)'
  OBVIOUS
<1>1. CASE Connect
  BY <1>1, KeptAgrees DEF Connect
<1>2. CASE Disconnect
  <2>1. surfaces'[id] = IF surfaces[id] = None THEN None
                        ELSE [surfaces[id] EXCEPT !.tex = None, !.updated = TRUE]
    BY <1>2 DEF Disconnect
  <2>2. surfaces[id] # None => surfaces[id] \in Surface
    BY DEF MapTypeOK
  <2> QED
    BY <1>2, <2>1, <2>2, KeptAgrees DEF Disconnect, Surface
<1>3. ASSUME NEW c \in Ids, NEW t \in env.textures \cup {None}, Commit(c, t)
      PROVE  Agrees(id)'
  <2>1. surfaces[c] \in Surface
    BY <1>3 DEF Commit, MapTypeOK
  <2>2. surfaces' = [surfaces EXCEPT ![c] = [surfaces[c] EXCEPT !.tex = t, !.updated = TRUE]]
    BY <1>3, <2>1 DEF Commit, MapTypeOK
  <2>3. surfaces'[id] = IF id = c THEN [surfaces[id] EXCEPT !.tex = t, !.updated = TRUE]
                        ELSE surfaces[id]
    BY <2>2 DEF MapTypeOK
  <2>4. CASE id = c
    <3>1. /\ surfaces'[id].gen = surfaces[id].gen /\ surfaces'[id].size = surfaces[id].size
          /\ surfaces'[id].bare = surfaces[id].bare
      BY <2>1, <2>3, <2>4 DEF Surface
    <3> QED
      BY <1>3, <2>1, <2>4, <3>1, KeptAgrees DEF Commit
  <2>5. CASE id # c
    BY <1>3, <2>3, <2>5, KeptAgrees DEF Commit
  <2> QED
    BY <2>4, <2>5
<1> QED
  BY <1>1, <1>2, <1>3 DEF Client
-----------------------------------------------------------------------------
(* Direct3D 11 and 12.                                                     *)

Dxgi == api \in {"dx11", "dx12"}

ViewsKnown(r) == r.flags \subseteq r.now \cup r.missed

LEMMA NewRendererType == NewRenderer \in Renderer /\ ViewsKnown(NewRenderer)
BY DEF NewRenderer, Renderer, ViewsKnown

LEMMA OpenedFacts ==
  ASSUME NEW r \in Renderer, NEW s \in Surface, NEW opens \in BOOLEAN
  PROVE  /\ Opened(r, s, opens) \in Renderer
         /\ ~s.updated => Opened(r, s, opens) = r
         /\ s.updated => /\ Opened(r, s, opens).tex = IF opens THEN s.tex ELSE None
                         /\ Opened(r, s, opens).failed <=> ~opens
         /\ ViewsKnown(r) => ViewsKnown(Opened(r, s, opens))
<1>1. s.tex \in Textures \cup {None}
  BY SurfaceFields
<1>2. CASE s.updated
  BY <1>1, <1>2 DEF Opened, Renderer, ViewsKnown
<1>3. CASE ~s.updated
  BY <1>3 DEF Opened
<1> QED
  BY <1>2, <1>3

LEMMA TargetFacts ==
  ASSUME NEW r \in Renderer, NEW i \in Buffers, NEW got \in BOOLEAN
  PROVE  /\ Target(r, i, got) \in Renderer
         /\ Target(r, i, got).tex = r.tex /\ Target(r, i, got).failed = r.failed
         /\ ViewsKnown(r) =>
              /\ ViewsKnown(Target(r, i, got))
              /\ api = "dx11" \/ i \in Target(r, i, got).now \cup Target(r, i, got).missed
<1>1. CASE api = "dx11" \/ i \in r.flags
  BY <1>1 DEF Target, ViewsKnown
<1>2. CASE ~(api = "dx11" \/ i \in r.flags)
  <2>1. CASE got
    <3> DEFINE t == [r EXCEPT !.flags = r.flags \cup {i}, !.now = r.now \cup {i},
                              !.missed = r.missed]
    <3>1. Target(r, i, got) = t
      BY <1>2, <2>1 DEF Target
    <3>2. t \in Renderer /\ t.tex = r.tex /\ t.failed = r.failed
          /\ t.flags = r.flags \cup {i} /\ t.now = r.now \cup {i} /\ t.missed = r.missed
      BY DEF Renderer
    <3> HIDE DEF t
    <3> QED
      BY <3>1, <3>2 DEF ViewsKnown
  <2>2. CASE ~got
    <3> DEFINE t == [r EXCEPT !.flags = r.flags \cup {i}, !.now = r.now,
                              !.missed = r.missed \cup {i}]
    <3>1. Target(r, i, got) = t
      BY <1>2, <2>2 DEF Target
    <3>2. t \in Renderer /\ t.tex = r.tex /\ t.failed = r.failed
          /\ t.flags = r.flags \cup {i} /\ t.now = r.now /\ t.missed = r.missed \cup {i}
      BY DEF Renderer
    <3> HIDE DEF t
    <3> QED
      BY <3>1, <3>2 DEF ViewsKnown
  <2> QED
    BY <2>1, <2>2
<1> QED
  BY <1>1, <1>2

LEMMA UnviewedFacts ==
  ASSUME NEW r \in Renderer, NEW ok \in BOOLEAN
  PROVE  /\ Unviewed(r, ok) \in Renderer /\ Unviewed(r, ok) # None
         /\ Unviewed(r, ok).tex = r.tex /\ Unviewed(r, ok).failed = r.failed
         /\ Unviewed(r, ok).flags = {}
<1>1. r # None /\ r.now \in SUBSET Buffers
  BY DEF Renderer
<1>2. Unviewed(r, ok) = [r EXCEPT !.flags = {}, !.missed = {}, !.now = IF ok THEN {} ELSE r.now]
  BY <1>1 DEF Unviewed
<1>3. Unviewed(r, ok) \in Renderer
  BY <1>1, <1>2 DEF Renderer
<1> QED
  BY <1>1, <1>2, <1>3 DEF Renderer

(* A frame that changes at most the texture of the surface of c, or sets   *)
(* one up.                                                                 *)
Presents(c) ==
  \E n \in Surface :
    /\ surfaces' = [surfaces EXCEPT ![c] = n]
    /\ n.gen = With(c).gen /\ n.size = With(c).size /\ n.bare = With(c).bare

(* It was recorded right, for the queue q.                                 *)
DrawnRight(q) ==
  drawn' # None =>
    /\ drawn'.tex = IF drawn'.failed THEN None ELSE drawn'.want
    /\ drawn'.fresh
    /\ drawn'.queue = q /\ drawn'.last = lastQ

LEMMA RenderFacts ==
  ASSUME MapTypeOK, DxgiTypeOK, NEW c \in Ids, objs[c] # None, DxgiShows(c),
         With(c).tex # None, NEW q, NEW i \in Buffers, Render(c, With(c), q, i), env' = env
  PROVE  /\ Presents(c)
         /\ rend' \in [Ids -> Renderer \cup {None}]
         /\ \A d \in Ids \ {c} : rend'[d] = rend[d]
         /\ DxgiShows(c)'
         /\ DrawnRight(q)
<1> DEFINE s == With(c)
           Draws(opens, got, done) ==
             LET r == Opened(IF rend[c] = None THEN NewRenderer ELSE rend[c], s, opens)
                 n == IF opens THEN Target(r, i, got) ELSE r
             IN /\ done => opens /\ got
                /\ rend' = [rend EXCEPT ![c] = n]
                /\ surfaces' = [surfaces EXCEPT ![c] = [s EXCEPT !.updated = FALSE]]
                /\ drawn' = IF ~done THEN None
                            ELSE [tex |-> n.tex, want |-> s.tex, failed |-> n.failed,
                                  fresh |-> api = "dx11" \/ i \in n.now \cup n.missed,
                                  queue |-> q, last |-> lastQ]
<1>1. /\ surfaces[c] # None /\ s = surfaces[c] /\ s \in Surface
      /\ ~s.updated =>
           /\ rend[c] # None
           /\ rend[c].tex = IF rend[c].failed THEN None ELSE s.tex
  BY WithFacts DEF DxgiShows
<1>2. CASE rend[c] = None /\ surfaces' = [surfaces EXCEPT ![c] = s] /\ drawn' = None /\ UNCHANGED rend
  <2>1. Presents(c)
    BY <1>1, <1>2 DEF Presents
  <2>2. surfaces'[c] = s /\ rend'[c] = None
    BY <1>2 DEF MapTypeOK
  <2>3. DxgiShows(c)'
    BY <1>1, <1>2, <2>2 DEF DxgiShows
  <2> QED
    BY <1>2, <2>1, <2>3 DEF DrawnRight, DxgiTypeOK
<1>3. ASSUME NEW opens \in {~s.updated, TRUE}, NEW got \in BOOLEAN, NEW done \in BOOLEAN,
             Draws(opens, got, done)
      PROVE  /\ Presents(c)
             /\ rend' \in [Ids -> Renderer \cup {None}]
             /\ \A d \in Ids \ {c} : rend'[d] = rend[d]
             /\ DxgiShows(c)'
             /\ DrawnRight(q)
  <2> DEFINE r0 == IF rend[c] = None THEN NewRenderer ELSE rend[c]
             r == Opened(r0, s, opens)
             n == IF opens THEN Target(r, i, got) ELSE r
             u == [s EXCEPT !.updated = FALSE]
  <2>1. r0 \in Renderer /\ ViewsKnown(r0)
    BY NewRendererType DEF DxgiTypeOK, DxgiShows, ViewsKnown
  <2>2. opens \in BOOLEAN /\ s.updated \in BOOLEAN /\ (~s.updated => opens)
    BY <1>1, SurfaceFields
  <2>3. /\ r \in Renderer /\ ViewsKnown(r)
        /\ r.tex = IF r.failed THEN None ELSE s.tex
    <3>0. r \in Renderer /\ ViewsKnown(r)
      BY <1>1, <2>1, <2>2, OpenedFacts
    <3>1. CASE s.updated
      BY <1>1, <2>1, <2>2, <3>0, <3>1, OpenedFacts
    <3>2. CASE ~s.updated
      <4>1. r = r0 /\ r0 = rend[c]
        BY <1>1, <2>1, <2>2, <3>2, OpenedFacts
      <4> QED
        BY <1>1, <3>0, <3>2, <4>1
    <3> QED
      BY <3>1, <3>2, <2>2
  <2> HIDE DEF r
  <2>4. /\ n \in Renderer /\ ViewsKnown(n) /\ n.tex = IF n.failed THEN None ELSE s.tex
        /\ opens => api = "dx11" \/ i \in n.now \cup n.missed
    BY <2>2, <2>3, TargetFacts
  <2>5. /\ u \in Surface /\ u.gen = s.gen /\ u.size = s.size /\ u.bare = s.bare
        /\ u.tex = s.tex /\ u.updated = FALSE
    BY <1>1 DEF Surface
  <2>6. /\ done => opens
        /\ rend' = [rend EXCEPT ![c] = n]
        /\ surfaces' = [surfaces EXCEPT ![c] = u]
        /\ drawn' = IF ~done THEN None
                    ELSE [tex |-> n.tex, want |-> s.tex, failed |-> n.failed,
                          fresh |-> api = "dx11" \/ i \in n.now \cup n.missed,
                          queue |-> q, last |-> lastQ]
    BY <1>3 DEF r
  <2> HIDE DEF n, u, s
  <2>7. Presents(c)
    BY <2>5, <2>6 DEF Presents, s
  <2>8. /\ rend' \in [Ids -> Renderer \cup {None}]
        /\ rend'[c] = n /\ surfaces'[c] = u
        /\ \A d \in Ids \ {c} : rend'[d] = rend[d]
    BY <2>4, <2>6 DEF DxgiTypeOK, MapTypeOK
  <2>9. DxgiShows(c)'
    BY <2>4, <2>5, <2>8 DEF DxgiShows, ViewsKnown, Renderer
  <2>10. DrawnRight(q)
    BY <2>4, <2>6 DEF DrawnRight
  <2> QED
    BY <2>7, <2>8, <2>9, <2>10
<1>4. \/ rend[c] = None /\ surfaces' = [surfaces EXCEPT ![c] = s] /\ drawn' = None /\ UNCHANGED rend
      \/ \E opens \in {~s.updated, TRUE}, got \in BOOLEAN, done \in BOOLEAN : Draws(opens, got, done)
  BY DEF Render
<1> HIDE DEF s, Draws
<1> QED
  BY <1>2, <1>3, <1>4

LEMMA ClientLeaves ==
  ASSUME MapTypeOK, Client, NEW c \in Ids
  PROVE  /\ UNCHANGED <<env, gen, objs>> /\ drawn' = None
         /\ surfaces'[c] = None <=> surfaces[c] = None
         /\ surfaces[c] # None => surfaces'[c].gen = surfaces[c].gen
         /\ surfaces'[c] = surfaces[c] \/ surfaces'[c].tex = None \/ surfaces'[c].updated
<1>1. CASE Connect
  BY <1>1 DEF Connect
<1>2. CASE Disconnect
  <2>1. surfaces'[c] = IF surfaces[c] = None THEN None
                       ELSE [surfaces[c] EXCEPT !.tex = None, !.updated = TRUE]
    BY <1>2 DEF Disconnect
  <2>2. surfaces[c] # None => surfaces[c] \in Surface
    BY DEF MapTypeOK
  <2>3. surfaces[c] # None =>
          /\ [surfaces[c] EXCEPT !.tex = None, !.updated = TRUE] \in Surface
          /\ [surfaces[c] EXCEPT !.tex = None, !.updated = TRUE].gen = surfaces[c].gen
          /\ [surfaces[c] EXCEPT !.tex = None, !.updated = TRUE].tex = None
    BY <2>2 DEF Surface
  <2> QED
    BY <1>2, <2>1, <2>3, SurfaceFields DEF Disconnect
<1>3. ASSUME NEW id \in Ids, NEW t \in env.textures \cup {None}, Commit(id, t)
      PROVE  /\ UNCHANGED <<env, gen, objs>> /\ drawn' = None
             /\ surfaces'[c] = None <=> surfaces[c] = None
             /\ surfaces[c] # None => surfaces'[c].gen = surfaces[c].gen
             /\ surfaces'[c] = surfaces[c] \/ surfaces'[c].tex = None \/ surfaces'[c].updated
  <2>1. surfaces[id] \in Surface /\ t \in Textures \cup {None}
    BY <1>3, EnvFacts DEF Commit, MapTypeOK
  <2>2. surfaces' = [surfaces EXCEPT ![id] = [surfaces[id] EXCEPT !.tex = t, !.updated = TRUE]]
    BY <1>3, <2>1 DEF Commit, MapTypeOK
  <2>3. surfaces'[c] = IF c = id THEN [surfaces[id] EXCEPT !.tex = t, !.updated = TRUE]
                       ELSE surfaces[c]
    BY <2>2 DEF MapTypeOK
  <2>4. /\ [surfaces[id] EXCEPT !.tex = t, !.updated = TRUE] \in Surface
        /\ [surfaces[id] EXCEPT !.tex = t, !.updated = TRUE].gen = surfaces[id].gen
        /\ [surfaces[id] EXCEPT !.tex = t, !.updated = TRUE].updated
    BY <2>1 DEF Surface
  <2> QED
    BY <1>3, <2>1, <2>3, <2>4, SurfaceFields DEF Commit
<1> QED
  BY <1>1, <1>2, <1>3 DEF Client

(* What a step of these hooks has to keep.                                 *)
LEMMA DxgiKeeps ==
  ASSUME HooksInv, Dxgi, UNCHANGED <<env, dx9Vars, glVars>>, MapTypeOK', DxgiTypeOK',
         Numbered', \A id \in Ids : Agrees(id)',
         queueMap' # None => queueMap' = lastQ', \A c \in Ids : DxgiShows(c)',
         drawn' = None \/ \E q : DrawnRight(q) /\ (api = "dx12" => q = lastQ)
  PROVE  HooksInv'
<1>1. TypeOK'
  BY DEF HooksInv, TypeOK, Dx9TypeOK, GlTypeOK, dx9Vars, glVars
<1>2. DxgiInv' /\ GlInv'
  BY DEF HooksInv, Dxgi, api, DxgiInv, GlInv, InContext, glVars
<1>3. FramesRight'
  BY DEF Dxgi, api, FramesRight, ShowsCommitted, OwnNames, FreshTarget, LastDirectQueue,
         DrawnRight
<1>4. NoLeak' /\ DroppedInContext' /\ AppStateKept'
  BY DEF HooksInv, Dxgi, api, NoLeak, DroppedInContext, AppStateKept, glVars
<1> QED
  BY <1>1, <1>2, <1>3, <1>4 DEF HooksInv

LEMMA DxgiShowsStill ==
  ASSUME NEW c \in Ids, DxgiShows(c), rend'[c] = rend[c],
         \/ surfaces'[c] = surfaces[c] \/ surfaces'[c] = None
         \/ surfaces'[c].tex = None \/ surfaces'[c].updated
  PROVE  DxgiShows(c)'
BY DEF DxgiShows

LEMMA PresentsKeeps ==
  ASSUME MapTypeOK, NEW c \in Ids, objs[c] # None, \A id \in Ids : Agrees(id), ExcusesStay,
         UNCHANGED <<gen, objs>>, Numbered, Presents(c), UNCHANGED <<env, connected>>
  PROVE  /\ MapTypeOK' /\ Numbered' /\ \A id \in Ids : Agrees(id)'
         /\ \A id \in Ids \ {c} : surfaces'[id] = surfaces[id]
<1>1. PICK n \in Surface : /\ surfaces' = [surfaces EXCEPT ![c] = n]
                           /\ n.gen = With(c).gen /\ n.size = With(c).size /\ n.bare = With(c).bare
  BY DEF Presents
<1>2. \A id \in Ids : Agrees(id)'
  BY <1>1, PresentedAgrees DEF Numbered
<1> QED
  BY <1>1, <1>2 DEF MapTypeOK, Numbered

(* What is presented: without a texture, the surface as it is or set up.   *)
LEMMA PresentsSetUp ==
  ASSUME MapTypeOK, NEW c \in Ids, objs[c] # None,
         surfaces' = [surfaces EXCEPT ![c] = With(c)]
  PROVE  Presents(c) /\ surfaces'[c] = With(c)
<1>1. With(c) \in Surface
  BY WithFacts
<1> QED
  BY <1>1 DEF Presents, MapTypeOK

LEMMA DxgiPresents ==
  ASSUME HooksInv, Dxgi, NEW c \in Ids, objs[c] # None, NEW q, api = "dx12" => q = lastQ,
         \/ /\ With(c).tex = None
            /\ surfaces' = [surfaces EXCEPT ![c] = With(c)] /\ drawn' = None /\ UNCHANGED rend
         \/ api = "dx12" /\ surfaces' = [surfaces EXCEPT ![c] = With(c)] /\ drawn' = None /\ UNCHANGED rend
         \/ With(c).tex # None /\ \E i \in Buffers : Render(c, With(c), q, i),
         UNCHANGED <<env, connected, gen, objs, lastQ, dx9Vars, glVars>>,
         hooked' \in BOOLEAN, queueMap' \in {None, queueMap}
  PROVE  HooksInv'
<1>1. /\ MapTypeOK /\ DxgiTypeOK /\ Numbered /\ \A id \in Ids : Agrees(id) /\ DxgiShows(id)
  BY DEF HooksInv, TypeOK, DxgiInv, Dxgi
<1>2. ExcusesStay
  BY SameStays DEF dx9Vars, glVars
<1>3. /\ Presents(c)
      /\ rend' \in [Ids -> Renderer \cup {None}] /\ \A d \in Ids \ {c} : rend'[d] = rend[d]
      /\ DxgiShows(c)'
      /\ DrawnRight(q)
  <2>1. CASE surfaces' = [surfaces EXCEPT ![c] = With(c)] /\ drawn' = None /\ UNCHANGED rend
    <3>1. Presents(c) /\ surfaces'[c] = With(c)
      BY <1>1, <2>1, PresentsSetUp
    <3>2. surfaces'[c] = surfaces[c] \/ surfaces'[c].tex = None
      BY <1>1, <3>1, WithFacts
    <3>3. DxgiShows(c)'
      BY <1>1, <2>1, <3>2, DxgiShowsStill
    <3> QED
      BY <1>1, <2>1, <3>1, <3>3 DEF DrawnRight, DxgiTypeOK
  <2>2. ASSUME With(c).tex # None, NEW i \in Buffers, Render(c, With(c), q, i)
        PROVE  /\ Presents(c)
               /\ rend' \in [Ids -> Renderer \cup {None}] /\ \A d \in Ids \ {c} : rend'[d] = rend[d]
               /\ DxgiShows(c)'
               /\ DrawnRight(q)
    BY <1>1, <2>2, RenderFacts
  <2> QED
    BY <2>1, <2>2
<1>4. /\ MapTypeOK' /\ Numbered' /\ \A id \in Ids : Agrees(id)'
      /\ \A id \in Ids \ {c} : surfaces'[id] = surfaces[id]
  BY <1>1, <1>2, <1>3, PresentsKeeps
<1>5. \A d \in Ids : DxgiShows(d)'
  BY <1>1, <1>3, <1>4, DxgiShowsStill
<1>6. DxgiTypeOK' /\ (queueMap' # None => queueMap' = lastQ')
  BY <1>1, <1>3 DEF DxgiTypeOK, HooksInv, DxgiInv
<1> QED
  BY <1>3, <1>4, <1>5, <1>6, DxgiKeeps

LEMMA DxgiStep ==
  ASSUME HooksInv, Dxgi, DxgiNext, UNCHANGED <<dx9Vars, glVars>>
  PROVE  HooksInv'
<1>1. /\ MapTypeOK /\ DxgiTypeOK /\ Numbered /\ \A id \in Ids : Agrees(id) /\ DxgiShows(id)
      /\ queueMap # None => queueMap = lastQ
  BY DEF HooksInv, TypeOK, DxgiInv, Dxgi
<1>2. ExcusesStay
  BY SameStays DEF dx9Vars, glVars
<1>3. CASE Client /\ UNCHANGED dxgiVars
  <2>1. MapTypeOK' /\ \A id \in Ids : Agrees(id)'
    BY <1>1, <1>2, <1>3, ClientType, ClientAgrees
  <2>2. ASSUME NEW c \in Ids PROVE DxgiShows(c)'
    BY <1>1, <1>3, ClientLeaves, DxgiShowsStill DEF dxgiVars
  <2>3. UNCHANGED <<env, gen, objs>> /\ drawn' = None
    BY <1>3 DEF Client, Connect, Disconnect, Commit
  <2>4. Numbered' /\ DxgiTypeOK'
    BY <1>1, <1>3, <2>3 DEF Numbered, DxgiTypeOK, dxgiVars
  <2> QED
    BY <1>1, <1>3, <2>1, <2>2, <2>3, <2>4, DxgiKeeps DEF dxgiVars
<1>4. ASSUME NEW q \in Direct \cup Other, Execute(q) PROVE HooksInv'
  <2>1. MapTypeOK' /\ Numbered' /\ \A id \in Ids : Agrees(id)' /\ DxgiShows(id)'
    BY <1>1, <1>2, <1>4, KeptAgrees, DxgiShowsStill DEF Execute, MapTypeOK, Numbered
  <2>2. DxgiTypeOK' /\ (queueMap' # None => queueMap' = lastQ')
    BY <1>1, <1>4 DEF Execute, DxgiTypeOK
  <2> QED
    BY <1>4, <2>1, <2>2, DxgiKeeps DEF Execute
<1>5. ASSUME NEW c \in Ids, NEW size \in env.sizes, Make(c, size), UNCHANGED dxgiVars PROVE HooksInv'
  <2>1. MapTypeOK' /\ \A id \in Ids : Agrees(id)'
    BY <1>1, <1>2, <1>5, MakeType, MadeAgrees
  <2>2. ASSUME NEW d \in Ids PROVE DxgiShows(d)'
    BY <1>1, <1>5, DxgiShowsStill DEF Make, dxgiVars
  <2>3. Numbered' /\ DxgiTypeOK'
    BY <1>1, <1>5 DEF Make, Numbered, MapTypeOK, Obj, DxgiTypeOK, dxgiVars
  <2> QED
    BY <1>1, <1>5, <2>1, <2>2, <2>3, DxgiKeeps DEF Make, dxgiVars
<1>6. ASSUME NEW c \in Ids, Present11(c) PROVE HooksInv'
  <2>1. \/ /\ With(c).tex = None
           /\ surfaces' = [surfaces EXCEPT ![c] = With(c)] /\ drawn' = None /\ UNCHANGED rend
        \/ With(c).tex # None /\ \E i \in Buffers : Render(c, With(c), None, i)
    BY <1>6 DEF Present11
  <2> QED
    BY <1>1, <1>6, <2>1, DxgiPresents DEF Present11, DxgiTypeOK
<1>7. ASSUME NEW c \in Ids, Present12(c) PROVE HooksInv'
  <2>1. CASE queueMap = None \/ With(c).tex = None
    BY <1>1, <1>7, <2>1, DxgiPresents DEF Present12
  <2>2. CASE queueMap # None /\ With(c).tex # None
    BY <1>1, <1>7, <2>2, DxgiPresents DEF Present12
  <2> QED
    BY <2>1, <2>2
<1>8. ASSUME NEW c \in Ids, SetupFails(c) PROVE HooksInv'
  <2>1. MapTypeOK' /\ Numbered' /\ \A id \in Ids : Agrees(id)' /\ DxgiShows(id)'
    BY <1>1, <1>2, <1>8, KeptAgrees, DxgiShowsStill DEF SetupFails, MapTypeOK, Numbered
  <2>2. DxgiTypeOK' /\ (queueMap' # None => queueMap' = lastQ')
    BY <1>1, <1>8 DEF SetupFails, DxgiTypeOK
  <2> QED
    BY <1>8, <2>1, <2>2, DxgiKeeps DEF SetupFails
<1>9. ASSUME NEW c \in Ids, NEW size \in env.sizes, NEW ok \in BOOLEAN, ResizeBuffers(c, size, ok)
      PROVE  HooksInv'
  <2>0. size \in Sizes
    BY <1>1, EnvFacts
  <2>1. rend[c] # None => rend[c] \in Renderer
    BY <1>1 DEF DxgiTypeOK
  <2>2. rend' = [rend EXCEPT ![c] = Unviewed(rend[c], ok)]
    BY <1>9 DEF ResizeBuffers
  <2>3. rend[c] = None => Unviewed(rend[c], ok) = None
    BY DEF Unviewed
  <2>4. DxgiTypeOK'
    BY <1>1, <1>9, <2>1, <2>2, <2>3, UnviewedFacts DEF DxgiTypeOK, ResizeBuffers
  <2>5. /\ surfaces'[c] = None <=> surfaces[c] = None
        /\ surfaces[c] # None => /\ surfaces'[c].tex = surfaces[c].tex
                                 /\ surfaces'[c].updated <=> surfaces[c].updated
                                 /\ surfaces'[c].gen = surfaces[c].gen
                                 /\ surfaces'[c].bare <=> surfaces[c].bare
                                 /\ ok => surfaces'[c].size = size
        /\ \A d \in Ids \ {c} : surfaces'[d] = surfaces[d]
    <3>1. CASE ~ok
      BY <1>9, <3>1 DEF ResizeBuffers
    <3>2. CASE ok
      <4>1. surfaces' = Resized(c, size)
        BY <1>9, <3>2 DEF ResizeBuffers
      <4>2. surfaces[c] # None => surfaces[c] \in Surface
        BY <1>1 DEF MapTypeOK
      <4> QED
        BY <1>1, <2>0, <4>1, <4>2, SurfaceFields DEF Resized, MapTypeOK, Surface
    <3> QED
      BY <3>1, <3>2
  <2>6. ASSUME NEW d \in Ids PROVE DxgiShows(d)'
    <3>1. CASE d = c
      <4>1. rend'[c] = Unviewed(rend[c], ok)
        BY <1>1, <2>2 DEF DxgiTypeOK
      <4>2. CASE rend[c] = None
        BY <1>1, <2>3, <2>5, <3>1, <4>1, <4>2 DEF DxgiShows
      <4>3. CASE rend[c] # None
        <5>1. /\ rend'[c] # None /\ rend'[c].tex = rend[c].tex /\ rend'[c].failed = rend[c].failed
              /\ rend'[c].flags = {}
          BY <2>1, <4>1, <4>3, UnviewedFacts
        <5> QED
          BY <1>1, <2>5, <3>1, <5>1 DEF DxgiShows
      <4> QED
        BY <4>2, <4>3
    <3>2. CASE d # c
      BY <1>1, <2>2, <2>5, <3>2, DxgiShowsStill DEF DxgiTypeOK
    <3> QED
      BY <3>1, <3>2
  <2>7. MapTypeOK'
    BY <1>1, <1>9, <2>0, MapOperators DEF ResizeBuffers, MapTypeOK
  <2>8. \A id \in Ids : Agrees(id)'
    <3>1. CASE ok
      <4>1. /\ gen' = gen /\ objs[c] # None /\ objs' = [objs EXCEPT ![c].size = size]
            /\ surfaces[c] # None => surfaces'[c].size = size
        BY <1>9, <2>5, <3>1 DEF ResizeBuffers
      <4> QED
        BY <1>1, <1>2, <2>0, <2>5, <4>1, ResizedAgrees
    <3>2. CASE ~ok
      BY <1>1, <1>2, <1>9, <3>2, KeptAgrees DEF ResizeBuffers
    <3> QED
      BY <3>1, <3>2
  <2>9. Numbered'
    <3>1. ASSUME NEW d \in Ids, objs'[d] # None PROVE objs[d] # None /\ objs'[d].gen = objs[d].gen
      <4>1. CASE ok /\ d = c
        BY <1>1, <1>9, <2>0, <3>1, <4>1, ObjChanges DEF ResizeBuffers, MapTypeOK, Obj
      <4>2. CASE ~(ok /\ d = c)
        BY <1>1, <1>9, <3>1, <4>2 DEF ResizeBuffers, MapTypeOK
      <4> QED
        BY <4>1, <4>2
    <3> QED
      BY <1>1, <1>9, <3>1 DEF ResizeBuffers, Numbered
  <2> QED
    BY <1>1, <1>9, <2>4, <2>6, <2>7, <2>8, <2>9, DxgiKeeps DEF ResizeBuffers
<1>10. ASSUME NEW c \in Ids, DestroyChain(c) PROVE HooksInv'
  <2>1. /\ objs' = [objs EXCEPT ![c] = None] /\ rend' = [rend EXCEPT ![c] = None]
        /\ surfaces' = Cleaned(c) \/ (rend[c] = None /\ surfaces' = Abandoned(c))
        /\ queueMap' \in {None, queueMap} /\ lastQ' = lastQ /\ hooked' = hooked
        /\ drawn' = None /\ UNCHANGED <<env, connected, gen>>
    BY <1>10 DEF DestroyChain
  <2>2. /\ surfaces' \in [Ids -> Surface \cup {None}]
        /\ \A id \in Ids \ {c} : surfaces'[id] = surfaces[id]
        /\ surfaces'[c] # None =>
             /\ rend[c] = None
             /\ surfaces[c] # None /\ surfaces'[c].gen = surfaces[c].gen
             /\ surfaces'[c].tex = surfaces[c].tex
             /\ surfaces'[c].updated <=> surfaces[c].updated
             /\ IF Fresh(c) THEN surfaces'[c].bare ELSE surfaces'[c] = surfaces[c]
    <3>1. surfaces' = Cleaned(c) => surfaces'[c] = None
      BY <1>1 DEF Cleaned, MapTypeOK
    <3> QED
      BY <1>1, <2>1, <3>1, Removals
  <2>3. MapTypeOK' /\ DxgiTypeOK' /\ Numbered'
    BY <1>1, <2>1, <2>2 DEF MapTypeOK, DxgiTypeOK, Numbered
  <2>4. ASSUME surfaces'[c] # None PROVE surfaces'[c].gen =< gen /\ Traced(c)'
    BY <1>1, <1>2, <2>2, <2>4 DEF Agrees, Traced, ExcusesStay
  <2>5. \A id \in Ids : Agrees(id)'
    BY <1>1, <1>2, <2>1, <2>2, <2>4, EndedAgrees
  <2>6. ASSUME NEW d \in Ids PROVE DxgiShows(d)'
    <3>1. CASE d = c
      BY <1>1, <2>1, <2>2, <3>1 DEF DxgiShows, DxgiTypeOK
    <3>2. CASE d # c
      BY <1>1, <2>1, <2>2, <3>2, DxgiShowsStill DEF DxgiTypeOK
    <3> QED
      BY <3>1, <3>2
  <2> QED
    BY <1>1, <1>10, <2>1, <2>3, <2>5, <2>6, DxgiKeeps DEF DestroyChain
<1> QED
  BY <1>3, <1>4, <1>5, <1>6, <1>7, <1>8, <1>9, <1>10 DEF DxgiNext
-----------------------------------------------------------------------------
(* Direct3D 9.                                                             *)

LEMMA HeldFacts ==
  ASSUME NEW r \in Renderer9 \cup {None}
  PROVE  IF r = None THEN Held(r) = 0 ELSE Held(r) = IF r.tex = None THEN 2 ELSE 3
BY DEF Held

(* A release leaves no surface without what LeftBehind says of it: a       *)
(* thread, or a mark when the device had no renderer.  The last one of the *)
(* application ends the device.                                            *)
LEMMA ReleasedFacts ==
  ASSUME MapTypeOK, Dx9TypeOK, NEW d \in Ids, NEW s \in [Ids -> Surface \cup {None}],
         NEW r \in Renderer9 \cup {None}, NEW n \in Nat, Released(d, s, r, n)
  PROVE  /\ rend9' \in [Ids -> Renderer9 \cup {None}]
         /\ workers' \in [Ids -> 0..MaxWorkers]
         /\ \A id \in Ids : workers[id] > 0 => workers'[id] > 0
         /\ objs' = IF n = 0 THEN [objs EXCEPT ![d] = None] ELSE objs
         /\ surfaces' \in [Ids -> Surface \cup {None}]
         /\ \A id \in Ids \ {d} : surfaces'[id] = s[id]
         /\ surfaces'[d] = None <=> s[d] = None
         /\ s[d] # None => /\ surfaces'[d].gen = s[d].gen /\ surfaces'[d].size = s[d].size
                           /\ s[d].bare => surfaces'[d].bare
                           /\ n > 0 => surfaces'[d].bare = s[d].bare
                           /\ n = 0 /\ s[d].gen = objs[d].gen => surfaces'[d].bare \/ workers'[d] > 0
         /\ rend9'[d] = r \/ (rend9'[d] = None /\ Guess(n + Held(r)))
<1> DEFINE drop == Guess(n + Held(r))
           left == IF drop THEN None ELSE r
           dead == n = 0 /\ left = None
           told == IF drop /\ r # None /\ s[d] # None
                   THEN [s EXCEPT ![d].updated = TRUE] ELSE s
<1>1. /\ rend9' = [rend9 EXCEPT ![d] = left]
      /\ drop => workers[d] < MaxWorkers
      /\ workers' = [workers EXCEPT ![d] = IF drop THEN workers[d] + 1 ELSE workers[d]]
      /\ objs' = IF dead THEN [objs EXCEPT ![d] = None] ELSE objs
      /\ surfaces' = IF dead /\ ~drop /\ told[d] # None /\ told[d].gen = objs[d].gen
                     THEN [told EXCEPT ![d].bare = TRUE] ELSE told
  BY DEF Released
<1>2. left \in Renderer9 \cup {None}
  OBVIOUS
<1>3. n = 0 => left = None
  <2>1. CASE r = None
    BY <2>1
  <2>2. CASE r # None
    <3>1. Held(r) \in {2, 3}
      BY <2>2, HeldFacts
    <3> QED
      BY <3>1 DEF Guess
  <2> QED
    BY <2>1, <2>2
<1>4. /\ told \in [Ids -> Surface \cup {None}]
      /\ \A id \in Ids \ {d} : told[id] = s[id]
      /\ told[d] = None <=> s[d] = None
      /\ s[d] # None => /\ told[d].gen = s[d].gen /\ told[d].size = s[d].size
                        /\ told[d].bare = s[d].bare
  <2>1. CASE drop /\ r # None /\ s[d] # None
    <3>1. s[d] \in Surface
      BY <2>1
    <3> DEFINE u == [s[d] EXCEPT !.updated = TRUE]
    <3>2. u \in Surface /\ u.gen = s[d].gen /\ u.size = s[d].size /\ u.bare = s[d].bare
      BY <3>1 DEF Surface
    <3>3. told = [s EXCEPT ![d] = u]
      BY <2>1
    <3> HIDE DEF u, told
    <3> QED
      BY <2>1, <3>2, <3>3, SurfaceFields
  <2>2. CASE ~(drop /\ r # None /\ s[d] # None)
    BY <2>2
  <2> QED
    BY <2>1, <2>2
<1> HIDE DEF told, left, drop
<1>5. /\ rend9' \in [Ids -> Renderer9 \cup {None}]
      /\ rend9'[d] = left
      /\ workers' \in [Ids -> 0..MaxWorkers]
      /\ \A id \in Ids : workers[id] > 0 => workers'[id] > 0
      /\ drop => workers'[d] > 0
  BY <1>1, <1>2 DEF Dx9TypeOK
<1>6. objs' = IF n = 0 THEN [objs EXCEPT ![d] = None] ELSE objs
  BY <1>1, <1>3
<1>7. CASE dead /\ ~drop /\ told[d] # None /\ told[d].gen = objs[d].gen
  <2> DEFINE u == [told[d] EXCEPT !.bare = TRUE]
  <2>1. told[d] \in Surface
    BY <1>4, <1>7
  <2>2. u \in Surface /\ u.gen = told[d].gen /\ u.size = told[d].size /\ u.bare
    BY <2>1 DEF Surface
  <2>3. surfaces' = [told EXCEPT ![d] = u]
    BY <1>1, <1>7
  <2> HIDE DEF u
  <2>4. /\ surfaces' \in [Ids -> Surface \cup {None}]
        /\ \A id \in Ids \ {d} : surfaces'[id] = told[id]
        /\ surfaces'[d] = u
    BY <1>4, <2>2, <2>3
  <2> QED
    BY <1>4, <1>5, <1>6, <1>7, <2>2, <2>4, SurfaceFields DEF left, drop
<1>8. CASE ~(dead /\ ~drop /\ told[d] # None /\ told[d].gen = objs[d].gen)
  <2>1. surfaces' = told
    BY <1>1, <1>8
  <2>2. n = 0 /\ s[d] # None /\ s[d].gen = objs[d].gen => drop
    BY <1>3, <1>4, <1>8
  <2> QED
    BY <1>4, <1>5, <1>6, <2>1, <2>2 DEF left, drop
<1> QED
  BY <1>7, <1>8

(* The texture of a frame has the size of the one it is copied from.       *)
LEMMA FramesFacts ==
  ASSUME MapTypeOK, Dx9TypeOK, NEW d \in Ids, NEW s \in Surface, NEW r \in Frames(d, s)
  PROVE  /\ r \in Renderer9 \cup {None}
         /\ Copied(r, s) = None \/ Copied(r, s).tex.size = Copied(r, s).want.size
<1> DEFINE o == IF rend9[d] = None THEN [tex |-> None] ELSE rend9[d]
           t == IF s.tex = None THEN o.tex ELSE Texture(o, s.tex)
<1>1. r \in {[tex |-> t], [tex |-> None], None}
  BY DEF Frames
<1>2. o \in Renderer9 /\ s.tex \in Textures \cup {None}
  BY SurfaceFields DEF Dx9TypeOK, Renderer9
<1>3. t \in Textures \cup {None}
  BY <1>2 DEF Texture, Renderer9
<1>4. s.tex # None => t.size = s.tex.size
  BY <1>2 DEF Texture
<1> HIDE DEF t, o
<1>5. r \in Renderer9 \cup {None}
  BY <1>1, <1>3 DEF Renderer9
<1>6. ASSUME Copied(r, s) # None PROVE Copied(r, s).tex.size = Copied(r, s).want.size
  <2>1. s.tex # None /\ r \notin {None, [tex |-> None]} /\ Copied(r, s) = [tex |-> r.tex, want |-> s.tex]
    BY <1>6 DEF Copied
  <2>2. r = [tex |-> t]
    BY <1>1, <2>1
  <2> QED
    BY <1>4, <2>1, <2>2
<1> QED
  BY <1>5, <1>6

LEMMA Dx9Keeps ==
  ASSUME HooksInv, api = "dx9", UNCHANGED <<env, dxgiVars, glVars>>, MapTypeOK', Dx9TypeOK',
         Numbered', \A id \in Ids : Agrees(id)', NoLeak',
         drawn' = None \/ drawn'.tex.size = drawn'.want.size
  PROVE  HooksInv'
<1>1. TypeOK'
  BY DEF HooksInv, TypeOK, DxgiTypeOK, GlTypeOK, dxgiVars, glVars
<1>2. DxgiInv' /\ GlInv'
  BY DEF HooksInv, api, DxgiInv, GlInv, InContext, dxgiVars, glVars
<1>3. FramesRight'
  BY DEF api, FramesRight, ShowsCommitted, OwnNames, FreshTarget, LastDirectQueue
<1>4. DroppedInContext' /\ AppStateKept'
  BY DEF HooksInv, DroppedInContext, AppStateKept, glVars
<1> QED
  BY <1>1, <1>2, <1>3, <1>4 DEF HooksInv

(* An object that takes a new size keeps its number.                       *)
LEMMA ResizedNumbers ==
  ASSUME MapTypeOK, Numbered, NEW c \in Ids, objs[c] # None, NEW z \in Sizes,
         objs' = [objs EXCEPT ![c].size = z], gen' = gen
  PROVE  Numbered' /\ objs' \in [Ids -> Obj \cup {None}]
         /\ \A d \in Ids : objs'[d] = None <=> objs[d] = None
<1>1. objs[c] \in Obj /\ objs' = [objs EXCEPT ![c] = [objs[c] EXCEPT !.size = z]]
  BY DEF MapTypeOK
<1>2. [objs[c] EXCEPT !.size = z] \in Obj /\ [objs[c] EXCEPT !.size = z].gen = objs[c].gen
  BY <1>1 DEF Obj
<1>3. \A d \in Ids : (objs'[d] = None <=> objs[d] = None) /\ (objs[d] # None => objs'[d].gen = objs[d].gen)
  BY <1>1, <1>2, ObjChanges DEF MapTypeOK
<1> QED
  BY <1>1, <1>2, <1>3 DEF Numbered, MapTypeOK

LEMMA Dx9Step ==
  ASSUME HooksInv, api = "dx9", Dx9Next, UNCHANGED <<dxgiVars, glVars>>
  PROVE  HooksInv'
<1>1. /\ MapTypeOK /\ Dx9TypeOK /\ Numbered /\ \A id \in Ids : Agrees(id)
      /\ \A d \in Ids : objs[d] # None => apps[d] > 0
  BY DEF HooksInv, TypeOK, NoLeak
<1>2. UNCHANGED <<gl, ctxs>>
  BY DEF glVars
<1>3. CASE Client /\ UNCHANGED dx9Vars
  <2>1. ExcusesStay
    BY <1>2, <1>3, SameStays DEF dx9Vars
  <2>2. MapTypeOK' /\ \A id \in Ids : Agrees(id)'
    BY <1>1, <1>3, <2>1, ClientType, ClientAgrees
  <2>3. UNCHANGED <<env, gen, objs>> /\ drawn' = None
    BY <1>3 DEF Client, Connect, Disconnect, Commit
  <2>4. Numbered' /\ Dx9TypeOK' /\ NoLeak'
    BY <1>1, <1>3, <2>3 DEF Numbered, Dx9TypeOK, NoLeak, dx9Vars
  <2> QED
    BY <2>2, <2>3, <2>4, Dx9Keeps
<1>4. ASSUME NEW d \in Ids, NEW size \in env.sizes, MakeDevice(d, size) PROVE HooksInv'
  <2>1. ExcusesStay
    BY <1>2, <1>4, SameStays DEF MakeDevice
  <2>2. MapTypeOK' /\ \A id \in Ids : Agrees(id)'
    BY <1>1, <1>4, <2>1, MakeType, MadeAgrees DEF MakeDevice
  <2>3. Numbered'
    BY <1>1, <1>4 DEF MakeDevice, Make, Numbered, MapTypeOK, Obj
  <2>4. Dx9TypeOK' /\ NoLeak'
    BY <1>1, <1>4 DEF MakeDevice, Make, MapTypeOK, Dx9TypeOK, NoLeak
  <2> QED
    BY <1>4, <2>2, <2>3, <2>4, Dx9Keeps DEF MakeDevice, Make
<1>5. ASSUME NEW d \in Ids, AddRef(d) PROVE HooksInv'
  <2>1. ExcusesStay
    BY <1>2, <1>5, SameStays DEF AddRef
  <2>2. MapTypeOK' /\ Numbered' /\ \A id \in Ids : Agrees(id)'
    BY <1>1, <1>5, <2>1, KeptAgrees DEF AddRef, MapTypeOK, Numbered
  <2>3. Dx9TypeOK' /\ NoLeak'
    BY <1>1, <1>5 DEF AddRef, Dx9TypeOK, NoLeak
  <2> QED
    BY <1>5, <2>2, <2>3, Dx9Keeps DEF AddRef
<1>6. ASSUME NEW d \in Ids, Release(d) PROVE HooksInv'
  <2> DEFINE n == apps[d] - 1
  <2>1. /\ n \in Nat /\ n \in 0..MaxRefs /\ Released(d, surfaces, rend9[d], n)
        /\ rend9[d] \in Renderer9 \cup {None} /\ surfaces \in [Ids -> Surface \cup {None}]
        /\ apps' = [apps EXCEPT ![d] = n] /\ drawn' = None /\ UNCHANGED <<env, connected, gen>>
    BY <1>1, <1>6 DEF Release, Dx9TypeOK, MapTypeOK
  <2> HIDE DEF n
  <2>2. /\ rend9' \in [Ids -> Renderer9 \cup {None}]
        /\ workers' \in [Ids -> 0..MaxWorkers]
        /\ \A id \in Ids : workers[id] > 0 => workers'[id] > 0
        /\ objs' = IF n = 0 THEN [objs EXCEPT ![d] = None] ELSE objs
        /\ surfaces' \in [Ids -> Surface \cup {None}]
        /\ \A id \in Ids \ {d} : surfaces'[id] = surfaces[id]
        /\ surfaces'[d] = None <=> surfaces[d] = None
        /\ surfaces[d] # None =>
             /\ surfaces'[d].gen = surfaces[d].gen /\ surfaces'[d].size = surfaces[d].size
             /\ surfaces[d].bare => surfaces'[d].bare
             /\ n > 0 => surfaces'[d].bare = surfaces[d].bare
             /\ n = 0 /\ surfaces[d].gen = objs[d].gen => surfaces'[d].bare \/ workers'[d] > 0
    BY <1>1, <2>1, ReleasedFacts
  <2>3. ExcusesStay
    BY <1>2, <2>2 DEF ExcusesStay
  <2>4. MapTypeOK' /\ Numbered' /\ Dx9TypeOK'
    BY <1>1, <2>1, <2>2 DEF MapTypeOK, Numbered, Dx9TypeOK
  <2>5. NoLeak'
    BY <1>1, <2>1, <2>2 DEF NoLeak, Dx9TypeOK, MapTypeOK
  <2>6. \A id \in Ids : Agrees(id)'
    <3>1. CASE n > 0
      <4>1. objs' = objs
        BY <2>1, <2>2, <3>1
      <4> QED
        BY <1>1, <2>1, <2>2, <2>3, <3>1, <4>1, KeptAgrees
    <3>2. CASE n = 0
      <4>1. ASSUME surfaces'[d] # None PROVE surfaces'[d].gen =< gen /\ Traced(d)'
        <5>1. surfaces[d] # None /\ surfaces[d].gen =< gen /\ (Fresh(d) \/ Traced(d))
          BY <1>1, <2>2, <4>1 DEF Agrees
        <5>2. Fresh(d) => surfaces'[d].bare \/ workers'[d] > 0
          BY <2>2, <3>2 DEF Fresh
        <5>3. CASE Fresh(d)
          BY <2>2, <5>1, <5>2, <5>3 DEF Traced
        <5>4. CASE Traced(d)
          BY <2>2, <2>3, <5>1, <5>4 DEF Traced, ExcusesStay
        <5> QED
          BY <5>1, <5>3, <5>4
      <4> QED
        BY <1>1, <2>1, <2>2, <2>3, <3>2, <4>1, EndedAgrees
    <3> QED
      BY <2>1, <3>1, <3>2
  <2> QED
    BY <2>1, <2>4, <2>5, <2>6, Dx9Keeps
<1>7. ASSUME NEW d \in Ids, PresentDevice(d) PROVE HooksInv'
  <2>1. PICK r \in Frames(d, With(d)) : rend9' = [rend9 EXCEPT ![d] = r] /\ drawn' = Copied(r, With(d))
    BY <1>7 DEF PresentDevice
  <2>2. With(d) \in Surface
    BY <1>1, <1>7, WithFacts DEF PresentDevice
  <2>3. r \in Renderer9 \cup {None} /\ (drawn' = None \/ drawn'.tex.size = drawn'.want.size)
    BY <1>1, <2>1, <2>2, FramesFacts
  <2>4. ExcusesStay
    BY <1>2, <1>7, SameStays DEF PresentDevice
  <2>5. MapTypeOK' /\ Numbered' /\ \A id \in Ids : Agrees(id)'
    BY <1>1, <1>7, <2>4, PresentsSetUp, PresentsKeeps DEF PresentDevice
  <2>6. Dx9TypeOK' /\ NoLeak'
    BY <1>1, <1>7, <2>1, <2>3 DEF PresentDevice, Dx9TypeOK, NoLeak
  <2> QED
    BY <1>7, <2>3, <2>5, <2>6, Dx9Keeps DEF PresentDevice
<1>8. ASSUME NEW d \in Ids, PresentSwapchain(d) PROVE HooksInv'
  <2> DEFINE s == [surfaces EXCEPT ![d] = With(d)]
             n == apps[d]
  <2>1. PICK r \in Frames(d, With(d)) : drawn' = Copied(r, With(d)) /\ Released(d, s, r, n)
    BY <1>8 DEF PresentSwapchain
  <2>2. With(d) \in Surface /\ objs[d] # None
    BY <1>1, <1>8, WithFacts DEF PresentSwapchain
  <2>3. r \in Renderer9 \cup {None} /\ (drawn' = None \/ drawn'.tex.size = drawn'.want.size)
    BY <1>1, <2>1, <2>2, FramesFacts
  <2>4. /\ s \in [Ids -> Surface \cup {None}] /\ s[d] = With(d) /\ n \in Nat /\ n > 0
        /\ \A id \in Ids \ {d} : s[id] = surfaces[id]
    BY <1>1, <1>8, <2>2 DEF MapTypeOK, Dx9TypeOK, PresentSwapchain
  <2>5. UNCHANGED <<env, connected, gen, apps>>
    BY <1>8 DEF PresentSwapchain
  <2> HIDE DEF s, n
  <2>6. /\ rend9' \in [Ids -> Renderer9 \cup {None}]
        /\ workers' \in [Ids -> 0..MaxWorkers]
        /\ \A id \in Ids : workers[id] > 0 => workers'[id] > 0
        /\ objs' = IF n = 0 THEN [objs EXCEPT ![d] = None] ELSE objs
        /\ surfaces' \in [Ids -> Surface \cup {None}]
        /\ \A id \in Ids \ {d} : surfaces'[id] = s[id]
        /\ surfaces'[d] = None <=> s[d] = None
        /\ s[d] # None => /\ surfaces'[d].gen = s[d].gen /\ surfaces'[d].size = s[d].size
                          /\ n > 0 => surfaces'[d].bare = s[d].bare
    BY <1>1, <2>1, <2>3, <2>4, ReleasedFacts
  <2>7. ExcusesStay
    BY <1>2, <2>6 DEF ExcusesStay
  <2>8. objs' = objs
    BY <2>4, <2>6
  <2>9. surfaces'[d] \in Surface /\ surfaces' = [surfaces EXCEPT ![d] = surfaces'[d]]
    <3>1. surfaces'[d] # None
      BY <2>2, <2>4, <2>6, SurfaceFields
    <3>2. surfaces \in [Ids -> Surface \cup {None}]
      BY <1>1 DEF MapTypeOK
    <3> QED
      BY <2>4, <2>6, <3>1, <3>2
  <2>10. Presents(d)
    BY <2>2, <2>4, <2>6, <2>9, SurfaceFields DEF Presents
  <2>11. MapTypeOK' /\ Numbered' /\ \A id \in Ids : Agrees(id)'
    BY <1>1, <2>2, <2>5, <2>7, <2>8, <2>10, PresentsKeeps
  <2>12. Dx9TypeOK' /\ NoLeak'
    BY <1>1, <2>5, <2>6, <2>8 DEF Dx9TypeOK, NoLeak
  <2> QED
    BY <2>3, <2>5, <2>11, <2>12, Dx9Keeps
<1>9. ASSUME NEW d \in Ids, NEW size \in env.sizes, NEW ok \in BOOLEAN, Reset(d, size, ok)
      PROVE  HooksInv'
  <2> DEFINE told == IF rend9[d] = None THEN surfaces ELSE Invalidated(d)
  <2>0. size \in Sizes /\ ExcusesStay
    BY <1>1, <1>2, <1>9, EnvFacts, SameStays DEF Reset
  <2>1. /\ objs[d] # None /\ rend9' = [rend9 EXCEPT ![d] = None]
        /\ IF ok
           THEN /\ objs' = [objs EXCEPT ![d].size = size]
                /\ surfaces' = IF told[d] = None THEN told
                               ELSE [told EXCEPT ![d].size = size, ![d].updated = TRUE]
           ELSE surfaces' = told /\ UNCHANGED objs
        /\ drawn' = None
        /\ UNCHANGED <<env, connected, gen, apps, workers>>
    BY <1>9 DEF Reset
  <2>2. /\ told \in [Ids -> Surface \cup {None}]
        /\ \A id \in Ids \ {d} : told[id] = surfaces[id]
        /\ told[d] = None <=> surfaces[d] = None
        /\ surfaces[d] # None => /\ told[d].gen = surfaces[d].gen /\ told[d].size = surfaces[d].size
                                 /\ told[d].bare = surfaces[d].bare
    <3>1. CASE rend9[d] = None \/ surfaces[d] = None
      BY <1>1, <3>1 DEF MapTypeOK, Invalidated
    <3>2. CASE rend9[d] # None /\ surfaces[d] # None
      <4> DEFINE u == [surfaces[d] EXCEPT !.updated = TRUE]
      <4>1. told = [surfaces EXCEPT ![d] = u]
        BY <3>2 DEF Invalidated
      <4>2. u \in Surface /\ u.gen = surfaces[d].gen /\ u.size = surfaces[d].size
            /\ u.bare = surfaces[d].bare
        BY <1>1, <3>2 DEF MapTypeOK, Surface
      <4> HIDE DEF u, told
      <4> QED
        BY <1>1, <3>2, <4>1, <4>2, SurfaceFields DEF MapTypeOK
    <3> QED
      BY <3>1, <3>2
  <2> HIDE DEF told
  <2>3. /\ surfaces' \in [Ids -> Surface \cup {None}]
        /\ \A id \in Ids \ {d} : surfaces'[id] = surfaces[id]
        /\ surfaces'[d] = None <=> surfaces[d] = None
        /\ surfaces[d] # None => /\ surfaces'[d].gen = surfaces[d].gen
                                 /\ surfaces'[d].bare = surfaces[d].bare
                                 /\ surfaces'[d].size = IF ok THEN size ELSE surfaces[d].size
    <3>1. CASE ~ok \/ told[d] = None
      BY <2>1, <2>2, <3>1
    <3>2. CASE ok /\ told[d] # None
      <4> DEFINE u == [told[d] EXCEPT !.size = size, !.updated = TRUE]
      <4>1. surfaces' = [told EXCEPT ![d] = u]
        BY <2>1, <2>2, <3>2
      <4>0. told[d] \in Surface
        BY <2>2, <3>2
      <4>2. u \in Surface /\ u.gen = told[d].gen /\ u.size = size /\ u.bare = told[d].bare
        BY <2>0, <4>0 DEF Surface
      <4> HIDE DEF u
      <4> QED
        BY <2>2, <3>2, <4>1, <4>2, SurfaceFields
    <3> QED
      BY <3>1, <3>2
  <2>4. MapTypeOK' /\ Numbered' /\ \A id \in Ids : objs'[id] = None <=> objs[id] = None
    <3>1. CASE ok
      BY <1>1, <2>0, <2>1, <2>3, <3>1, ResizedNumbers DEF MapTypeOK
    <3>2. CASE ~ok
      BY <1>1, <2>1, <2>3, <3>2 DEF MapTypeOK, Numbered
    <3> QED
      BY <3>1, <3>2
  <2>5. \A id \in Ids : Agrees(id)'
    <3>1. CASE ok
      BY <1>1, <2>0, <2>1, <2>3, <3>1, ResizedAgrees
    <3>2. CASE ~ok
      BY <1>1, <2>0, <2>1, <2>3, <3>2, KeptAgrees
    <3> QED
      BY <3>1, <3>2
  <2>6. Dx9TypeOK' /\ NoLeak'
    BY <1>1, <2>1, <2>4 DEF Dx9TypeOK, NoLeak
  <2> QED
    BY <2>1, <2>4, <2>5, <2>6, Dx9Keeps
<1>10. ASSUME NEW d \in Ids, Worker(d) PROVE HooksInv'
  <2>1. surfaces'[d] = None /\ \A id \in Ids \ {d} : surfaces'[id] = surfaces[id]
    BY <1>1, <1>10 DEF Worker, Cleaned, MapTypeOK
  <2>2. MapTypeOK' /\ Numbered' /\ Dx9TypeOK' /\ NoLeak'
    BY <1>1, <1>10 DEF Worker, Cleaned, MapTypeOK, Numbered, Dx9TypeOK, NoLeak
  <2>3. ASSUME NEW id \in Ids PROVE Agrees(id)'
    <3>1. CASE id = d
      BY <2>1, <3>1, GonesAgree
    <3>2. CASE id # d
      <4>1. surfaces'[id] = surfaces[id] /\ workers'[id] = workers[id]
        BY <1>1, <1>10, <2>1, <3>2 DEF Worker, Dx9TypeOK
      <4> QED
        BY <1>1, <1>2, <1>10, <4>1 DEF Worker, Agrees, Fresh, Traced, Excused
    <3> QED
      BY <3>1, <3>2
  <2> QED
    BY <1>10, <2>2, <2>3, Dx9Keeps DEF Worker
<1> QED
  BY <1>3, <1>4, <1>5, <1>6, <1>7, <1>8, <1>9, <1>10 DEF Dx9Next
-----------------------------------------------------------------------------
(* OpenGL.                                                                 *)

(* Restoring a state that the code expects gives that state back: texture  *)
(* and capabilities are set again whatever the frame left of them.         *)
LEMMA RestoredFacts ==
  ASSUME NEW g \in GlState, g.unit = 0, g.prog # "deleted", g.view # "empty",
         NEW import \in {"skipped", "bound", "undone"}, NEW draws \in BOOLEAN
  PROVE  Restored(g, IF draws THEN Drawn(Imported(Unbound(g, {}), import), TRUE)
                     ELSE Imported(Unbound(g, {}), import)) = g
<1>0. Unbound(g, {}) = g
  <2>1. g.tex \in [{0, 1} -> {"none", "app", "overlay"}]
    BY DEF GlState
  <2>2. [u \in {0, 1} |-> IF u \in {} THEN "none" ELSE g.tex[u]] = g.tex
    BY <2>1
  <2> QED
    BY <2>2 DEF Unbound, GlState
<1> DEFINE i == Imported(g, import)
           n == IF draws THEN Drawn(i, TRUE) ELSE i
           b == Restored(g, n)
<1>1. /\ g.tex \in [{0, 1} -> {"none", "app", "overlay"}]
      /\ g.caps \in SUBSET {"blend", "cull"}
      /\ g = [unit |-> g.unit, tex |-> g.tex, prog |-> g.prog, view |-> g.view, caps |-> g.caps]
  BY DEF GlState
<1>2. /\ i.unit = 0 /\ i.prog = g.prog /\ i.view = g.view /\ i.caps = g.caps
      /\ DOMAIN i.tex = {0, 1} /\ i.tex[1] = g.tex[1] /\ i.tex = [k \in {0, 1} |-> i.tex[k]]
  <2>1. CASE import = "skipped"
    BY <1>1, <2>1 DEF Imported
  <2>2. ASSUME NEW t \in {"overlay", "none"}, i = [g EXCEPT !.unit = 0, !.tex = [g.tex EXCEPT ![0] = t]]
        PROVE  /\ i.unit = 0 /\ i.prog = g.prog /\ i.view = g.view /\ i.caps = g.caps
               /\ DOMAIN i.tex = {0, 1} /\ i.tex[1] = g.tex[1] /\ i.tex = [k \in {0, 1} |-> i.tex[k]]
    <3>1. /\ i.unit = 0 /\ i.prog = g.prog /\ i.view = g.view /\ i.caps = g.caps
          /\ i.tex = [g.tex EXCEPT ![0] = t]
      BY <1>1, <2>2
    <3> HIDE DEF i
    <3> QED
      BY <1>1, <3>1
  <2>3. CASE import = "bound"
    <3>1. i = [g EXCEPT !.unit = 0, !.tex = [g.tex EXCEPT ![0] = "overlay"]]
      BY <1>1, <2>3 DEF Imported
    <3> QED
      BY <2>2, <3>1
  <2>4. CASE import = "undone"
    <3>1. i = [g EXCEPT !.unit = 0, !.tex = [g.tex EXCEPT ![0] = "none"]]
      BY <1>1, <2>4 DEF Imported
    <3> QED
      BY <2>2, <3>1
  <2> QED
    BY <2>1, <2>3, <2>4
<1> HIDE DEF i
<1>3. /\ n.unit = 0 /\ n.prog # "deleted" /\ n.caps \in {g.caps, {"blend"}}
      /\ DOMAIN n.tex = {0, 1} /\ n.tex[1] = g.tex[1] /\ n.tex = [k \in {0, 1} |-> n.tex[k]]
  <2>1. CASE draws
    <3>1. n.unit = 0 /\ n.prog = "overlay" /\ n.caps = {"blend"} /\ n.tex = [i.tex EXCEPT ![0] = "overlay"]
      BY <2>1 DEF Drawn
    <3> HIDE DEF n
    <3> QED
      BY <1>2, <3>1
  <2>2. CASE ~draws
    BY <1>2, <2>2
  <2> QED
    BY <2>1, <2>2
<1> HIDE DEF n
<1>4. [n.tex EXCEPT ![n.unit] = g.tex[g.unit]] = g.tex
  BY <1>1, <1>3
<1>5. (n.caps \ ({"blend"} \ g.caps)) \cup (g.caps \cap {"cull"}) = g.caps
  BY <1>1, <1>3
<1>6. b = [unit |-> g.unit, tex |-> g.tex, prog |-> g.prog, view |-> g.view, caps |-> g.caps]
  BY <1>3, <1>4, <1>5 DEF Restored
<1> QED
  BY <1>0, <1>1, <1>6 DEF n, i

LEMMA GlKeeps ==
  ASSUME HooksInv, api = "gl", UNCHANGED <<env, dxgiVars, dx9Vars>>, MapTypeOK', GlTypeOK',
         Numbered', \A id \in Ids : Agrees(id)',
         cur' # None => cur'.ctx \in ctxs',
         \A w \in Ids : InContext(w)' /\ GlShows(w)',
         drawn' = None \/ drawn'.tex = (IF drawn'.failed THEN None ELSE drawn'.want),
         drawn' = None \/ drawn'.mixed \/ (drawn'.rend = drawn'.at /\ drawn'.texOf = drawn'.at),
         DroppedInContext', AppStateKept'
  PROVE  HooksInv'
<1>1. TypeOK'
  BY DEF HooksInv, TypeOK, DxgiTypeOK, Dx9TypeOK, dxgiVars, dx9Vars
<1>2. DxgiInv' /\ GlInv'
  BY DEF HooksInv, api, DxgiInv, GlInv, dxgiVars
<1>3. FramesRight'
  BY DEF api, FramesRight, ShowsCommitted, OwnNames, FreshTarget, LastDirectQueue
<1>4. NoLeak'
  BY DEF api, NoLeak
<1> QED
  BY <1>1, <1>2, <1>3, <1>4 DEF HooksInv

(* A step without a frame and without a renderer dropped.                  *)
LEMMA QuietKeeps ==
  ASSUME swapped' = None, dropped' = {}
  PROVE  DroppedInContext' /\ AppStateKept'
BY DEF DroppedInContext, AppStateKept

LEMMA GlShowsStill ==
  ASSUME NEW w \in Ids, GlShows(w), gl'[w] = gl[w], w \in procs => w \in procs',
         objs'[w] = None \/ (objs[w] # None /\ objs'[w].gen = objs[w].gen),
         surfaces'[w] = None <=> surfaces[w] = None,
         surfaces[w] # None => surfaces'[w].gen = surfaces[w].gen,
         surfaces'[w] = surfaces[w] \/ surfaces'[w].tex = None \/ surfaces'[w].updated
           \/ (surfaces'[w].tex = surfaces[w].tex /\ (surfaces'[w].updated <=> surfaces[w].updated))
  PROVE  GlShows(w)'
BY DEF GlShows, Fresh

(* Deleting a context removes what it owns; the renderers were in it, so   *)
(* they are dropped there while their windows can make it current.         *)
LEMMA DeleteContextKeeps ==
  ASSUME HooksInv, api = "gl", NEW c \in Ctxs, DeleteContext(c), UNCHANGED <<dxgiVars, dx9Vars>>
  PROVE  HooksInv'
<1>0. /\ ctxs' = ctxs \ {c}
      /\ gl' = Without(c)
      /\ surfaces' = [w \in Ids |-> IF w \in Owned(c) THEN None ELSE surfaces[w]]
      /\ cur' = CurrentAfter(c)
      /\ drawn' = None /\ swapped' = None
      /\ UNCHANGED <<env, connected, gen, objs, procs>>
  BY Zenon DEF DeleteContext
<1>1. /\ MapTypeOK /\ GlTypeOK /\ Numbered
      /\ cur # None => cur.ctx \in ctxs
      /\ \A id \in Ids : Agrees(id) /\ InContext(id) /\ GlShows(id)
  BY DEF HooksInv, TypeOK, GlInv
<1>2. ASSUME NEW id \in Ids, id \in Owned(c)
      PROVE  surfaces'[id] = None /\ gl'[id] = None
  BY <1>0, <1>2 DEF Without
<1>3. ASSUME NEW id \in Ids, id \notin Owned(c)
      PROVE  /\ surfaces'[id] = surfaces[id] /\ gl'[id] \in GlData \cup {None}
             /\ gl'[id] = None <=> gl[id] = None
             /\ gl[id] # None =>
                  /\ gl'[id].ctx = gl[id].ctx /\ gl[id].ctx \in ctxs'
                  /\ gl'[id].rend = gl[id].rend /\ gl'[id].tex = gl[id].tex
                  /\ gl'[id].texOf = gl[id].texOf /\ gl'[id].broken = gl[id].broken
                  /\ gl[id].mixed => gl'[id].mixed
  <2>1. surfaces'[id] = surfaces[id]
    BY <1>0, <1>3
  <2>2. CASE gl[id] = None
    BY <1>0, <1>3, <2>1, <2>2 DEF Without
  <2>3. CASE gl[id] # None
    <3> DEFINE m == gl[id].mixed \/ c \in {gl[id].rend, gl[id].texOf}
               b == [gl[id] EXCEPT !.mixed = m]
    <3>1. gl[id] \in GlData /\ m \in BOOLEAN /\ (gl[id].mixed => m)
      BY <1>1, <2>3 DEF GlTypeOK
    <3>2. gl'[id] = b
      BY <1>0, <1>3, <2>3 DEF Without
    <3> HIDE DEF m
    <3>3. /\ b \in GlData /\ b.ctx = gl[id].ctx /\ b.rend = gl[id].rend
          /\ b.tex = gl[id].tex /\ b.texOf = gl[id].texOf /\ b.broken = gl[id].broken
          /\ b.mixed = m
      BY <3>1 DEF GlData
    <3>4. gl[id].ctx \in ctxs'
      BY <1>0, <1>1, <1>3, <2>3 DEF InContext, Owned
    <3> HIDE DEF b
    <3> QED
      BY <2>1, <2>3, <3>1, <3>2, <3>3, <3>4
  <2> QED
    BY <2>2, <2>3
<1>4. UNCHANGED <<env, connected, gen, objs, procs>> /\ drawn' = None /\ swapped' = None
  BY <1>0
<1>5. MapTypeOK' /\ Numbered' /\ GlTypeOK'
  <2>1. surfaces' \in [Ids -> Surface \cup {None}]
    BY <1>0, <1>1 DEF MapTypeOK
  <2>2. gl' \in [Ids -> GlData \cup {None}]
    <3>1. \A id \in Ids : gl'[id] \in GlData \cup {None}
      BY <1>2, <1>3
    <3>2. DOMAIN gl' = Ids /\ gl' = [id \in Ids |-> gl'[id]]
      BY <1>0 DEF Without
    <3> QED
      BY <3>1, <3>2
  <2>3. cur' \in Current \cup {None} /\ ctxs' \subseteq Ctxs
    BY <1>0, <1>1 DEF CurrentAfter, GlTypeOK
  <2> QED
    BY <1>1, <1>4, <2>1, <2>2, <2>3 DEF MapTypeOK, Numbered, GlTypeOK
<1>6. ASSUME NEW id \in Ids PROVE Agrees(id)' /\ InContext(id)' /\ GlShows(id)'
  <2>1. CASE id \in Owned(c)
    <3>1. Agrees(id)'
      BY <1>2, <2>1, GonesAgree
    <3> QED
      BY <1>2, <2>1, <3>1 DEF InContext, GlShows, Fresh
  <2>2. CASE id \notin Owned(c)
    <3>1. workers'[id] = workers[id] /\ gen' = gen /\ objs'[id] = objs[id]
      BY <1>4 DEF dx9Vars
    <3>2. Agrees(id)'
      BY <1>1, <1>3, <2>2, <3>1 DEF Agrees, Fresh, Traced, Excused
    <3>3. InContext(id)'
      BY <1>1, <1>3, <2>2 DEF InContext
    <3>4. GlShows(id)'
      BY <1>1, <1>3, <1>4, <2>2 DEF GlShows, Fresh
    <3> QED
      BY <3>2, <3>3, <3>4
  <2> QED
    BY <2>1, <2>2
<1>7. cur' # None => cur'.ctx \in ctxs'
  BY <1>0, <1>1 DEF CurrentAfter
<1>8. DroppedInContext'
  <2> DEFINE at(w) == IF objs[w] # None THEN c ELSE IF cur = None THEN None ELSE cur.ctx
  <2>1. ASSUME NEW w \in Ids, w \in Owned(c), NEW n \in Names(gl[w], w, at(w))
        PROVE  n.at = n.of \/ ~n.win \/ n.broken \/ n.mixed
    <3>1. /\ gl[w] # None /\ gl[w].ctx = c
          /\ gl[w].broken \/ gl[w].rend = c
          /\ gl[w].tex # None => gl[w].mixed \/ gl[w].texOf = gl[w].rend
      BY <1>1, <2>1 DEF Owned, InContext
    <3>2. \/ n = Name(gl[w], w, gl[w].rend, at(w))
          \/ gl[w].tex # None /\ n = Name(gl[w], w, gl[w].texOf, at(w))
      BY <2>1 DEF Names, TexName
    <3>3. objs[w] # None => at(w) = c
      OBVIOUS
    <3>4. gl[w].mixed \in BOOLEAN /\ gl[w].broken \in BOOLEAN
      BY <1>1, <2>1, <3>1 DEF GlTypeOK, GlData
    <3> HIDE DEF at
    <3>5. /\ n.at = at(w)
          /\ n.win = (objs[w] # None) /\ n.broken = gl[w].broken /\ n.mixed = gl[w].mixed
          /\ n.of = gl[w].rend \/ (gl[w].tex # None /\ n.of = gl[w].texOf)
      BY <3>2, <3>4 DEF Name
    <3> QED
      BY <3>1, <3>3, <3>4, <3>5
  <2>2. dropped' = UNION {Names(gl[w], w, at(w)) : w \in Owned(c)}
    BY Zenon DEF DeleteContext
  <2> HIDE DEF at
  <2>3. ASSUME NEW r \in dropped' PROVE r.at = r.of \/ ~r.win \/ r.broken \/ r.mixed
    <3>1. PICK w \in Owned(c) : r \in Names(gl[w], w, at(w))
      BY <2>2, <2>3
    <3> QED
      BY <2>1, <3>1 DEF Owned
  <2> QED
    BY <2>3 DEF DroppedInContext
<1>9. AppStateKept'
  BY <1>4 DEF AppStateKept
<1> QED
  BY <1>4, <1>5, <1>6, <1>7, <1>8, <1>9, GlKeeps

(* The entry a frame works with, with its renderer: the renderer is of the *)
(* current context, or the entry is mixed.                                 *)
LEMMA EntryFacts ==
  ASSUME GlTypeOK, cur # None, cur.ctx \in ctxs, NEW w \in Ids, InContext(w)
  PROVE  /\ Entry(w) \in GlData /\ Entry(w).ctx \in ctxs
         /\ WithRenderer(Entry(w)) \in GlData
         /\ LET r == WithRenderer(Entry(w)) IN
              /\ r.ctx = Entry(w).ctx /\ r.tex = Entry(w).tex /\ r.broken = Entry(w).broken
              /\ r.broken \/ r.rend = r.ctx
              /\ r.tex # None => r.mixed \/ r.texOf = r.rend
              /\ r.rend # None
              /\ r.mixed \/ r.rend = cur.ctx
<1>1. cur.ctx \in Ctxs /\ cur.ctx # None
  BY DEF GlTypeOK, Current
<1>2. Entry(w) \in GlData /\ Entry(w).ctx \in ctxs
  BY <1>1 DEF Entry, GlTypeOK, GlData, InContext
<1>3. /\ Entry(w).rend # None => Entry(w).broken \/ Entry(w).rend = Entry(w).ctx
      /\ Entry(w).tex # None =>
           Entry(w).rend # None /\ (Entry(w).mixed \/ Entry(w).texOf = Entry(w).rend)
  BY DEF Entry, InContext
<1>4. Entry(w).rend = None => Entry(w).broken \/ Entry(w).ctx = cur.ctx
  <2>1. CASE gl[w] = None
    BY <2>1 DEF Entry
  <2>2. CASE gl[w] # None
    <3>1. gl[w].ctx # None
      BY <2>2 DEF InContext, GlTypeOK
    <3> QED
      BY <2>2, <3>1 DEF Entry, InContext
  <2> QED
    BY <2>1, <2>2
<1> DEFINE e == Entry(w)
           r == WithRenderer(e)
<1> HIDE DEF e
<1>6. e \in GlData /\ e.ctx \in ctxs
  BY <1>2 DEF e
<1>7. CASE e.rend # None
  <2> DEFINE m == e.mixed \/ e.rend # cur.ctx
  <2>1. r = [e EXCEPT !.mixed = m] /\ m \in BOOLEAN
    BY <1>6, <1>7 DEF WithRenderer, GlData
  <2>2. (e.mixed => m) /\ (~m => e.rend = cur.ctx)
    OBVIOUS
  <2> HIDE DEF m
  <2>3. /\ r \in GlData /\ r.ctx = e.ctx /\ r.tex = e.tex /\ r.broken = e.broken
        /\ r.rend = e.rend /\ r.texOf = e.texOf /\ r.mixed = m
    BY <1>6, <2>1 DEF GlData
  <2> HIDE DEF r
  <2> QED
    BY <1>3, <1>6, <1>7, <2>2, <2>3 DEF r, e
<1>8. CASE e.rend = None
  <2>1. r = [e EXCEPT !.rend = cur.ctx]
    BY <1>8 DEF WithRenderer
  <2>2. /\ r \in GlData /\ r.ctx = e.ctx /\ r.tex = e.tex /\ r.broken = e.broken
        /\ r.rend = cur.ctx /\ r.texOf = e.texOf /\ r.mixed = e.mixed
    BY <1>1, <1>6, <2>1 DEF GlData
  <2> HIDE DEF r
  <2> QED
    BY <1>1, <1>3, <1>4, <1>6, <1>8, <2>2 DEF r, e
<1> QED
  BY <1>7, <1>8

LEMMA TakenFacts ==
  ASSUME GlTypeOK, cur # None, NEW r \in GlData, NEW s \in Surface, NEW opens \in BOOLEAN
  PROVE  LET n == Taken(r, s, opens) IN
         /\ n \in GlData /\ n.ctx = r.ctx /\ n.rend = r.rend
         /\ n.broken = r.broken /\ n.mixed = r.mixed
         /\ n.tex = IF opens THEN s.tex ELSE None
         /\ n.tex = None \/ n.texOf = cur.ctx
<1>1. s.tex \in Textures \cup {None} /\ cur.ctx \in Ctxs
  BY SurfaceFields DEF GlTypeOK, Current
<1> QED
  BY <1>1 DEF Taken, GlData

LEMMA BrokenFacts ==
  ASSUME NEW e \in GlData
  PROVE  LET b == [e EXCEPT !.broken = TRUE] IN
         /\ b \in GlData /\ e # None
         /\ b.ctx = e.ctx /\ b.broken /\ b.rend = e.rend
         /\ b.tex = e.tex /\ b.texOf = e.texOf /\ b.mixed = e.mixed
BY DEF GlData

LEMMA SwapBuffersKeeps ==
  ASSUME HooksInv, api = "gl", NEW g \in AppStates[env], SwapBuffers(g),
         UNCHANGED <<dxgiVars, dx9Vars>>
  PROVE  HooksInv'
<1> DEFINE w == cur.win
           s == With(w)
           e == Entry(w)
           r == WithRenderer(e)
           takes == s.tex # None /\ s.updated
           SetupFailsIn ==
             /\ surfaces[w] = None
             /\ gl' = [gl EXCEPT ![w] = [e EXCEPT !.broken = TRUE]]
             /\ drawn' = None
             /\ swapped' = [before |-> g, after |-> g, mixed |-> FALSE]
             /\ dropped' = {}
             /\ UNCHANGED surfaces
           n(opens) == IF ~takes THEN r ELSE Taken(r, s, opens)
           i(import, us) == Imported(Unbound(g, us), import)
           draws(opens) == s.tex # None /\ n(opens).tex # None
           Frame(opens, import, us, used) ==
             /\ import = "bound" => opens
             /\ us # {} => r.tex # None
             /\ gl' = [gl EXCEPT ![w] = n(opens)]
             /\ surfaces' = [surfaces EXCEPT ![w] = IF takes THEN [s EXCEPT !.updated = FALSE] ELSE s]
             /\ drawn' = IF draws(opens) THEN [tex |-> n(opens).tex, want |-> s.tex, failed |-> FALSE,
                                               rend |-> n(opens).rend, texOf |-> n(opens).texOf,
                                               at |-> cur.ctx, mixed |-> n(opens).mixed]
                         ELSE None
             /\ swapped' = [before |-> g, mixed |-> n(opens).mixed,
                            after |-> Restored(g, IF draws(opens) THEN Drawn(i(import, us), used)
                                                  ELSE i(import, us))]
             /\ dropped' = IF takes THEN TexName(r, w, cur.ctx) ELSE {}
<1>1. /\ MapTypeOK /\ GlTypeOK /\ Numbered
      /\ cur # None => cur.ctx \in ctxs
      /\ \A id \in Ids : Agrees(id) /\ InContext(id) /\ GlShows(id)
  BY DEF HooksInv, TypeOK, GlInv
<1>2. /\ cur # None /\ objs[w] # None
      /\ procs' = IF gl[w] = None THEN procs \cup {w} ELSE procs
      /\ UNCHANGED <<env, connected, gen, objs, ctxs, cur>>
  BY DEF SwapBuffers
<1>3. \/ SetupFailsIn
      \/ \E opens \in {~takes, TRUE},
            import \in IF takes THEN {"skipped", "bound", "undone"} ELSE {"skipped"},
            us \in IF takes /\ r.mixed THEN SUBSET {0, 1} ELSE {{}},
            used \in IF r.mixed THEN BOOLEAN ELSE {TRUE} :
           Frame(opens, import, us, used)
  BY DEF SwapBuffers
<1>4. w \in Ids /\ g \in GlState
  BY <1>1, <1>2, AppStatesAssumption DEF GlTypeOK, Current, MapTypeOK
<1>5. /\ e \in GlData /\ e.ctx \in ctxs /\ r \in GlData
      /\ r.ctx = e.ctx /\ r.tex = e.tex /\ r.broken = e.broken
      /\ r.broken \/ r.rend = r.ctx
      /\ r.rend # None
      /\ r.tex # None => r.mixed \/ r.texOf = r.rend
      /\ r.mixed \/ r.rend = cur.ctx
      /\ gl[w] # None => e = gl[w]
  BY <1>1, <1>2, <1>4, EntryFacts DEF Entry
<1>6. /\ s \in Surface
      /\ surfaces[w] # None => s = surfaces[w]
      /\ surfaces[w] = None => s.tex = None /\ s.gen = objs[w].gen
      /\ gl[w] # None /\ ~gl[w].broken => surfaces[w] # None
      /\ surfaces[w] # None => gl[w] # None
  BY <1>1, <1>2, <1>4, WithFacts DEF GlShows
<1>7. procs' \subseteq Ids /\ procs \subseteq procs'
  BY <1>1, <1>2, <1>4 DEF GlTypeOK
<1> HIDE DEF s, e, r, w
<1>8. CASE SetupFailsIn
  <2> DEFINE b == [e EXCEPT !.broken = TRUE]
  <2>1. /\ b \in GlData /\ b.ctx = e.ctx /\ b.broken /\ b # None
        /\ b.rend = e.rend /\ b.tex = e.tex /\ b.texOf = e.texOf /\ b.mixed = e.mixed
    BY <1>5, BrokenFacts DEF GlData
  <2>0. e.tex # None => e.rend # None /\ (e.mixed \/ e.texOf = e.rend)
    BY <1>1, <1>4 DEF e, Entry, InContext
  <2> HIDE DEF b
  <2>2. gl' = [gl EXCEPT ![w] = b] /\ UNCHANGED surfaces /\ drawn' = None
        /\ surfaces[w] = None /\ swapped' = [before |-> g, after |-> g, mixed |-> FALSE]
        /\ dropped' = {}
    BY <1>8 DEF b
  <2>3. gl'[w] = b /\ \A id \in Ids \ {w} : gl'[id] = gl[id]
    BY <1>1, <1>4, <2>2 DEF GlTypeOK
  <2>4. ExcusesStay
    BY <1>2, <1>5, <2>1, <2>3 DEF ExcusesStay, dx9Vars
  <2>5. \A id \in Ids : Agrees(id)'
    BY <1>1, <1>2, <2>2, <2>4, KeptAgrees
  <2>6. MapTypeOK' /\ Numbered' /\ GlTypeOK'
    BY <1>1, <1>2, <1>4, <1>7, <2>1, <2>2 DEF MapTypeOK, Numbered, GlTypeOK
  <2>7. ASSUME NEW id \in Ids PROVE InContext(id)' /\ GlShows(id)'
    <3>1. CASE id = w
      BY <1>2, <1>5, <2>0, <2>1, <2>2, <2>3, <3>1 DEF InContext, GlShows, Fresh
    <3>2. CASE id # w
      <4>1. InContext(id)'
        BY <1>1, <1>2, <2>3, <3>2 DEF InContext
      <4>2. GlShows(id)'
        BY <1>1, <1>2, <1>7, <2>2, <2>3, <3>2, GlShowsStill DEF GlShows, Fresh
      <4> QED
        BY <4>1, <4>2
    <3> QED
      BY <3>1, <3>2
  <2>8. DroppedInContext' /\ AppStateKept'
    BY <1>2, <2>2 DEF DroppedInContext, AppStateKept
  <2> QED
    BY <1>1, <1>2, <2>2, <2>5, <2>6, <2>7, <2>8, GlKeeps
<1>9. CASE ~SetupFailsIn
  <2>16. PICK opens \in {~takes, TRUE},
             import \in IF takes THEN {"skipped", "bound", "undone"} ELSE {"skipped"},
             us \in IF takes /\ r.mixed THEN SUBSET {0, 1} ELSE {{}},
             used \in IF r.mixed THEN BOOLEAN ELSE {TRUE} :
               Frame(opens, import, us, used)
    <3> HIDE DEF SetupFailsIn
    <3> QED
      BY <1>3, <1>9
  <2>17. /\ opens \in BOOLEAN /\ import \in {"skipped", "bound", "undone"}
         /\ ~r.mixed => us = {} /\ used = TRUE
    <3> HIDE DEF Frame
    <3>1. opens \in BOOLEAN
      OBVIOUS
    <3> HIDE DEF takes
    <3>2. import \in {"skipped", "bound", "undone"}
      OBVIOUS
    <3>3. ~r.mixed => us = {} /\ used = TRUE
      OBVIOUS
    <3> QED
      BY <3>1, <3>2, <3>3
  <2> DEFINE m == n(opens)
             u == IF takes THEN [s EXCEPT !.updated = FALSE] ELSE s
  <2>1. /\ m \in GlData /\ m.ctx = e.ctx /\ m.broken = e.broken
        /\ m.broken \/ m.rend = m.ctx
        /\ m.mixed = r.mixed /\ m.rend = r.rend
        /\ m.tex # None => m.mixed \/ m.texOf = cur.ctx
        /\ IF takes THEN m.tex \in {s.tex, None} ELSE m.tex = e.tex
    <3>1. CASE takes
      <4>1. opens \in BOOLEAN /\ m = Taken(r, s, opens)
        BY <3>1
      <4> QED
        BY <1>1, <1>2, <1>5, <1>6, <3>1, <4>1, TakenFacts
    <3>2. CASE ~takes
      <4>1. m = r
        BY <3>2
      <4> QED
        BY <1>5, <3>2, <4>1
    <3> QED
      BY <3>1, <3>2
  <2>2. /\ u \in Surface /\ u.gen = s.gen /\ u.size = s.size /\ u.bare = s.bare
        /\ u.tex = s.tex /\ u # None
    <3> DEFINE v == [s EXCEPT !.updated = FALSE]
    <3>1. v \in Surface /\ v.gen = s.gen /\ v.size = s.size /\ v.bare = s.bare /\ v.tex = s.tex
      BY <1>6 DEF Surface
    <3>2. u \in {v, s}
      OBVIOUS
    <3> HIDE DEF v, u
    <3> QED
      BY <1>6, <3>1, <3>2, SurfaceFields
  <2>3. ~takes => u = s
    OBVIOUS
  <2>4. s.tex # None /\ ~takes /\ m.tex # None => m.tex = s.tex
    <3>1. ASSUME s.tex # None, ~takes, m.tex # None PROVE m.tex = s.tex
      <4>1. /\ surfaces[w] # None /\ s = surfaces[w] /\ gl[w] # None /\ e = gl[w]
            /\ ~surfaces[w].updated
        BY <1>5, <1>6, <3>1
      <4> QED
        BY <1>1, <1>4, <2>1, <3>1, <4>1 DEF GlShows
    <3> QED
      BY <3>1
  <2>5. s.tex # None /\ m.tex # None => m.tex = s.tex
    BY <2>1, <2>4
  <2>14. drawn' = None \/ drawn'.mixed \/ (drawn'.rend = drawn'.at /\ drawn'.texOf = drawn'.at)
    <3>1. draws(opens) => m.tex # None
      OBVIOUS
    <3>2. drawn' = IF draws(opens) THEN [tex |-> m.tex, want |-> s.tex, failed |-> FALSE,
                                         rend |-> m.rend, texOf |-> m.texOf,
                                         at |-> cur.ctx, mixed |-> m.mixed]
                   ELSE None
      BY <2>16
    <3> HIDE DEF m, draws
    <3>3. m.mixed \in BOOLEAN /\ (m.mixed \/ m.rend = cur.ctx)
      BY <1>5, <2>1 DEF GlData
    <3> QED
      BY <2>1, <3>1, <3>2, <3>3
  <2>15. DroppedInContext'
    <3>1. dropped' \subseteq TexName(r, w, cur.ctx)
      BY <2>16
    <3>2. ASSUME NEW x \in TexName(r, w, cur.ctx) PROVE x.at = x.of \/ x.mixed
      <4>1. x = Name(r, w, r.texOf, cur.ctx) /\ r.tex # None
        BY <3>2 DEF TexName
      <4> QED
        BY <1>5, <4>1 DEF Name
    <3> QED
      BY <3>1, <3>2 DEF DroppedInContext
  <2>6. /\ gl' = [gl EXCEPT ![w] = m] /\ surfaces' = [surfaces EXCEPT ![w] = u]
        /\ drawn' = None \/ drawn'.tex = (IF drawn'.failed THEN None ELSE drawn'.want)
    BY <2>16, <2>5
  <2>7. AppStateKept'
    <3>1. draws(opens) \in BOOLEAN
      OBVIOUS
    <3>2. swapped' = [before |-> g, mixed |-> m.mixed,
                      after |-> Restored(g, IF draws(opens) THEN Drawn(Imported(Unbound(g, us), import), used)
                                            ELSE Imported(Unbound(g, us), import))]
      BY <2>16
    <3> HIDE DEF draws, m
    <3>3. ~m.mixed => us = {} /\ used = TRUE
      BY <2>17, <2>1
    <3>4. swapped'.mixed = m.mixed /\ swapped'.before = g
      BY <3>2
    <3>5. ASSUME ~m.mixed, g.unit = 0, g.prog # "deleted", g.view # "empty"
          PROVE  swapped'.after = g
      <4>1. swapped'.after = Restored(g, IF draws(opens) THEN Drawn(Imported(Unbound(g, {}), import), TRUE)
                                         ELSE Imported(Unbound(g, {}), import))
        BY <3>2, <3>3, <3>5
      <4> QED
        <5>1. PICK d \in BOOLEAN : d = draws(opens)
          BY <3>1
        <5>2. Restored(g, IF d THEN Drawn(Imported(Unbound(g, {}), import), TRUE)
                          ELSE Imported(Unbound(g, {}), import)) = g
          BY <1>4, <3>5, RestoredFacts
        <5> QED
          BY <4>1, <5>1, <5>2
    <3> QED
      BY <3>4, <3>5 DEF AppStateKept
  <2> HIDE DEF m, u, takes
  <2>8. /\ gl'[w] = m /\ \A id \in Ids \ {w} : gl'[id] = gl[id]
        /\ surfaces'[w] = u /\ \A id \in Ids \ {w} : surfaces'[id] = surfaces[id]
    BY <1>1, <1>4, <2>6 DEF GlTypeOK, MapTypeOK
  <2>9. ExcusesStay
    BY <1>2, <1>5, <2>1, <2>8, BrokenFacts DEF ExcusesStay, dx9Vars
  <2>10. \A id \in Ids : Agrees(id)'
    <3>1. objs[w].gen =< gen
      BY <1>1, <1>2, <1>4 DEF Numbered
    <3> QED
      BY <1>1, <1>2, <1>4, <2>2, <2>6, <2>9, <3>1, PresentedAgrees DEF s
  <2>11. MapTypeOK' /\ Numbered' /\ GlTypeOK'
    BY <1>1, <1>2, <1>4, <1>7, <2>1, <2>2, <2>6 DEF MapTypeOK, Numbered, GlTypeOK
  <2>12. ASSUME NEW id \in Ids PROVE InContext(id)' /\ GlShows(id)'
    <3>1. CASE id = w
      <4>1. gl'[id] = m /\ surfaces'[id] = u /\ m # None
        BY <2>1, <2>8, <3>1, BrokenFacts
      <4>2. InContext(id)'
        BY <1>2, <1>5, <2>1, <4>1 DEF InContext
      <4>3. Fresh(id)' /\ ~m.broken => id \in procs'
        <5>1. CASE gl[w] = None
          BY <1>2, <3>1, <5>1
        <5>2. ASSUME gl[w] # None, Fresh(id)', ~m.broken PROVE id \in procs'
          <6>1. surfaces[w] # None /\ s = surfaces[w] /\ ~gl[w].broken
            BY <1>5, <1>6, <2>1, <5>2
          <6>2. Fresh(w)
            BY <1>2, <2>2, <3>1, <4>1, <5>2, <6>1 DEF Fresh
          <6> QED
            BY <1>1, <1>4, <1>7, <3>1, <6>1, <6>2 DEF GlShows
        <5> QED
          BY <5>1, <5>2
      <4>4. GlShows(id)'
        BY <2>2, <2>5, <4>1, <4>3 DEF GlShows
      <4> QED
        BY <4>2, <4>4
    <3>2. CASE id # w
      <4>1. InContext(id)'
        BY <1>1, <1>2, <2>8, <3>2 DEF InContext
      <4>2. GlShows(id)'
        BY <1>1, <1>2, <1>7, <2>8, <3>2 DEF GlShows, Fresh
      <4> QED
        BY <4>1, <4>2
    <3> QED
      BY <3>1, <3>2
  <2> QED
    BY <1>1, <1>2, <2>6, <2>7, <2>10, <2>11, <2>12, <2>14, <2>15, GlKeeps
<1> QED
  BY <1>8, <1>9

LEMMA GlStep ==
  ASSUME HooksInv, api = "gl", GlNext, UNCHANGED <<dxgiVars, dx9Vars>>
  PROVE  HooksInv'
<1>1. /\ MapTypeOK /\ GlTypeOK /\ Numbered
      /\ cur # None => cur.ctx \in ctxs
      /\ \A id \in Ids : Agrees(id) /\ InContext(id) /\ GlShows(id)
  BY DEF HooksInv, TypeOK, GlInv
<1>2. UNCHANGED workers
  BY DEF dx9Vars
<1>3. CASE Client /\ swapped' = None /\ dropped' = {} /\ UNCHANGED <<ctxs, cur, gl, procs>>
  <2>1. ExcusesStay
    BY <1>2, <1>3, SameStays
  <2>2. MapTypeOK' /\ \A id \in Ids : Agrees(id)'
    BY <1>1, <1>3, <2>1, ClientType, ClientAgrees
  <2>3. UNCHANGED <<env, gen, objs>> /\ drawn' = None
    BY <1>3 DEF Client, Connect, Disconnect, Commit
  <2>4. Numbered' /\ GlTypeOK'
    BY <1>1, <1>3, <2>3 DEF Numbered, GlTypeOK
  <2>5. ASSUME NEW w \in Ids PROVE InContext(w)' /\ GlShows(w)'
    <3>1. /\ surfaces'[w] = None <=> surfaces[w] = None
          /\ surfaces[w] # None => surfaces'[w].gen = surfaces[w].gen
          /\ surfaces'[w] = surfaces[w] \/ surfaces'[w].tex = None \/ surfaces'[w].updated
      BY <1>1, <1>3, ClientLeaves
    <3>2. GlShows(w)'
      BY <1>1, <1>3, <2>3, <3>1 DEF GlShows, Fresh
    <3> QED
      BY <1>1, <1>3, <3>2 DEF InContext
  <2> QED
    BY <1>1, <1>3, <2>2, <2>3, <2>4, <2>5, QuietKeeps, GlKeeps
<1>4. ASSUME NEW w \in Ids, NEW size \in env.sizes, MakeWindow(w, size) PROVE HooksInv'
  <2>1. ExcusesStay
    BY <1>2, <1>4, SameStays DEF MakeWindow
  <2>2. MapTypeOK' /\ \A id \in Ids : Agrees(id)'
    BY <1>1, <1>4, <2>1, MakeType, MadeAgrees DEF MakeWindow
  <2>3. Numbered' /\ GlTypeOK'
    BY <1>1, <1>4 DEF MakeWindow, Make, Numbered, MapTypeOK, Obj, GlTypeOK
  <2>4. ASSUME NEW v \in Ids PROVE InContext(v)' /\ GlShows(v)'
    <3>1. InContext(v)'
      BY <1>1, <1>4 DEF MakeWindow, InContext
    <3>2. Fresh(v)' => Fresh(v)
      <4>1. surfaces[v] # None => surfaces[v].gen \in Nat /\ surfaces[v].gen =< gen /\ gen \in Nat
        BY <1>1, SurfaceFields DEF Agrees, MapTypeOK
      <4> QED
        BY <1>1, <1>4, <4>1 DEF MakeWindow, Make, Fresh, MapTypeOK
    <3>3. GlShows(v)'
      BY <1>1, <1>4, <3>2 DEF MakeWindow, Make, GlShows
    <3> QED
      BY <3>1, <3>3
  <2> QED
    BY <1>1, <1>4, <2>2, <2>3, <2>4, QuietKeeps, GlKeeps DEF MakeWindow, Make
<1>5. ASSUME NEW w \in Ids, NEW size \in env.sizes, ResizeWindow(w, size) PROVE HooksInv'
  <2>1. size \in Sizes /\ ExcusesStay
    BY <1>1, <1>2, <1>5, EnvFacts, SameStays DEF ResizeWindow
  <2>2. /\ objs[w] # None /\ objs' = [objs EXCEPT ![w].size = size]
        /\ surfaces' = IF w \in procs THEN Resized(w, size) ELSE surfaces
        /\ drawn' = None /\ swapped' = None /\ dropped' = {}
        /\ UNCHANGED <<env, connected, gen, ctxs, cur, gl, procs>>
    BY <1>5 DEF ResizeWindow, NoHistory
  <2>3. /\ Numbered' /\ objs' \in [Ids -> Obj \cup {None}]
        /\ \A v \in Ids : objs'[v] = None <=> objs[v] = None
    BY <1>1, <2>1, <2>2, ResizedNumbers
  <2>4. MapTypeOK' /\ GlTypeOK'
    BY <1>1, <2>1, <2>2, <2>3, MapOperators DEF MapTypeOK, GlTypeOK
  <2>5. /\ \A v \in Ids \ {w} : surfaces'[v] = surfaces[v]
        /\ surfaces'[w] = None <=> surfaces[w] = None
        /\ surfaces[w] # None => /\ surfaces'[w].gen = surfaces[w].gen
                                 /\ surfaces'[w].bare <=> surfaces[w].bare
                                 /\ surfaces'[w].tex = surfaces[w].tex
                                 /\ surfaces'[w].updated <=> surfaces[w].updated
                                 /\ w \in procs => surfaces'[w].size = size
    <3>1. surfaces[w] # None => surfaces[w] \in Surface
      BY <1>1 DEF MapTypeOK
    <3>2. CASE w \notin procs \/ surfaces[w] = None
      BY <1>1, <2>2, <3>2 DEF Resized, MapTypeOK
    <3>3. CASE w \in procs /\ surfaces[w] # None
      <4> DEFINE u == [surfaces[w] EXCEPT !.size = size]
      <4>1. surfaces' = [surfaces EXCEPT ![w] = u]
        BY <2>2, <3>3 DEF Resized
      <4>2. /\ u \in Surface /\ u.gen = surfaces[w].gen /\ u.bare = surfaces[w].bare
            /\ u.tex = surfaces[w].tex /\ u.updated = surfaces[w].updated /\ u.size = size
        BY <2>1, <3>1, <3>3 DEF Surface
      <4> HIDE DEF u
      <4> QED
        BY <1>1, <3>3, <4>1, <4>2, SurfaceFields DEF MapTypeOK
    <3> QED
      BY <3>2, <3>3
  <2>6. surfaces[w] # None => surfaces'[w].size = size \/ Excused(w) \/ ~Fresh(w)
    BY <1>1, <2>5 DEF Excused, GlShows
  <2>7. \A id \in Ids : Agrees(id)'
    BY <1>1, <2>1, <2>2, <2>5, <2>6, ResizedAgrees
  <2>8. ASSUME NEW v \in Ids PROVE InContext(v)' /\ GlShows(v)'
    <3>1. InContext(v)'
      BY <1>1, <2>2 DEF InContext
    <3>2. /\ surfaces'[v] = None <=> surfaces[v] = None
          /\ surfaces[v] # None => /\ surfaces'[v].gen = surfaces[v].gen
                                   /\ surfaces'[v].tex = surfaces[v].tex
                                   /\ surfaces'[v].updated <=> surfaces[v].updated
      BY <2>5
    <3>3. objs'[v] # None => objs[v] # None /\ objs'[v].gen = objs[v].gen
      <4>1. CASE v = w
        BY <1>1, <2>1, <2>2, <4>1, ObjChanges DEF MapTypeOK, Obj
      <4>2. CASE v # w
        BY <1>1, <2>2, <4>2 DEF MapTypeOK
      <4> QED
        BY <4>1, <4>2
    <3>4. GlShows(v)'
      BY <1>1, <2>2, <3>2, <3>3 DEF GlShows, Fresh
    <3> QED
      BY <3>1, <3>4
  <2> QED
    BY <1>1, <2>2, <2>3, <2>4, <2>7, <2>8, QuietKeeps, GlKeeps
<1>6. ASSUME NEW w \in Ids, DestroyWindow(w) PROVE HooksInv'
  <2>1. /\ objs' = [objs EXCEPT ![w] = None] /\ procs' = procs \ {w}
        /\ drawn' = None /\ swapped' = None /\ dropped' = {}
        /\ UNCHANGED <<env, connected, gen, surfaces, ctxs, cur, gl>>
    BY <1>6 DEF DestroyWindow, NoHistory
  <2>2. ExcusesStay
    BY <1>2, <2>1, SameStays
  <2>3. MapTypeOK' /\ GlTypeOK' /\ Numbered'
    BY <1>1, <2>1 DEF MapTypeOK, GlTypeOK, Numbered
  <2>4. ASSUME surfaces'[w] # None PROVE surfaces'[w].gen =< gen /\ Traced(w)'
    BY <1>1, <2>1, <2>4 DEF Agrees, Traced, GlShows, InContext
  <2>5. \A id \in Ids : Agrees(id)'
    BY <1>1, <2>1, <2>2, <2>4, EndedAgrees
  <2>6. ASSUME NEW v \in Ids PROVE InContext(v)' /\ GlShows(v)'
    <3>1. objs'[v] = IF v = w THEN None ELSE objs[v]
      BY <1>1, <2>1 DEF MapTypeOK
    <3> QED
      BY <1>1, <2>1, <3>1 DEF InContext, GlShows, Fresh
  <2> QED
    BY <1>1, <2>1, <2>3, <2>5, <2>6, QuietKeeps, GlKeeps
<1>7. ASSUME NEW w \in Ids, NEW c \in Ctxs, MakeCurrent(c, w) PROVE HooksInv'
  <2>1. /\ c \in ctxs /\ cur' = [ctx |-> c, win |-> w]
        /\ drawn' = None /\ swapped' = None /\ dropped' = {}
        /\ UNCHANGED <<env, connected, gen, objs, surfaces, ctxs, gl, procs>>
    BY <1>7 DEF MakeCurrent, NoHistory
  <2>2. MapTypeOK' /\ GlTypeOK' /\ Numbered' /\ cur'.ctx \in ctxs'
    BY <1>1, <2>1 DEF MapTypeOK, GlTypeOK, Numbered, Current
  <2>3. ExcusesStay
    BY <1>2, <2>1, SameStays
  <2>4. \A id \in Ids : Agrees(id)' /\ InContext(id)' /\ GlShows(id)'
    BY <1>1, <2>1, <2>3, KeptAgrees DEF InContext, GlShows, Fresh
  <2> QED
    BY <2>1, <2>2, <2>4, QuietKeeps, GlKeeps
<1>8. ASSUME NEW c \in Ctxs, MakeContext(c) PROVE HooksInv'
  <2>1. /\ ctxs' = ctxs \cup {c}
        /\ drawn' = None /\ swapped' = None /\ dropped' = {}
        /\ UNCHANGED <<env, connected, gen, objs, surfaces, cur, gl, procs>>
    BY <1>8 DEF MakeContext, NoHistory
  <2>2. /\ MapTypeOK' /\ GlTypeOK' /\ Numbered'
        /\ cur' # None => cur'.ctx \in ctxs'
    BY <1>1, <2>1 DEF MapTypeOK, GlTypeOK, Numbered
  <2>3. ExcusesStay
    BY <1>2, <2>1 DEF ExcusesStay
  <2>4. \A id \in Ids : Agrees(id)' /\ InContext(id)' /\ GlShows(id)'
    BY <1>1, <2>1, <2>3, KeptAgrees DEF InContext, GlShows, Fresh
  <2> QED
    BY <2>1, <2>2, <2>4, QuietKeeps, GlKeeps
<1> QED
  BY <1>3, <1>4, <1>5, <1>6, <1>7, <1>8, DeleteContextKeeps, SwapBuffersKeeps DEF GlNext
-----------------------------------------------------------------------------
LEMMA InitHooksInv == Init => HooksInv
<1> SUFFICES ASSUME Init PROVE HooksInv
  OBVIOUS
<1>1. TypeOK
  <2>1. MapTypeOK
    <3>1. gen \in 0..MaxGen
      BY DEF Init, MapInit
    <3>2. /\ env \in Cases /\ connected \in BOOLEAN
          /\ objs \in [Ids -> Obj \cup {None}] /\ surfaces \in [Ids -> Surface \cup {None}]
      BY DEF Init, MapInit
    <3> QED
      BY <3>1, <3>2 DEF MapTypeOK
  <2>2. DxgiTypeOK
    BY DEF Init, DxgiInit, DxgiTypeOK
  <2>3. Dx9TypeOK
    BY DEF Init, Dx9Init, Dx9TypeOK
  <2>4. GlTypeOK
    BY DEF Init, GlInit, GlTypeOK
  <2> QED
    BY <2>1, <2>2, <2>3, <2>4 DEF TypeOK
<1>2. Numbered /\ \A id \in Ids : Agrees(id)
  BY DEF Init, MapInit, Numbered, Agrees, Fresh
<1>3. DxgiInv /\ GlInv
  BY DEF Init, MapInit, DxgiInit, GlInit, DxgiInv, DxgiShows, GlInv, InContext, GlShows, Fresh
<1>4. FramesRight /\ NoLeak /\ DroppedInContext /\ AppStateKept
  BY DEF Init, MapInit, GlInit, FramesRight, ShowsCommitted, OwnNames, FreshTarget, LastDirectQueue,
         NoLeak, DroppedInContext, AppStateKept
<1> QED
  BY <1>1, <1>2, <1>3, <1>4 DEF HooksInv

LEMMA NextHooksInv == HooksInv /\ [Next]_vars => HooksInv'
<1> SUFFICES ASSUME HooksInv, [Next]_vars PROVE HooksInv'
  OBVIOUS
<1>1. CASE Dxgi /\ DxgiNext /\ UNCHANGED <<dx9Vars, glVars>>
  BY <1>1, DxgiStep
<1>2. CASE api = "dx9" /\ Dx9Next /\ UNCHANGED <<dxgiVars, glVars>>
  BY <1>2, Dx9Step
<1>3. CASE api = "gl" /\ GlNext /\ UNCHANGED <<dxgiVars, dx9Vars>>
  BY <1>3, GlStep
<1>4. CASE UNCHANGED vars
  <2>1. TypeOK'
    BY <1>4 DEF HooksInv, vars, mapVars, dxgiVars, dx9Vars, glVars, TypeOK, MapTypeOK, DxgiTypeOK,
                Dx9TypeOK, GlTypeOK
  <2>2. Numbered' /\ \A id \in Ids : Agrees(id)'
    BY <1>4 DEF HooksInv, vars, mapVars, dx9Vars, glVars, Numbered, Agrees, Fresh, Traced, Excused
  <2>3. DxgiInv' /\ GlInv'
    BY <1>4 DEF HooksInv, vars, mapVars, dxgiVars, glVars, api, DxgiInv, DxgiShows, GlInv, InContext,
                GlShows, Fresh
  <2>4. FramesRight' /\ NoLeak' /\ DroppedInContext' /\ AppStateKept'
    BY <1>4 DEF HooksInv, vars, mapVars, dx9Vars, glVars, api, FramesRight, ShowsCommitted,
                OwnNames, FreshTarget, LastDirectQueue, NoLeak, DroppedInContext, AppStateKept
  <2> QED
    BY <2>1, <2>2, <2>3, <2>4 DEF HooksInv
<1> QED
  BY <1>1, <1>2, <1>3, <1>4 DEF Next, Dxgi

LEMMA HooksInvHolds == Spec => []HooksInv
BY InitHooksInv, NextHooksInv, PTL DEF Spec

(* Whatever the application makes, ends and resizes, and whatever fails, a *)
(* surface in the map is that of the object at its id and has its size, or *)
(* is one the lapses of the hooks leave (src/crates/overlay/src/surface.rs *)
(* under the hooks of every API).                                          *)
THEOREM SurfacesStayTrue == Spec => []SurfacesAgree
<1>1. HooksInv => SurfacesAgree
  <2> SUFFICES ASSUME HooksInv PROVE SurfacesAgree
    OBVIOUS
  <2>1. LeftBehind
    BY DEF HooksInv, Agrees, Traced, LeftBehind
  <2>2. SizeAgrees
    BY DEF HooksInv, Agrees, Excused, SizeAgrees
  <2> QED
    BY <2>1, <2>2 DEF HooksInv, SurfacesAgree
<1> QED
  BY <1>1, HooksInvHolds, PTL

(* Every frame shows the texture of its surface, on the back buffer of now *)
(* and through the DIRECT queue that executed last, and with names of the  *)
(* context it is drawn in unless the window was presented in two contexts  *)
(* (draw_overlay of hook/dx and hook/opengl.rs).                           *)
THEOREM FramesStayRight == Spec => []FramesRight
<1>1. HooksInv => FramesRight
  BY DEF HooksInv
<1> QED
  BY <1>1, HooksInvHolds, PTL

(* No renderer keeps a device alive; names are deleted in their context,   *)
(* but for a window that is gone, failed at first or was presented in two  *)
(* contexts; and SwapBuffers gives the application its state back in the   *)
(* states that DroppedInContext and AppStateKept name (hooked_release,     *)
(* hooked_wgl_delete_context, update_texture, with_renderer_gl_data).      *)
THEOREM AppIsLeftAlone == Spec => []AppLeftAlone
<1>1. HooksInv => RendererInContext
  BY DEF HooksInv, GlInv, InContext, RendererInContext
<1>2. HooksInv => AppLeftAlone
  BY <1>1 DEF HooksInv, AppLeftAlone
<1> QED
  BY <1>2, HooksInvHolds, PTL

(* The count of a release by an application that still holds the device    *)
(* never means that only the renderer is left while it has a texture, and  *)
(* the context that was current is current after another is deleted.       *)
THEOREM StepsAlwaysKeep == Spec => StepsKeep
<1> DEFINE Keeps(d) ==
             /\ Release(d) \/ (PresentSwapchain(d) /\ drawn' # None)
             /\ rend9[d] # None /\ rend9[d].tex # None
             /\ apps'[d] > 0
             => rend9'[d] # None
         Stays(c) ==
           DeleteContext(c) /\ cur # None /\ cur.ctx # c /\ objs[cur.win] # None => cur' = cur
<1>1. ASSUME HooksInv, NEW d \in Ids PROVE Keeps(d)
  <2> SUFFICES ASSUME Release(d) \/ (PresentSwapchain(d) /\ drawn' # None),
                      rend9[d] # None, rend9[d].tex # None, apps'[d] > 0
               PROVE  rend9'[d] # None
    OBVIOUS
  <2>1. MapTypeOK /\ Dx9TypeOK
    BY <1>1 DEF HooksInv, TypeOK
  <2>2. CASE Release(d)
    <3> DEFINE n == apps[d] - 1
    <3>1. /\ n \in Nat /\ Released(d, surfaces, rend9[d], n) /\ rend9[d] \in Renderer9 \cup {None}
          /\ surfaces \in [Ids -> Surface \cup {None}] /\ apps'[d] = n
      BY <2>1, <2>2 DEF Release, Dx9TypeOK, MapTypeOK
    <3> HIDE DEF n
    <3>2. rend9'[d] = rend9[d] \/ (rend9'[d] = None /\ Guess(n + Held(rend9[d])))
      BY <2>1, <3>1, ReleasedFacts
    <3>3. ~Guess(n + Held(rend9[d]))
      BY <3>1 DEF Guess, Held
    <3> QED
      BY <3>2, <3>3
  <2>3. CASE PresentSwapchain(d) /\ drawn' # None
    <3> DEFINE s == [surfaces EXCEPT ![d] = With(d)]
               n == apps[d]
    <3>1. PICK r \in Frames(d, With(d)) : drawn' = Copied(r, With(d)) /\ Released(d, s, r, n)
      BY <2>3 DEF PresentSwapchain
    <3>2. With(d) \in Surface /\ n \in Nat /\ n > 0
      <4>1. objs[d] # None /\ apps[d] > 0
        BY <2>3 DEF PresentSwapchain
      <4>2. apps[d] \in Nat
        BY <2>1 DEF Dx9TypeOK
      <4> QED
        BY <2>1, <4>1, <4>2, WithFacts
    <3>3. s \in [Ids -> Surface \cup {None}] /\ r \in Renderer9 \cup {None}
      BY <2>1, <3>2, FramesFacts DEF MapTypeOK
    <3> HIDE DEF s, n
    <3>4. rend9'[d] = r \/ (rend9'[d] = None /\ Guess(n + Held(r)))
      BY <2>1, <3>1, <3>2, <3>3, ReleasedFacts
    <3>5. r # None /\ r.tex # None
      <4>1. r \notin {None, [tex |-> None]}
        BY <2>3, <3>1 DEF Copied
      <4> QED
        BY <3>3, <4>1 DEF Renderer9
    <3>6. ~Guess(n + Held(r))
      BY <3>2, <3>5 DEF Guess, Held
    <3> QED
      BY <3>4, <3>5, <3>6
  <2> QED
    BY <2>2, <2>3
<1>2. ASSUME NEW c \in Ctxs PROVE Stays(c)
  <2>1. DeleteContext(c) => cur' = CurrentAfter(c)
    BY Zenon DEF DeleteContext
  <2> QED
    BY <2>1 DEF CurrentAfter
<1>3. HooksInv /\ [Next]_vars => [\A d \in Ids : Keeps(d)]_vars
  BY <1>1
<1>4. [Next]_vars => [\A c \in Ctxs : Stays(c)]_vars
  BY <1>2
<1>5. Spec => [][\A d \in Ids : Keeps(d)]_vars
  BY <1>3, HooksInvHolds, PTL DEF Spec
<1>6. Spec => [][\A c \in Ctxs : Stays(c)]_vars
  BY <1>4, PTL DEF Spec
<1> QED
  BY <1>5, <1>6, PTL DEF StepsKeep, ShownStays, CurrentKept
=============================================================================
