------------------------------ MODULE Dx9Hooks ------------------------------
(***************************************************************************)
(* The hooks of Direct3D 9 (src/crates/overlay/src/hook/dx/dx9.rs and      *)
(* renderer/dx9.rs).  The renderer holds references to the device, so the  *)
(* hooked Release guesses from the count it returns that only those are    *)
(* left: 2, or 3 with a texture.  The surface is then removed by a thread  *)
(* of its own.                                                             *)
(***************************************************************************)
EXTENDS Surfaces

CONSTANTS
  MaxRefs,   \* bound: references of the application to a device
  MaxWorkers \* bound: cleanup threads that have not run

ASSUME RefsAssumption == MaxRefs \in Nat \ {0} /\ MaxWorkers \in Nat \ {0}

VARIABLES
  apps,   \* references the application holds to a device
  rend9,  \* RENDERERS: [tex : the shape of its texture, or None]
  workers \* cleanup threads that have not run

dx9Vars == <<apps, rend9, workers>>

Renderer9 == [tex : Textures \cup {None}]

Dx9TypeOK ==
  /\ apps \in [Ids -> 0..MaxRefs]
  /\ rend9 \in [Ids -> Renderer9 \cup {None}]
  /\ workers \in [Ids -> 0..MaxWorkers]

Dx9Init ==
  /\ apps = [d \in Ids |-> 0]
  /\ rend9 = [d \in Ids |-> None]
  /\ workers = [d \in Ids |-> 0]

(* References of a renderer: vertex buffer, state block, and the texture.  *)
Held(r) == IF r = None THEN 0 ELSE IF r.tex = None THEN 2 ELSE 3
-----------------------------------------------------------------------------
MakeDevice(d, size) ==
  /\ api = "dx9" /\ Make(d, size)
  /\ apps' = [apps EXCEPT ![d] = 1]
  /\ UNCHANGED <<rend9, workers>>

AddRef(d) ==
  /\ api = "dx9" /\ objs[d] # None
  /\ 0 < apps[d] /\ apps[d] < MaxRefs
  /\ apps' = [apps EXCEPT ![d] = @ + 1]
  /\ drawn' = None
  /\ UNCHANGED <<env, connected, gen, objs, surfaces, rend9, workers>>

(* Mutant of Guess: one reference of the application counts as none. *)
Guess_Four(count) == count \in 2..4

(* The count after a release that means: only the renderer is left.        *)
Guess(count) == count \in {2, 3}

(* hooked_release after the original returned: s is SURFACES and r the     *)
(* renderer by then, n what the application still holds.  The renderer is  *)
(* dropped at once (its surface, if there still is one, is told), the      *)
(* surface when the thread runs.                                           *)
Released(d, s, r, n) ==
  LET drop == Guess(n + Held(r))
      left == IF drop THEN None ELSE r
      dead == n = 0 /\ left = None
      told == IF drop /\ r # None /\ s[d] # None
              THEN [s EXCEPT ![d].updated = TRUE] ELSE s
  IN /\ rend9' = [rend9 EXCEPT ![d] = left]
     /\ drop => workers[d] < MaxWorkers
     /\ workers' = [workers EXCEPT ![d] = IF drop THEN @ + 1 ELSE @]
     /\ objs' = IF dead THEN [objs EXCEPT ![d] = None] ELSE objs
     /\ surfaces' = IF dead /\ ~drop /\ told[d] # None /\ told[d].gen = objs[d].gen
                    THEN [told EXCEPT ![d].bare = TRUE] ELSE told

Release(d) ==
  /\ api = "dx9" /\ objs[d] # None /\ apps[d] > 0
  /\ apps' = [apps EXCEPT ![d] = @ - 1]
  /\ drawn' = None
  /\ Released(d, surfaces, rend9[d], apps[d] - 1)
  /\ UNCHANGED <<env, connected, gen>>

(* Dx9Renderer::update_texture makes a new texture only for another size.  *)
Texture(r, t) == IF r.tex = None \/ r.tex.size # t.size THEN t ELSE r.tex

(* The renderer a frame leaves for the surface s: its creation may fail,   *)
(* and so may that of the texture.                                         *)
Frames(d, s) ==
  LET r == IF rend9[d] = None THEN [tex |-> None] ELSE rend9[d]
      t == IF s.tex = None THEN r.tex ELSE Texture(r, s.tex)
  IN {[tex |-> t]} \cup {n \in {[tex |-> None]} : t # r.tex} \cup ({None} \cap {rend9[d]})

Copied(r, s) ==
  IF s.tex = None \/ r \in {None, [tex |-> None]} THEN None
  ELSE [tex |-> r.tex, want |-> s.tex]

(* Present and PresentEx of the device draw while a client is connected.   *)
PresentDevice(d) ==
  /\ api = "dx9" /\ connected /\ objs[d] # None /\ apps[d] > 0
  /\ \E r \in Frames(d, With(d)) :
       /\ rend9' = [rend9 EXCEPT ![d] = r]
       /\ drawn' = Copied(r, With(d))
  /\ surfaces' = [surfaces EXCEPT ![d] = With(d)]
  /\ UNCHANGED <<env, connected, gen, objs, apps, workers>>

(* Present of a swapchain draws in any case; the reference GetDevice took  *)
(* is then released, through the hook.                                     *)
PresentSwapchain(d) ==
  /\ api = "dx9" /\ objs[d] # None /\ apps[d] > 0
  /\ \E r \in Frames(d, With(d)) :
       /\ drawn' = Copied(r, With(d))
       /\ Released(d, [surfaces EXCEPT ![d] = With(d)], r, apps[d])
  /\ UNCHANGED <<env, connected, gen, apps>>

(* Reset and ResetEx need every resource of the overlay gone first; the    *)
(* new size is taken over when they succeed.                               *)
Reset(d, size, ok) ==
  /\ api = "dx9" /\ objs[d] # None /\ apps[d] > 0
  /\ rend9' = [rend9 EXCEPT ![d] = None]
  /\ LET told == IF rend9[d] = None THEN surfaces ELSE Invalidated(d) IN
       IF ok
       THEN /\ objs' = [objs EXCEPT ![d].size = size]
            /\ surfaces' = IF told[d] = None THEN told
                           ELSE [told EXCEPT ![d].size = size, ![d].updated = TRUE]
       ELSE surfaces' = told /\ UNCHANGED objs
  /\ drawn' = None
  /\ UNCHANGED <<env, connected, gen, apps, workers>>

(* The cleanup thread removes the surface the device has by then.          *)
Worker(d) ==
  /\ workers[d] > 0
  /\ workers' = [workers EXCEPT ![d] = @ - 1]
  /\ surfaces' = Cleaned(d)
  /\ drawn' = None
  /\ UNCHANGED <<env, connected, gen, objs, apps, rend9>>

Dx9Next ==
  \/ Client /\ UNCHANGED dx9Vars
  \/ \E d \in Ids :
       \/ \E size \in env.sizes : MakeDevice(d, size)
       \/ AddRef(d)
       \/ Release(d)
       \/ PresentDevice(d)
       \/ PresentSwapchain(d)
       \/ \E size \in env.sizes, ok \in BOOLEAN : Reset(d, size, ok)
       \/ Worker(d)
=============================================================================
