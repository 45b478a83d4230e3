----------------------------- MODULE GpuTextures -----------------------------
(***************************************************************************)
(* The textures that renderers of Vulkan and Direct3D 12 hand to the GPU,  *)
(* which runs behind the thread that presents.  A texture here is the      *)
(* object a renderer made; of what the client commits there is the flag of *)
(* overlay/src/surface/texture.rs, and whether a frame finds a texture or  *)
(* none is left open.                                                      *)
(***************************************************************************)
EXTENDS Naturals, Sequences, FiniteSets

CONSTANTS
  None,
  Cases,         \* libraries to present with, with what each has: commits
                 \* says whether textures are committed after the first,
                 \* depth bounds what a queue holds when a frame begins
  Chains,        \* swapchains, each with a surface of its own
  Objects        \* texture objects of the GPU

ASSUME CasesAssumption ==
  \A k \in Cases :
    k.api \in {"vulkan", "dx12"} /\ k.chains \subseteq Chains /\ k.chains # {}

ASSUME TexturesAssumption == None \notin Chains /\ None \notin Objects

VARIABLES
  gpu,           \* the case this is
  updated,       \* [Chains -> BOOLEAN]: the renderer is to take it
  texture,       \* [Chains -> the renderer's object, or None]
  alive          \* the objects that exist

texVars == <<updated, texture, alive>>

TexTypeOK ==
  /\ gpu \in Cases
  /\ updated \in [Chains -> BOOLEAN]
  /\ texture \in [Chains -> Objects \cup {None}]
  /\ alive \subseteq Objects
  /\ \A c \in Chains : texture[c] # None => texture[c] \in alive

TexInit ==
  /\ gpu \in Cases
  /\ updated = [c \in Chains |-> TRUE]
  /\ texture = [c \in Chains |-> None]
  /\ alive = {}

(* OverlayTextureSlot::update, from a request of the client.               *)
Commit(c) ==
  /\ c \in gpu.chains /\ gpu.commits
  /\ updated' = [updated EXCEPT ![c] = TRUE]
  /\ UNCHANGED <<gpu, texture, alive>>

(* The renderer of c gives up its object and takes t, one that did not     *)
(* exist or None.                                                          *)
Replace(c, t) ==
  /\ t \notin alive
  /\ texture' = [texture EXCEPT ![c] = t]
  /\ alive' = (alive \ {texture[c]}) \cup ({t} \ {None})

Taken(c) == updated' = [updated EXCEPT ![c] = FALSE]
=============================================================================
