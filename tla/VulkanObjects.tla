---------------------------- MODULE VulkanObjects ----------------------------
(***************************************************************************)
(* The Vulkan objects a renderer makes, in the order of VulkanRenderer::   *)
(* new, and what its drop destroys (vulkan-layer/src/renderer.rs and       *)
(* renderer/frame.rs).  An object that is freed with another (descriptor   *)
(* sets, command buffers) or within the function that makes it (shader     *)
(* modules) is left out.                                                   *)
(***************************************************************************)
EXTENDS Naturals, Sequences, FiniteSets, SequencesExt

CONSTANT ImageCount     \* images of a swapchain

ASSUME ImagesAssumption == ImageCount \in Nat

BaseKinds == <<"descriptor pool", "sampler", "set layout">>
PipelineKinds == <<"pipeline layout", "render pass", "pipeline">>
FrameKinds == <<"command pool", "view", "framebuffer", "fence", "semaphore">>
TextureKinds == <<"image", "memory", "texture view">>

(* What is made, or destroyed, of every image in turn.                     *)
PerImage(ks) == [i \in 1 .. ImageCount * Len(ks) |-> ks[((i - 1) % Len(ks)) + 1]]

RendererKinds == BaseKinds \o PipelineKinds \o PerImage(FrameKinds)

Kinds == ToSet(RendererKinds) \cup ToSet(TextureKinds)
NoObjects == [k \in Kinds |-> 0]

(* objects with those of the sequence made, and with what a drop destroys  *)
(* gone; a kind that a renderer makes once per image it destroys so often. *)
Times(k, ks) == Cardinality({i \in DOMAIN ks : ks[i] = k})
With(objects, ks) == [k \in Kinds |-> objects[k] + Times(k, ks)]
Without(objects, ks) == [k \in Kinds |-> objects[k] - Times(k, ks)]

(* new fails after n of its objects; nothing destroys these.               *)
PartlyMade == Prefixes(RendererKinds) \ {RendererKinds}

(* Mutant of DropKinds: the samplers are forgotten. *)
DropKinds_NoSampler == SelectSeq(RendererKinds, LAMBDA k : k # "sampler")

(* VulkanRenderer::drop, but for the texture.                              *)
DropKinds ==
  PerImage(<<"semaphore", "fence", "command pool", "framebuffer", "view">>)
  \o <<"descriptor pool", "pipeline", "render pass", "pipeline layout", "set layout", "sampler">>
=============================================================================
