--------------------------- MODULE MCTextureSlot ---------------------------
(* Two NT handles and a KMT handle: a texture can be replaced, removed and *)
(* committed again while a frame is drawn.                                 *)
EXTENDS TextureSlot

CONSTANTS n1, n2, k1
=============================================================================
