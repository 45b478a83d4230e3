----------------------------- MODULE MCProducer -----------------------------
(* Two shapes and four textures: the ring of two goes round twice while    *)
(* requests are under way.                                                 *)
EXTENDS Producer

CONSTANTS s1, s2
=============================================================================
