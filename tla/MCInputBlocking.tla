-------------------------- MODULE MCInputBlocking --------------------------
(* Instances of InputBlocking: one or two application threads, the first   *)
(* with a window.                                                          *)
EXTENDS InputBlocking

CONSTANTS t1, t2, w1, w2

MCThreadOf == [w \in Windows |-> IF w = w2 THEN t2 ELSE t1]

(* The first thread and its window exist when the client connects. *)
FirstOnly == {t1, w1}

(* Only the first thread has read a message when the client connects. *)
LoopOnly == {t1}

Everything == Objects
=============================================================================
