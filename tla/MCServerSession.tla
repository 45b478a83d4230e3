-------------------------- MODULE MCServerSession --------------------------
(* One window, and a surface of Direct3D 9 with two clean-up threads: its  *)
(* present hook is not gated, so it does all that a gated one does but for *)
(* being removed by its own thread, as the window is.                      *)
EXTENDS ServerSession

CONSTANTS w1, s1, k1, k2
=============================================================================
