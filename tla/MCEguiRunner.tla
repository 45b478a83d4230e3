---------------------------- MODULE MCEguiRunner ----------------------------
(* Two ids, so that a surface can come while there is another, or at the   *)
(* id of one that is going; one of them is of Direct3D 9, with up to two   *)
(* clean-ups at a time.  One window, which may go and come back.           *)
EXTENDS EguiRunner

CONSTANTS i1, i2, w1

Using(ids, sizes, ws, ks, blocks, discards) ==
  [ids |-> ids, sizes |-> sizes, windows |-> ws, keys |-> ks, blocks |-> blocks,
   discards |-> discards]

MCCases ==
  {Using({i1, i2}, {0, 1}, {}, {}, FALSE, FALSE),
   Using({i1}, {1}, {w1}, {"shift"}, FALSE, FALSE),
   Using({i1}, {1}, {w1}, {"unknown"}, TRUE, FALSE),
   Using({i1}, {1}, {w1}, {"letter"}, FALSE, TRUE)}
=============================================================================
