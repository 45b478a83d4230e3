--------------------------- MODULE MCSurfaceHooks ---------------------------
EXTENDS SurfaceHooks, TLC

CONSTANTS i1, i2

MCSymmetry == Permutations(Direct) \cup Permutations(Ctxs)

Small == [size |-> 1, format |-> 1]
Large == [size |-> 2, format |-> 1]
MCTextures == {Small, Large}
Case(a, is, zs, ts) == [api |-> a, ids |-> is, sizes |-> zs, textures |-> ts]
MCCases ==
  {Case("dx11", {i1}, {1, 2}, MCTextures), Case("dx12", {i1}, {1, 2}, MCTextures),
   Case("dx12", {i1, i2}, {1}, {Small}), Case("dx9", {i1, i2}, {1, 2}, MCTextures),
   Case("gl", {i1, i2}, {1}, {Small}), Case("gl", {i1}, {1, 2}, {Small})}

(* Unit 0 or 1 active, the plain state, and each thing that is restored    *)
(* under a condition.                                                      *)
Plain == [unit |-> 0, tex |-> [u \in {0, 1} |-> "app"], prog |-> "app",
          view |-> "app", caps |-> {"cull"}]
Special ==
  {Plain, [Plain EXCEPT !.unit = 1, !.tex[1] = "none"], [Plain EXCEPT !.prog = "deleted"],
   [Plain EXCEPT !.view = "empty"], [Plain EXCEPT !.caps = {"blend"}, !.prog = "none"]}
MCAppStates == [k \in MCCases |-> IF k.ids = {i1} THEN Special ELSE {Plain}]
=============================================================================
