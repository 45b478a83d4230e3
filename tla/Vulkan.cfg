SPECIFICATION Spec
CONSTANTS
  None = None
  Threads = {t1, t2}
  Chains = {c1, c2}
  Sizes = {1, 2}
  Hwnds = {w1, w2}
  Textures = {x1, x2}
  ImageCount = 2
  MaxLapses = 1
SYMMETRY MCSymmetry
CHECK_DEADLOCK FALSE
INVARIANTS
  TablesAgree
  ShowsCommitted
  NothingLeft
