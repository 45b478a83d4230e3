CONSTANTS
  s1 = s1
  s2 = s2
  Shapes = {s1, s2}
  Buffers = 2
  MaxWord = 3
  MaxTextures = 4
  MaxPending = 2
SPECIFICATION FairSpec
CHECK_DEADLOCK FALSE
INVARIANTS
  OverlayFollows
  CopyInside
PROPERTIES
  UpdateReturns
