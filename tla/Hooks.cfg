SPECIFICATION Spec
CONSTANTS
  None = None
  i1 = i1
  i2 = i2
  Ids = {i1, i2}
  Cases <- MCCases
  Sizes = {1, 2}
  Textures <- MCTextures
  MaxGen = 2
  Direct = {q1, q2}
  Other = {q3}
  Buffers = {0, 1}
  MaxRefs = 2
  MaxWorkers = 1
  Ctxs = {c1, c2}
  AppStates <- MCAppStates
SYMMETRY MCSymmetry
CHECK_DEADLOCK FALSE
INVARIANTS
  SurfacesAgree
  FramesRight
  AppLeftAlone
PROPERTIES
  StepsKeep
