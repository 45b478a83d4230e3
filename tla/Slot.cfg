CONSTANTS
  n1 = n1
  n2 = n2
  k1 = k1
  Handles = {n1, n2, k1}
  Nt = {n1, n2}
  NoTex = none
SPECIFICATION FairSpec
INVARIANTS
  LostOnlyByRace
  FrameConsistent
  HandlesSafe
PROPERTIES
  EventuallyShown
