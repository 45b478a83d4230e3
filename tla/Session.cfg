CONSTANTS
  w1 = w1
  s1 = s1
  k1 = k1
  k2 = k2
  Windows = {w1}
  Surfaces = {s1}
  Direct9 = {s1}
  Workers = {k1, k2}
  Sizes = {1, 2}
  Absent = absent
SPECIFICATION SessionFairSpec
INVARIANTS
  ViewUnlessMissed
  AddedOnce
  SettingsReset
PROPERTIES
  SessionProgress
