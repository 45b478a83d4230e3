CONSTANTS
  i1 = i1
  i2 = i2
  w1 = w1
  Nothing = none
  Ids = {i1, i2}
  Direct9 = {i2}
  Windows = {w1}
  Sizes = {0, 1}
  Cases <- MCCases
  MaxEvents = 2
  MaxGoing = 2
SPECIFICATION RunnerFairSpec
CHECK_DEADLOCK FALSE
INVARIANTS
  DrawsOnMain
  InputAgrees
PROPERTIES
  InputIsSeen
