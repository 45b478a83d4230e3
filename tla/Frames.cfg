SPECIFICATION Spec
CONSTANTS
  None = None
  c1 = c1
  c2 = c2
  q1 = q1
  q2 = q2
  Cases <- MCCases
  Chains = {c1, c2}
  Objects = {t1, t2}
  Images = {0, 1}
  Sems = {s1, s2}
  Queues = {q1, q2}
  Main = q1
  BackBuffers = 2
  MaxVal = 2
CHECK_DEADLOCK FALSE
INVARIANTS
  GpuInOrder
PROPERTIES
  PresentReturns
