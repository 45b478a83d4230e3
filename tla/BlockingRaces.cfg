CONSTANTS
  t1 = t1
  t2 = t2
  w1 = w1
  w2 = w2
  Ipc = ipc
  Threads = {t1, t2}
  Windows = {w1}
  ThreadOf <- MCThreadOf
  InitRegistered <- FirstOnly
  Closers = {t1}
  Quitters = {}
  Mortal = {w1}
  MaxQueue = 2
SPECIFICATION Spec
CHECK_DEADLOCK FALSE
INVARIANTS
  NothingStaysBlocked
  OneEndedPerEpisode
