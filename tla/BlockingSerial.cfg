CONSTANTS
  t1 = t1
  t2 = t2
  w1 = w1
  w2 = w2
  Ipc = ipc
  Threads = {t1, t2}
  Windows = {w1}
  ThreadOf <- MCThreadOf
  InitRegistered <- LoopOnly
  Closers = {}
  Quitters = {t2}
  Mortal = {}
  MaxQueue = 2
SPECIFICATION FairSpec
INVARIANTS
  BlockCovers
  ClientViewAgrees
PROPERTIES
  EventuallyRestored
  UnblockReturns
