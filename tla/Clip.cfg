CONSTANTS
  r1 = r1
  r2 = r2
  full = full
  Rects = {r1, r2}
  Full = full
  None = none
  Free = free
  IpcCaller = ipc
  AppCaller = app
SPECIFICATION ClipSpec
INVARIANTS
  ClipRestored
  FreeWhileBlocked
  SeesOwnClip
