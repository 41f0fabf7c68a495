CONSTANTS
  n = n
  b = b
  sn = sn
  sb = sb
  None = None
  Requests = {r1, r2}
  Keys = {n, b}
  Servers = {sn, sb}
  ServerOf <- MCServerOf
  InitialKeys = {n}
  BorrowedKeys = {b}
  OpIds = {o1, o2, o3}
  SettledRetention = 1
  GcBatch = 2
SPECIFICATION FairSpec
INVARIANTS
  CountersExact
  NoRequestStranded
  ForceHandsOverWhatItAborts
CHECK_DEADLOCK FALSE
PROPERTY DrainsComplete
