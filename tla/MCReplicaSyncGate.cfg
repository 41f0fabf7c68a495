CONSTANTS
  p1 = p1
  p2 = p2
  p3 = p3
  a = a
  b = b
  None = None
  Callers = {p1, p2, p3}
  OpIds = {a, b}
  MaxEpoch = 4
SPECIFICATION FairSpec
INVARIANTS
  TypeOK
  MutualExclusion
  BlockedAdmitsOnlyBlocker
PROPERTIES
  LatchClearedByBlocker
  WritesFollowEpochs
  WaitersAreServed
CHECK_DEADLOCK FALSE
