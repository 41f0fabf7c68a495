CONSTANTS
  Workers = {w1, w2}
  Ranks = {r1, r2}
  Parameters = 2
  MaxVersion = 1
  MaxLocal = 1
  MaxFaults = 2
  None = None
SPECIFICATION Spec
INVARIANTS
  ReceivingIsIncomplete
  MembersHoldTheirVersion
  ValidatedReceiversAgree
CHECK_DEADLOCK FALSE
SYMMETRY Symmetry
