CONSTANTS
  None = None
  SyncOwner = SyncOwner
  OpIds = {1, 2, 3, 4}
  Kinds = {"NATIVE", "BORROWED"}
  MaxFaults = 3
  MaxVersion = 2
SPECIFICATION FairSpec
INVARIANTS
  ServingIsSynchronised
  BlockerStaysOpen
  FailedExitHadNoEffect
  ReleaseIsPhysical
PROPERTY WorkersEnd
CHECK_DEADLOCK FALSE
