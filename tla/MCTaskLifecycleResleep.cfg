CONSTANTS
  None = None
  SyncOwner = SyncOwner
  OpIds = {1, 2, 3}
  Kinds = {"NATIVE", "BORROWED"}
  MaxFaults = 3
  MaxVersion = 1
SPECIFICATION Spec
INVARIANT
  RestoreRollbackIsPhysical
CHECK_DEADLOCK FALSE
