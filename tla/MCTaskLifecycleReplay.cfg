CONSTANTS
  None = None
  SyncOwner = SyncOwner
  OpIds = {1, 2, 3}
  Kinds = {"NATIVE", "BORROWED"}
  MaxFaults = 1
  MaxVersion = 1
SPECIFICATION FairSpec
PROPERTY UnknownResolves
CHECK_DEADLOCK FALSE
