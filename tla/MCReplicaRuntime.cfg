CONSTANTS
  None = None
  Kinds <- MCKinds
  MaxRequests = 2
  MaxFaults = 3
SPECIFICATION Spec
INVARIANTS
  NoRequestInSleepingEngine
  DormantIsInert
  ServesLoadedWeights
  ReleasedIsDead
PROPERTY HandlesOutliveActors
CHECK_DEADLOCK FALSE
