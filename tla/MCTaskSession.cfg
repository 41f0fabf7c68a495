CONSTANTS
  n1 = n1
  n2 = n2
  n3 = n3
  None = None
  Order <- MCOrder
  PerReplica = 2
  MaxRequired = 3
  RefreshS = 5
  MaxAgeS = 10
  MaxDelay = 1
  MaxFaults = 2
SPECIFICATION FairSpec
INVARIANTS
  ReadyIsRegistered
  DonationsKeepCapacity
  AcknowledgedRetraction
  SurplusStaysFresh
PROPERTY GoneIsForgotten
CHECK_DEADLOCK FALSE
