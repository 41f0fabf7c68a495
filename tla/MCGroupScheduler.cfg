CONSTANTS
  d = d
  b = b
  h1 = h1
  h2 = h2
  n = n
  r = r
  l1 = l1
  l2 = l2
  o1 = o1
  o2 = o2
  o3 = o3
  o4 = o4
  o5 = o5
  g1 = g1
  g2 = g2
  b1 = b1
  b2 = b2
  None = None
  Tasks = {d, b}
  Handles = {h1}
  Replicas = {n, r}
  LeaseIds = {l1, l2}
  OpIds = {o1, o2, o3, o4, o5}
  ClaimIds = {1, 2, 3}
  Bundles = {b1, b2}
  Gpus = {g1, g2}
  SessionOf <- MCSessionOf
  LeaseForms <- MCLeaseForms
  CommandForms <- MCCommandForms
  EvidenceForms <- MCEvidenceForms
SPECIFICATION GSSpec
INVARIANTS
  TypeOK
  ClaimsMoveTogether
  HistoryMatchesEvidence
  BorrowerTargetHasPendingAdd
PROPERTY OwnershipEndsByOwnEvidence
