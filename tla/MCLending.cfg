CONSTANTS
  d = d
  b = b
  e = e
  h = h
  n = n
  rb = rb
  re = re
  l1 = l1
  l2 = l2
  o1 = o1
  o2 = o2
  o3 = o3
  o4 = o4
  o5 = o5
  o6 = o6
  o7 = o7
  g1 = g1
  b1 = b1
  None = None
  Tasks = {d, b, e}
  Handles = {h}
  Replicas = {n, rb, re}
  LeaseIds = {l1, l2}
  OpIds = {o1, o2, o3, o4, o5, o6, o7}
  ClaimIds = {1, 2}
  Bundles = {b1}
  Gpus = {g1}
  SessionOf <- MCSessionOf
  NativeGpus <- MCNativeGpus
  LeaseForms <- MCLeaseForms
  CommandForms <- MCCommandForms
  EvidenceForms <- MCEvidenceForms
  Serial = TRUE
SPECIFICATION Spec
INVARIANTS
  LentIsOwned
  DonorHasWayBack
PROPERTY GpusAreExclusive
CHECK_DEADLOCK FALSE
