CONSTANTS
  None = None
  Producers = {p1, p2}
  Samples = {s1, s2, s3}
  Digests = {d1, d2}
  MaxQueue = 2
  MaxFailures = 2
  MaxEnds = 1
SPECIFICATION Spec
INVARIANTS
  AtMostOnce
  EvidenceIsTruthful
  SequenceIsQueueOrder
PROPERTY EvidenceIsStable
SYMMETRY Symmetry
