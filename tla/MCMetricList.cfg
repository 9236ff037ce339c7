SPECIFICATION Spec
CONSTANTS
  Lists = {l1, l2, l3}
  Nodes = {n1, n2, n3, n4}
  NULL = NULL
  Weights = {1, 2}
  Contents <- MCContents
  Hosts = {"little", "big"}
  ShortMod = 4
  Short <- MCShort
  LongMod = 256
  Long <- MCLong
SYMMETRY MCSymmetry
INVARIANTS
  WellFormed
  DataSizeExact
  ReadAsWritten
PROPERTIES
  ImplementsQueues
