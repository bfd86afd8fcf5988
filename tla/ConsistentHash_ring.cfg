SPECIFICATION RingSpec
CONSTANTS
  Nodes = {n1, n2, n3}
  Replicas = 2
  MaxHash = 3
  MaxAdded = 2
  MaxKeys = 4
SYMMETRY Symmetry
INVARIANTS Inv
PROPERTY MovesOnlyToAdded
