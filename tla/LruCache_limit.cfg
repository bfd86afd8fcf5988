SPECIFICATION FairSpec
CONSTANTS
  k1 = k1
  k2 = k2
  k3 = k3
  Keys = {k1, k2, k3}
  KeyLen <- MCKeyLen
  ValueLens = {0, 1, 3, 5}
  MaxBytes = 5
INVARIANTS Consistent MostRecentKept
PROPERTY AddEnds
