SPECIFICATION FairSpec
CONSTANTS
  a1 = a1
  a2 = a2
  b1 = b1
  b2 = b2
  c1 = c1
  Addrs = {a1, a2}
  Casters = {b1, b2}
  Callers = {c1}
  AddrOf <- MCAddrOf
  MaxDials = 2
  NoClient = NoClient
  NoOne = NoOne
INVARIANTS Inv AllOrError
PROPERTY FailedBroadcastEnds
