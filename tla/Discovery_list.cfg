SPECIFICATION FairSpec
CONSTANTS
  a1 = a1
  a2 = a2
  Addrs = {a1, a2}
  Blank = Blank
  Users = {u1, u2}
  Updates <- MCUpdates
  MaxIndex = 3
  Fails = TRUE
  NoOne = NoOne
INVARIANTS Inv RoundRobin
PROPERTY EveryGetReturns
