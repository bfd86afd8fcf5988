SPECIFICATION ClusterFairSpec
\* A cluster without requests rests, and a circle or a panic leaves goroutines waiting;
\* EveryGetReturns says that no others do.
CHECK_DEADLOCK FALSE
CONSTANTS
  n1 = n1
  n2 = n2
  blank = blank
  plus = plus
  g1 = g1
  g2 = g2
  Nodes = {n1, n2}
  Names = {blank, plus}
  Rings <- MCRings
  NoRing = NoRing
  Gets = {g1, g2}
  At <- MCAt
  NameOf <- MCNameOf
  Sent <- MCSent
  MaxHops = 2
  Callers <- MCTasks
  Keys <- MCKeys
  MayPanic = TRUE
  NoCall = NoCall
INVARIANTS Inv NeverLoadsCached OneExecution SharedResult NoReuseAfterReturn
PROPERTY EveryGetReturns
