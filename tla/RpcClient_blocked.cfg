SPECIFICATION FairSpec
CONSTANTS
  SyncCalls = {s1}
  DeadlineCalls = {s1}
  AsyncCalls = {g1, g2}
  AsyncCap = 1
  Receiver = Receiver
  NoOne = NoOne
PROPERTY DeadlineReturns
