SPECIFICATION FairSpec
CONSTANTS
  SyncCalls = {s1}
  DeadlineCalls = {s1}
  AsyncCalls = {g1}
  AsyncCap = 1
  Receiver = Receiver
  NoOne = NoOne
INVARIANTS Inv ReplyIsOwn NoOrphan RevokedUntouched
PROPERTIES ImplementsCalls EveryCallReturns
