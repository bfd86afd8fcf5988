SPECIFICATION FairSpec
CONSTANTS
  Requests = {r1, r2}
  Kinds = {"valid", "unknown", "badArgs"}
  NoReq = NoReq
INVARIANTS Inv WholeAnswers LoopEndsForACause
PROPERTIES ImplementsAnswers EveryRequestAnswered Drains
