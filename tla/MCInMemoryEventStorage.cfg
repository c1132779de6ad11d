CONSTANTS
  Categories = {"a"}
  Streams = {1, 2}
  w1 = w1
  w2 = w2
  w3 = w3
  Writers = {w1, w2, w3}
  None = None
  Requests <- MixedRequests
  Guarantee = "stream"
  Satisfied <- assert_satisfied
  CancelPoints = {"acquiring", "reading", "checking", "adding", "committing"}
SPECIFICATION FairSpec
INVARIANTS
  TypeOK
  StreamPositionsContiguous
  SerialisedOrder
  NoEventOverwritten
PROPERTIES
  AtomicSpec
  EverySaveReturns
CHECK_DEADLOCK FALSE
