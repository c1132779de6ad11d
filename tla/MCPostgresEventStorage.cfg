CONSTANTS
  Categories = {"a"}
  Streams = {1, 2}
  w1 = w1
  w2 = w2
  w3 = w3
  Writers = {w1, w2, w3}
  None = None
  Requests <- AllRequests
  Guarantee = "stream"
  Satisfied <- assert_satisfied
  FailPoints = {"locking", "reading", "enforcing", "inserting", "committing"}
  Decorator <- DecoratorOf
  Tries = 3
  Handlers = {w1}
  HandlerStream <- StreamOne
  Reaction <- AppendAt
  Plain <- PlainRequests
  ReadTarget <- ReadStreamOne
  PageSize = 2
SPECIFICATION ReaderSpec
INVARIANTS
  StreamPositionsGapless
  StoredAsAnswered
  RetriesSuffice
  DeliveredExactly
PROPERTIES
  CommitsInOrder
  AtomicSpec
  LastPageIsTheEnd
  EveryCallEnds
