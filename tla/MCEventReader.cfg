CONSTANTS
  Categories = {"a", "b"}
  Streams = {1, 2}
  w1 = w1
  w2 = w2
  w3 = w3
  Writers = {w1, w2, w3}
  None = None
  Requests <- CategoryRequests
  Guarantee = "category"
  Satisfied <- assert_satisfied
  CancelPoints = {"adding"}
  ReadTarget <- CategoryA
SPECIFICATION ReaderSpec
INVARIANT DeliveredExactly
PROPERTY EveryEventDelivered
