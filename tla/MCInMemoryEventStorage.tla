------------------------ MODULE MCInMemoryEventStorage ------------------------
(***************************************************************************)
(* A small instance of InMemoryEventStorage: three writers, one category   *)
(* of two streams, requests that overlap.                                  *)
(***************************************************************************)
EXTENDS InMemoryEventStorage, WriteConditions, TLC

Publish(n, c) == [events |-> n, condition |-> c]

On(c, streams) == [category |-> c, streams |-> streams]

\* Stream level and category level publishes that meet on the same streams.
MixedRequests ==
  { On("a", 1 :> Publish(2, NoCondition)),
    On("a", 1 :> Publish(1, EmptyStreamCondition)),
    On("a", 2 :> Publish(1, NoCondition)),
    On("a", 1 :> Publish(1, NoCondition) @@ 2 :> Publish(2, EmptyStreamCondition)),
    On("a", 1 :> Publish(1, Or(EmptyStreamCondition, PositionIsCondition(1)))
            @@ 2 :> Publish(0, NoCondition)) }
=============================================================================
