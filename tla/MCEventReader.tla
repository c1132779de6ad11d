---------------------------- MODULE MCEventReader ----------------------------
(***************************************************************************)
(* A small instance of EventReader: three writers and a reader whose       *)
(* target is at the level of the serialisation guarantee.                  *)
(***************************************************************************)
EXTENDS EventReader, WriteConditions, TLC

Publish(n, c) == [events |-> n, condition |-> c]

On(c, streams) == [category |-> c, streams |-> streams]

CategoryRequests ==
  { On("a", 1 :> Publish(2, NoCondition)),
    On("a", 2 :> Publish(1, NoCondition)),
    On("a", 1 :> Publish(1, EmptyStreamCondition) @@ 2 :> Publish(1, NoCondition)),
    On("b", 1 :> Publish(1, NoCondition)) }

CategoryA == [kind |-> "category", category |-> "a"]
=============================================================================
