------------------------ MODULE MCPostgresEventStorage ------------------------
(***************************************************************************)
(* A small instance of the postgres adapter: sessions that publish to one  *)
(* category under the stream guarantee, one of them in a handler that      *)
(* reads first, and a reader of one stream.                                *)
(***************************************************************************)
EXTENDS PostgresEventReader, WriteConditions, TLC

CONSTANTS w1, w2, w3

Publish(n, c) == [events |-> n, condition |-> c]

Stream(s, n, c) == [level |-> "stream", category |-> "a", streams |-> s :> Publish(n, c)]

Category(streams) == [level |-> "category", category |-> "a", streams |-> streams]

\* What a handler publishes when the last event is at position p.
AppendAt(p) ==
  Stream(1, 1, IF p = NoPosition THEN EmptyStreamCondition ELSE PositionIsCondition(p))

PlainRequests ==
  { Stream(1, 2, NoCondition),
    Category(1 :> Publish(1, NoCondition) @@ 2 :> Publish(1, EmptyStreamCondition)),
    Category(1 :> Publish(0, NoCondition) @@ 2 :> Publish(0, NoCondition)) }

AllRequests == PlainRequests \cup {AppendAt(p) : p \in -1 .. 4}

DecoratorOf == (w1 :> "retry") @@ (w2 :> "ignore") @@ (w3 :> "none")

StreamOne == [category |-> "a", stream |-> 1]

ReadStreamOne == [kind |-> "stream", category |-> "a", stream |-> 1]
=============================================================================
