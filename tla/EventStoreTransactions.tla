------------------------ MODULE EventStoreTransactions ------------------------
(***************************************************************************)
(* The transaction decorators of the event store around handlers that      *)
(* publish to the postgres adapter.  A handler may first read the last     *)
(* event of a stream and make its publish conditional on it.               *)
(* retry_on_unmet_condition_error calls the handler again when a write     *)
(* condition is unmet, ignore_on_unmet_condition_error swallows the error. *)
(***************************************************************************)
EXTENDS PostgresEventStorage

CONSTANTS
  Decorator,      \* the decorator of each writer's handler
  Tries,          \* tries of retry_on_error
  Handlers,       \* the writers whose handler reads before it publishes
  HandlerStream,  \* the stream they read
  Reaction(_),    \* what they publish when its last event is at that position
  Plain           \* what the other writers publish

ASSUME TriesAssumption == Tries \in Nat
ASSUME HandlersAssumption == Handlers \subseteq Writers
ASSUME PlainAssumption == Plain \subseteq Requests
ASSUME DecoratorAssumption == Decorator \in [Writers -> {"none", "retry", "ignore"}]
ASSUME HandlerStreamAssumption == HandlerStream \in StreamIdentifier

VARIABLES
  attempts,   \* how often each handler has been called
  ready,      \* whether it is about to publish
  result      \* what the decorated call has come to

transaction == <<attempts, ready, result>>

TransactionInit ==
  /\ \A w \in Writers :
       IF w \in Handlers THEN request[w] = Reaction(NoPosition) ELSE request[w] \in Plain
  /\ attempts = [w \in Writers |-> 0]
  /\ ready = [w \in Writers |-> FALSE]
  /\ result = [w \in Writers |-> "pending"]

\* The handler is called; what it read is stale by the time it publishes.
Handle(w) ==
  /\ pc[w] = "idle" /\ ~ready[w]
  /\ request' = [request EXCEPT ![w] =
                   IF w \in Handlers THEN Reaction(read_last(HandlerStream)) ELSE @]
  /\ attempts' = [attempts EXCEPT ![w] = @ + 1]
  /\ ready' = [ready EXCEPT ![w] = TRUE]
  /\ UNCHANGED <<table, sequence, holder, pc, required, latest, inserted, result>>

PublishHandled(w) == ready[w] /\ Save(w) /\ UNCHANGED transaction

\* Slip: one try less.
RetriableOnceLess(w) ==
  pc[w] = "rejected" /\ Decorator[w] = "retry" /\ attempts[w] + 1 < Tries

\* retry_on_error: an unmet condition, unless this was the last try.
Retriable(w) ==
  pc[w] = "rejected" /\ Decorator[w] = "retry" /\ attempts[w] < Tries

Retry(w) ==
  /\ result[w] = "pending"
  /\ Retriable(w)
  /\ pc' = [pc EXCEPT ![w] = "idle"]
  /\ ready' = [ready EXCEPT ![w] = FALSE]
  /\ UNCHANGED <<table, sequence, holder, request, required, latest, inserted, attempts, result>>

\* Slip: the error of the last try is swallowed.
ConcludeSilently(w) ==
  /\ result[w] = "pending"
  /\ pc[w] \in Ended /\ ~Retriable(w)
  /\ result' = [result EXCEPT ![w] = IF pc[w] = "failed" THEN "raised" ELSE "returned"]
  /\ UNCHANGED <<vars, attempts, ready>>

\* The decorated call returns what the handler returns, returns nothing, or
\* raises the handler's error.
Conclude(w) ==
  /\ result[w] = "pending"
  /\ pc[w] \in Ended /\ ~Retriable(w)
  /\ result' = [result EXCEPT ![w] =
                  IF pc[w] = "saved" THEN "returned"
                  ELSE IF pc[w] = "rejected" /\ Decorator[w] = "ignore" THEN "ignored"
                  ELSE "raised"]
  /\ UNCHANGED <<vars, attempts, ready>>

Transact(w) ==
  \/ Handle(w) \/ PublishHandled(w) \/ Retry(w) \/ Conclude(w)
  \/ (Step(w) /\ UNCHANGED transaction)

TransactionNext ==
  \E w \in Writers : Transact(w) \/ ((Fail(w) \/ CommitUnanswered(w)) /\ UNCHANGED transaction)

TransactionSpec == Init /\ TransactionInit /\ [][TransactionNext]_<<vars, transaction>>

-----------------------------------------------------------------------------
Own(w) == {e \in table : e.payload = w}

StoredOnce(w) ==
  \A s \in DOMAIN request[w].streams :
    Cardinality(Rows(Own(w), Target(request[w], s))) = request[w].streams[s].events

\* The answer is the truth: a decorated call that returns the stored events has
\* stored the events of its request once, over all its tries; one that raises
\* the unmet condition, or ignores it, has stored nothing.  One that raises
\* because its session failed leaves open whether it has stored: it has stored
\* all of its request once, where only the answer was lost, or nothing.
StoredAsAnswered ==
  \A w \in Writers :
    /\ result[w] = "returned" => StoredOnce(w)
    /\ result[w] = "ignored" \/ (result[w] = "raised" /\ pc[w] = "rejected") => Own(w) = {}
    /\ result[w] = "raised" => Own(w) = {} \/ StoredOnce(w)

\* As many tries as there are writers are enough: a retried handler whose
\* publish is conditional on what it has just read fails at most once for
\* each publish of another writer.
RetriesSuffice ==
  Tries >= Cardinality(Writers) =>
    \A w \in Handlers :
      Decorator[w] = "retry" /\ result[w] = "raised" => pc[w] = "failed"

\* Every decorated call ends: category publishes that need several locks do
\* not wait for each other in a circle, and retries come to an end.
EveryCallEnds == <>(\A w \in Writers : result[w] # "pending")
=============================================================================
