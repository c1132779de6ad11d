--------------------------- MODULE AtomicEventStore ---------------------------
(***************************************************************************)
(* What an event storage adapter promises its callers: save is one atomic  *)
(* step.  It either appends the events of every stream of the request, at  *)
(* the positions that follow the streams' last ones, provided every write  *)
(* condition accepts the stream as it is in that very step; or it appends  *)
(* nothing, because one of the conditions does not accept its stream in    *)
(* that very step, or because the call was abandoned.  The caller of a     *)
(* call that was cancelled does not know which of the two it has done.     *)
(***************************************************************************)
EXTENDS EventStoreTypes

VARIABLES
  events,     \* the events that readers can see, without sequence numbers
  request,    \* the request of each call of save
  outcome     \* how far each call has come

vars == <<events, request, outcome>>

PositionsOf(E, id) == {e.position : e \in {f \in E : InStream(f, id)}}

LatestPosition(E, id) ==
  IF PositionsOf(E, id) = {} THEN NoPosition
  ELSE LastIndex(PositionsOf(E, id))

\* The events that publishing request r for writer w adds to E.
NewEvents(E, w, r) ==
  UNION { { [category |-> r.category, stream |-> s, position |-> p, payload |-> w] :
              p \in (LatestPosition(E, Target(r, s)) + 1)
                      .. (LatestPosition(E, Target(r, s)) + r.streams[s].events) } :
          s \in DOMAIN r.streams }

Accepts(E, r, s) == Satisfied(r.streams[s].condition, LatestPosition(E, Target(r, s)))

Init ==
  /\ events = {}
  /\ request \in [Writers -> Requests]
  /\ outcome = [w \in Writers |-> "idle"]

\* The caller decides what to publish, also after a rejection.
Prepare(w) ==
  /\ outcome[w] \in {"idle", "rejected"}
  /\ outcome' = [outcome EXCEPT ![w] = "idle"]
  /\ request' \in {[request EXCEPT ![w] = r] : r \in Requests}
  /\ UNCHANGED events

Call(w) ==
  /\ outcome[w] = "idle"
  /\ outcome' = [outcome EXCEPT ![w] = "pending"]
  /\ UNCHANGED <<events, request>>

PublishWith(w, answer) ==
  /\ outcome[w] = "pending"
  /\ \A s \in DOMAIN request[w].streams : Accepts(events, request[w], s)
  /\ events' = events \cup NewEvents(events, w, request[w])
  /\ outcome' = [outcome EXCEPT ![w] = answer]
  /\ UNCHANGED request

Publish(w) == PublishWith(w, "saved")

\* The events are stored, and the caller is not told.
PublishUnanswered(w) == PublishWith(w, "cancelled")

Reject(w) ==
  /\ outcome[w] = "pending"
  /\ \E s \in DOMAIN request[w].streams : ~Accepts(events, request[w], s)
  /\ outcome' = [outcome EXCEPT ![w] = "rejected"]
  /\ UNCHANGED <<events, request>>

Abandon(w) ==
  /\ outcome[w] = "pending"
  /\ outcome' = [outcome EXCEPT ![w] = "cancelled"]
  /\ UNCHANGED <<events, request>>

Next ==
  \E w \in Writers :
    \/ Prepare(w) \/ Call(w) \/ Publish(w) \/ PublishUnanswered(w)
    \/ Reject(w) \/ Abandon(w)

Spec == Init /\ [][Next]_vars
=============================================================================
