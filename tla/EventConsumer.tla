---------------------------- MODULE EventConsumer ----------------------------
(***************************************************************************)
(* An event consumer: EventSourceConsumer.consume_all called again and     *)
(* again by its polling service, its processor manager, and the            *)
(* EventConsumerStateStore that keeps the progress of the consumer in a    *)
(* stream of the event store.  Several consumers may share the source and  *)
(* the state stream: the source is handed from one subscriber to another,  *)
(* and a consumer that loses it finishes the run it is in.                 *)
(*                                                                         *)
(* The processor is a ProjectionEventProcessor: it locates the projection, *)
(* applies the event to what it has read, and saves the result.            *)
(*                                                                         *)
(* The event store is used through what AtomicEventStore and               *)
(* DeliveredExactly promise: a conditional publish is atomic, and a reader *)
(* gets all events in the order of their sequence numbers, 1, 2, 3, ...    *)
(***************************************************************************)
EXTENDS Integers, Sequences

CONSTANTS
  Consumers,     \* instances that may consume the source
  Interval,      \* persistence_interval; 0 when it is None
  SaveAfter,     \* save_state_after_consumption
  MaxEvents,     \* bound: events published to the source
  MaxFaults      \* bound: crashes, failures of processing and of calls, hand overs

ASSUME ConsumersAssumption == Consumers # {}
ASSUME IntervalAssumption == Interval \in Nat
ASSUME SaveAfterAssumption == SaveAfter \in BOOLEAN
ASSUME BoundsAssumption == MaxEvents \in Nat /\ MaxFaults \in Nat

NoState == 0        \* no event processed: no query constraint
NoPosition == -1    \* the state stream has no event

VARIABLES
  source,     \* the events published to the source so far
  owner,      \* the consumer the source is allocated to
  accepted,   \* the consumers whose subscription has accepted the source
  stream,     \* the state stream: the last_sequence_number of each state saved
  processed,  \* the events whose processing has had its effect
  projection, \* the events applied to the stored projection
  located,    \* the projection each consumer has read
  state,      \* _states: the cached state of each consumer
  position,   \* _positions: the cached position of the last state saved
  lag,        \* _persistence_lags: events acknowledged since the last save
  pc,         \* where each consumer is in consume_all
  after,      \* the last event each scan has yielded, or its constraint
  until,      \* the last event of each scan's snapshot
  expected,   \* the position a save expects the state stream to be at
  shared,     \* history: whether the source has ever been handed over
  answers,    \* history: whether each consumer got the answers to its saves
  missed,     \* history: the saves that failed without effect
  faults      \* faults so far

allocation == <<owner, accepted, shared>>
effects == <<processed, projection, located>>
faulty == <<answers, missed, faults>>

vars == <<source, allocation, stream, effects, state, position, lag, pc,
          after, until, expected, faulty>>

Init ==
  /\ source = 0
  /\ owner = CHOOSE c \in Consumers : TRUE
  /\ accepted = {}
  /\ stream = <<>>
  /\ processed = {}
  /\ projection = {}
  /\ located = [c \in Consumers |-> {}]
  /\ shared = FALSE
  /\ state = [c \in Consumers |-> NoState]
  /\ position = [c \in Consumers |-> NoPosition]
  /\ lag = [c \in Consumers |-> 0]
  /\ pc = [c \in Consumers |-> "idle"]
  /\ after = [c \in Consumers |-> NoState]
  /\ until = [c \in Consumers |-> 0]
  /\ expected = [c \in Consumers |-> NoPosition]
  /\ answers = [c \in Consumers |-> "all"]
  /\ missed = 0
  /\ faults = 0

\* consume_all returns or raises: its local variables are gone.
EndRun(c) ==
  /\ pc' = [pc EXCEPT ![c] = "idle"]
  /\ located' = [located EXCEPT ![c] = {}]
  /\ after' = [after EXCEPT ![c] = NoState]
  /\ until' = [until EXCEPT ![c] = 0]
  /\ expected' = [expected EXCEPT ![c] = NoPosition]

LatestPosition == Len(stream) - 1

LatestState == IF stream = <<>> THEN NoState ELSE stream[Len(stream)]

\* A writer publishes an event to the source.
Publish ==
  /\ source < MaxEvents
  /\ source' = source + 1
  /\ UNCHANGED <<allocation, stream, effects, state, position, lag, pc,
                 after, until, expected, faulty>>

\* load: the state is read from the store unless one is cached.
Load(c) ==
  /\ pc[c] = "idle" /\ c \in accepted
  /\ IF state[c] = NoState
       THEN /\ state' = [state EXCEPT ![c] = LatestState]
            /\ position' = [position EXCEPT ![c] = LatestPosition]
       ELSE UNCHANGED <<state, position>>
  /\ after' = [after EXCEPT ![c] = state'[c]]
  /\ pc' = [pc EXCEPT ![c] = "loaded"]
  /\ UNCHANGED <<source, allocation, stream, effects, lag, until, expected, faulty>>

\* Slip: the last event of the source is left out.
OpenScanExclusive(c) ==
  /\ pc[c] = "loaded"
  /\ until' = [until EXCEPT ![c] = IF source = 0 THEN 0 ELSE source - 1]
  /\ pc' = [pc EXCEPT ![c] = "iterating"]
  /\ UNCHANGED <<source, allocation, stream, effects, state, position, lag,
                 after, expected, faulty>>

\* The scan of the source takes its snapshot.
OpenScan(c) ==
  /\ pc[c] = "loaded"
  /\ until' = [until EXCEPT ![c] = source]
  /\ pc' = [pc EXCEPT ![c] = "iterating"]
  /\ UNCHANGED <<source, allocation, stream, effects, state, position, lag, after,
                 expected, faulty>>

\* The iterator yields the next event; process_event locates the projection ...
Locate(c) ==
  /\ pc[c] = "iterating"
  /\ after[c] < until[c]
  /\ located' = [located EXCEPT ![c] = projection]
  /\ pc' = [pc EXCEPT ![c] = "located"]
  /\ UNCHANGED <<source, allocation, stream, processed, projection, state, position,
                 lag, after, until, expected, faulty>>

\* The handler of the event is applied to the state of the projection, or to
\* the initial state when there is none.
Project(current, e) == current \cup {e}

\* Slip: the state of the located projection is not passed on to the projector.
ProcessAnew(c) ==
  /\ pc[c] = "located"
  /\ after' = [after EXCEPT ![c] = @ + 1]
  /\ projection' = Project({}, after[c] + 1)
  /\ located' = [located EXCEPT ![c] = {}]
  /\ processed' = processed \cup {after[c] + 1}
  /\ pc' = [pc EXCEPT ![c] = "processed"]
  /\ UNCHANGED <<source, allocation, stream, state, position, lag, until, expected, faulty>>

\* ... applies the event to what it has read and saves the outcome.
Process(c) ==
  /\ pc[c] = "located"
  /\ after' = [after EXCEPT ![c] = @ + 1]
  /\ projection' = Project(located[c], after[c] + 1)
  /\ located' = [located EXCEPT ![c] = {}]
  /\ processed' = processed \cup {after[c] + 1}
  /\ pc' = [pc EXCEPT ![c] = "processed"]
  /\ UNCHANGED <<source, allocation, stream, state, position, lag, until, expected, faulty>>

\* Slip: the next event is acknowledged instead of the last one.
AcknowledgeAhead(c) ==
  /\ pc[c] = "processed"
  /\ state' = [state EXCEPT ![c] = after[c] + 1]
  /\ lag' = [lag EXCEPT ![c] = @ + 1]
  /\ pc' = [pc EXCEPT ![c] =
              IF Interval > 0 /\ lag[c] + 1 >= Interval THEN "saving" ELSE "iterating"]
  /\ UNCHANGED <<source, allocation, stream, effects, position, after, until,
                 expected, faulty>>

\* Slip: the lag has to exceed the interval.
AcknowledgeLate(c) ==
  /\ pc[c] = "processed"
  /\ state' = [state EXCEPT ![c] = after[c]]
  /\ lag' = [lag EXCEPT ![c] = @ + 1]
  /\ pc' = [pc EXCEPT ![c] =
              IF Interval > 0 /\ lag[c] + 1 > Interval THEN "saving" ELSE "iterating"]
  /\ UNCHANGED <<source, allocation, stream, effects, position, after, until,
                 expected, faulty>>

\* Asked for the next event, the iterator acknowledges the last one and, when
\* the lag has reached the interval, saves the state.
Acknowledge(c) ==
  /\ pc[c] = "processed"
  /\ state' = [state EXCEPT ![c] = after[c]]
  /\ lag' = [lag EXCEPT ![c] = @ + 1]
  /\ pc' = [pc EXCEPT ![c] =
              IF Interval > 0 /\ lag[c] + 1 >= Interval THEN "saving" ELSE "iterating"]
  /\ UNCHANGED <<source, allocation, stream, effects, position, after, until,
                 expected, faulty>>

\* Slip: the forced commit at the end of a run is left out.
ExhaustedUnsaved(c) ==
  /\ pc[c] = "iterating"
  /\ after[c] >= until[c]
  /\ EndRun(c)
  /\ UNCHANGED <<source, allocation, stream, processed, projection, state, position,
                 lag, faulty>>

\* The scan is exhausted: the state is saved if need be, and consume_all
\* returns.
Exhausted(c) ==
  /\ pc[c] = "iterating"
  /\ after[c] >= until[c]
  /\ IF SaveAfter /\ lag[c] > 0
       THEN pc' = [pc EXCEPT ![c] = "saving"] /\ UNCHANGED <<located, after, until, expected>>
       ELSE EndRun(c)
  /\ UNCHANGED <<source, allocation, stream, processed, projection, state, position,
                 lag, faulty>>

\* save: the position to expect is the cached one; without one it is read.
ExpectPosition(c) ==
  /\ pc[c] = "saving"
  /\ expected' = [expected EXCEPT ![c] =
                    IF position[c] = NoPosition THEN LatestPosition ELSE position[c]]
  /\ pc' = [pc EXCEPT ![c] = "publishing"]
  /\ UNCHANGED <<source, allocation, stream, effects, state, position, lag, after,
                 until, faulty>>

\* The state is published, on condition that the stream is at that position.
SaveState(c) ==
  /\ pc[c] = "publishing"
  /\ expected[c] = LatestPosition
  /\ stream' = Append(stream, state[c])
  /\ position' = [position EXCEPT ![c] = Len(stream)]
  /\ lag' = [lag EXCEPT ![c] = 0]
  /\ expected' = [expected EXCEPT ![c] = NoPosition]
  /\ pc' = [pc EXCEPT ![c] = "iterating"]
  /\ UNCHANGED <<source, allocation, effects, state, after, until, faulty>>

\* The state is published, but the answer is lost and the call raises: neither
\* the position nor the lag is updated, and a position cached before is stale
\* from then on, until the process is restarted.
SaveUnanswered(c) ==
  /\ faults < MaxFaults
  /\ pc[c] = "publishing"
  /\ expected[c] = LatestPosition
  /\ stream' = Append(stream, state[c])
  /\ EndRun(c)
  /\ answers' = [answers EXCEPT ![c] = IF position[c] = NoPosition THEN @ ELSE "lost"]
  /\ faults' = faults + 1
  /\ UNCHANGED <<source, allocation, processed, projection, state, position, lag, missed>>

\* The condition is unmet: the error ends consume_all; what is cached stays.
SaveRejected(c) ==
  /\ pc[c] = "publishing"
  /\ expected[c] # LatestPosition
  /\ EndRun(c)
  /\ UNCHANGED <<source, allocation, stream, processed, projection, state, position,
                 lag, faulty>>

-----------------------------------------------------------------------------
\* process_event raises, before or after its effect: nothing is acknowledged,
\* and the next consume_all starts after the last acknowledged event.
ProcessingFails(c) ==
  /\ faults < MaxFaults
  /\ pc[c] \in {"located", "processed"}
  /\ EndRun(c)
  /\ faults' = faults + 1
  /\ UNCHANGED <<source, allocation, stream, processed, projection, state, position, lag,
                 answers, missed>>

\* A call to the event store raises without effect: the scan of the source, the
\* read of the latest position, or the publish of the state.  The error ends
\* consume_all; what is cached stays.
CallFails(c) ==
  /\ faults < MaxFaults
  /\ \/ pc[c] \in {"loaded", "iterating"} /\ UNCHANGED missed
     \/ /\ pc[c] = "publishing" \/ (pc[c] = "saving" /\ position[c] = NoPosition)
        /\ missed' = missed + 1
  /\ EndRun(c)
  /\ faults' = faults + 1
  /\ UNCHANGED <<source, allocation, stream, processed, projection, state, position, lag,
                 answers>>

\* The process dies and is started again: nothing cached survives, and the
\* source has to be accepted again.
Crash(c) ==
  /\ faults < MaxFaults
  /\ accepted' = accepted \ {c}
  /\ state' = [state EXCEPT ![c] = NoState]
  /\ position' = [position EXCEPT ![c] = NoPosition]
  /\ lag' = [lag EXCEPT ![c] = 0]
  /\ EndRun(c)
  /\ answers' = [answers EXCEPT ![c] = IF @ = "lost" THEN "restarted" ELSE @]
  /\ faults' = faults + 1
  /\ UNCHANGED <<source, owner, shared, stream, processed, projection, missed>>

\* The coordinator allocates the source to another consumer.
HandOver(c) ==
  /\ faults < MaxFaults
  /\ owner # c
  /\ owner' = c
  /\ shared' = TRUE
  /\ faults' = faults + 1
  /\ UNCHANGED <<source, accepted, stream, effects, state, position, lag, pc,
                 after, until, expected, answers, missed>>

\* The observers of the two consumers follow, in either order.  accept makes a
\* new delegate that shares the subscriber's state store; withdraw drops the
\* delegate but does not interrupt a run that is in progress.
Accept(c) ==
  /\ owner = c /\ c \notin accepted
  /\ accepted' = accepted \cup {c}
  /\ UNCHANGED <<source, owner, shared, stream, effects, state, position, lag, pc,
                 after, until, expected, faulty>>

Withdraw(c) ==
  /\ owner # c /\ c \in accepted
  /\ accepted' = accepted \ {c}
  /\ UNCHANGED <<source, owner, shared, stream, effects, state, position, lag, pc,
                 after, until, expected, faulty>>

Work(c) ==
  \/ Load(c) \/ OpenScan(c) \/ Locate(c) \/ Process(c) \/ Acknowledge(c) \/ Exhausted(c)
  \/ ExpectPosition(c) \/ SaveState(c) \/ SaveRejected(c)

Next ==
  \/ Publish
  \/ \E c \in Consumers :
       \/ Work(c) \/ ProcessingFails(c) \/ CallFails(c) \/ SaveUnanswered(c) \/ Crash(c)
       \/ HandOver(c) \/ Accept(c) \/ Withdraw(c)

\* The polling service keeps calling consume_all, retried when it raises, and
\* the observers keep synchronising.
Fairness ==
  \A c \in Consumers : WF_vars(Work(c)) /\ WF_vars(Accept(c)) /\ WF_vars(Withdraw(c))

Spec == Init /\ [][Next]_vars

FairSpec == Spec /\ Fairness

-----------------------------------------------------------------------------
TypeOK ==
  /\ source \in Nat
  /\ owner \in Consumers
  /\ accepted \subseteq Consumers
  /\ stream \in Seq(Nat)
  /\ processed \in SUBSET Nat
  /\ projection \in SUBSET Nat
  /\ located \in [Consumers -> SUBSET Nat]
  /\ shared \in BOOLEAN
  /\ state \in [Consumers -> Nat]
  /\ position \in [Consumers -> Nat \cup {NoPosition}]
  /\ lag \in [Consumers -> Nat]
  /\ pc \in [Consumers -> {"idle", "loaded", "iterating", "located", "processed",
                           "saving", "publishing"}]
  /\ after \in [Consumers -> Nat]
  /\ until \in [Consumers -> Nat]
  /\ expected \in [Consumers -> Nat \cup {NoPosition}]
  /\ answers \in [Consumers -> {"all", "lost", "restarted"}]
  /\ missed \in Nat
  /\ faults \in Nat

\* At least once: progress is never saved beyond an event that has not been
\* processed, whichever consumer saves it and whatever faults came before.
ProcessedBeforeSaved ==
  \A i \in DOMAIN stream : 1 .. stream[i] \subseteq processed

\* A crash repeats at most Interval events, and one more for each save that has
\* failed: a consumer that has the source to itself processes no more than that
\* beyond the progress it has saved.  The exception is a save whose answer is
\* lost when a position is cached, which has all later saves refused.
RedeliveryBounded ==
  ~shared /\ answers[owner] = "all" =>
    \A e \in processed : e <= LatestState + Interval + missed

\* What is saved as progress is in the projection: reading the projection and
\* writing it back loses no event when the consumer has the source to itself.
ProjectionCoversProgress == ~shared => 1 .. LatestState \subseteq projection

\* Every event published to the source is processed.
EveryEventProcessed ==
  \A e \in 1 .. MaxEvents : (e <= source) ~> (e \in processed)

\* The progress saved catches up with the source, ...
ProgressSaved ==
  \A e \in 1 .. MaxEvents : (e <= source) ~> (e <= LatestState)

\* ... certainly when the source has always had the same consumer: whatever
\* crashed and failed, it saves again, unless the answer to a save is lost when
\* a position is cached, and then after a restart.
OwnProgressSaved ==
  \A e \in 1 .. MaxEvents :
    (e <= source) ~> (shared \/ answers[owner] = "lost" \/ e <= LatestState)
=============================================================================
