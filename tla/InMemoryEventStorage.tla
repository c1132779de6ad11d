------------------------- MODULE InMemoryEventStorage -------------------------
(***************************************************************************)
(* The save operation of InMemoryEventStorageAdapter, with its events      *)
(* database, sequence and locks.  Each writer is one call of save running  *)
(* as an asyncio task.  An action is what the task does between two awaits *)
(* (the adapter yields to the event loop at the points where a database    *)
(* backed adapter would wait), so other tasks run between any two actions. *)
(***************************************************************************)
EXTENDS EventStoreTypes

CONSTANTS
  None,           \* no task, no stream
  CancelPoints    \* the control points at which a task may be cancelled

ASSUME NoneAssumption == None \notin Writers

VARIABLES
  log,            \* the stored events in the order of _log_index
  sequence,       \* the next value of the InMemorySequence
  holder,         \* the task that holds each lock, or None
  pc,             \* where each task is in save
  request,        \* what each task publishes
  required,       \* the locks each task has still to acquire
  todo,           \* the streams each task has still to read
  current,        \* the stream each task is publishing to
  latest,         \* the position of last_stream_event, read under the locks
  last_position,  \* last_stream_position, read after the condition holds
  count,          \* the events built so far for the current stream
  added           \* the events added to each task's transaction

vars == <<log, sequence, holder, pc, request, required, todo, current, latest,
          last_position, count, added>>

Ended == {"saved", "rejected", "cancelled"}

\* The control points inside the `async with` block: all locks are held.
Inside == {"reading", "checking", "adding", "committing"}

Init ==
  /\ log = <<>>
  /\ sequence = 0
  /\ holder = [l \in LockNames |-> None]
  /\ pc = [w \in Writers |-> "idle"]
  /\ request \in [Writers -> Requests]
  /\ required = [w \in Writers |-> {}]
  /\ todo = [w \in Writers |-> {}]
  /\ current = [w \in Writers |-> None]
  /\ latest = [w \in Writers |-> NoPosition]
  /\ last_position = [w \in Writers |-> NoPosition]
  /\ count = [w \in Writers |-> 0]
  /\ added = [w \in Writers |-> <<>>]

Definition(w) == request[w].streams[current[w]]

CurrentTarget(w) == Target(request[w], current[w])

\* The control point after n events of the current stream have been added.
AfterAdding(w, n) ==
  IF n < Definition(w).events THEN "adding"
  ELSE IF todo[w] = {} THEN "committing" ELSE "reading"

\* Slip: the position of the last event is used again.
NewStoredEventOffByOne(w, after, i) ==
  [category |-> request[w].category, stream |-> current[w],
   position |-> after + i, sequence_number |-> sequence, payload |-> w]

\* Slip: the size of the log instead of the sequence.
NewStoredEventByLogSize(w, after, i) ==
  [category |-> request[w].category, stream |-> current[w],
   position |-> after + i + 1, sequence_number |-> Len(log), payload |-> w]

\* The i-th new event of the current stream, numbered from 0.
NewStoredEvent(w, after, i) ==
  [category |-> request[w].category, stream |-> current[w],
   position |-> after + i + 1, sequence_number |-> sequence, payload |-> w]

\* Leaving the `async with` block releases every lock the task holds.
Release(w) == [l \in LockNames |-> IF holder[l] = w THEN None ELSE holder[l]]

-----------------------------------------------------------------------------
\* The call: the names of the locks are determined, none is held yet.
Save(w) ==
  /\ pc[w] = "idle"
  /\ pc' = [pc EXCEPT ![w] = "acquiring"]
  /\ required' = [required EXCEPT ![w] = RequiredLocks(request[w])]
  /\ todo' = [todo EXCEPT ![w] = DOMAIN request[w].streams]
  /\ UNCHANGED <<log, sequence, holder, request, current, latest,
                 last_position, count, added>>

\* Slip: the stream names are not sorted.
NextToLockUnsorted(w, s) ==
  /\ s \in DOMAIN request[w].streams
  /\ lock_name(Target(request[w], s)) \in required[w]

\* The stream whose lock the task acquires next: the least, in the order of
\* the sorted stream names, of those whose lock is not yet held.
NextToLock(w, s) ==
  /\ s \in DOMAIN request[w].streams
  /\ lock_name(Target(request[w], s)) \in required[w]
  /\ \A u \in DOMAIN request[w].streams :
       lock_name(Target(request[w], u)) \in required[w] => s <= u

\* Slip: the coroutine of async_acquire is not awaited.
AcquireWithoutWaiting(w) ==
  /\ pc[w] = "acquiring"
  /\ \E s \in Streams :
       LET l == lock_name(Target(request[w], s)) IN
         /\ NextToLock(w, s)
         /\ holder' = [holder EXCEPT ![l] = w]
         /\ required' = [required EXCEPT ![w] = @ \ {l}]
         /\ pc' = [pc EXCEPT ![w] = IF required[w] = {l} THEN "reading" ELSE "acquiring"]
  /\ UNCHANGED <<log, sequence, request, todo, current, latest,
                 last_position, count, added>>

\* MultiLock.__aenter__ acquires one lock after the other; with the last one
\* the task enters the block and opens its transaction.
Acquire(w) ==
  /\ pc[w] = "acquiring"
  /\ \E s \in Streams :
       LET l == lock_name(Target(request[w], s)) IN
         /\ NextToLock(w, s)
         /\ holder[l] = None
         /\ holder' = [holder EXCEPT ![l] = w]
         /\ required' = [required EXCEPT ![w] = @ \ {l}]
         /\ pc' = [pc EXCEPT ![w] = IF required[w] = {l} THEN "reading" ELSE "acquiring"]
  /\ UNCHANGED <<log, sequence, request, todo, current, latest,
                 last_position, count, added>>

\* The streams are taken in the order of their sorted names.
NextToRead(w, s) == s \in todo[w] /\ \A u \in todo[w] : s <= u

ReadLastStreamEvent(w) ==
  /\ pc[w] = "reading"
  /\ \E s \in Streams :
       /\ NextToRead(w, s)
       /\ current' = [current EXCEPT ![w] = s]
       /\ todo' = [todo EXCEPT ![w] = @ \ {s}]
       /\ latest' = [latest EXCEPT ![w] = LastStreamPosition(log, Target(request[w], s))]
  /\ pc' = [pc EXCEPT ![w] = "checking"]
  /\ UNCHANGED <<log, sequence, holder, request, required, last_position,
                 count, added>>

\* The condition holds of the event read: last_stream_position is read and,
\* without yielding, the first event of the stream is built and added.
ConditionMet(w) ==
  /\ pc[w] = "checking"
  /\ Satisfied(Definition(w).condition, latest[w])
  /\ last_position' = [last_position EXCEPT ![w] = LastStreamPosition(log, CurrentTarget(w))]
  /\ \/ /\ Definition(w).events = 0
        /\ count' = [count EXCEPT ![w] = 0]
        /\ pc' = [pc EXCEPT ![w] = AfterAdding(w, 0)]
        /\ UNCHANGED <<sequence, added>>
     \/ /\ Definition(w).events > 0
        /\ count' = [count EXCEPT ![w] = 1]
        /\ pc' = [pc EXCEPT ![w] = AfterAdding(w, 1)]
        /\ sequence' = sequence + 1
        /\ added' = [added EXCEPT ![w] = Append(@, NewStoredEvent(w, last_position'[w], 0))]
  /\ UNCHANGED <<log, holder, request, required, todo, current, latest>>

\* Slip: the events of earlier streams are committed although a later stream's
\* condition fails.
ConditionUnmetCommitting(w) ==
  /\ pc[w] = "checking"
  /\ ~Satisfied(Definition(w).condition, latest[w])
  /\ log' = log \o added[w]
  /\ holder' = Release(w)
  /\ pc' = [pc EXCEPT ![w] = "rejected"]
  /\ added' = [added EXCEPT ![w] = <<>>]
  /\ UNCHANGED <<sequence, request, required, todo, current, latest,
                 last_position, count>>

\* assert_satisfied raises: the locks are released and the transaction, which
\* may already hold events of earlier streams, is dropped.
ConditionUnmet(w) ==
  /\ pc[w] = "checking"
  /\ ~Satisfied(Definition(w).condition, latest[w])
  /\ holder' = Release(w)
  /\ pc' = [pc EXCEPT ![w] = "rejected"]
  /\ added' = [added EXCEPT ![w] = <<>>]
  /\ UNCHANGED <<log, sequence, request, required, todo, current, latest,
                 last_position, count>>

\* The next event of the current stream.
AddEvent(w) ==
  /\ pc[w] = "adding"
  /\ added' = [added EXCEPT ![w] =
                 Append(@, NewStoredEvent(w, last_position[w], count[w]))]
  /\ sequence' = sequence + 1
  /\ count' = [count EXCEPT ![w] = @ + 1]
  /\ pc' = [pc EXCEPT ![w] = AfterAdding(w, count[w] + 1)]
  /\ UNCHANGED <<log, holder, request, required, todo, current, latest,
                 last_position>>

\* The transaction's events go to the database in one step, and the block is
\* left.
Commit(w) ==
  /\ pc[w] = "committing"
  /\ log' = log \o added[w]
  /\ holder' = Release(w)
  /\ pc' = [pc EXCEPT ![w] = "saved"]
  /\ added' = [added EXCEPT ![w] = <<>>]
  /\ UNCHANGED <<sequence, request, required, todo, current, latest,
                 last_position, count>>

\* A cancellation reaches the task at one of its awaits.  Inside the block
\* __aexit__ releases the locks.  During MultiLock.__aenter__ it does not run:
\* the locks acquired so far stay held for ever.
Cancel(w) ==
  /\ pc[w] \in CancelPoints \cap (Inside \cup {"acquiring"})
  /\ holder' = IF pc[w] = "acquiring" THEN holder ELSE Release(w)
  /\ pc' = [pc EXCEPT ![w] = "cancelled"]
  /\ added' = [added EXCEPT ![w] = <<>>]
  /\ UNCHANGED <<log, sequence, request, required, todo, current, latest,
                 last_position, count>>

Step(w) ==
  \/ Acquire(w) \/ ReadLastStreamEvent(w) \/ ConditionMet(w)
  \/ ConditionUnmet(w) \/ AddEvent(w) \/ Commit(w)

Next == \E w \in Writers : Save(w) \/ Step(w) \/ Cancel(w)

\* The event loop runs every task that is ready.
Fairness == \A w \in Writers : WF_vars(Step(w))

Spec == Init /\ [][Next]_vars

FairSpec == Spec /\ Fairness

-----------------------------------------------------------------------------
TypeOK ==
  /\ log \in Seq(StoredEvent)
  /\ sequence \in Nat
  /\ holder \in [LockNames -> Writers \cup {None}]
  /\ pc \in [Writers -> Ended \cup Inside \cup {"idle", "acquiring"}]
  /\ request \in [Writers -> Requests]
  /\ required \in [Writers -> SUBSET LockNames]
  /\ todo \in [Writers -> SUBSET Streams]
  /\ current \in [Writers -> Streams \cup {None}]
  /\ latest \in [Writers -> Position]
  /\ last_position \in [Writers -> Position]
  /\ count \in [Writers -> Nat]
  /\ added \in [Writers -> Seq(StoredEvent)]

\* The positions of a stream are 0, 1, 2, ... in the order readers see them:
\* concurrent saves to one stream neither repeat a position nor leave a gap.
StreamPositionsContiguous ==
  \A i \in DOMAIN log :
    /\ \A j \in DOMAIN log :
         j < i /\ SameStream(log[i], log[j]) => log[j].position < log[i].position
    /\ log[i].position > 0 =>
         \E j \in DOMAIN log :
           /\ j < i
           /\ SameStream(log[i], log[j])
           /\ log[j].position = log[i].position - 1

\* The events over which a guarantee orders: all of them, those of a category,
\* those of a stream.
SameScope(e, f) ==
  /\ Guarantee # "log" => e.category = f.category
  /\ Guarantee = "stream" => e.stream = f.stream

\* The serialisation guarantee: two events of one scope become visible in the
\* order of their sequence numbers, so a reader of that scope that remembers
\* the last sequence number it saw skips neither.
SerialisedOrder ==
  \A i, j \in DOMAIN log :
    i < j /\ SameScope(log[i], log[j])
      => log[i].sequence_number < log[j].sequence_number

\* No two events share a sequence number: _events is indexed by it, and the
\* second would overwrite the first.
NoEventOverwritten ==
  \A i, j \in DOMAIN log : i # j => log[i].sequence_number # log[j].sequence_number

\* The events readers can see, as the abstract store keeps them.
Visible(L) ==
  { [category |-> L[i].category, stream |-> L[i].stream,
     position |-> L[i].position, payload |-> L[i].payload] : i \in DOMAIN L }

Outcome ==
  [w \in Writers |-> IF pc[w] \in Inside \cup {"acquiring"} THEN "pending" ELSE pc[w]]

\* save is atomic and its write conditions hold at the very step at which its
\* events become visible (or one fails at the very step of the rejection),
\* whatever other saves did since they were checked.
Atomic == INSTANCE AtomicEventStore WITH events <- Visible(log), outcome <- Outcome

AtomicSpec == Atomic!Spec

\* A lock whose holder has ended: a task was cancelled inside __aenter__.
LockLeaked == \E l \in LockNames : holder[l] # None /\ pc[holder[l]] \in Ended

\* Every call of save returns: tasks that need several locks do not wait for
\* each other in a circle, and no lock stays held unless a task was cancelled
\* while it was acquiring several.
EverySaveReturns ==
  \A w \in Writers : (pc[w] = "acquiring") ~> (pc[w] \in Ended \/ LockLeaked)
=============================================================================
