# A TLA+ model of event.store

`logicblocks.event` is a Python library for event sourcing: an event store with
in-memory and PostgreSQL storage, event consumers that remember how far they
have come, a broker that distributes event sources over the consumers of several
processes, and projections with queries. This project models it, checks the models
with TLC on small instances and proves the safety properties of storage, readers,
consumers, brokers, lock manager, services and queries with TLAPS.

Paths below are relative to `src/src/logicblocks/event/`.

## 1. The system

### Components, their state and operations

| Component | State | Operations |
|---|---|---|
| Event store (`store/store.py`, `store/adapters/base.py`) | none of its own | `publish` to a stream, or to several streams of a category atomically; `latest`; `iterate` |
| In-memory storage (`store/adapters/memory/`) | list of events indexed by sequence number, log, category and stream index; sequence; one lock per lock name | `save`, `latest`, `scan` |
| PostgreSQL storage (`store/adapters/postgres/`) | an events table, advisory locks | the same |
| Write conditions (`store/conditions.py`, `store/adapters/*/converters.py`) | immutable | `&`, `\|`, enforcement |
| Transaction decorators (`store/transactions.py`) | none | retry or ignore an unmet condition |
| Lock managers (`processing/locks/`) | dictionary of asyncio locks; a database session | `try_lock`, `wait_for_lock` |
| Event consumer (`processing/consumers/source.py`) | counters of one run | `consume_all` |
| Consumer state store (`processing/consumers/state/`) | cached state, position and lag; a stream of the event store | `load`, `record_processed`, `save`, `save_if_needed` |
| Subscription consumer (`processing/consumers/subscription.py`) | the consumer of each accepted source | `accept`, `withdraw`, `consume_all` |
| Subscriber manager and state store (`processing/broker/strategies/distributed/subscribers/`) | subscribers with requests and the time they were last seen | register, heartbeat, purge, unregister |
| Coordinator and subscription store (`.../coordinator.py`, `.../subscriptions/`) | the sources of each subscriber; the leader's lock | `coordinate`, `distribute`, `apply` |
| Observer (`.../observer.py`, `.../difference.py`) | the subscriptions it saw last | `synchronise` |
| Distributed broker (`.../broker.py`) | the tasks of the three above | execute, retried when a task raises |
| Singleton broker (`.../singleton/broker.py`) | none of its own | offer every source to every subscriber, in rounds |
| Services (`processing/services/`) | event loops of three kinds of threads, their tasks | start, stop; retry, continue, raise or exit on an error |
| Projections (`projection/`, `processing/consumers/projection.py`) | a store of projections | locate, project, save; search |
| Queries (`query/`, `persistence/`) | none | filter, sort, key set and offset paging, in memory and in SQL |

### Interactions

Publishers call `save` concurrently as tasks of one event loop (in-memory) or from
several processes (PostgreSQL). Consumers poll: they scan the store after the last
sequence number they know, process, acknowledge, and publish their progress back
into the store under a write condition. Every node runs a subscriber manager, a
coordinator and an observer; they share the two state stores and the leader lock
and nothing else. The observer tells the subscription consumer of its node which
sources to consume, while that consumer is polling.

### What is hard

* Every `await` is a point at which another save, consumer or broker task runs.
* Sequence numbers are taken before the commit, so the order of visibility is only
  as good as the locks of the serialisation guarantee.
* A category publish takes several locks.
* Progress is cached, and the cache is shared by whoever has had the source.
* The coordinator decides from two reads and writes later; its lock belongs to a
  database session it does not look at again.
* Processes crash, brokers fail and are retried, heartbeats are late, tasks are
  cancelled, database sessions are lost; a call may raise although it took effect.
* Nothing but the advisory locks keeps positions unique in the events table.
* Pages of a scan or of a query are read by separate statements, with writes in
  between.
* Services run on the event loops of several threads, and a stop has to end them
  all, while another stop may be doing the same.

`PROJECT.json` lists each of these as a hazard at the line where it bites.

## 2. Modules

| Module | Models | Uses |
|---|---|---|
| `EventStoreTypes` | identifiers, requests, stored events, lock names, last position | |
| `AtomicEventStore` | the promise: `save` is one atomic step | `EventStoreTypes` |
| `InMemoryEventStorage` | `save` of the in-memory adapter | `EventStoreTypes`; implements `AtomicEventStore` |
| `WriteConditions` | conditions and their enforcement (recursive) | |
| `EventReader` | `scan`, composed with the writers | `InMemoryEventStorage` |
| `PostgresEventStorage` | `save` of the PostgreSQL adapter | `EventStoreTypes`; implements `AtomicEventStore` |
| `EventStoreTransactions` | the retry and ignore decorators around it | `PostgresEventStorage` |
| `PostgresEventReader` | the paged `scan`, composed with both | `EventStoreTransactions` |
| `InMemoryLockManager` | `try_lock`, `wait_for_lock` | |
| `EventConsumer` | consumer, state store, subscription consumer, projection processor | |
| `SubscriptionCoordination` | the distributed broker with PostgreSQL stores | |
| `InProcessBroker` | the singleton broker; the subscriber manager over the in-memory store | |
| `ServiceManager` | error handlers, executors, start and stop | |
| `ProjectionQueries` | searches in memory and in SQL, and a client that pages | |
| `...Proofs` | theorems about the module they are named after; `InMemoryEventStorageProofs` also about `EventReader`, `PostgresEventStorageProofs` also about `EventStoreTransactions` and `PostgresEventReader` | that module, `TLAPS` |
| `MC...` | instances for TLC | |

A definition whose comment begins with "Slip:" is a plausible mistake; substituted
for the definition that follows it, it makes a property fail, which shows that the
property says something about the code.

### InMemoryEventStorage

A writer is one call of `save`. `pc` follows it through `_save_to_stream` and
`_save_to_category`, which differ only in the number of streams: a stream publish
is the request for one stream. An action is what runs between two awaits: `Save`
determines the locks, `Acquire` is one turn of `MultiLock.__aenter__`,
`ReadLastStreamEvent` reads under the locks, `ConditionMet` and `ConditionUnmet`
enforce the condition (the former adds the first event without yielding),
`AddEvent` adds the others, `Commit` moves the transaction into the log and
releases the locks. `Cancel` is the cancellation of the task at an await; while it
acquires its locks the ones it has stay held, as in the code. `log` is the sequence
of stored events in the order of `_log_index`; the category and stream indexes are
its subsequences, since `add` appends to all three. Payloads are the name of
their writer; event ids, names and timestamps play no role. A category publish has
at least one stream.

`Satisfied` is a constant operator: the storage does not depend on the algebra of
conditions. The MC module sets it to `assert_satisfied` of `WriteConditions`.

### EventReader

`StartScan` takes the snapshot, `Yield` finds the next event of the target after
the last sequence number seen, `EndScan` is the end of the iteration or the caller
leaving it. The writers run in between.

### PostgresEventStorage, EventStoreTransactions, PostgresEventReader

A writer is one session with one transaction. `ObtainWriteLocks` takes the advisory
locks one by one in the order in which the statement names them; `ReadLast` is a
statement of its own, so that it sees what is committed when it begins, with all
locks held (`read_last` for a stream publish, by sequence number;
`read_last_category_batch` for a category publish, by position); `Enforce` and
`ConditionUnmet` evaluate the conditions; `InsertRow` is one row of the single insert
statement, which takes its sequence number beside the rows of other sessions;
`Commit` is the exit of the connection block, which makes the rows visible and ends the
locks. A session can be lost, or its task cancelled, at any point: `Fail` is that before
the commit has taken effect, so that the transaction is rolled back, and
`CommitUnanswered` that afterwards: the events are stored and `save` raises.
`InsertFails` is the statement without rows that a request without events makes. What
PostgreSQL does is external and stated at the head of the module.

`EventStoreTransactions` puts a handler around each writer: `Handle` reads and
decides what to publish, and the decorator retries, ignores or passes on a
rejection. `PostgresEventReader` adds a reader: `QueryPage` is one statement,
`Yield` one row, `EndScan` the end of the scan or a caller that leaves it.

### InMemoryLockManager

One lock name. `entry` is the dictionary's entry, `Controls` are identities of
`asyncio.Lock` objects; an object nobody refers to stands for a new one. How an
asyncio lock queues and grants is external, modelled as the library does it: a
lock with waiters is not granted to a newcomer. `Grant` may pick any waiter, which
covers the queue.

### EventConsumer

Events of the source are 1, 2, 3, ...; the state stream is the sequence of saved
`last_sequence_number`s. `Load` and `OpenScan` begin `consume_all`; `Locate` and
`Process` are `process_event` of the projection processor, the read of the projection
and its save being two steps; `Acknowledge` is the iterator asked for the next event
(`record_processed` and `save_if_needed`); `Exhausted` the forced commit at the end;
`ExpectPosition`, `SaveState` and `SaveRejected` are `save`, with the read of the
latest position and the conditional publish as two steps. A save fails in three ways:
its condition is unmet (`SaveRejected`), a call raises without effect (`CallFails`, which
is also a scan or the read of the latest position that raises), or the publish is stored
and raises, so that neither the cached position nor the lag is updated
(`SaveUnanswered`). Two histories tell the properties what happened: `missed` counts the
saves that failed without effect, `answers` says whose cached position is stale because
an answer was lost. A consumer without a cached position reads it again and is not
affected. The event store is used
through what `AtomicEventStore` and `DeliveredExactly` promise. `HandOver` is the
coordinator's doing; `Accept` and `Withdraw` follow in any order. Callback
processors only; `reset` is called by nothing.

### SubscriptionCoordination

One subscriber group with one subscriber per node, named after its node, since
groups do not interact. Times are abstracted to the age of an entry: fresh, stale
(not listed any more) and expired (purged). `ListSubscriptions`, `ListSubscribers`
and `Apply` are the three database accesses of `distribute`. `Apply` is one
transaction; that two leaders' transactions conflict row by row and one of them is
rolled back is a broker failure. `Observe`, `Withdraw` and `Accept` are
`synchronise`. `BrokerFails` stands for any exception in a task of the broker: the
task group cancels the rest, `stop` unregisters, the handler retries; the observer
object survives. A process that restarts with a new subscriber id is another node.
A scenario fixes the requests subscribers may have and the faults that happen.

### InProcessBroker

One process, its subscribers added at any time. Time is counted in heartbeat
intervals, and `Tick` waits for the round of heartbeats that is due. `entries` is the
list of the in-memory store, in which a heartbeat replaces, and unregistering removes,
the first state of the subscriber; `Purged` is its purge, a loop over the list it
removes from, one `Visit` per step of Python's iterator. `Fail` interrupts the broker at any
await, its `finally` clause included. `Distribute` and `Accept` are the loop of the
singleton broker.

### ServiceManager

`Handle` is the type mapping handler: the mapping is a dictionary built from four
parts, of which later ones replace earlier ones, looked up along the classes of the
exception. Each executor has a loop; `Schedule` submits the services, `CallStop` and
`StopExecutors` start a stop, which then proceeds on each executor by itself:
`ShutDown` cancels every task of the loop, that of another stop too, `LoopStops` ends
the loop and `Close` closes it; a stop that finds the loop closed by another one raises.
`"caller"` is `__aexit__`, `"signal"` the handler of a
signal; each stops at most once.

### ProjectionQueries

The first half are operators: what the in-memory transformers compute from the list
of projections, and what each SQL statement built by the postgres converters
computes from the table, under the names of the functions that build them. The
second half is a client that walks over the pages of one search, while projections
are saved. A field is a column of the table or a path inside one (`Paths`), such as a
value of the state. The statements for a sort with both orders are unions with one select
for each column, whose operators come from a dictionary (`sort_operators`), which cannot
be built when the sort names a path, since the expression for it cannot be hashed
(`persistence/postgres/converters/clause.py:475-480`, `542-547`). A sort that names
the id, or a column twice, gives the subquery on `last` two columns of that name, which
PostgreSQL refuses. `PageRaises` says when a page cannot be had, and `SearchRaises` is the
walk that ends this way. Saving an existing projection leaves its id, name and source as
they are (`Kept`). Rows that an offset query's sort leaves equal come in any order
(`OffsetPagesOfRows` is a set). The loops of the in-memory converters, one over the
projections that filters them and one over the fields of the sort, last field first,
are recursive functions; one stable sort gives each element the number of those before
it.

## 3. Runs

| Run | Instance | Shows |
|---|---|---|
| `memory_storage` | 3 writers, 2 streams, 5 kinds of stream and category publishes, stream guarantee, cancellation anywhere | `TypeOK`, `StreamPositionsContiguous`, `SerialisedOrder`, `NoEventOverwritten`, `EverySaveReturns`; refines `AtomicEventStore` |
| `write_conditions` | 4 primitive conditions, 6 combinations | `ConditionMeansWhatItSays` |
| `memory_reader` | 3 writers of 2 categories and a reader of one, category guarantee | `DeliveredExactly`, `EveryEventDelivered` |
| `postgres_storage` | 3 sessions, 2 streams, stream and category publishes, one retried handler, pages of 2 rows, sessions lost at any point, also between the commit and its answer | `StreamPositionsGapless`, `CommitsInOrder`, `StoredAsAnswered`, `RetriesSuffice`, `EveryCallEnds`, `DeliveredExactly`, `LastPageIsTheEnd`; refines `AtomicEventStore` |
| `lock_manager` | 3 tasks; programs that use `try_lock` only, and both operations | `TryLockExcludes`, `RefusedOnlyIfHeld` |
| `consumer` | 2 consumers, 3 events, interval 2, 2 faults of any kind: crashes, processing, calls and saves that fail, lost answers, hand overs | `ProcessedBeforeSaved`, `EveryEventProcessed`; without a hand over `RedeliveryBounded`, `ProjectionCoversProgress`, `OwnProgressSaved` |
| `broker` | 2 nodes, 2 sources, requests that grow, 2 faults; and 1 source with a lock that is lost | `NoDoubleAllocation`, `ChangesApplicable`, `AcceptedAsObserved`, `WorkRecovers`; `NoSourceLost` |
| `in_process_broker` | 3 subscribers, 3 failures or changes of health | `OneEntryPerSubscriber`, `HealthyStaysListed`, `ExpiredEntriesGo`, `SingletonDistributesAll` |
| `services` | 3 services, one per isolation mode, two sets of handlers, two stops | `NoServiceOutlivesStop`, `ServicesEnd`, `StopReturns`, `RetriedUntilStopped` |
| `queries` | 4 projections with 2 columns and a path, 7 searches, pages of 2, one save during a walk | `PageIsSlice`, `WalkSeesEachOnce`, `AdaptersAgree` |

Every module states the types of its variables as `TypeOK`. One run lists it; for the
modules with proofs it is part of the inductive invariant, and so proved.

What the properties except, the models do show:

* `EverySaveReturns` excepts `LockLeaked`: a task cancelled while
  `MultiLock.__aenter__` waits for its second lock keeps the first one for ever, and
  saves to that stream never return. The run shows that this is the only exception.
* `StoredAsAnswered` says that a call whose condition is unmet has stored nothing. One
  that raises because its session failed has stored all of its request or nothing, and
  the caller cannot tell which.
* `RedeliveryBounded` and `OwnProgressSaved` except a consumer that had cached a position
  and lost the answer to a save. Its cached position is stale, `save` never reads the
  latest one again, and all its saves are refused until it is restarted; it goes on
  processing. From the restart on `OwnProgressSaved` holds again;
  `RedeliveryBounded` does not, as what was processed without being saved may be any
  number of events. A save that fails without effect makes the
  bound larger by one event, since saving is tried again with the next one.
* `TryLockExcludes` is about programs that only try. With `wait_for_lock`, leaving
  removes the entry of a lock others wait on, and two tasks have the lock. Nothing
  in the library calls `wait_for_lock`.
* `ProjectionCoversProgress` is about a source that was never handed over. Two
  consumers that read the projection before either saves it lose an update. Double
  application of a redelivered event is not told apart: a projection is the set of
  the events applied to it.
* In the scenario with a lost lock `NoDoubleAllocation` is not claimed: a coordinator
  that loses its database session goes on beside the next one, and what the two
  allocate twice stays so, because `distribute` counts both as correct.
* A distributed broker registers subscribers when it starts. One that is added later,
  or was purged while unhealthy and has recovered, has no entry until the broker is
  retried; `HealthyStaysListed` is about those registered and healthy since. The fault
  `"pause"` of `SubscriptionCoordination`, by which an entry expires although its
  process lives, is used by no run: with it `WorkRecovers` does not hold.
* `StopReturns` excepts services whose handler decides to exit: `SystemExit` ends the
  loop of its thread, and a stop waits for ever for what it submits to it. It also
  excepts two stops at once, of which one may raise; `ServicesEnd` covers both.
  Services scheduled after a signal's stop was called run on.
* `WalkSeesEachOnce` excepts offset paging in SQL by a sort with ties, and walks whose
  last record was saved meanwhile. In memory, a last record that no longer matches
  ends the walk; in SQL it goes on.
* `PageIsSlice` and `AdaptersAgree` except the pages that PostgreSQL cannot give
  (`PageRaises`): those of a sort with both orders that names a path, the id, or a column
  twice. There the adapters do not agree, the in-memory one returns the page. A walk with
  such a sort ends after its first page, and `WalkSeesEachOnce` says nothing of it.

Two runs show where the code and its notes (`processing/NOTES.md`) disagree:

* `consumer_progress`: after a hand over, a late save of the old owner leaves the
  new owner with a stale cached position; all its saves are refused from then on.
  Events are still processed (`EveryEventProcessed` holds), but a restart begins at
  the old progress.
* `broker_interrupted`: a failure in the middle of `synchronise` leaves a source
  accepted for good that the observer does not know of.

### Bounds

Three writers are the least with which one waits while another overtakes a third;
requests have at most two events per stream, so that a save can be suspended
between two events. In `postgres_storage` a stream gets up to five events, so that a
page of two is exactly full, followed by an empty one, and followed by one that
became longer meanwhile; three tries are as many as there are writers, the number
`RetriesSuffice` needs. Three events with an interval of two give a save by lag, one
by the end of a run and a crash between them. Two faults let one fault hit the
recovery from another. Two nodes suffice for every pair of leader and follower, old
and new owner. Three subscribers allow two expired neighbours in the list with a
third behind them; an entry is listed for two intervals and expires after three. One
service per isolation mode has every kind of executor; the handlers include one that
retries by default and one that exits on a cancellation. Four projections over four
states and pages of two give ties, full, partial and empty pages in both directions,
and the fifth id can be created during a walk; the searches have each kind of sort, and
both reasons for which a page of a mixed one raises. Six combinations of conditions reach
three levels of nesting. The log guarantee, a special case with a single lock, is
covered by the proofs for the in-memory adapter. `CHECK_DEADLOCK FALSE` is given where
the calls simply end: the runs of `MCInMemoryEventStorage`, `MCWriteConditions` and
`MCServiceManager`.

### Fairness

* Storage: weak fairness of every step of a task or session. The event loop runs each
  task that is ready, and a lock that is free is granted. In memory `Save` and
  `Cancel` have none; in PostgreSQL lost sessions have none.
* Readers: in memory, the reader keeps scanning. Its yields are strongly fair, since
  scans are opened and closed again and again and a caller that keeps leaving before
  the first event would see nothing. The reader of PostgreSQL has no fairness.
* Consumer: the polling loop and the observers keep running, weakly fair; publishes
  and faults have no fairness, and faults are bounded.
* Broker: retries, heartbeats, purges, elections, distributions and synchronisations
  are loops, weakly fair. `StepDown` is strongly fair: `leadership_max_duration` ends
  each leadership, between two distributions. A process that died need not restart.
* In-process broker: it is retried, and its loops keep running. Time need not pass.
* Services: event loops run what is ready, and a cancelled service ends. A service
  need not end by itself, and nobody need call stop.

## 4. Proofs

Eight modules of proofs, each for every value of the constants of its model: any
numbers of writers, tasks, consumers, nodes, services, streams and events, any
requests, write conditions, page sizes, intervals and error handlers. Cancellation,
lost sessions, crashes and failures are not bounded by the proofs, except where a
constant of the model does so (`FailPoints`, the faults of a scenario), and then for
every value of it.

| Theorem | States |
|---|---|
| **`InMemoryEventStorageProofs`** | |
| `TypeCorrect` | `Spec => []TypeOK` |
| `PositionsContiguous` | `Spec => []StreamPositionsContiguous` |
| `CommitsSerialised` | `Spec => []SerialisedOrder` |
| `SequenceNumbersUnique` | `Spec => []NoEventOverwritten` |
| `TransactionContents` | `Spec => []ContentInv` |
| `SaveIsAtomic` | `Spec => AtomicSpec`: the adapter implements `AtomicEventStore` |
| `ReaderMissesNothing` | `ReaderSpec => []DeliveredExactly` |
| **`PostgresEventStorageProofs`** | |
| `PositionsGapless` | `Spec => []StreamPositionsGapless` |
| `CommitsSerialised` | `Spec => CommitsInOrder` |
| `SaveIsAtomic` | `Spec => AtomicSpec` |
| `AnswersAreTrue` | `TransactionSpec => []StoredAsAnswered` |
| `RetriesKeepPositionsGapless` | `TransactionSpec => []StreamPositionsGapless` |
| `TransactionsAreAtomic` | `TransactionSpec => AtomicSpec` |
| `EnoughTries` | `TransactionSpec => []RetriesSuffice` |
| `ReaderMissesNothing` | `ReaderSpec => []DeliveredExactly` |
| `ScanEndsAtTheEnd` | `ReaderSpec => LastPageIsTheEnd` |
| **`InMemoryLockManagerProofs`** | |
| `TryLockIsExclusive` | `Spec => []TryLockExcludes` |
| `RefusalIsHonest` | `Spec => RefusedOnlyIfHeld` |
| **`EventConsumerProofs`** | |
| `AtLeastOnce` | `Spec => []ProcessedBeforeSaved` |
| `CrashRepeatsAtMostInterval` | `Spec => []RedeliveryBounded` |
| `ProjectionIsComplete` | `Spec => []ProjectionCoversProgress` |
| **`SubscriptionCoordinationProofs`** | |
| `AllocatedOnce` | `Spec => []NoDoubleAllocation` |
| `ApplySucceeds` | `Spec => []ChangesApplicable` |
| `ObserverInStep` | `Spec => []AcceptedAsObserved` |
| **`InProcessBrokerProofs`** | |
| `EntriesUnique` | `Spec => []OneEntryPerSubscriber` |
| `HealthyListed` | `Spec => []HealthyStaysListed` |
| `PurgeProgresses` | a purge that finds an expired state shortens the list and loses no other |
| `OnlyRequestsAccepted` | no subscriber accepts what it has not requested |
| **`ProjectionQueriesProofs`** | |
| `PagesAreSlices` | `Spec => []PageIsSlice` |
| `WalkComplete` | `Spec => []WalkSeesEachOnce` |
| `AdaptersExchangeable` | `Spec => []AdaptersAgree` |
| **`ServiceManagerProofs`** | |
| `StopLeavesNothingRunning` | `Spec => []NoServiceOutlivesStop` |
| `RetriedWhileRunning` | `Spec => []RetriedUntilStopped` |

Every module also proves its inductive invariant (`Invariant`, `ReaderInvariant`,
`TransactionInvariant`) and, where the model has a `TypeOK`, `TypeCorrect`.

### Assumptions

The constants have the named assumptions of their modules: stream names are numbers
(sorting is all that is used of them), the guarantee is one of three, requests name
streams of one category, `None` is no writer and no task, handlers decide one of four
things, an exception's classes begin with its own, a subscriber is listed for longer
than one heartbeat interval and purged no sooner than it ceases to be listed, the ids
and the values of the fields of projections are numbers, the ids in a table differ, paths
and the fields that a save leaves are among the fields, a sort names fields of the
projections or their id. Some theorems have hypotheses of
their own, because what they state is not true without them:

* `ReadWithinGuarantee` (both readers): what is read lies within the scope that the
  adapter's guarantee orders. A reader of a category under the stream guarantee may
  miss events.
* `ReactionsAreRequests` (handlers): what a handler publishes is a request.
* `ReactsToWhatItReads` and finitely many writers (`EnoughTries`): a handler publishes
  to the stream it has read, and its condition accepts the position it has read. One
  whose condition is false from the start is rejected on every try.
* `Interval > 0` (`CrashRepeatsAtMostInterval`): with `persistence_interval=None`,
  modelled by 0, nothing is saved before the end of a run.
* `NeverInterrupted` (`ObserverInStep`): no failure hits a synchronisation between two
  of its changes; the run `broker_interrupted` shows what happens otherwise.
* `ErrorsAreExceptions` (`RetriedWhileRunning`): errors derive from `Exception`, the
  only ones that the retrying handler retries.

`NoDoubleAllocation`, `ChangesApplicable` and `AcceptedAsObserved` are by their own
definition about scenarios in which the leader's lock is reliable, `TryLockExcludes`
about programs that only try, `RedeliveryBounded` and `ProjectionCoversProgress` about a
source that has not been handed over, the former also about a consumer that has lost no
answer, `PageIsSlice` and `AdaptersAgree` about pages for which no statement raises.

### The arguments

None of the properties is inductive; the invariants say what ties the pieces of state
together.

*Storage, in memory and PostgreSQL.* `IInv` says which locks a writer has at each
control point, that what it has read is still the last position of its stream, that
its uncommitted events continue the stream without a gap and carry numbers below the
sequence's next value, and that the events of a lock that are visible have smaller
numbers than the uncommitted ones of its holder. The argument for each action is then:
only the holder of a stream's lock extends the stream, so what it read is still true at
its commit; and because numbers are taken under the lock, they exceed all those
committed under the same lock before. In PostgreSQL the read is a statement of its own,
begun after the locks are held, which is why it sees the commit of the previous holder;
that positions are gapless is used in turn to show that the row with the greatest
sequence number, which a stream publish reads, is the one with the greatest position,
which a category publish reads. Finitely many rows are shown to have a last one by
bounding positions by sequence numbers.

*Atomicity.* The refinement mapping shows the abstract store the visible events and an
outcome per writer, and a save as one step at its commit. `ContentInv` (in memory) and
`RequestedInv` (PostgreSQL) say that an open transaction holds, at the positions the
abstract step would choose, exactly the events handled so far, so that the commit adds
exactly the events of the abstract publish; `ReadInv` says that the conditions, enforced
several steps before, are true of what is visible in the step of the commit. A commit
whose answer is lost is the abstract `PublishUnanswered`. Handlers
that are called again are a `Prepare` of the abstract store.

*Decorated handlers.* A call whose last try was saved has stored its events once, one
whose last try failed has stored all of them once or none, and in every other state it has
stored none. For `EnoughTries`, `RetryInv` counts: the tries of a handler do not exceed the
number of the other writers that have saved, or failed and may have stored, but for the
try under way, and this one is rejected only when its condition is no longer true of the
table, hence after one more commit. A writer commits once, so the last of as many tries as there are writers
cannot be rejected.

*Readers.* In memory, everything of the target before the cursor has been seen and
nothing after it has; in PostgreSQL a page contains every visible row of the target
between the last number seen and its own last number. That both survive a commit is
`CommitsSerialised`: what becomes visible lies behind what the reader has seen or holds.
`OrderBy` gives each row the rank of its number, and its ranks are shown to be 1, 2, 3,
... for rows whose numbers differ, which is part of the invariant.

*Lock manager.* The dictionary's entry is the lock object of the task that has the
lock, in programs that only try. A refused task leaves the entry alone.

*Consumers.* What anybody has cached or iterated over has been processed; a save only
writes what is cached. Before a hand over only the owner is active; as long as it has lost
no answer, its cached state is ahead of the progress saved by at most the lag, its cached
position is the latest or absent, so that no save is refused, and its state goes beyond
the interval only by the saves missed, but where a save follows at once.

*Broker.* Nobody but the leader writes subscriptions; so between its first read and its
write they are what it has read. The changes computed from them can therefore be
applied, and applying them leaves every source with one subscriber. While an observer
synchronises, what the subscriber has accepted lies between the two lists.

*Services.* A call of stop goes through the executors; where it is done, the loop is
closed, or, on the main thread, the tasks it waited for have ended. Tasks are cancelled
by a stop only, and the first mapped class of an error decides.

*In-process broker.* A state of a subscriber is added only when it has none, so each
subscriber has at most one, and the first one found is the only one. Between two ticks
every subscriber that has been healthy since its registration has been seen in the
round due, so its state is never older than one interval. The purge removes from the
list it iterates over and so passes over elements: what its loop leaves is proved by
induction on the position of the iterator, that states which are not expired stay, that
the list only gets shorter, and that it does get shorter once the first expired state is
reached.

*Queries.* The records that match have a total order: the sort, then the adapter's tie
break. `Place` is the number of records before one, and it is shown to run through 0, 1,
2, ... (`OrderRanks`). Every page is then characterised as the ascending list of the rows
whose place lies in an interval (`SliceOf`); two such lists are equal
(`AscendingUnique`), and this is how the adapters are compared. For SQL, the condition of
each statement selects the rows beyond the record, the limit keeps those next to it
because places have no gaps, and turning the sort round turns the places round; a mixed
sort needs that the union of limited selects still contains the nearest rows, one select
for each column (`UnionFacts`), which in turn needs that the dictionary gives each column
its own operator, because no column repeats (`OwnOperators`). In memory, the loop over the fields keeps, after k
sorts, the order by the last k fields (`SortByOneMore`): a stable sort by an earlier
field refines it to k + 1. The loop over the projections keeps the order of insertion,
which is the tie break. `NoTies` makes the sort alone total, so that every order in
which the database may deliver rows is sorted into the same list. For the walk, `IInv`
says that a walk by keys stands on a row, and has received each expected record not
beyond it once and none beyond it; a save elsewhere neither moves an expected record nor
the one the walk stands on. A walk by offset has received a prefix of the results.

*Induction.* What a loop computes is proved by the least counterexample: a set of
numbers that is not empty has a least element (`LeastNumber`, `BoundedInduction`), and
that the recursive function of a loop satisfies its equation is proved by constructing
its finite prefixes (`LoopExists`).

## 5. What is only model-checked

* Liveness: `EverySaveReturns`, `EveryCallEnds`, `EveryEventDelivered`,
  `EveryEventProcessed`, `OwnProgressSaved`, `WorkRecovers`, `NoSourceLost`,
  `ExpiredEntriesGo`, `SingletonDistributesAll`, `StopReturns`, `ServicesEnd`. TLAPS as
  used here does not reason about fairness.
* `ConditionMeansWhatItSays`: conditions are nested records, and their enforcement follows
  the nesting with a RECURSIVE operator, which takes the SMT backend away from every
  module that reaches it. The induction by least counterexample used for the loops of
  the other modules is over numbers; here it would be over the nesting.

Every other invariant and action property of the runs is proved; the two runs that
expect a violation state what does not hold.

## 6. What could come next

1. The consumer composed with the readers: what a consumer that reads through
   `DeliveredExactly` processes, instead of a consumer that assumes it.
2. Shorter proofs: the two adapters share an argument, and the lemmas about finite sets
   of rows and about last positions could be stated once; the lemmas about ranks in
   `ProjectionQueriesProofs` would also serve the `OrderBy` of the readers.
3. Null values in queries, which Python and SQL order differently.

## 7. Not modelled

* The text of SQL statements, functions such as similarity, regular expressions, and null
  values, which order differently in Python and SQL. A path is a field like others, but
  for the statements that cannot be built with it; how it is evaluated is left out.
* Processors that drive the iterator or the commit themselves: what they acknowledge
  is up to the application. `reset` of the consumer state and `wait_for_lock` of the
  PostgreSQL lock manager have no caller.
* The in-memory subscription state store: its `apply` does not suspend and differs from
  the transaction that is modelled only when a change raises, which
  `ChangesApplicable` excludes under one leader.
* Process status, a pure function of other statuses that nothing acts upon.
* Event sources and factories, which delegate; serialisation, data classes and builders
  (`types/`, `testing/`), which have neither state nor concurrency; logging; connection
  pools.
