--------------------------- MODULE InProcessBroker ---------------------------
(***************************************************************************)
(* An event broker that keeps all of its state in its own process.  Either *)
(* it is the singleton broker, which makes every subscriber accept every   *)
(* source it requests, or it is the distributed broker over the in-memory  *)
(* subscriber state store.  Of the latter this module has the subscriber   *)
(* manager, task by task, and the list the store keeps; the coordinator    *)
(* and the observer are in SubscriptionCoordination.                       *)
(*                                                                         *)
(* Time is counted in heartbeat intervals.  Rounds of heartbeats, and the  *)
(* start and the stop of the broker, take no time themselves.              *)
(***************************************************************************)
EXTENDS Naturals, Sequences, FiniteSets, SequencesExt

CONSTANTS
  Subscribers,   \* the subscribers of this process
  Requests,      \* subscription_requests of each subscriber
  SeenWithin,    \* subscriber_max_time_since_last_seen of the coordinator
  MaxAge,        \* subscriber_max_age of the subscriber manager
  MaxFaults      \* bound: failures of the broker and changes of health

Sources == UNION {ToSet(Requests[s]) : s \in Subscribers}

ASSUME SubscribersAssumption == IsFiniteSet(Subscribers)
ASSUME RequestsAssumption == Requests \in [Subscribers -> Seq(Sources)]
ASSUME AgesAssumption == SeenWithin \in Nat /\ MaxAge \in Nat /\ 1 < SeenWithin /\ SeenWithin <= MaxAge
ASSUME FaultsAssumption == MaxFaults \in Nat

VARIABLES
  strategy,   \* singleton or distributed
  status,     \* of the broker: stopped, starting, running or stopping
  known,      \* the subscriber store: subscribers in the order they were added
  healthy,    \* health() of each subscriber
  entries,    \* the subscriber state store: a list of states
  todo,       \* subscribers left to register, heartbeat or unregister
  beaten,     \* whether the heartbeats of this interval have been sent
  offers,     \* singleton: sources left to offer in this round
  accepted,   \* the sources each subscriber has accepted
  steady,     \* history: registered in this execution and healthy ever since
  faults      \* faults so far

vars == <<strategy, status, known, healthy, entries, todo, beaten, offers,
          accepted, steady, faults>>

Init ==
  /\ strategy \in {"singleton", "distributed"}
  /\ status = "stopped"
  /\ known = <<>>
  /\ healthy = [s \in Subscribers |-> TRUE]
  /\ entries = <<>>
  /\ todo = <<>>
  /\ beaten = FALSE
  /\ offers = <<>>
  /\ accepted = [s \in Subscribers |-> {}]
  /\ steady = {}
  /\ faults = 0

-----------------------------------------------------------------------------
(***************************************************************************)
(* InMemoryEventSubscriberStateStore: a list of states in the order they   *)
(* were added.                                                             *)
(***************************************************************************)
Entry(s) == [id |-> s, age |-> 0]

Has(list, s) == \E i \in DOMAIN list : list[i].id = s

\* The first state of the subscriber; the store looks no further.
Place(list, s) == CHOOSE i \in DOMAIN list : list[i].id = s /\ \A j \in 1 .. (i - 1) : list[j].id # s

\* heartbeat: the state of the subscriber is replaced, if there is one.
Beat(list, s) == IF Has(list, s) THEN [list EXCEPT ![Place(list, s)] = Entry(s)] ELSE list

\* Slip: whether the subscriber is there already is not looked at.
StoreAlways(list, s) == Append(list, Entry(s))

\* add: a subscriber that is there already gets a heartbeat.
Store(list, s) == IF Has(list, s) THEN Beat(list, s) ELSE Append(list, Entry(s))

\* remove
Without(list, s) == IF Has(list, s) THEN RemoveAt(list, Place(list, s)) ELSE list

Expired(e) == e.age >= MaxAge

\* Slip: the loop runs over indices and stops one short.
VisitButLast(scan) ==
  IF scan.next >= Len(scan.list) THEN scan
  ELSE [list |-> IF Expired(scan.list[scan.next])
                   THEN RemoveAt(scan.list, scan.next) ELSE scan.list,
        next |-> scan.next + 1]

\* One step of a loop over a list from which the loop itself removes: the
\* iterator goes on to the next index, which skips the element that moved up.
Visit(scan) ==
  IF scan.next > Len(scan.list) THEN scan
  ELSE [list |-> IF Expired(scan.list[scan.next])
                   THEN RemoveAt(scan.list, scan.next) ELSE scan.list,
        next |-> scan.next + 1]

\* purge: at most as many steps as there were elements.
Purged(list) ==
  LET scan[n \in 0 .. Len(list)] ==
        IF n = 0 THEN [list |-> list, next |-> 1] ELSE Visit(scan[n - 1])
  IN  scan[Len(list)].list

\* list, as the coordinator calls it.
Listed == {entries[i].id : i \in {j \in DOMAIN entries : entries[j].age < SeenWithin}}

-----------------------------------------------------------------------------
(***************************************************************************)
(* The broker is given a subscriber, is executed, fails and is retried.    *)
(***************************************************************************)
\* register may be called before the broker is executed or at any time after.
\* A subscriber that is known keeps its place.
AddSubscriber(s) ==
  /\ s \notin ToSet(known)
  /\ known' = Append(known, s)
  /\ UNCHANGED <<strategy, status, healthy, entries, todo, beaten, offers,
                 accepted, steady, faults>>

\* The distributed broker starts by registering the subscribers it knows of.
Execute ==
  /\ status = "stopped"
  /\ \/ /\ strategy = "singleton"
        /\ status' = "running"
        /\ UNCHANGED todo
     \/ /\ strategy = "distributed"
        /\ status' = "starting"
        /\ todo' = known
  /\ beaten' = FALSE
  /\ steady' = {}
  /\ UNCHANGED <<strategy, known, healthy, entries, offers, accepted, faults>>

\* A task raises or is cancelled.  Whatever the distributed broker was doing,
\* its finally clause unregisters the subscribers; that may fail as well.
Fail ==
  /\ status # "stopped"
  /\ faults < MaxFaults
  /\ faults' = faults + 1
  /\ IF strategy = "distributed" /\ status # "stopping"
       THEN status' = "stopping" /\ todo' = known
       ELSE status' = "stopped" /\ todo' = <<>>
  /\ offers' = <<>>
  /\ UNCHANGED <<strategy, known, healthy, entries, beaten, accepted, steady>>

\* A subscriber becomes unhealthy or recovers.
ChangeHealth(s) ==
  /\ strategy = "distributed"
  /\ faults < MaxFaults
  /\ faults' = faults + 1
  /\ healthy' = [healthy EXCEPT ![s] = ~@]
  /\ steady' = steady \ {s}
  /\ UNCHANGED <<strategy, status, known, entries, todo, beaten, offers, accepted>>

-----------------------------------------------------------------------------
(***************************************************************************)
(* The subscriber manager of the distributed broker.                       *)
(***************************************************************************)
Register ==
  /\ status = "starting" /\ todo # <<>>
  /\ entries' = Store(entries, Head(todo))
  /\ todo' = Tail(todo)
  /\ steady' = steady \cup {s \in {Head(todo)} : healthy[s]}
  /\ UNCHANGED <<strategy, status, known, healthy, beaten, offers, accepted, faults>>

\* start has returned and the task group runs.
Maintain ==
  /\ status = "starting" /\ todo = <<>>
  /\ status' = "running"
  /\ UNCHANGED <<strategy, known, healthy, entries, todo, beaten, offers,
                 accepted, steady, faults>>

SendHeartbeats ==
  /\ strategy = "distributed" /\ status = "running"
  /\ todo = <<>> /\ ~beaten
  /\ todo' = known
  /\ beaten' = TRUE
  /\ UNCHANGED <<strategy, status, known, healthy, entries, offers, accepted,
                 steady, faults>>

\* Slip: the round ends at a subscriber that is not healthy.
HeartbeatWhileHealthy ==
  /\ status = "running" /\ todo # <<>>
  /\ IF healthy[Head(todo)]
       THEN entries' = Beat(entries, Head(todo)) /\ todo' = Tail(todo)
       ELSE todo' = <<>> /\ UNCHANGED entries
  /\ UNCHANGED <<strategy, status, known, healthy, beaten, offers, accepted,
                 steady, faults>>

\* An unhealthy subscriber is passed over.
Heartbeat ==
  /\ status = "running" /\ todo # <<>>
  /\ entries' = IF healthy[Head(todo)] THEN Beat(entries, Head(todo)) ELSE entries
  /\ todo' = Tail(todo)
  /\ UNCHANGED <<strategy, status, known, healthy, beaten, offers, accepted,
                 steady, faults>>

\* The purge task, at a pace of its own.
Purge ==
  /\ strategy = "distributed" /\ status = "running"
  /\ \E i \in DOMAIN entries : Expired(entries[i])
  /\ entries' = Purged(entries)
  /\ UNCHANGED <<strategy, status, known, healthy, todo, beaten, offers,
                 accepted, steady, faults>>

Unregister ==
  /\ status = "stopping" /\ todo # <<>>
  /\ entries' = Without(entries, Head(todo))
  /\ todo' = Tail(todo)
  /\ UNCHANGED <<strategy, status, known, healthy, beaten, offers, accepted,
                 steady, faults>>

Stop ==
  /\ status = "stopping" /\ todo = <<>>
  /\ status' = "stopped"
  /\ UNCHANGED <<strategy, known, healthy, entries, todo, beaten, offers,
                 accepted, steady, faults>>

\* A heartbeat interval passes: while the broker runs, not before the round of
\* heartbeats is over.
Tick ==
  /\ status = "stopped" \/ (status = "running" /\ beaten /\ todo = <<>>)
  /\ entries' = [i \in DOMAIN entries |->
                   IF Expired(entries[i]) THEN entries[i]
                   ELSE [entries[i] EXCEPT !.age = @ + 1]]
  /\ beaten' = FALSE
  /\ UNCHANGED <<strategy, status, known, healthy, todo, offers, accepted,
                 steady, faults>>

-----------------------------------------------------------------------------
(***************************************************************************)
(* The loop of the singleton broker.                                       *)
(***************************************************************************)
Offers(s) == [i \in DOMAIN Requests[s] |-> <<s, Requests[s][i]>>]

\* Slip: the sources are distributed once instead of in every interval.
DistributeOnce ==
  /\ strategy = "singleton" /\ status = "running"
  /\ offers = <<>>
  /\ \A s \in Subscribers : accepted[s] = {}
  /\ offers' = FlattenSeq([i \in DOMAIN known |-> Offers(known[i])])
  /\ UNCHANGED <<strategy, status, known, healthy, entries, todo, beaten,
                 accepted, steady, faults>>

\* The subscribers are listed anew in every round.
Distribute ==
  /\ strategy = "singleton" /\ status = "running"
  /\ offers = <<>>
  /\ offers' = FlattenSeq([i \in DOMAIN known |-> Offers(known[i])])
  /\ UNCHANGED <<strategy, status, known, healthy, entries, todo, beaten,
                 accepted, steady, faults>>

\* accept of a source the subscriber has changes nothing.
Accept ==
  /\ offers # <<>>
  /\ accepted' = [accepted EXCEPT ![Head(offers)[1]] = @ \cup {Head(offers)[2]}]
  /\ offers' = Tail(offers)
  /\ UNCHANGED <<strategy, status, known, healthy, entries, todo, beaten,
                 steady, faults>>

-----------------------------------------------------------------------------
Manage == Register \/ Maintain \/ SendHeartbeats \/ Heartbeat \/ Unregister \/ Stop

Next ==
  \/ Execute \/ Manage \/ Purge \/ Tick \/ Distribute \/ Accept \/ Fail
  \/ \E s \in Subscribers : AddSubscriber(s) \/ ChangeHealth(s)

\* A broker that failed is retried, and its loops keep running.
Fairness ==
  /\ WF_vars(Execute) /\ WF_vars(Manage) /\ WF_vars(Purge)
  /\ WF_vars(Distribute \/ Accept)

Spec == Init /\ [][Next]_vars /\ Fairness

-----------------------------------------------------------------------------
TypeOK ==
  /\ strategy \in {"singleton", "distributed"}
  /\ status \in {"stopped", "starting", "running", "stopping"}
  /\ known \in Seq(Subscribers)
  /\ \A i, j \in DOMAIN known : known[i] = known[j] => i = j
  /\ healthy \in [Subscribers -> BOOLEAN]
  /\ entries \in Seq([id : Subscribers, age : 0 .. MaxAge])
  /\ todo \in Seq(Subscribers)
  /\ beaten \in BOOLEAN
  /\ offers \in Seq(Subscribers \X Sources)
  /\ accepted \in [Subscribers -> SUBSET Sources]
  /\ steady \subseteq Subscribers
  /\ faults \in 0 .. MaxFaults

\* However often the broker fails while it registers, maintains or unregisters
\* its subscribers, none has two entries: the coordinator would count it twice.
OneEntryPerSubscriber ==
  \A i, j \in DOMAIN entries : entries[i].id = entries[j].id => i = j

\* A running broker keeps every subscriber that is healthy in sight of the
\* coordinator, whatever becomes of the subscribers around it in the list.
HealthyStaysListed == status = "running" => steady \subseteq Listed

\* Although one purge may pass over expired entries, none stays: it is purged,
\* or its subscriber recovers or is registered again.
ExpiredEntriesGo ==
  \A s \in Subscribers :
    LET Gone == ~\E i \in DOMAIN entries : entries[i].id = s /\ Expired(entries[i])
    IN  ~Gone ~> Gone

\* The singleton broker gets every source to every subscriber that requests
\* it, also to those that are added while it runs, and after failures.
SingletonDistributesAll ==
  \A s \in Subscribers :
    (strategy = "singleton" /\ s \in ToSet(known)) ~> (accepted[s] = ToSet(Requests[s]))
=============================================================================
