----------------------- MODULE SubscriptionCoordination -----------------------
(***************************************************************************)
(* The distributed event broker with its postgres stores: every node runs  *)
(* a subscriber manager (register, heartbeat, purge), a coordinator, of    *)
(* which the one that has the leader lock distributes the event sources    *)
(* over the subscribers, and an observer that makes the node's subscriber  *)
(* accept and withdraw sources.                                            *)
(*                                                                         *)
(* Groups do not interact: there is one, with one subscriber per node,     *)
(* named after its node.  The time since a subscriber was last seen is its *)
(* age: fresh, stale (older than subscriber_max_time_since_last_seen) or   *)
(* expired (older than subscriber_max_age too).                            *)
(***************************************************************************)
EXTENDS Naturals, Sequences, FiniteSets, Functions

CONSTANTS
  Nodes,           \* the nodes, and the subscriber of each
  Sources,         \* event sources
  Scenarios,       \* what may happen together: see ScenariosAssumption
  MaxFaults,       \* bound: the number of faults
  None             \* no node

ASSUME NodesAssumption == IsFiniteSet(Nodes) /\ None \notin Nodes
\* In a scenario, subscribers come with one of its requests, and the kinds of
\* faults are those it names.
ASSUME ScenariosAssumption ==
  \A sc \in Scenarios :
    /\ sc.requests \subseteq Seq(Sources)
    /\ sc.faults \subseteq {"crash", "error", "interrupt", "late", "pause", "lock"}
ASSUME FaultsAssumption == MaxFaults \in Nat

VARIABLES
  status,         \* of each node's broker: down, stopped or running
  age,            \* of each subscriber's entry in the subscriber state store
  requests,       \* subscription_requests of that entry
  subscriptions,  \* the subscription state store: subscriber -> its sources
  leader,         \* the node that has the coordinator's lock
  pc,             \* where each node's coordinator is
  listed,         \* the subscriptions each coordinator has read
  changes,        \* the changes each coordinator is about to apply
  phase,          \* where each node's observer is
  observed,       \* _existing_subscriptions of each observer, its own part
  updated,        \* the subscriptions the observer has just read, ditto
  accepted,       \* the sources each subscriber consumes
  scenario,       \* the scenario of this behaviour
  faults          \* faults so far

store == <<age, requests, subscriptions>>
coordinator == <<leader, pc, listed, changes>>
observer == <<phase, observed, updated, accepted>>
failures == <<scenario, faults>>
vars == <<status, store, coordinator, observer, failures>>

NoSubscriptions == [n \in {} |-> {}]

NoChanges == [add |-> NoSubscriptions, replace |-> NoSubscriptions, remove |-> {}]

Init ==
  /\ status = [n \in Nodes |-> "down"]
  /\ age = [n \in Nodes |-> "absent"]
  /\ scenario \in Scenarios
  /\ requests \in [Nodes -> scenario.requests]
  /\ subscriptions = NoSubscriptions
  /\ leader = None
  /\ pc = [n \in Nodes |-> "waiting"]
  /\ listed = [n \in Nodes |-> NoSubscriptions]
  /\ changes = [n \in Nodes |-> NoChanges]
  /\ phase = [n \in Nodes |-> "idle"]
  /\ observed = [n \in Nodes |-> {}]
  /\ updated = [n \in Nodes |-> {}]
  /\ accepted = [n \in Nodes |-> {}]
  /\ faults = 0

\* One more fault.
Fault ==
  /\ faults < MaxFaults
  /\ faults' = faults + 1
  /\ UNCHANGED scenario

-----------------------------------------------------------------------------
(***************************************************************************)
(* The subscriber manager and the subscriber state store.                  *)
(***************************************************************************)
\* Slip: a broker that is retried does not register again.
StartOnce(n) ==
  /\ status[n] # "running"
  /\ requests' \in {[requests EXCEPT ![n] = r] :
                      r \in IF status[n] = "down" THEN scenario.requests ELSE {requests[n]}}
  /\ status' = [status EXCEPT ![n] = "running"]
  /\ age' = [age EXCEPT ![n] = IF status[n] = "down" THEN "fresh" ELSE @]
  /\ UNCHANGED <<subscriptions, coordinator, observer, failures>>

\* register inserts the subscriber or brings its entry up to date.  A new
\* process may come with other requests, a broker that is retried may not.
Start(n) ==
  /\ status[n] # "running"
  /\ requests' \in {[requests EXCEPT ![n] = r] :
                      r \in IF status[n] = "down" THEN scenario.requests ELSE {requests[n]}}
  /\ status' = [status EXCEPT ![n] = "running"]
  /\ age' = [age EXCEPT ![n] = "fresh"]
  /\ UNCHANGED <<subscriptions, coordinator, observer, failures>>

\* heartbeat updates an entry that exists; it does not insert one.
Heartbeat(n) ==
  /\ status[n] = "running"
  /\ age[n] \in {"stale", "expired"}
  /\ age' = [age EXCEPT ![n] = "fresh"]
  /\ UNCHANGED <<status, requests, subscriptions, coordinator, observer, failures>>

\* Time passes without a heartbeat: as it must when the broker is not running,
\* late or paused when it is.
Age(n) ==
  /\ \/ age[n] = "fresh" /\ age' = [age EXCEPT ![n] = "stale"]
     \/ age[n] = "stale" /\ age' = [age EXCEPT ![n] = "expired"]
  /\ \/ status[n] # "running" /\ UNCHANGED failures
     \/ /\ status[n] = "running"
        /\ age[n] = "fresh" => "late" \in scenario.faults
        /\ age[n] = "stale" => "pause" \in scenario.faults
        /\ Fault
  /\ UNCHANGED <<status, requests, subscriptions, coordinator, observer>>

Purge(n) ==
  /\ status[n] = "running"
  /\ \E s \in Nodes : age[s] = "expired"
  /\ age' = [s \in Nodes |-> IF age[s] = "expired" THEN "absent" ELSE age[s]]
  /\ UNCHANGED <<status, requests, subscriptions, coordinator, observer, failures>>

-----------------------------------------------------------------------------
(***************************************************************************)
(* The coordinator and the subscription state store.                       *)
(***************************************************************************)
\* Slip: the outcome of try_lock is not looked at.
LeadAnyway(n) ==
  /\ status[n] = "running" /\ pc[n] = "waiting"
  /\ leader' = n
  /\ pc' = [pc EXCEPT ![n] = "elected"]
  /\ UNCHANGED <<status, store, listed, changes, observer, failures>>

\* try_lock succeeds; the first distribution follows at once.
Lead(n) ==
  /\ status[n] = "running" /\ pc[n] = "waiting"
  /\ leader = None
  /\ leader' = n
  /\ pc' = [pc EXCEPT ![n] = "elected"]
  /\ UNCHANGED <<status, store, listed, changes, observer, failures>>

ListSubscriptions(n) ==
  /\ status[n] = "running" /\ pc[n] \in {"elected", "leading"}
  /\ listed' = [listed EXCEPT ![n] = subscriptions]
  /\ pc' = [pc EXCEPT ![n] = "listed"]
  /\ UNCHANGED <<status, store, leader, changes, observer, failures>>

\* chunk deals the sources, in the order of a set, to the subscribers: their
\* shares differ by one at most.
Chunks(new, eligible) ==
  {f \in [new -> eligible] :
     \A a, b \in eligible :
       Cardinality({x \in new : f[x] = a}) <= Cardinality({x \in new : f[x] = b}) + 1}

\* Slip: the subscriptions of ineligible subscribers are left in place.
RedistributionKeepingIneligible(subs, live, eligible, target, f) ==
  LET removed  == (UNION {subs[s] : s \in DOMAIN subs \cap live}) \ target
      Dealt(s) == {x \in DOMAIN f : f[x] = s}
  IN  [add     |-> [s \in eligible \ DOMAIN subs |-> Dealt(s)],
       replace |-> [s \in eligible \cap DOMAIN subs |-> (subs[s] \ removed) \cup Dealt(s)],
       remove  |-> DOMAIN subs \ live]

\* Slip: a subscription that exists keeps its sources and gets no new ones.
RedistributionToNewOnly(subs, live, eligible, target, f) ==
  LET removed  == (UNION {subs[s] : s \in DOMAIN subs \cap live}) \ target
      Dealt(s) == {x \in DOMAIN f : f[x] = s}
  IN  [add     |-> [s \in eligible \ DOMAIN subs |-> Dealt(s)],
       replace |-> [s \in eligible \cap DOMAIN subs |-> subs[s] \ removed],
       remove  |-> DOMAIN subs \ eligible]

\* The changes for subscriptions subs when the subscribers that requested
\* exactly target are eligible, and the new sources are dealt by f.
Redistribution(subs, live, eligible, target, f) ==
  LET removed  == (UNION {subs[s] : s \in DOMAIN subs \cap live}) \ target
      Dealt(s) == {x \in DOMAIN f : f[x] = s}
  IN  [add     |-> [s \in eligible \ DOMAIN subs |-> Dealt(s)],
       replace |-> [s \in eligible \cap DOMAIN subs |-> (subs[s] \ removed) \cup Dealt(s)],
       remove  |-> DOMAIN subs \ eligible]

\* distribute: the longest requests of the live subscribers are the target.
\* Of several such requests any one may come first.
Distributions(subs, live) ==
  IF live = {} THEN {[NoChanges EXCEPT !.remove = DOMAIN subs]}
  ELSE UNION {
    LET eligible == {s \in live : requests[s] = requests[t]}
        target   == Range(requests[t])
        correct  == UNION {subs[s] \cap target : s \in DOMAIN subs \cap eligible}
    IN  {Redistribution(subs, live, eligible, target, f) :
           f \in Chunks(target \ correct, eligible)} :
    t \in {s \in live : \A u \in live : Len(requests[u]) <= Len(requests[s])} }

\* The subscribers seen lately are listed and the changes worked out.
ListSubscribers(n) ==
  /\ status[n] = "running" /\ pc[n] = "listed"
  /\ \E c \in Distributions(listed[n], {s \in Nodes : age[s] = "fresh"}) :
       changes' = [changes EXCEPT ![n] = c]
  /\ listed' = [listed EXCEPT ![n] = NoSubscriptions]
  /\ pc' = [pc EXCEPT ![n] = "applying"]
  /\ UNCHANGED <<status, store, leader, observer, failures>>

\* Whether no change adds an existing or touches a missing subscription.
Applicable(c) ==
  /\ DOMAIN c.add \cap DOMAIN subscriptions = {}
  /\ DOMAIN c.replace \cup c.remove \subseteq DOMAIN subscriptions

Apply(n) ==
  LET c == changes[n] IN
  /\ status[n] = "running" /\ pc[n] = "applying"
  /\ Applicable(c)
  /\ subscriptions' =
       [s \in (DOMAIN subscriptions \ c.remove) \cup DOMAIN c.add |->
          IF s \in DOMAIN c.add THEN c.add[s]
          ELSE IF s \in DOMAIN c.replace THEN c.replace[s] ELSE subscriptions[s]]
  /\ changes' = [changes EXCEPT ![n] = NoChanges]
  /\ pc' = [pc EXCEPT ![n] = "leading"]
  /\ UNCHANGED <<status, age, requests, leader, listed, observer, failures>>

\* leadership_max_duration is over: the lock is given up.
StepDown(n) ==
  /\ status[n] = "running" /\ pc[n] = "leading"
  /\ leader' = IF leader = n THEN None ELSE leader
  /\ pc' = [pc EXCEPT ![n] = "waiting"]
  /\ UNCHANGED <<status, store, listed, changes, observer, failures>>

-----------------------------------------------------------------------------
(***************************************************************************)
(* The observer.  It only reaches the subscriber of its own node, so what  *)
(* it reads is kept as the sources of that subscriber.                     *)
(***************************************************************************)
OwnSources(n) == IF n \in DOMAIN subscriptions THEN subscriptions[n] ELSE {}

\* Slip: sources taken from a subscription that still exists are overlooked.
RevocationsOfRemoved(n, new) == IF n \in DOMAIN subscriptions THEN {} ELSE observed[n]

\* The changeset of EventSubscriptionDifference: sources read before and no
\* longer there, and sources read for the first time.
Revocations(n, new) == observed[n] \ new
Allocations(n, new) == new \ observed[n]

\* Once the changeset is worked off, without another await, what was read
\* becomes _existing_subscriptions.
Continue(n, new, sources) ==
  LET done == sources \cap Revocations(n, new) = {} /\ Allocations(n, new) \subseteq sources
  IN  /\ observed' = [observed EXCEPT ![n] = IF done THEN new ELSE @]
      /\ updated' = [updated EXCEPT ![n] = IF done THEN {} ELSE new]
      /\ phase' = [phase EXCEPT ![n] = IF done THEN "idle" ELSE "syncing"]

\* synchronise reads the subscriptions ...
Observe(n) ==
  /\ status[n] = "running" /\ phase[n] = "idle"
  /\ Continue(n, OwnSources(n), accepted[n])
  /\ UNCHANGED <<status, store, coordinator, accepted, failures>>

\* ... withdraws the revoked sources, one after the other ...
Withdraw(n) ==
  /\ status[n] = "running" /\ phase[n] = "syncing"
  /\ \E x \in accepted[n] \cap Revocations(n, updated[n]) :
       /\ accepted' = [accepted EXCEPT ![n] = @ \ {x}]
       /\ Continue(n, updated[n], accepted[n] \ {x})
  /\ UNCHANGED <<status, store, coordinator, failures>>

\* ... and then accepts the allocated ones.
Accept(n) ==
  /\ status[n] = "running" /\ phase[n] = "syncing"
  /\ accepted[n] \cap Revocations(n, updated[n]) = {}
  /\ \E x \in Allocations(n, updated[n]) \ accepted[n] :
       /\ accepted' = [accepted EXCEPT ![n] = @ \cup {x}]
       /\ Continue(n, updated[n], accepted[n] \cup {x})
  /\ UNCHANGED <<status, store, coordinator, failures>>

-----------------------------------------------------------------------------
(***************************************************************************)
(* Faults.                                                                 *)
(***************************************************************************)
\* The tasks of the node's broker end, and with them its hold on the lock.
EndTasks(n) ==
  /\ leader' = IF leader = n THEN None ELSE leader
  /\ pc' = [pc EXCEPT ![n] = "waiting"]
  /\ listed' = [listed EXCEPT ![n] = NoSubscriptions]
  /\ changes' = [changes EXCEPT ![n] = NoChanges]
  /\ phase' = [phase EXCEPT ![n] = "idle"]
  /\ updated' = [updated EXCEPT ![n] = {}]

\* One task of the broker raises: the task group cancels the others, stop
\* unregisters the subscriber (if the store can be reached), and the error
\* handler retries.  The subscriber goes on consuming what it has accepted.
StopBroker(n) ==
  /\ EndTasks(n)
  /\ status' = [status EXCEPT ![n] = "stopped"]
  /\ age' \in {age, [age EXCEPT ![n] = "absent"]}
  /\ UNCHANGED <<requests, subscriptions, observed, accepted>>

\* apply raises.
ApplyFails(n) ==
  /\ status[n] = "running" /\ pc[n] = "applying"
  /\ ~Applicable(changes[n])
  /\ StopBroker(n)
  /\ UNCHANGED failures

BrokerFails(n) ==
  /\ status[n] = "running"
  /\ IF phase[n] = "idle" THEN "error" \in scenario.faults ELSE "interrupt" \in scenario.faults
  /\ Fault
  /\ StopBroker(n)

\* The process dies; its subscriber is gone, its entry in the store is not.
Crash(n) ==
  /\ status[n] # "down" /\ "crash" \in scenario.faults
  /\ Fault
  /\ EndTasks(n)
  /\ status' = [status EXCEPT ![n] = "down"]
  /\ observed' = [observed EXCEPT ![n] = {}]
  /\ accepted' = [accepted EXCEPT ![n] = {}]
  /\ UNCHANGED <<age, requests, subscriptions>>

\* The database drops the connection that holds the advisory lock.  The
\* coordinator does not use that connection again and does not notice.
LoseLock ==
  /\ leader # None /\ "lock" \in scenario.faults
  /\ Fault
  /\ leader' = None
  /\ UNCHANGED <<status, store, pc, listed, changes, observer>>

-----------------------------------------------------------------------------
Coordinate(n) ==
  \/ ListSubscriptions(n) \/ ListSubscribers(n) \/ Apply(n) \/ ApplyFails(n)

Synchronise(n) == Observe(n) \/ Withdraw(n) \/ Accept(n)

Next ==
  \/ \E n \in Nodes :
       \/ Start(n) \/ Heartbeat(n) \/ Age(n) \/ Purge(n)
       \/ Lead(n) \/ Coordinate(n) \/ StepDown(n) \/ Synchronise(n)
       \/ BrokerFails(n) \/ Crash(n)
  \/ LoseLock

\* A broker that failed is retried, the loops of a running broker keep running,
\* and time passes, so that leadership_max_duration ends every leadership.  A
\* process that died need not come back.
Fairness ==
  \A n \in Nodes :
    /\ WF_vars(status[n] = "stopped" /\ Start(n))
    /\ WF_vars(status[n] # "running" /\ Age(n))
    /\ WF_vars(Heartbeat(n)) /\ WF_vars(Purge(n))
    /\ WF_vars(Lead(n)) /\ WF_vars(Coordinate(n)) /\ WF_vars(Synchronise(n))
    /\ SF_vars(StepDown(n))

Spec == Init /\ [][Next]_vars

FairSpec == Spec /\ Fairness

-----------------------------------------------------------------------------
Subscriptions == UNION {[K -> SUBSET Sources] : K \in SUBSET Nodes}

Changes ==
  [add : Subscriptions, replace : Subscriptions, remove : SUBSET Nodes]

TypeOK ==
  /\ status \in [Nodes -> {"down", "stopped", "running"}]
  /\ age \in [Nodes -> {"absent", "fresh", "stale", "expired"}]
  /\ requests \in [Nodes -> scenario.requests]
  /\ subscriptions \in Subscriptions
  /\ leader \in Nodes \cup {None}
  /\ pc \in [Nodes -> {"waiting", "elected", "leading", "listed", "applying"}]
  /\ listed \in [Nodes -> Subscriptions]
  /\ changes \in [Nodes -> Changes]
  /\ phase \in [Nodes -> {"idle", "syncing"}]
  /\ observed \in [Nodes -> SUBSET Sources]
  /\ updated \in [Nodes -> SUBSET Sources]
  /\ accepted \in [Nodes -> SUBSET Sources]
  /\ scenario \in Scenarios
  /\ faults \in Nat

\* Whether the coordinator's lock can be relied on.
LockReliable == "lock" \notin scenario.faults

\* Each source is allocated to one subscriber at most, whatever the subscribers
\* and the leaders did between the reads of a distribution and its writes.
NoDoubleAllocation ==
  LockReliable =>
    \A m, n \in DOMAIN subscriptions :
      m # n => subscriptions[m] \cap subscriptions[n] = {}

\* A distribution never asks the store to add a subscription that exists or
\* to replace or remove one that does not: apply does not raise.
ChangesApplicable ==
  LockReliable => \A n \in Nodes : pc[n] = "applying" => Applicable(changes[n])

\* What a subscriber consumes is what its observer last read, although the
\* broker fails and is retried around it.
AcceptedAsObserved ==
  LockReliable => \A n \in Nodes : phase[n] = "idle" => accepted[n] = observed[n]

\* The sources of the longest requests of the running subscribers.
WantedSources ==
  LET up == {n \in Nodes : status[n] = "running"}
  IN  UNION {Range(requests[n]) :
               n \in {m \in up : \A u \in up : Len(requests[u]) <= Len(requests[m])}}

Settled ==
  \A x \in Sources :
    Cardinality({n \in Nodes : x \in accepted[n]}) = IF x \in WantedSources THEN 1 ELSE 0

\* Work allocation recovers: once faults stop, every source that is wanted is
\* consumed by exactly one subscriber, for good.
WorkRecovers == LockReliable => <>[]Settled

\* Even when two nodes lead at once and one's changes overtake the other's, no
\* source stays without a subscription.
NoSourceLost ==
  <>[](WantedSources \subseteq UNION {subscriptions[n] : n \in DOMAIN subscriptions})
=============================================================================
