-------------------- MODULE SubscriptionCoordinationProofs --------------------
(***************************************************************************)
(* Proofs about SubscriptionCoordination for any number of nodes, sources, *)
(* requests and faults.                                                    *)
(***************************************************************************)
EXTENDS SubscriptionCoordination, TLAPS

-----------------------------------------------------------------------------
(***************************************************************************)
(* The inductive invariant.  A distribution reads the subscriptions, then  *)
(* the subscribers, and writes in a third statement.  What it has read     *)
(* stays true because nobody else writes subscriptions while it has the    *)
(* lock; so what it is about to write is right, too.                       *)
(***************************************************************************)
Single(subs) == \A m, n \in DOMAIN subs : m # n => subs[m] \cap subs[n] = {}

\* The subscriptions after changes c have been applied to them.
Applied(subs, c) ==
  [s \in (DOMAIN subs \ c.remove) \cup DOMAIN c.add |->
     IF s \in DOMAIN c.add THEN c.add[s]
     ELSE IF s \in DOMAIN c.replace THEN c.replace[s] ELSE subs[s]]

FitFor(subs, c) ==
  /\ DOMAIN c.add \cap DOMAIN subs = {}
  /\ DOMAIN c.replace \cup c.remove \subseteq DOMAIN subs
  /\ Single(Applied(subs, c))

LeaderInv ==
  LockReliable => \A n \in Nodes : pc[n] # "waiting" => leader = n

DistributionInv ==
  LockReliable =>
    \A n \in Nodes :
      /\ pc[n] = "listed" => listed[n] = subscriptions
      /\ pc[n] = "applying" => FitFor(subscriptions, changes[n])

\* No synchronisation is cut short.
Uninterrupted == LockReliable /\ "interrupt" \notin scenario.faults

\* While the observer works on the difference, what the subscriber consumes
\* lies between what was read before and what was read last.
SynchroniseInv ==
  Uninterrupted =>
    \A n \in Nodes :
      /\ phase[n] = "idle" => accepted[n] = observed[n]
      /\ phase[n] = "syncing" =>
           /\ accepted[n] \subseteq observed[n] \cup updated[n]
           /\ observed[n] \cap updated[n] \subseteq accepted[n]

IInv ==
  /\ TypeOK
  /\ LeaderInv
  /\ NoDoubleAllocation
  /\ DistributionInv
  /\ SynchroniseInv

-----------------------------------------------------------------------------
(***************************************************************************)
(* Distributions.                                                          *)
(***************************************************************************)
LEMMA SubscriptionsType ==
  /\ \A subs \in Subscriptions :
       /\ DOMAIN subs \in SUBSET Nodes
       /\ \A s \in DOMAIN subs : subs[s] \in SUBSET Sources
  /\ \A K \in SUBSET Nodes : \A f \in [K -> SUBSET Sources] : f \in Subscriptions
BY DEF Subscriptions

LEMMA NoneSubscribed == NoSubscriptions \in Subscriptions
<1>1. {} \in SUBSET Nodes /\ NoSubscriptions \in [{} -> SUBSET Sources]
  BY DEF NoSubscriptions
<1> QED BY <1>1, SubscriptionsType

Eligible(live, t) == {s \in live : requests[s] = requests[t]}

\* The sources of t's request that its eligible subscribers have already.
Correct(subs, live, t) ==
  UNION {subs[s] \cap Range(requests[t]) : s \in DOMAIN subs \cap Eligible(live, t)}

\* What distribute returns, case by case.
OneOfTwoCases(subs, live, c) ==
  \/ c = [add |-> NoSubscriptions, replace |-> NoSubscriptions, remove |-> DOMAIN subs]
  \/ \E t \in live :
       \E f \in [Range(requests[t]) \ Correct(subs, live, t) -> Eligible(live, t)] :
         c = Redistribution(subs, live, Eligible(live, t), Range(requests[t]), f)

LEMMA DistributionCases ==
  ASSUME NEW subs, NEW live, NEW c \in Distributions(subs, live)
  PROVE  OneOfTwoCases(subs, live, c)
<1> USE DEF OneOfTwoCases
<1>1. CASE live = {}
  <2>1. c = [NoChanges EXCEPT !.remove = DOMAIN subs]
    BY <1>1 DEF Distributions
  <2> QED BY <2>1 DEF NoChanges
<1>2. CASE live # {}
  <2>1. c \in UNION {{Redistribution(subs, live, Eligible(live, t), Range(requests[t]), f) :
                        f \in Chunks(Range(requests[t]) \ Correct(subs, live, t), Eligible(live, t))} :
                     t \in {s \in live : \A u \in live : Len(requests[u]) <= Len(requests[s])}}
    BY <1>2 DEF Distributions, Eligible, Correct
  <2>2. PICK t \in live : \E f \in Chunks(Range(requests[t]) \ Correct(subs, live, t), Eligible(live, t)) :
          c = Redistribution(subs, live, Eligible(live, t), Range(requests[t]), f)
    BY <2>1
  <2> QED BY <2>2 DEF Chunks
<1> QED BY <1>1, <1>2

LEMMA DistributionType ==
  ASSUME NEW subs \in Subscriptions, NEW live \in SUBSET Nodes,
         \A s \in Nodes : Range(requests[s]) \subseteq Sources,
         NEW c \in Distributions(subs, live)
  PROVE  c \in Changes
<1>0. NoSubscriptions \in Subscriptions
  BY NoneSubscribed
<1>1. CASE c = [add |-> NoSubscriptions, replace |-> NoSubscriptions, remove |-> DOMAIN subs]
  BY <1>0, <1>1, SubscriptionsType DEF Changes
<1>2. ASSUME NEW t \in live,
             NEW f \in [Range(requests[t]) \ Correct(subs, live, t) -> Eligible(live, t)],
             c = Redistribution(subs, live, Eligible(live, t), Range(requests[t]), f)
      PROVE  c \in Changes
  <2> DEFINE eligible == Eligible(live, t)
             target   == Range(requests[t])
             removed  == (UNION {subs[s] : s \in DOMAIN subs \cap live}) \ target
             Dealt(s) == {x \in DOMAIN f : f[x] = s}
  <2>0. eligible \in SUBSET Nodes /\ target \in SUBSET Sources
    BY DEF Eligible
  <2>1. \A s : Dealt(s) \in SUBSET Sources
    BY <2>0
  <2>2. c = [add     |-> [s \in eligible \ DOMAIN subs |-> Dealt(s)],
             replace |-> [s \in eligible \cap DOMAIN subs |-> (subs[s] \ removed) \cup Dealt(s)],
             remove  |-> DOMAIN subs \ eligible]
    BY <1>2 DEF Redistribution
  <2> HIDE DEF eligible, target, removed, Dealt
  <2>3. [s \in eligible \ DOMAIN subs |-> Dealt(s)] \in Subscriptions
    BY <2>0, <2>1, SubscriptionsType
  <2>4. [s \in eligible \cap DOMAIN subs |-> (subs[s] \ removed) \cup Dealt(s)] \in Subscriptions
    BY <2>0, <2>1, SubscriptionsType
  <2> QED BY <2>0, <2>2, <2>3, <2>4, SubscriptionsType DEF Changes
<1>3. ASSUME NEW t \in live,
             \E f \in [Range(requests[t]) \ Correct(subs, live, t) -> Eligible(live, t)] :
               c = Redistribution(subs, live, Eligible(live, t), Range(requests[t]), f)
      PROVE  c \in Changes
  <2>1. PICK f \in [Range(requests[t]) \ Correct(subs, live, t) -> Eligible(live, t)] :
          c = Redistribution(subs, live, Eligible(live, t), Range(requests[t]), f)
    BY <1>3
  <2> QED BY <1>2, <2>1
<1>4. OneOfTwoCases(subs, live, c)
  BY DistributionCases
<1> QED BY <1>1, <1>3, <1>4 DEF OneOfTwoCases

\* Whoever is eligible, the changes that distribute works out fit the
\* subscriptions it has read: a source that an eligible subscriber keeps is not
\* dealt again, and ineligible subscribers lose all theirs.
LEMMA DistributionFits ==
  ASSUME NEW subs \in Subscriptions, Single(subs), NEW live \in SUBSET Nodes,
         NEW c \in Distributions(subs, live)
  PROVE  FitFor(subs, c)
<1>1. CASE c = [add |-> NoSubscriptions, replace |-> NoSubscriptions, remove |-> DOMAIN subs]
  <2>1. c.remove = DOMAIN subs /\ DOMAIN c.add = {} /\ DOMAIN c.replace = {}
    BY <1>1 DEF NoSubscriptions
  <2> QED BY <2>1 DEF FitFor, Applied, Single
<1>2. ASSUME NEW t \in live,
             NEW f \in [Range(requests[t]) \ Correct(subs, live, t) -> Eligible(live, t)],
             c = Redistribution(subs, live, Eligible(live, t), Range(requests[t]), f)
      PROVE  FitFor(subs, c)
  <2> DEFINE eligible == Eligible(live, t)
             target   == Range(requests[t])
             removed  == (UNION {subs[s] : s \in DOMAIN subs \cap live}) \ target
             Dealt(s) == {x \in DOMAIN f : f[x] = s}
             Kept(s)  == subs[s] \ removed
             after    == Applied(subs, c)
  <2>0. /\ eligible \in SUBSET live
        /\ \A u \in eligible \cap DOMAIN subs : DOMAIN f \cap (subs[u] \cap target) = {}
    BY DEF Eligible, Correct
  <2>1. /\ c.add = [s \in eligible \ DOMAIN subs |-> Dealt(s)]
        /\ c.replace = [s \in eligible \cap DOMAIN subs |-> Kept(s) \cup Dealt(s)]
        /\ c.remove = DOMAIN subs \ eligible
    BY <1>2 DEF Redistribution
  <2>2. \A s \in eligible \cap DOMAIN subs : Kept(s) \subseteq target \cap subs[s]
    <3> HIDE DEF eligible, target
    <3> QED BY <2>0
  <2>3. \A s, u : u \in eligible \cap DOMAIN subs => Dealt(s) \cap Kept(u) = {}
    <3> HIDE DEF eligible, target, removed
    <3> QED BY <2>0, <2>2
  <2>4. \A s, u : s # u => Dealt(s) \cap Dealt(u) = {}
    OBVIOUS
  <2>5. \A s, u \in eligible \cap DOMAIN subs : s # u => Kept(s) \cap Kept(u) = {}
    BY DEF Single
  <2> HIDE DEF eligible, target, removed, Dealt, Kept
  <2>6. /\ DOMAIN c.add = eligible \ DOMAIN subs
        /\ DOMAIN c.replace = eligible \cap DOMAIN subs
    BY <2>1
  <2>7. DOMAIN after = eligible
    BY <2>1, <2>6 DEF Applied
  <2>8. \A s \in eligible :
          after[s] = IF s \in DOMAIN subs THEN Kept(s) \cup Dealt(s) ELSE Dealt(s)
    BY <2>1, <2>6, <2>7 DEF Applied
  <2> HIDE DEF after
  <2>9. Single(after)
    <3> SUFFICES ASSUME NEW s \in eligible, NEW u \in eligible, s # u
                 PROVE  after[s] \cap after[u] = {}
      BY <2>7 DEF Single
    <3>1. Dealt(s) \cap Dealt(u) = {}
      BY <2>4
    <3>2. CASE s \in DOMAIN subs /\ u \in DOMAIN subs
      <4>1. Dealt(s) \cap Kept(u) = {} /\ Dealt(u) \cap Kept(s) = {} /\ Kept(s) \cap Kept(u) = {}
        BY <2>3, <2>5, <3>2
      <4> QED BY <2>8, <3>1, <3>2, <4>1
    <3>3. CASE s \in DOMAIN subs /\ u \notin DOMAIN subs
      <4>1. Dealt(u) \cap Kept(s) = {}
        BY <2>3, <3>3
      <4> QED BY <2>8, <3>1, <3>3, <4>1
    <3>4. CASE s \notin DOMAIN subs /\ u \in DOMAIN subs
      <4>1. Dealt(s) \cap Kept(u) = {}
        BY <2>3, <3>4
      <4> QED BY <2>8, <3>1, <3>4, <4>1
    <3>5. CASE s \notin DOMAIN subs /\ u \notin DOMAIN subs
      BY <2>8, <3>1, <3>5
    <3> QED BY <3>2, <3>3, <3>4, <3>5
  <2> QED BY <2>1, <2>6, <2>9 DEF FitFor, after
<1>3. ASSUME NEW t \in live,
             \E f \in [Range(requests[t]) \ Correct(subs, live, t) -> Eligible(live, t)] :
               c = Redistribution(subs, live, Eligible(live, t), Range(requests[t]), f)
      PROVE  FitFor(subs, c)
  <2>1. PICK f \in [Range(requests[t]) \ Correct(subs, live, t) -> Eligible(live, t)] :
          c = Redistribution(subs, live, Eligible(live, t), Range(requests[t]), f)
    BY <1>3
  <2> QED BY <1>2, <2>1
<1>4. OneOfTwoCases(subs, live, c)
  BY DistributionCases
<1> QED BY <1>1, <1>3, <1>4 DEF OneOfTwoCases

-----------------------------------------------------------------------------
(***************************************************************************)
(* Steps.                                                                  *)
(***************************************************************************)
Manages(n) == Start(n) \/ Heartbeat(n) \/ Age(n) \/ Purge(n)

Interrupts(n) == (ApplyFails(n) \/ BrokerFails(n)) /\ StopBroker(n)

LEMMA StepKinds ==
  ASSUME Next
  PROVE  \/ \E n \in Nodes :
              \/ Manages(n) \/ Lead(n) \/ ListSubscriptions(n) \/ ListSubscribers(n)
              \/ Apply(n) \/ StepDown(n) \/ Synchronise(n) \/ Interrupts(n) \/ Crash(n)
         \/ LoseLock
BY DEF Next, Coordinate, Manages, Interrupts, ApplyFails, BrokerFails

LEMMA ScenarioStays ==
  ASSUME [Next]_vars
  PROVE  /\ scenario' = scenario
         /\ LockReliable' <=> LockReliable
         /\ Uninterrupted' <=> Uninterrupted
<1>1. scenario' = scenario
  <2>1. ASSUME NEW n \in Nodes, Manages(n) PROVE scenario' = scenario
    BY <2>1 DEF Manages, Start, Heartbeat, Age, Purge, Fault, failures
  <2>2. ASSUME NEW n \in Nodes,
               Lead(n) \/ ListSubscriptions(n) \/ ListSubscribers(n) \/ Apply(n)
               \/ StepDown(n) \/ Synchronise(n)
        PROVE  scenario' = scenario
    BY <2>2 DEF Lead, ListSubscriptions, ListSubscribers, Apply, StepDown, Synchronise,
                Observe, Withdraw, Accept, failures
  <2>3. ASSUME NEW n \in Nodes, Interrupts(n) \/ Crash(n) PROVE scenario' = scenario
    BY <2>3 DEF Interrupts, ApplyFails, BrokerFails, Crash, Fault, failures
  <2>4. CASE LoseLock
    BY <2>4 DEF LoseLock, Fault
  <2> QED BY <2>1, <2>2, <2>3, <2>4, StepKinds DEF vars, failures
<1> QED BY <1>1 DEF LockReliable, Uninterrupted

LEMMA ManagesFacts ==
  ASSUME NEW n \in Nodes, Manages(n)
  PROVE  UNCHANGED <<subscriptions, leader, pc, listed, changes, phase, observed, updated, accepted>>
BY DEF Manages, Start, Heartbeat, Age, Purge, coordinator, observer

LEMMA SynchroniseFacts ==
  ASSUME NEW n \in Nodes, Synchronise(n)
  PROVE  UNCHANGED <<status, age, requests, subscriptions, leader, pc, listed, changes, scenario, faults>>
BY DEF Synchronise, Observe, Withdraw, Accept, store, coordinator, failures

\* The observer of one node takes a step: what it has read, what the subscriber
\* consumes afterwards, and whether that ends the synchronisation.
LEMMA ContinueFacts ==
  ASSUME TypeOK, NEW n \in Nodes, Synchronise(n)
  PROVE  \E new \in SUBSET Sources, sources \in SUBSET Sources :
           /\ accepted' = [accepted EXCEPT ![n] = sources]
           /\ Continue(n, new, sources)
           /\ \/ phase[n] = "idle" /\ sources = accepted[n]
              \/ /\ phase[n] = "syncing" /\ new = updated[n]
                 /\ \/ \E x \in Revocations(n, new) : sources = accepted[n] \ {x}
                    \/ \E x \in Allocations(n, new) : sources = accepted[n] \cup {x}
<1> USE DEF TypeOK
<1>1. CASE Observe(n)
  <2>1. OwnSources(n) \in SUBSET Sources
    BY SubscriptionsType DEF OwnSources
  <2>2. accepted' = [accepted EXCEPT ![n] = accepted[n]] /\ accepted[n] \in SUBSET Sources
    BY <1>1 DEF Observe
  <2> QED BY <1>1, <2>1, <2>2 DEF Observe
<1>2. CASE Withdraw(n)
  <2>1. PICK x \in accepted[n] \cap Revocations(n, updated[n]) :
          /\ accepted' = [accepted EXCEPT ![n] = accepted[n] \ {x}]
          /\ Continue(n, updated[n], accepted[n] \ {x})
    BY <1>2 DEF Withdraw
  <2>2. updated[n] \in SUBSET Sources /\ accepted[n] \ {x} \in SUBSET Sources
    OBVIOUS
  <2>3. phase[n] = "syncing"
    BY <1>2 DEF Withdraw
  <2> QED BY <2>1, <2>2, <2>3
<1>3. CASE Accept(n)
  <2>1. PICK x \in Allocations(n, updated[n]) \ accepted[n] :
          /\ accepted' = [accepted EXCEPT ![n] = accepted[n] \cup {x}]
          /\ Continue(n, updated[n], accepted[n] \cup {x})
    BY <1>3 DEF Accept
  <2>2. updated[n] \in SUBSET Sources /\ accepted[n] \cup {x} \in SUBSET Sources
    BY DEF Allocations
  <2>3. phase[n] = "syncing"
    BY <1>3 DEF Accept
  <2> QED BY <2>1, <2>2, <2>3
<1> QED BY <1>1, <1>2, <1>3 DEF Synchronise

LEMMA RequestsAreSources ==
  ASSUME TypeOK, NEW n \in Nodes
  PROVE  Range(requests[n]) \in SUBSET Sources
<1>1. requests[n] \in Seq(Sources)
  BY ScenariosAssumption DEF TypeOK
<1> QED BY <1>1 DEF Range

LEMMA AppliedType ==
  ASSUME NEW subs \in Subscriptions, NEW c \in Changes
  PROVE  Applied(subs, c) \in Subscriptions
<1>1. c.add \in Subscriptions /\ c.replace \in Subscriptions /\ c.remove \in SUBSET Nodes
  BY DEF Changes
<1>2. (DOMAIN subs \ c.remove) \cup DOMAIN c.add \in SUBSET Nodes
  BY <1>1, SubscriptionsType
<1>3. Applied(subs, c) \in [(DOMAIN subs \ c.remove) \cup DOMAIN c.add -> SUBSET Sources]
  BY <1>1, SubscriptionsType DEF Applied
<1> QED BY <1>2, <1>3, SubscriptionsType

LEMMA ApplyFacts ==
  ASSUME NEW n \in Nodes, Apply(n)
  PROVE  /\ subscriptions' = Applied(subscriptions, changes[n])
         /\ pc[n] = "applying"
         /\ pc' = [pc EXCEPT ![n] = "leading"]
         /\ changes' = [changes EXCEPT ![n] = NoChanges]
         /\ UNCHANGED <<status, age, requests, leader, listed, phase, observed, updated, accepted,
                        scenario, faults>>
BY DEF Apply, Applied, observer, failures

LEMMA TypeStep ==
  ASSUME TypeOK, [Next]_vars
  PROVE  TypeOK'
<1> USE DEF TypeOK
<1>0. NoSubscriptions \in Subscriptions /\ NoChanges \in Changes
  BY NoneSubscribed DEF NoChanges, Changes
<1>1. ASSUME NEW n \in Nodes, Manages(n) PROVE TypeOK'
  <2>1. CASE Start(n)
    <3>1. PICK r \in IF status[n] = "down" THEN scenario.requests ELSE {requests[n]} :
            requests' = [requests EXCEPT ![n] = r]
      BY <2>1 DEF Start
    <3>2. r \in scenario.requests
      OBVIOUS
    <3> QED BY <2>1, <3>1, <3>2 DEF Start, coordinator, observer, failures
  <2>2. CASE Heartbeat(n)
    BY <2>2 DEF Heartbeat, coordinator, observer, failures
  <2>3. CASE Age(n)
    BY <2>3 DEF Age, Fault, coordinator, observer, failures
  <2>4. CASE Purge(n)
    BY <2>4 DEF Purge, coordinator, observer, failures
  <2> QED BY <1>1, <2>1, <2>2, <2>3, <2>4 DEF Manages
<1>2. ASSUME NEW n \in Nodes, Lead(n) \/ ListSubscriptions(n) \/ StepDown(n) PROVE TypeOK'
  BY <1>2 DEF Lead, ListSubscriptions, StepDown, store, observer, failures
<1>3. ASSUME NEW n \in Nodes, ListSubscribers(n) PROVE TypeOK'
  <2>1. PICK c \in Distributions(listed[n], {s \in Nodes : age[s] = "fresh"}) :
          changes' = [changes EXCEPT ![n] = c]
    BY <1>3 DEF ListSubscribers
  <2>2. c \in Changes
    BY RequestsAreSources, DistributionType
  <2> QED BY <1>0, <1>3, <2>1, <2>2 DEF ListSubscribers, store, observer, failures
<1>4. ASSUME NEW n \in Nodes, Apply(n) PROVE TypeOK'
  <2>1. Applied(subscriptions, changes[n]) \in Subscriptions
    BY AppliedType
  <2>2. /\ subscriptions' = Applied(subscriptions, changes[n])
        /\ pc' = [pc EXCEPT ![n] = "leading"]
        /\ changes' = [changes EXCEPT ![n] = NoChanges]
        /\ UNCHANGED <<status, age, requests, leader, listed, phase, observed, updated, accepted,
                       scenario, faults>>
    BY <1>4, ApplyFacts
  <2> QED BY <1>0, <2>1, <2>2
<1>5. ASSUME NEW n \in Nodes, Synchronise(n) PROVE TypeOK'
  <2>1. PICK new \in SUBSET Sources, sources \in SUBSET Sources :
          accepted' = [accepted EXCEPT ![n] = sources] /\ Continue(n, new, sources)
    BY <1>5, ContinueFacts
  <2> QED BY <1>5, <2>1, SynchroniseFacts DEF Continue
<1>6. ASSUME NEW n \in Nodes, Interrupts(n) PROVE TypeOK'
  <2>1. UNCHANGED scenario /\ faults' \in Nat
    BY <1>6 DEF Interrupts, ApplyFails, BrokerFails, Fault, failures
  <2> QED BY <1>0, <1>6, <2>1 DEF Interrupts, StopBroker, EndTasks
<1>7. ASSUME NEW n \in Nodes, Crash(n) PROVE TypeOK'
  BY <1>0, <1>7 DEF Crash, EndTasks, Fault
<1>8. CASE LoseLock
  BY <1>8 DEF LoseLock, Fault, store, observer
<1>9. CASE UNCHANGED vars
  BY <1>9 DEF vars, store, coordinator, observer, failures
<1> QED BY <1>1, <1>2, <1>3, <1>4, <1>5, <1>6, <1>7, <1>8, <1>9, StepKinds

\* The coordinator's lock, while it is relied on, tells who leads.
LEMMA LeaderStep ==
  ASSUME TypeOK, LeaderInv, [Next]_vars
  PROVE  LeaderInv'
<1> SUFFICES ASSUME LockReliable PROVE \A m \in Nodes : pc'[m] # "waiting" => leader' = m
  BY ScenarioStays DEF LeaderInv
<1>0. \A m \in Nodes : pc[m] # "waiting" => leader = m
  BY DEF LeaderInv
<1> USE NodesAssumption DEF TypeOK
<1>1. ASSUME NEW n \in Nodes, Manages(n) PROVE UNCHANGED <<leader, pc>>
  BY <1>1, ManagesFacts
<1>2. ASSUME NEW n \in Nodes, Synchronise(n) PROVE UNCHANGED <<leader, pc>>
  BY <1>2, SynchroniseFacts
<1>3. ASSUME NEW n \in Nodes, Lead(n)
      PROVE  \A m \in Nodes : pc'[m] # "waiting" => leader' = m
  BY <1>0, <1>3 DEF Lead
<1>4. ASSUME NEW n \in Nodes, ListSubscriptions(n) \/ ListSubscribers(n) \/ Apply(n)
      PROVE  \A m \in Nodes : pc'[m] # "waiting" => leader' = m
  BY <1>0, <1>4 DEF ListSubscriptions, ListSubscribers, Apply
<1>5. ASSUME NEW n \in Nodes, StepDown(n) \/ Interrupts(n) \/ Crash(n)
      PROVE  \A m \in Nodes : pc'[m] # "waiting" => leader' = m
  <2>1. /\ leader' = IF leader = n THEN None ELSE leader
        /\ pc' = [pc EXCEPT ![n] = "waiting"]
    BY <1>5 DEF StepDown, Interrupts, StopBroker, Crash, EndTasks
  <2> QED BY <1>0, <2>1
<1>6. ~LoseLock
  BY DEF LoseLock, LockReliable
<1>7. CASE UNCHANGED vars
  BY <1>0, <1>7 DEF vars, coordinator
<1> QED BY <1>0, <1>1, <1>2, <1>3, <1>4, <1>5, <1>6, <1>7, StepKinds

\* What the leader has read and worked out stays true: only it changes the
\* subscriptions.
LEMMA DistributionStep ==
  ASSUME TypeOK, LeaderInv, NoDoubleAllocation, DistributionInv, [Next]_vars
  PROVE  NoDoubleAllocation' /\ DistributionInv'
<1> SUFFICES ASSUME LockReliable
             PROVE  /\ Single(subscriptions')
                    /\ \A m \in Nodes :
                         /\ pc'[m] = "listed" => listed'[m] = subscriptions'
                         /\ pc'[m] = "applying" => FitFor(subscriptions', changes'[m])
  BY ScenarioStays DEF NoDoubleAllocation, DistributionInv, Single
<1>0. /\ Single(subscriptions)
      /\ \A m \in Nodes :
           /\ pc[m] = "listed" => listed[m] = subscriptions
           /\ pc[m] = "applying" => FitFor(subscriptions, changes[m])
           /\ pc[m] # "waiting" => leader = m
  BY DEF NoDoubleAllocation, DistributionInv, LeaderInv, Single
<1> DEFINE Kept(m) ==
      /\ pc'[m] = "listed" => listed'[m] = subscriptions
      /\ pc'[m] = "applying" => FitFor(subscriptions, changes'[m])
<1> USE DEF TypeOK
<1>1. ASSUME NEW n \in Nodes, Manages(n) \/ Synchronise(n)
      PROVE  UNCHANGED <<subscriptions, pc, listed, changes>>
  BY <1>1, ManagesFacts, SynchroniseFacts
<1>2. ASSUME NEW n \in Nodes, Lead(n) \/ StepDown(n)
      PROVE  subscriptions' = subscriptions /\ \A m \in Nodes : Kept(m)
  BY <1>0, <1>2 DEF Lead, StepDown, store
<1>3. ASSUME NEW n \in Nodes, ListSubscriptions(n)
      PROVE  subscriptions' = subscriptions /\ \A m \in Nodes : Kept(m)
  BY <1>0, <1>3 DEF ListSubscriptions, store
<1>4. ASSUME NEW n \in Nodes, ListSubscribers(n)
      PROVE  subscriptions' = subscriptions /\ \A m \in Nodes : Kept(m)
  <2>1. pc[n] = "listed" /\ listed[n] = subscriptions
    BY <1>0, <1>4 DEF ListSubscribers
  <2>2. PICK c \in Distributions(listed[n], {s \in Nodes : age[s] = "fresh"}) :
          changes' = [changes EXCEPT ![n] = c]
    BY <1>4 DEF ListSubscribers
  <2>3. FitFor(subscriptions, c)
    BY <1>0, <2>1, DistributionFits
  <2>4. /\ subscriptions' = subscriptions /\ pc' = [pc EXCEPT ![n] = "applying"]
        /\ \A m \in Nodes \ {n} : listed'[m] = listed[m]
    BY <1>4 DEF ListSubscribers, store
  <2> QED BY <1>0, <2>2, <2>3, <2>4
<1>5. ASSUME NEW n \in Nodes, Apply(n)
      PROVE  /\ Single(subscriptions')
             /\ \A m \in Nodes : pc'[m] \notin {"listed", "applying"}
  <2>1. /\ subscriptions' = Applied(subscriptions, changes[n])
        /\ pc[n] = "applying" /\ pc' = [pc EXCEPT ![n] = "leading"]
    BY <1>5, ApplyFacts
  <2> QED BY <1>0, <2>1 DEF FitFor
<1>6. ASSUME NEW n \in Nodes, Interrupts(n) \/ Crash(n)
      PROVE  subscriptions' = subscriptions /\ \A m \in Nodes : Kept(m)
  <2>1. /\ subscriptions' = subscriptions /\ pc' = [pc EXCEPT ![n] = "waiting"]
        /\ listed' = [listed EXCEPT ![n] = NoSubscriptions]
        /\ changes' = [changes EXCEPT ![n] = NoChanges]
    BY <1>6 DEF Interrupts, StopBroker, Crash, EndTasks
  <2> QED BY <1>0, <2>1
<1>7. ~LoseLock
  BY DEF LoseLock, LockReliable
<1>8. CASE UNCHANGED vars
  BY <1>0, <1>8 DEF vars, coordinator, store
<1>9. CASE UNCHANGED <<subscriptions, pc, listed, changes>>
  BY <1>0, <1>9
<1> QED BY <1>0, <1>1, <1>2, <1>3, <1>4, <1>5, <1>6, <1>7, <1>8, <1>9, StepKinds

\* A synchronisation that is not cut short ends with what it has read.
LEMMA SynchroniseStep ==
  ASSUME TypeOK, DistributionInv, SynchroniseInv, [Next]_vars
  PROVE  SynchroniseInv'
<1> DEFINE InStep(m) ==
      /\ phase[m] = "idle" => accepted[m] = observed[m]
      /\ phase[m] = "syncing" =>
           /\ accepted[m] \subseteq observed[m] \cup updated[m]
           /\ observed[m] \cap updated[m] \subseteq accepted[m]
<1> SUFFICES ASSUME Uninterrupted PROVE \A m \in Nodes : InStep(m)'
  BY ScenarioStays DEF SynchroniseInv
<1>0. \A m \in Nodes : InStep(m)
  BY DEF SynchroniseInv
<1> USE DEF TypeOK
<1>1. CASE UNCHANGED <<phase, observed, updated, accepted>>
  BY <1>0, <1>1
<1>2. ASSUME NEW n \in Nodes,
             Manages(n) \/ Lead(n) \/ ListSubscriptions(n) \/ ListSubscribers(n) \/ Apply(n)
             \/ StepDown(n)
      PROVE  UNCHANGED <<phase, observed, updated, accepted>>
  BY <1>2, ManagesFacts, ApplyFacts DEF Lead, ListSubscriptions, ListSubscribers, StepDown, observer
<1>3. ASSUME NEW n \in Nodes, Synchronise(n) PROVE \A m \in Nodes : InStep(m)'
  <2>1. PICK new \in SUBSET Sources, sources \in SUBSET Sources :
          /\ accepted' = [accepted EXCEPT ![n] = sources]
          /\ Continue(n, new, sources)
          /\ \/ phase[n] = "idle" /\ sources = accepted[n]
             \/ /\ phase[n] = "syncing" /\ new = updated[n]
                /\ \/ \E x \in Revocations(n, new) : sources = accepted[n] \ {x}
                   \/ \E x \in Allocations(n, new) : sources = accepted[n] \cup {x}
    BY <1>3, ContinueFacts
  <2>2. sources \subseteq observed[n] \cup new /\ observed[n] \cap new \subseteq sources
    <3>1. CASE phase[n] = "idle" /\ sources = accepted[n]
      BY <1>0, <3>1
    <3>2. CASE /\ phase[n] = "syncing" /\ new = updated[n]
               /\ \E x \in Revocations(n, new) : sources = accepted[n] \ {x}
      BY <1>0, <3>2 DEF Revocations
    <3>3. CASE /\ phase[n] = "syncing" /\ new = updated[n]
               /\ \E x \in Allocations(n, new) : sources = accepted[n] \cup {x}
      BY <1>0, <3>3 DEF Allocations
    <3> QED BY <2>1, <3>1, <3>2, <3>3
  <2>3. CASE sources \cap Revocations(n, new) = {} /\ Allocations(n, new) \subseteq sources
    <3>1. sources = new
      BY <2>2, <2>3 DEF Revocations, Allocations
    <3>2. /\ observed' = [observed EXCEPT ![n] = new] /\ phase' = [phase EXCEPT ![n] = "idle"]
          /\ \A m \in Nodes \ {n} : updated'[m] = updated[m]
      BY <2>1, <2>3 DEF Continue
    <3> QED BY <1>0, <2>1, <3>1, <3>2
  <2>4. CASE ~ (sources \cap Revocations(n, new) = {} /\ Allocations(n, new) \subseteq sources)
    <3>1. /\ observed' = [observed EXCEPT ![n] = observed[n]]
          /\ updated' = [updated EXCEPT ![n] = new]
          /\ phase' = [phase EXCEPT ![n] = "syncing"]
      BY <2>1, <2>4 DEF Continue
    <3> QED BY <1>0, <2>1, <2>2, <3>1
  <2> QED BY <2>3, <2>4
<1>4. ASSUME NEW n \in Nodes, Interrupts(n) PROVE \A m \in Nodes : InStep(m)'
  <2>1. ~ApplyFails(n)
    BY DEF ApplyFails, Applicable, DistributionInv, FitFor, Uninterrupted
  <2>2. phase[n] = "idle"
    BY <1>4, <2>1 DEF Interrupts, BrokerFails, Uninterrupted
  <2>3. /\ phase' = [phase EXCEPT ![n] = "idle"] /\ UNCHANGED <<observed, accepted>>
        /\ updated' = [updated EXCEPT ![n] = {}]
    BY <1>4 DEF Interrupts, StopBroker, EndTasks
  <2> QED BY <1>0, <2>2, <2>3
<1>5. ASSUME NEW n \in Nodes, Crash(n) PROVE \A m \in Nodes : InStep(m)'
  BY <1>0, <1>5 DEF Crash, EndTasks
<1>6. ~LoseLock
  BY DEF LoseLock, LockReliable, Uninterrupted
<1>7. CASE UNCHANGED vars
  BY <1>1, <1>7 DEF vars, observer
<1> QED BY <1>1, <1>2, <1>3, <1>4, <1>5, <1>6, <1>7, StepKinds

-----------------------------------------------------------------------------
LEMMA InitHolds == ASSUME Init PROVE IInv
<1>1. NoSubscriptions \in Subscriptions /\ NoChanges \in Changes
  BY NoneSubscribed DEF NoChanges, Changes
<1>2. TypeOK
  BY <1>1 DEF Init, TypeOK
<1>3. DOMAIN subscriptions = {}
  BY DEF Init, NoSubscriptions
<1>4. \A n \in Nodes : pc[n] = "waiting" /\ phase[n] = "idle" /\ accepted[n] = observed[n]
  BY DEF Init
<1> QED BY <1>2, <1>3, <1>4 DEF IInv, LeaderInv, NoDoubleAllocation, DistributionInv, SynchroniseInv

\* The inductive invariant holds in every reachable state of the broker.
THEOREM Invariant == Spec => []IInv
<1>1. Init => IInv
  BY InitHolds
<1>2. IInv /\ [Next]_vars => IInv'
  BY TypeStep, LeaderStep, DistributionStep, SynchroniseStep DEF IInv
<1> QED BY <1>1, <1>2, PTL DEF Spec

\* Every reachable state of nodes and stores is well typed.
THEOREM TypeCorrect == Spec => []TypeOK
<1>1. IInv => TypeOK
  BY DEF IInv
<1> QED BY Invariant, <1>1, PTL

\* Leaders that come, fail and go, and subscribers that appear, age and vanish
\* between the two reads and the write of a distribution never make the store
\* allocate a source to two subscribers, unless the lock itself is lost.
THEOREM AllocatedOnce == Spec => []NoDoubleAllocation
<1>1. IInv => NoDoubleAllocation
  BY DEF IInv
<1> QED BY Invariant, <1>1, PTL

\* The changes of a distribution can be applied: apply raises neither because a
\* subscription exists already nor because one is missing.
THEOREM ApplySucceeds == Spec => []ChangesApplicable
<1>1. IInv => ChangesApplicable
  BY DEF IInv, DistributionInv, FitFor, ChangesApplicable, Applicable
<1> QED BY Invariant, <1>1, PTL

\* No scenario interrupts a synchronisation.  An interrupted one leaves the
\* subscriber with sources its observer does not know of.
NeverInterrupted == \A sc \in Scenarios : "interrupt" \notin sc.faults

\* Between two synchronisations a subscriber consumes exactly what its observer
\* has read, although brokers fail and are retried and processes die.
THEOREM ObserverInStep ==
  ASSUME NeverInterrupted
  PROVE  Spec => []AcceptedAsObserved
<1>1. IInv => AcceptedAsObserved
  BY DEF IInv, TypeOK, SynchroniseInv, Uninterrupted, NeverInterrupted, AcceptedAsObserved
<1> QED BY Invariant, <1>1, PTL
=============================================================================
