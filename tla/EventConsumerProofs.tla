------------------------- MODULE EventConsumerProofs -------------------------
(***************************************************************************)
(* Proofs about EventConsumer for any number of consumers, events and      *)
(* faults, any interval, and with or without a save after each run.        *)
(***************************************************************************)
EXTENDS EventConsumer, SequenceTheorems, TLAPS

-----------------------------------------------------------------------------
(***************************************************************************)
(* The inductive invariant has three parts.  What consumers have cached or *)
(* iterated over has been processed, whoever did it.  As long as the       *)
(* source has not been handed over, only its owner consumes, and what the  *)
(* owner has cached is ahead of the progress saved by at most the lag.     *)
(* And what the owner has cached is in the projection it goes on from.     *)
(***************************************************************************)
CachedProcessed ==
  \A c \in Consumers :
    1 .. state[c] \subseteq processed /\ 1 .. after[c] \subseteq processed

OwnerAlone ==
  ~shared => \A c \in Consumers \ {owner} : pc[c] = "idle" /\ c \notin accepted

\* After a crash nothing is cached until the state is loaded again.
Unloaded(c) == pc[c] = "idle" /\ state[c] = NoState /\ lag[c] = 0

\* The lag is too large by what a save without an answer has stored; only with
\* all answers, or after a restart, is the cached position the latest one.
OwnerInStep ==
  ~shared =>
    /\ \/ Unloaded(owner)
       \/ LatestState <= state[owner] /\ state[owner] <= LatestState + lag[owner]
    /\ pc[owner] \in {"loaded", "iterating", "located", "saving", "publishing"}
         => after[owner] = state[owner]
    /\ pc[owner] = "processed" => after[owner] = state[owner] + 1
    /\ answers[owner] # "lost" =>
         /\ position[owner] \in {NoPosition, LatestPosition}
         /\ pc[owner] = "publishing" => expected[owner] = LatestPosition

\* The state is as far ahead as a crash may repeat only where it is about to be
\* saved.
StateWithinInterval ==
  ~shared /\ answers[owner] = "all" /\ Interval > 0 =>
    \/ state[owner] < LatestState + Interval + missed
    \/ /\ state[owner] = LatestState + Interval + missed
       /\ pc[owner] \in {"saving", "publishing"}

OwnerProjected ==
  ~shared =>
    /\ 1 .. state[owner] \subseteq projection
    /\ 1 .. after[owner] \subseteq projection
    /\ pc[owner] = "located" => located[owner] = projection

Redelivery == Interval > 0 => RedeliveryBounded

IInv ==
  /\ TypeOK
  /\ CachedProcessed
  /\ OwnerAlone
  /\ OwnerInStep
  /\ StateWithinInterval
  /\ OwnerProjected
  /\ ProcessedBeforeSaved
  /\ Redelivery
  /\ ProjectionCoversProgress

-----------------------------------------------------------------------------
(***************************************************************************)
(* The progress saved.                                                     *)
(***************************************************************************)
LEMMA LatestStateType == ASSUME TypeOK PROVE LatestState \in Nat
BY DEF TypeOK, LatestState, NoState

LEMMA LatestPositionType == ASSUME TypeOK PROVE LatestPosition \in Nat \cup {NoPosition}
<1>1. Len(stream) \in Nat
  BY LenProperties DEF TypeOK
<1> QED BY <1>1 DEF LatestPosition, NoPosition

\* A save makes the state of the consumer the latest one, answered or not.
LEMMA SavedIsLatest ==
  ASSUME TypeOK, NEW c \in Consumers, SaveState(c) \/ SaveUnanswered(c)
  PROVE  /\ LatestState' = state[c]
         /\ LatestPosition' = Len(stream)
         /\ DOMAIN stream' = DOMAIN stream \cup {Len(stream) + 1}
         /\ stream'[Len(stream) + 1] = state[c]
         /\ \A i \in DOMAIN stream : stream'[i] = stream[i]
<1>1. stream \in Seq(Nat) /\ state[c] \in Nat /\ stream' = Append(stream, state[c])
  BY DEF TypeOK, SaveState, SaveUnanswered
<1>2. /\ Len(stream') = Len(stream) + 1
      /\ stream'[Len(stream) + 1] = state[c]
      /\ \A i \in 1 .. Len(stream) : stream'[i] = stream[i]
      /\ stream' \in Seq(Nat)
  BY <1>1, AppendProperties
<1>3. stream' # <<>>
  BY <1>1, <1>2
<1>4. DOMAIN stream = 1 .. Len(stream) /\ DOMAIN stream' = 1 .. Len(stream') /\ Len(stream) \in Nat
  BY <1>1, <1>2
<1>5. LatestState' = state[c]
  BY <1>2, <1>3 DEF LatestState
<1>6. LatestPosition' = Len(stream)
  BY <1>2, <1>4 DEF LatestPosition
<1>7. DOMAIN stream' = DOMAIN stream \cup {Len(stream) + 1}
  BY <1>2, <1>4
<1> QED BY <1>2, <1>4, <1>5, <1>6, <1>7

LEMMA LatestUnchanged ==
  ASSUME UNCHANGED stream
  PROVE  LatestState' = LatestState /\ LatestPosition' = LatestPosition
BY DEF LatestState, LatestPosition

-----------------------------------------------------------------------------
(***************************************************************************)
(* Every action preserves the invariant, one part after the other.         *)
(***************************************************************************)
LEMMA InitHolds == ASSUME Init PROVE IInv
<1>1. owner \in Consumers
  BY ConsumersAssumption DEF Init
<1>2. LatestState = 0 /\ LatestPosition = -1
  BY DEF Init, LatestState, LatestPosition, NoState
<1>3. TypeOK
  <2>1. shared \in BOOLEAN
    BY DEF Init
  <2>2. stream \in Seq(Nat)
    BY DEF Init
  <2> QED BY <1>1, <2>1, <2>2 DEF Init, TypeOK, NoState, NoPosition
<1>4. CachedProcessed /\ ProcessedBeforeSaved
  BY DEF Init, CachedProcessed, ProcessedBeforeSaved, NoState
<1>5. OwnerAlone /\ OwnerInStep
  BY <1>1, <1>2 DEF Init, OwnerAlone, OwnerInStep, Unloaded, NoState, NoPosition
<1>7. StateWithinInterval
  <2>1. state[owner] = 0 /\ missed = 0
    BY <1>1 DEF Init, NoState
  <2> QED BY <1>2, <2>1, IntervalAssumption DEF StateWithinInterval
<1>6. OwnerProjected /\ ProjectionCoversProgress /\ Redelivery
  BY <1>1, <1>2
  DEF Init, OwnerProjected, ProjectionCoversProgress, Redelivery, RedeliveryBounded, NoState
<1> QED BY <1>3, <1>4, <1>5, <1>6, <1>7 DEF IInv

PcType == [Consumers -> {"idle", "loaded", "iterating", "located", "processed",
                         "saving", "publishing"}]

LEMMA EndRunType ==
  ASSUME TypeOK, NEW c \in Consumers, EndRun(c)
  PROVE  /\ pc' \in PcType
         /\ located' \in [Consumers -> SUBSET Nat]
         /\ after' \in [Consumers -> Nat]
         /\ until' \in [Consumers -> Nat]
         /\ expected' \in [Consumers -> Nat \cup {NoPosition}]
<1>1. pc' \in PcType
  BY DEF TypeOK, EndRun, PcType
<1>2. located' \in [Consumers -> SUBSET Nat]
  BY DEF TypeOK, EndRun
<1>3. after' \in [Consumers -> Nat] /\ until' \in [Consumers -> Nat]
  BY DEF TypeOK, EndRun, NoState
<1>4. expected' \in [Consumers -> Nat \cup {NoPosition}]
  BY DEF TypeOK, EndRun
<1> QED BY <1>1, <1>2, <1>3, <1>4

\* The end of a run, as the invariants see it.
LEMMA EndRunFacts ==
  ASSUME TypeOK, NEW c \in Consumers, EndRun(c)
  PROVE  /\ pc'[c] = "idle" /\ after'[c] = 0
         /\ \A d \in Consumers \ {c} : pc'[d] = pc[d] /\ after'[d] = after[d]
BY DEF TypeOK, EndRun, NoState

LEMMA TypeStep == ASSUME TypeOK, [Next]_vars PROVE TypeOK'
<1> USE DEF PcType, TypeOK, NoState, NoPosition, allocation, effects, faulty
<1>0. CASE Publish
  BY <1>0 DEF Publish
<1>1. ASSUME NEW c \in Consumers, Load(c) PROVE TypeOK'
  <2>1. state' \in [Consumers -> Nat]
    <3>1. state' = state \/ state' = [state EXCEPT ![c] = LatestState]
      BY <1>1 DEF Load
    <3> QED BY <3>1, LatestStateType
  <2>2. position' \in [Consumers -> Nat \cup {NoPosition}]
    <3>1. position' = position \/ position' = [position EXCEPT ![c] = LatestPosition]
      BY <1>1 DEF Load
    <3> QED BY <3>1, LatestPositionType
  <2>3. pc' \in PcType /\ after' \in [Consumers -> Nat]
    BY <1>1, <2>1 DEF Load
  <2>4. UNCHANGED <<source, allocation, stream, effects, lag, until, expected, faulty>>
    BY <1>1 DEF Load
  <2> QED BY <2>1, <2>2, <2>3, <2>4
<1>2. ASSUME NEW c \in Consumers, OpenScan(c) PROVE TypeOK'
  <2>1. pc' \in PcType /\ until' \in [Consumers -> Nat]
    BY <1>2 DEF OpenScan
  <2>2. UNCHANGED <<source, allocation, stream, effects, state, position, lag, after,
                    expected, faulty>>
    BY <1>2 DEF OpenScan
  <2> QED BY <2>1, <2>2
<1>3. ASSUME NEW c \in Consumers, Locate(c) PROVE TypeOK'
  <2>1. pc' \in PcType
    BY <1>3 DEF Locate
  <2>2. located' \in [Consumers -> SUBSET Nat]
    BY <1>3 DEF Locate
  <2>3. UNCHANGED <<source, allocation, stream, processed, projection, state, position,
                    lag, after, until, expected, faulty>>
    BY <1>3 DEF Locate
  <2> QED BY <2>1, <2>2, <2>3
<1>4. ASSUME NEW c \in Consumers, Process(c) PROVE TypeOK'
  <2>1. pc' \in PcType /\ after' \in [Consumers -> Nat]
    BY <1>4 DEF Process
  <2>2. processed' \in SUBSET Nat
    <3>1. after[c] + 1 \in Nat /\ processed' = processed \cup {after[c] + 1}
      BY <1>4 DEF Process
    <3> QED BY <3>1
  <2>3. projection' \in SUBSET Nat /\ located' \in [Consumers -> SUBSET Nat]
    BY <1>4 DEF Process, Project
  <2> QED BY <1>4, <2>1, <2>2, <2>3 DEF Process
<1>5. ASSUME NEW c \in Consumers, Acknowledge(c) PROVE TypeOK'
  <2>1. pc' \in PcType
    BY <1>5 DEF Acknowledge
  <2>2. state' \in [Consumers -> Nat] /\ lag' \in [Consumers -> Nat]
    BY <1>5 DEF Acknowledge
  <2> QED BY <1>5, <2>1, <2>2 DEF Acknowledge
<1>6. ASSUME NEW c \in Consumers, Exhausted(c) PROVE TypeOK'
  <2>1. CASE EndRun(c)
    BY <1>6, <2>1, EndRunType DEF Exhausted
  <2>2. CASE pc' = [pc EXCEPT ![c] = "saving"] /\ UNCHANGED <<located, after, until, expected>>
    BY <1>6, <2>2 DEF Exhausted
  <2> QED BY <1>6, <2>1, <2>2 DEF Exhausted
<1>7. ASSUME NEW c \in Consumers, ExpectPosition(c) PROVE TypeOK'
  <2>1. LatestPosition \in Nat \cup {-1}
    BY DEF LatestPosition
  <2> QED BY <1>7, <2>1 DEF ExpectPosition
<1>8. ASSUME NEW c \in Consumers, SaveState(c) PROVE TypeOK'
  <2>1. pc' \in PcType /\ lag' \in [Consumers -> Nat]
    BY <1>8 DEF SaveState
  <2>2. stream' \in Seq(Nat)
    BY <1>8, AppendProperties DEF SaveState
  <2>3. position' \in [Consumers -> Nat \cup {-1}] /\ expected' \in [Consumers -> Nat \cup {-1}]
    BY <1>8 DEF SaveState
  <2> QED BY <1>8, <2>1, <2>2, <2>3 DEF SaveState
<1>9. ASSUME NEW c \in Consumers, SaveRejected(c) PROVE TypeOK'
  BY <1>9, EndRunType DEF SaveRejected
<1>10. ASSUME NEW c \in Consumers, ProcessingFails(c) PROVE TypeOK'
  <2>1. faults' \in Nat /\ EndRun(c)
    BY <1>10 DEF ProcessingFails
  <2> QED BY <1>10, <2>1, EndRunType DEF ProcessingFails
<1>11. ASSUME NEW c \in Consumers, Crash(c) PROVE TypeOK'
  <2>1. /\ state' \in [Consumers -> Nat] /\ lag' \in [Consumers -> Nat]
        /\ position' \in [Consumers -> Nat \cup {-1}]
        /\ accepted' \subseteq Consumers
        /\ faults' \in Nat
    BY <1>11 DEF Crash
  <2>2. EndRun(c) /\ UNCHANGED <<source, owner, shared, stream, processed, projection, missed>>
    BY <1>11 DEF Crash
  <2>3. answers' \in [Consumers -> {"all", "lost", "restarted"}]
    BY <1>11 DEF Crash
  <2> QED BY <2>1, <2>2, <2>3, EndRunType
<1>12. ASSUME NEW c \in Consumers, HandOver(c) PROVE TypeOK'
  <2>1. shared' \in BOOLEAN /\ owner' \in Consumers
    BY <1>12 DEF HandOver
  <2>2. faults' \in Nat
    BY <1>12 DEF HandOver
  <2>3. UNCHANGED <<source, accepted, stream, effects, state, position, lag, pc,
                    after, until, expected, answers, missed>>
    BY <1>12 DEF HandOver
  <2> QED BY <2>1, <2>2, <2>3
<1>13. ASSUME NEW c \in Consumers, Accept(c) PROVE TypeOK'
  BY <1>13 DEF Accept
<1>14. ASSUME NEW c \in Consumers, Withdraw(c) PROVE TypeOK'
  BY <1>14 DEF Withdraw
<1>15. CASE UNCHANGED vars
  BY <1>15 DEF vars
<1>16. ASSUME NEW c \in Consumers, CallFails(c) PROVE TypeOK'
  <2>1. faults' \in Nat /\ missed' \in Nat /\ EndRun(c)
    BY <1>16 DEF CallFails
  <2>2. UNCHANGED <<source, allocation, stream, processed, projection, state, position, lag,
                    answers>>
    BY <1>16 DEF CallFails
  <2> QED BY <2>1, <2>2, EndRunType
<1>17. ASSUME NEW c \in Consumers, SaveUnanswered(c) PROVE TypeOK'
  <2>1. faults' \in Nat /\ EndRun(c)
    BY <1>17 DEF SaveUnanswered
  <2>2. stream' \in Seq(Nat)
    BY <1>17, AppendProperties DEF SaveUnanswered
  <2>3. answers' \in [Consumers -> {"all", "lost", "restarted"}]
    BY <1>17 DEF SaveUnanswered
  <2>4. UNCHANGED <<source, allocation, processed, projection, state, position, lag, missed>>
    BY <1>17 DEF SaveUnanswered
  <2> QED BY <2>1, <2>2, <2>3, <2>4, EndRunType
<1> QED BY <1>0, <1>1, <1>2, <1>3, <1>4, <1>5, <1>6, <1>7, <1>8, <1>9, <1>10,
       <1>11, <1>12, <1>13, <1>14, <1>15, <1>16, <1>17
       DEF Next, Work

\* At least once, for consumers that share the source and those that do not.
LEMMA ProcessedStep ==
  ASSUME TypeOK, CachedProcessed, ProcessedBeforeSaved, [Next]_vars
  PROVE  CachedProcessed' /\ ProcessedBeforeSaved'
<1> DEFINE Goal == CachedProcessed' /\ ProcessedBeforeSaved'
<1> USE DEF TypeOK, CachedProcessed, ProcessedBeforeSaved, NoState, allocation, effects, faulty
<1>a. ASSUME UNCHANGED <<stream, processed>>,
             \A d \in Consumers : state'[d] \in {state[d], 0} /\ after'[d] \in {after[d], 0}
      PROVE  Goal
  <2>1. 1 .. 0 \subseteq processed
    OBVIOUS
  <2> QED BY <1>a, <2>1
<1>0. CASE Publish
  BY <1>0 DEF Publish
<1>1. ASSUME NEW c \in Consumers, Load(c) PROVE Goal
  <2>1. 1 .. LatestState \subseteq processed
    BY DEF LatestState
  <2>2. \A d \in Consumers : 1 .. state'[d] \subseteq processed
    BY <1>1, <2>1 DEF Load
  <2>3. \A d \in Consumers : after'[d] \in {after[d], state'[d]}
    BY <1>1 DEF Load
  <2>4. UNCHANGED <<stream, processed>>
    BY <1>1 DEF Load
  <2> QED BY <2>2, <2>3, <2>4
<1>2. ASSUME NEW c \in Consumers, OpenScan(c) PROVE Goal
  BY <1>2 DEF OpenScan
<1>3. ASSUME NEW c \in Consumers, Locate(c) PROVE Goal
  BY <1>3 DEF Locate
<1>4. ASSUME NEW c \in Consumers, Process(c) PROVE Goal
  <2>1. 1 .. (after[c] + 1) = 1 .. after[c] \cup {after[c] + 1}
    OBVIOUS
  <2>2. \A d \in Consumers : after'[d] = IF d = c THEN after[c] + 1 ELSE after[d]
    BY <1>4 DEF Process
  <2>3. processed' = processed \cup {after[c] + 1} /\ UNCHANGED <<stream, state>>
    BY <1>4 DEF Process
  <2> QED BY <2>1, <2>2, <2>3
<1>5. ASSUME NEW c \in Consumers, Acknowledge(c) PROVE Goal
  BY <1>5 DEF Acknowledge
<1>6. ASSUME NEW c \in Consumers, Exhausted(c) PROVE Goal
  <2>1. UNCHANGED <<stream, processed, state>>
    BY <1>6 DEF Exhausted
  <2>2. \A d \in Consumers : after'[d] \in {after[d], 0}
    BY <1>6, EndRunFacts DEF Exhausted
  <2> QED BY <1>a, <2>1, <2>2
<1>7. ASSUME NEW c \in Consumers, ExpectPosition(c) PROVE Goal
  BY <1>7 DEF ExpectPosition
<1>8. ASSUME NEW c \in Consumers, SaveState(c) PROVE Goal
  <2>1. UNCHANGED <<processed, state, after>>
    BY <1>8 DEF SaveState, effects
  <2>2. CachedProcessed'
    BY <2>1
  <2>3. \A i \in DOMAIN stream' : (i \in DOMAIN stream /\ stream'[i] = stream[i])
                                  \/ stream'[i] = state[c]
    BY <1>8, SavedIsLatest
  <2> QED BY <2>1, <2>2, <2>3
<1>9. ASSUME NEW c \in Consumers, SaveRejected(c) PROVE Goal
  <2>1. EndRun(c) /\ UNCHANGED <<stream, processed, state>>
    BY <1>9 DEF SaveRejected
  <2> QED BY <1>a, <2>1, EndRunFacts
<1>10. ASSUME NEW c \in Consumers, ProcessingFails(c) PROVE Goal
  <2>1. EndRun(c) /\ UNCHANGED <<stream, processed, state>>
    BY <1>10 DEF ProcessingFails
  <2> QED BY <1>a, <2>1, EndRunFacts
<1>11. ASSUME NEW c \in Consumers, Crash(c) PROVE Goal
  <2>1. EndRun(c) /\ UNCHANGED <<stream, processed>>
    BY <1>11 DEF Crash
  <2>2. \A d \in Consumers : state'[d] \in {state[d], 0}
    BY <1>11 DEF Crash
  <2> QED BY <1>a, <2>1, <2>2, EndRunFacts
<1>12. ASSUME NEW c \in Consumers, HandOver(c) PROVE Goal
  BY <1>12 DEF HandOver
<1>13. ASSUME NEW c \in Consumers, Accept(c) PROVE Goal
  BY <1>13 DEF Accept
<1>14. ASSUME NEW c \in Consumers, Withdraw(c) PROVE Goal
  BY <1>14 DEF Withdraw
<1>15. CASE UNCHANGED vars
  BY <1>15 DEF vars
<1>16. ASSUME NEW c \in Consumers, CallFails(c) PROVE Goal
  <2>1. EndRun(c) /\ UNCHANGED <<stream, processed, state>>
    BY <1>16 DEF CallFails
  <2> QED BY <1>a, <2>1, EndRunFacts
<1>17. ASSUME NEW c \in Consumers, SaveUnanswered(c) PROVE Goal
  <2>1. UNCHANGED <<processed, state>> /\ \A d \in Consumers : after'[d] \in {after[d], 0}
    BY <1>17, EndRunFacts DEF SaveUnanswered
  <2>2. 1 .. 0 \subseteq processed
    OBVIOUS
  <2>3. CachedProcessed'
    BY <2>1, <2>2
  <2>4. \A i \in DOMAIN stream' : (i \in DOMAIN stream /\ stream'[i] = stream[i])
                                  \/ stream'[i] = state[c]
    BY <1>17, SavedIsLatest
  <2> QED BY <2>1, <2>3, <2>4
<1> QED BY <1>0, <1>1, <1>2, <1>3, <1>4, <1>5, <1>6, <1>7, <1>8, <1>9, <1>10,
       <1>11, <1>12, <1>13, <1>14, <1>15, <1>16, <1>17
       DEF Next, Work

\* While the source has not been handed over nobody else consumes it.
LEMMA OwnerAloneStep ==
  ASSUME TypeOK, OwnerAlone, [Next]_vars
  PROVE  OwnerAlone'
<1> USE DEF TypeOK, OwnerAlone, allocation, effects, faulty
<1>0. CASE Publish
  BY <1>0 DEF Publish
<1>1. ASSUME NEW c \in Consumers, Load(c) PROVE OwnerAlone'
  BY <1>1 DEF Load
<1>2. ASSUME NEW c \in Consumers, OpenScan(c) PROVE OwnerAlone'
  BY <1>2 DEF OpenScan
<1>3. ASSUME NEW c \in Consumers, Locate(c) PROVE OwnerAlone'
  BY <1>3 DEF Locate
<1>4. ASSUME NEW c \in Consumers, Process(c) PROVE OwnerAlone'
  BY <1>4 DEF Process
<1>5. ASSUME NEW c \in Consumers, Acknowledge(c) PROVE OwnerAlone'
  BY <1>5 DEF Acknowledge
<1>6. ASSUME NEW c \in Consumers, Exhausted(c) PROVE OwnerAlone'
  BY <1>6 DEF Exhausted, EndRun
<1>7. ASSUME NEW c \in Consumers, ExpectPosition(c) PROVE OwnerAlone'
  BY <1>7 DEF ExpectPosition
<1>8. ASSUME NEW c \in Consumers, SaveState(c) PROVE OwnerAlone'
  BY <1>8 DEF SaveState
<1>9. ASSUME NEW c \in Consumers, SaveRejected(c) PROVE OwnerAlone'
  BY <1>9 DEF SaveRejected, EndRun
<1>10. ASSUME NEW c \in Consumers, ProcessingFails(c) PROVE OwnerAlone'
  BY <1>10 DEF ProcessingFails, EndRun
<1>11. ASSUME NEW c \in Consumers, Crash(c) PROVE OwnerAlone'
  BY <1>11 DEF Crash, EndRun
<1>12. ASSUME NEW c \in Consumers, HandOver(c) PROVE OwnerAlone'
  BY <1>12 DEF HandOver
<1>13. ASSUME NEW c \in Consumers, Accept(c) PROVE OwnerAlone'
  BY <1>13 DEF Accept
<1>14. ASSUME NEW c \in Consumers, Withdraw(c) PROVE OwnerAlone'
  BY <1>14 DEF Withdraw
<1>15. CASE UNCHANGED vars
  BY <1>15 DEF vars
<1>16. ASSUME NEW c \in Consumers, CallFails(c) PROVE OwnerAlone'
  BY <1>16 DEF CallFails, EndRun
<1>17. ASSUME NEW c \in Consumers, SaveUnanswered(c) PROVE OwnerAlone'
  BY <1>17 DEF SaveUnanswered, EndRun
<1> QED BY <1>0, <1>1, <1>2, <1>3, <1>4, <1>5, <1>6, <1>7, <1>8, <1>9, <1>10,
       <1>11, <1>12, <1>13, <1>14, <1>15, <1>16, <1>17
       DEF Next, Work

\* Until then, whoever takes a step of its own is the owner.
LEMMA WorkerIsOwner ==
  ASSUME OwnerAlone, ~shared, NEW c \in Consumers,
         Work(c) \/ ProcessingFails(c) \/ CallFails(c) \/ SaveUnanswered(c)
  PROVE  c = owner
BY DEF OwnerAlone, Work, Load, OpenScan, Locate, Process, Acknowledge, Exhausted,
       ExpectPosition, SaveState, SaveRejected, ProcessingFails, CallFails, SaveUnanswered

\* How far the owner is ahead while it works on the next event, and after it.
LEMMA OwnerProgress ==
  ASSUME TypeOK, OwnerInStep, ~shared, pc[owner] # "idle"
  PROVE  /\ LatestState \in Nat /\ lag[owner] \in Nat /\ state[owner] \in Nat
         /\ LatestState <= state[owner] /\ state[owner] <= LatestState + lag[owner]
         /\ pc[owner] = "located" => after[owner] = state[owner]
         /\ pc[owner] = "processed" => after[owner] = state[owner] + 1
<1>1. LatestState \in Nat /\ lag[owner] \in Nat /\ state[owner] \in Nat
  BY LatestStateType DEF TypeOK
<1>2. LatestState <= state[owner] /\ state[owner] <= LatestState + lag[owner]
  BY DEF OwnerInStep, Unloaded
<1> QED BY <1>1, <1>2 DEF OwnerInStep

LEMMA OwnerWithinInterval ==
  ASSUME TypeOK, OwnerInStep, StateWithinInterval, Interval > 0, ~shared,
         answers[owner] = "all", pc[owner] = "located"
  PROVE  after[owner] + 1 <= LatestState + Interval + missed
<1>1. state[owner] < LatestState + Interval + missed
  BY DEF StateWithinInterval
<1>2. after[owner] = state[owner] /\ LatestState \in Nat /\ state[owner] \in Nat
  BY OwnerProgress
<1> QED BY <1>1, <1>2, IntervalAssumption DEF TypeOK

\* No save of the owner is refused unless an answer was lost.
LEMMA OwnerNotRefused ==
  ASSUME OwnerAlone, OwnerInStep, ~shared, answers[owner] # "lost",
         NEW c \in Consumers, SaveRejected(c)
  PROVE  FALSE
<1>1. c = owner
  BY WorkerIsOwner DEF Work
<1> QED BY <1>1 DEF OwnerInStep, SaveRejected

\* What the owner has cached is ahead of the progress saved by at most the lag,
\* and the position it has cached is the latest one unless an answer was lost.
LEMMA OwnerInStepStep ==
  ASSUME TypeOK, OwnerAlone, OwnerInStep, [Next]_vars
  PROVE  OwnerInStep'
<1> SUFFICES ASSUME ~shared' PROVE OwnerInStep'
  BY DEF OwnerInStep
<1>a. \A n, k \in Nat : n <= n + k
  OBVIOUS
<1> USE LatestUnchanged, LatestStateType, WorkerIsOwner
    DEF TypeOK, OwnerInStep, Unloaded, NoState, NoPosition, allocation, effects, faulty
<1>0. CASE Publish
  BY <1>0 DEF Publish
<1>1. ASSUME NEW c \in Consumers, Load(c) PROVE OwnerInStep'
  BY <1>1 DEF Load
<1>2. ASSUME NEW c \in Consumers, OpenScan(c) PROVE OwnerInStep'
  BY <1>2 DEF OpenScan
<1>3. ASSUME NEW c \in Consumers, Locate(c) PROVE OwnerInStep'
  BY <1>3 DEF Locate
<1>4. ASSUME NEW c \in Consumers, Process(c) PROVE OwnerInStep'
  BY <1>4 DEF Process
<1>5. ASSUME NEW c \in Consumers, Acknowledge(c) PROVE OwnerInStep'
  <2>1. c = owner /\ owner' = owner /\ UNCHANGED <<stream, position, after>>
    BY <1>5 DEF Work, Acknowledge
  <2>2. pc[c] = "processed" /\ pc'[c] \in {"saving", "iterating"}
    BY <1>5 DEF Acknowledge
  <2>3. state'[c] = after[c] /\ lag'[c] = lag[c] + 1
    BY <1>5 DEF Acknowledge
  <2>4. ~shared
    BY <1>5 DEF Acknowledge
  <2>5. /\ LatestState \in Nat /\ lag[c] \in Nat /\ state[c] \in Nat
        /\ LatestState <= state[c] /\ state[c] <= LatestState + lag[c]
        /\ after[c] = state[c] + 1
    BY <2>1, <2>2, <2>4, OwnerProgress
  <2>6. LatestState <= state'[c] /\ state'[c] <= LatestState + lag'[c]
    BY <2>3, <2>5
  <2>7. UNCHANGED <<answers, expected>>
    BY <1>5 DEF Acknowledge
  <2> QED BY <2>1, <2>2, <2>3, <2>4, <2>6, <2>7
<1>6. ASSUME NEW c \in Consumers, Exhausted(c) PROVE OwnerInStep'
  BY <1>6 DEF Exhausted, EndRun
<1>7. ASSUME NEW c \in Consumers, ExpectPosition(c) PROVE OwnerInStep'
  BY <1>7 DEF ExpectPosition
<1>8. ASSUME NEW c \in Consumers, SaveState(c) PROVE OwnerInStep'
  <2>1. c = owner /\ owner' = owner
    BY <1>8 DEF Work, SaveState
  <2>2. LatestState' = state[owner] /\ LatestPosition' = Len(stream)
    BY <1>8, <2>1, SavedIsLatest
  <2>3. position'[owner] = Len(stream) /\ lag'[owner] = 0 /\ pc'[owner] = "iterating"
    BY <1>8, <2>1 DEF SaveState
  <2>4. after'[owner] = after[owner] /\ state'[owner] = state[owner] /\ after[owner] = state[owner]
    BY <1>8, <2>1 DEF SaveState
  <2>5. state[owner] \in Nat
    OBVIOUS
  <2> QED BY <2>1, <2>2, <2>3, <2>4, <2>5
<1>9. ASSUME NEW c \in Consumers, SaveRejected(c) PROVE OwnerInStep'
  BY <1>9 DEF SaveRejected, EndRun
<1>10. ASSUME NEW c \in Consumers, ProcessingFails(c) PROVE OwnerInStep'
  BY <1>10 DEF ProcessingFails, EndRun
<1>11. ASSUME NEW c \in Consumers, Crash(c) PROVE OwnerInStep'
  BY <1>11 DEF Crash, EndRun
<1>12. ASSUME NEW c \in Consumers, HandOver(c) PROVE OwnerInStep'
  BY <1>12 DEF HandOver
<1>13. ASSUME NEW c \in Consumers, Accept(c) PROVE OwnerInStep'
  BY <1>13 DEF Accept
<1>14. ASSUME NEW c \in Consumers, Withdraw(c) PROVE OwnerInStep'
  BY <1>14 DEF Withdraw
<1>15. CASE UNCHANGED vars
  BY <1>15 DEF vars
<1>16. ASSUME NEW c \in Consumers, CallFails(c) PROVE OwnerInStep'
  BY <1>16 DEF CallFails, EndRun
<1>17. ASSUME NEW c \in Consumers, SaveUnanswered(c) PROVE OwnerInStep'
  <2>1. c = owner /\ owner' = owner
    BY <1>17 DEF SaveUnanswered
  <2>2. LatestState' = state[owner] /\ state'[owner] = state[owner] /\ lag'[owner] = lag[owner]
    BY <1>17, <2>1, SavedIsLatest DEF SaveUnanswered
  <2>3. pc'[owner] = "idle"
    BY <1>17, <2>1, EndRunFacts DEF SaveUnanswered
  <2>4. position'[owner] = NoPosition \/ answers'[owner] = "lost"
    BY <1>17, <2>1 DEF SaveUnanswered
  <2>5. state[owner] \in Nat /\ lag[owner] \in Nat
    OBVIOUS
  <2>6. state[owner] <= state[owner] /\ state[owner] <= state[owner] + lag[owner]
    BY <1>a, <2>5
  <2>7. LatestState' <= state'[owner] /\ state'[owner] <= LatestState' + lag'[owner]
    BY <2>2, <2>6, Zenon
  <2> QED BY <2>1, <2>3, <2>4, <2>7
<1> QED BY <1>0, <1>1, <1>2, <1>3, <1>4, <1>5, <1>6, <1>7, <1>8, <1>9, <1>10,
       <1>11, <1>12, <1>13, <1>14, <1>15, <1>16, <1>17
       DEF Next, Work

\* A save is made before the state can pass the interval, and each one that
\* fails lets it go one event further.
LEMMA IntervalStep ==
  ASSUME TypeOK, OwnerAlone, OwnerInStep, StateWithinInterval, [Next]_vars
  PROVE  StateWithinInterval'
<1> SUFFICES ASSUME ~shared', Interval > 0, answers'[owner'] = "all" PROVE StateWithinInterval'
  BY DEF StateWithinInterval
<1>a. LatestState < LatestState + Interval + missed
  <2>1. LatestState \in Nat /\ missed \in Nat
    BY LatestStateType DEF TypeOK
  <2> QED BY <2>1, IntervalAssumption
<1> USE IntervalAssumption, WorkerIsOwner, LatestUnchanged, LatestStateType
    DEF TypeOK, StateWithinInterval, NoState, allocation, effects, faulty
<1>0. CASE Publish
  BY <1>0 DEF Publish
<1>1. ASSUME NEW c \in Consumers, Load(c) PROVE StateWithinInterval'
  <2>1. c = owner /\ UNCHANGED <<shared, owner, answers, missed>> /\ LatestState' = LatestState
    BY <1>1 DEF Work, Load
  <2>2. state'[c] \in {state[c], LatestState} /\ pc[c] = "idle"
    BY <1>1 DEF Load
  <2> QED BY <1>a, <2>1, <2>2
<1>2. ASSUME NEW c \in Consumers, OpenScan(c) PROVE StateWithinInterval'
  BY <1>2 DEF OpenScan
<1>3. ASSUME NEW c \in Consumers, Locate(c) PROVE StateWithinInterval'
  BY <1>3 DEF Locate
<1>4. ASSUME NEW c \in Consumers, Process(c) PROVE StateWithinInterval'
  BY <1>4 DEF Process
<1>5. ASSUME NEW c \in Consumers, Acknowledge(c) PROVE StateWithinInterval'
  <2>1. c = owner /\ owner' = owner /\ pc[c] = "processed"
    BY <1>5 DEF Work, Acknowledge
  <2>2. UNCHANGED <<shared, answers, missed>> /\ LatestState' = LatestState
    BY <1>5 DEF Acknowledge
  <2>3. state[c] < LatestState + Interval + missed
    BY <2>1, <2>2
  <2>4. /\ LatestState \in Nat /\ lag[c] \in Nat /\ state[c] \in Nat
        /\ state[c] <= LatestState + lag[c] /\ after[c] = state[c] + 1
    BY <2>1, <2>2, OwnerProgress
  <2>5. state'[c] = after[c]
    BY <1>5 DEF Acknowledge
  <2>6. lag[c] + 1 >= Interval => pc'[c] = "saving"
    BY <1>5 DEF Acknowledge
  <2>7. state'[c] = LatestState + Interval + missed => lag[c] + 1 >= Interval
    BY <2>4, <2>5
  <2>8. state'[c] <= LatestState + Interval + missed
    BY <2>3, <2>4, <2>5
  <2>9. \/ state'[c] < LatestState + Interval + missed
        \/ state'[c] = LatestState + Interval + missed /\ pc'[c] = "saving"
    BY <2>4, <2>5, <2>6, <2>7, <2>8
  <2> QED BY <2>1, <2>2, <2>9
<1>6. ASSUME NEW c \in Consumers, Exhausted(c) PROVE StateWithinInterval'
  BY <1>6 DEF Exhausted, EndRun
<1>7. ASSUME NEW c \in Consumers, ExpectPosition(c) PROVE StateWithinInterval'
  BY <1>7 DEF ExpectPosition
<1>8. ASSUME NEW c \in Consumers, SaveState(c) PROVE StateWithinInterval'
  <2>1. c = owner /\ owner' = owner /\ LatestState' = state[c] /\ missed' = missed
    BY <1>8, SavedIsLatest DEF Work, SaveState
  <2>2. state'[c] = state[c] /\ state[c] \in Nat
    BY <1>8 DEF SaveState
  <2>3. state'[c] < LatestState' + Interval + missed'
    BY <2>1, <2>2
  <2> QED BY <2>1, <2>3
<1>9. ASSUME NEW c \in Consumers, SaveRejected(c) PROVE StateWithinInterval'
  <2>1. UNCHANGED <<shared, owner, answers>>
    BY <1>9 DEF SaveRejected
  <2> QED BY <1>9, <2>1, OwnerNotRefused
<1>10. ASSUME NEW c \in Consumers, ProcessingFails(c) PROVE StateWithinInterval'
  BY <1>10 DEF ProcessingFails, EndRun
<1>11. ASSUME NEW c \in Consumers, Crash(c) PROVE StateWithinInterval'
  <2>1. UNCHANGED <<shared, owner, missed>> /\ LatestState' = LatestState
    BY <1>11 DEF Crash
  <2>2. \A d \in Consumers : d # c => /\ state'[d] = state[d] /\ pc'[d] = pc[d]
                                      /\ answers'[d] = answers[d]
    BY <1>11 DEF Crash, EndRun
  <2>3. state'[c] = 0
    BY <1>11 DEF Crash
  <2>4. LatestState \in Nat /\ missed \in Nat
    OBVIOUS
  <2>5. 0 < LatestState + Interval + missed
    BY <2>4
  <2> QED BY <2>1, <2>2, <2>3, <2>5
<1>12. ASSUME NEW c \in Consumers, HandOver(c) PROVE StateWithinInterval'
  BY <1>12 DEF HandOver
<1>13. ASSUME NEW c \in Consumers, Accept(c) PROVE StateWithinInterval'
  BY <1>13 DEF Accept
<1>14. ASSUME NEW c \in Consumers, Withdraw(c) PROVE StateWithinInterval'
  BY <1>14 DEF Withdraw
<1>15. CASE UNCHANGED vars
  BY <1>15 DEF vars
<1>16. ASSUME NEW c \in Consumers, CallFails(c) PROVE StateWithinInterval'
  <2>1. c = owner /\ owner' = owner /\ UNCHANGED <<shared, answers, state>>
    BY <1>16 DEF CallFails
  <2>2. LatestState' = LatestState /\ LatestState \in Nat /\ state[c] \in Nat
    BY <1>16 DEF CallFails
  <2>3. CASE pc[c] \in {"loaded", "iterating"} /\ UNCHANGED missed
    BY <2>1, <2>2, <2>3
  <2>4. CASE missed' = missed + 1
    <3>1. ASSUME answers[owner] = "all" PROVE state[c] < LatestState + Interval + missed'
      <4>1. state[c] <= LatestState + Interval + missed
        BY <2>1, <2>2, <3>1
      <4> QED BY <2>2, <2>4, <4>1
    <3> QED BY <2>1, <2>2, <3>1
  <2> QED BY <1>16, <2>3, <2>4 DEF CallFails
<1>17. ASSUME NEW c \in Consumers, SaveUnanswered(c) PROVE StateWithinInterval'
  <2>1. c = owner /\ owner' = owner /\ LatestState' = state[c] /\ missed' = missed
    BY <1>17, SavedIsLatest DEF SaveUnanswered
  <2>2. state'[c] = state[c] /\ state[c] \in Nat
    BY <1>17 DEF SaveUnanswered
  <2>3. state'[c] < LatestState' + Interval + missed'
    BY <2>1, <2>2
  <2> QED BY <2>1, <2>3
<1> QED BY <1>0, <1>1, <1>2, <1>3, <1>4, <1>5, <1>6, <1>7, <1>8, <1>9, <1>10,
           <1>11, <1>12, <1>13, <1>14, <1>15, <1>16, <1>17
       DEF Next, Work

\* The owner goes on from the projection that holds all it has processed.
LEMMA ProjectedStep ==
  ASSUME TypeOK, OwnerAlone, OwnerInStep, OwnerProjected, ProjectionCoversProgress,
         [Next]_vars
  PROVE  OwnerProjected' /\ ProjectionCoversProgress'
<1> SUFFICES ASSUME ~shared' PROVE OwnerProjected' /\ ProjectionCoversProgress'
  BY DEF OwnerProjected, ProjectionCoversProgress
<1> DEFINE Goal == OwnerProjected' /\ ProjectionCoversProgress'
<1> USE LatestUnchanged, WorkerIsOwner
    DEF TypeOK, OwnerProjected, ProjectionCoversProgress, NoState, allocation, effects, faulty
<1>0. CASE Publish
  BY <1>0 DEF Publish
<1>1. ASSUME NEW c \in Consumers, Load(c) PROVE Goal
  BY <1>1 DEF Load
<1>2. ASSUME NEW c \in Consumers, OpenScan(c) PROVE Goal
  BY <1>2 DEF OpenScan
<1>3. ASSUME NEW c \in Consumers, Locate(c) PROVE Goal
  BY <1>3 DEF Locate
<1>4. ASSUME NEW c \in Consumers, Process(c) PROVE Goal
  <2>1. c = owner /\ owner' = owner
    BY <1>4 DEF Work, Process
  <2>2. projection' = projection \cup {after[c] + 1}
    BY <1>4, <2>1 DEF Process, Project
  <2>3. 1 .. (after[c] + 1) = 1 .. after[c] \cup {after[c] + 1}
    OBVIOUS
  <2> QED BY <1>4, <2>1, <2>2, <2>3 DEF Process
<1>5. ASSUME NEW c \in Consumers, Acknowledge(c) PROVE Goal
  BY <1>5 DEF Acknowledge
<1>6. ASSUME NEW c \in Consumers, Exhausted(c) PROVE Goal
  <2>1. c = owner /\ owner' = owner
    BY <1>6 DEF Work, Exhausted
  <2>2. pc'[c] # "located" /\ after'[c] \in {after[c], 0}
    BY <1>6, EndRunFacts DEF Exhausted
  <2>3. UNCHANGED <<stream, state, projection>>
    BY <1>6 DEF Exhausted
  <2>4. ~shared /\ 1 .. after[owner] \subseteq projection /\ 1 .. 0 \subseteq projection
    BY <1>6 DEF Exhausted
  <2>5. 1 .. after'[owner] \subseteq projection
    BY <2>1, <2>2, <2>4
  <2> QED BY <2>1, <2>2, <2>3, <2>4, <2>5
<1>7. ASSUME NEW c \in Consumers, ExpectPosition(c) PROVE Goal
  BY <1>7 DEF ExpectPosition
<1>8. ASSUME NEW c \in Consumers, SaveState(c) PROVE Goal
  <2>1. c = owner /\ owner' = owner
    BY <1>8 DEF Work, SaveState
  <2> QED BY <1>8, <2>1, SavedIsLatest DEF SaveState
<1>9. ASSUME NEW c \in Consumers, SaveRejected(c) PROVE Goal
  BY <1>9 DEF SaveRejected, EndRun
<1>10. ASSUME NEW c \in Consumers, ProcessingFails(c) PROVE Goal
  <2>1. c = owner /\ owner' = owner /\ pc'[owner] = "idle" /\ after'[owner] = 0
    BY <1>10 DEF ProcessingFails, EndRun
  <2>2. UNCHANGED <<stream, state, projection>>
    BY <1>10 DEF ProcessingFails
  <2>3. ~shared /\ 1 .. 0 \subseteq projection
    BY <1>10 DEF ProcessingFails
  <2> QED BY <2>1, <2>2, <2>3
<1>11. ASSUME NEW c \in Consumers, Crash(c) PROVE Goal
  BY <1>11 DEF Crash, EndRun
<1>12. ASSUME NEW c \in Consumers, HandOver(c) PROVE Goal
  BY <1>12 DEF HandOver
<1>13. ASSUME NEW c \in Consumers, Accept(c) PROVE Goal
  BY <1>13 DEF Accept
<1>14. ASSUME NEW c \in Consumers, Withdraw(c) PROVE Goal
  BY <1>14 DEF Withdraw
<1>15. CASE UNCHANGED vars
  BY <1>15 DEF vars
<1>16. ASSUME NEW c \in Consumers, CallFails(c) PROVE Goal
  <2>1. c = owner /\ owner' = owner /\ pc'[owner] = "idle" /\ after'[owner] = 0
    BY <1>16, EndRunFacts DEF CallFails
  <2>2. UNCHANGED <<stream, state, projection>>
    BY <1>16 DEF CallFails
  <2>3. ~shared /\ 1 .. 0 \subseteq projection
    BY <1>16 DEF CallFails
  <2> QED BY <2>1, <2>2, <2>3
<1>17. ASSUME NEW c \in Consumers, SaveUnanswered(c) PROVE Goal
  <2>1. c = owner /\ owner' = owner /\ pc'[owner] = "idle" /\ after'[owner] = 0
    BY <1>17, EndRunFacts DEF SaveUnanswered
  <2>2. UNCHANGED <<state, projection>> /\ LatestState' = state[owner]
    BY <1>17, <2>1, SavedIsLatest DEF SaveUnanswered
  <2>3. ~shared /\ 1 .. 0 \subseteq projection
    BY <1>17 DEF SaveUnanswered
  <2> QED BY <2>1, <2>2, <2>3
<1> QED BY <1>0, <1>1, <1>2, <1>3, <1>4, <1>5, <1>6, <1>7, <1>8, <1>9, <1>10,
           <1>11, <1>12, <1>13, <1>14, <1>15, <1>16, <1>17
       DEF Next, Work

\* Nothing is processed beyond the progress saved plus the interval.
LEMMA RedeliveryStep ==
  ASSUME TypeOK, OwnerAlone, OwnerInStep, StateWithinInterval, Redelivery, [Next]_vars
  PROVE  Redelivery'
<1> SUFFICES ASSUME ~shared', Interval > 0 PROVE Redelivery'
  BY DEF Redelivery, RedeliveryBounded
<1>a. ASSUME NEW e \in Nat, NEW m \in Nat, e <= LatestState + Interval + missed, missed <= m
      PROVE  e <= LatestState + Interval + m
  <2>1. LatestState \in Nat /\ missed \in Nat
    BY LatestStateType DEF TypeOK
  <2> QED BY <1>a, <2>1, IntervalAssumption
<1> USE IntervalAssumption, LatestUnchanged, LatestStateType, WorkerIsOwner
    DEF TypeOK, Redelivery, RedeliveryBounded, allocation, effects, faulty
<1>0. CASE Publish
  BY <1>0 DEF Publish
<1>1. ASSUME NEW c \in Consumers, Load(c) PROVE Redelivery'
  BY <1>1 DEF Load
<1>2. ASSUME NEW c \in Consumers, OpenScan(c) PROVE Redelivery'
  BY <1>2 DEF OpenScan
<1>3. ASSUME NEW c \in Consumers, Locate(c) PROVE Redelivery'
  BY <1>3 DEF Locate
<1>4. ASSUME NEW c \in Consumers, Process(c) PROVE Redelivery'
  <2>1. c = owner /\ owner' = owner
    BY <1>4 DEF Work, Process
  <2>2. pc[c] = "located" /\ UNCHANGED <<shared, answers, missed>>
    BY <1>4 DEF Process
  <2>3. answers[owner] = "all" => after[c] + 1 <= LatestState + Interval + missed
    BY <2>1, <2>2, OwnerWithinInterval
  <2>4. processed' = processed \cup {after[c] + 1} /\ LatestState' = LatestState
    BY <1>4 DEF Process
  <2> QED BY <2>1, <2>2, <2>3, <2>4
<1>5. ASSUME NEW c \in Consumers, Acknowledge(c) PROVE Redelivery'
  BY <1>5 DEF Acknowledge
<1>6. ASSUME NEW c \in Consumers, Exhausted(c) PROVE Redelivery'
  BY <1>6 DEF Exhausted, EndRun
<1>7. ASSUME NEW c \in Consumers, ExpectPosition(c) PROVE Redelivery'
  BY <1>7 DEF ExpectPosition
<1>8. ASSUME NEW c \in Consumers, SaveState(c) PROVE Redelivery'
  <2>1. /\ c = owner /\ owner' = owner /\ LatestState' = state[c]
        /\ UNCHANGED <<shared, missed, processed>> /\ pc[c] = "publishing"
    BY <1>8, SavedIsLatest DEF Work, SaveState
  <2>2. LatestState \in Nat /\ state[c] \in Nat /\ LatestState <= state[c]
    BY <2>1, OwnerProgress
  <2>3. answers'[owner] = "all" => answers[owner] = "all"
    BY <1>8, <2>1 DEF SaveState
  <2>4. ASSUME answers[owner] = "all", NEW e \in processed
        PROVE  e <= state[c] + Interval + missed
    <3>1. e \in Nat /\ e <= LatestState + Interval + missed
      BY <2>1, <2>4
    <3> QED BY <2>2, <3>1
  <2> QED BY <2>1, <2>3, <2>4
<1>9. ASSUME NEW c \in Consumers, SaveRejected(c) PROVE Redelivery'
  BY <1>9 DEF SaveRejected, EndRun
<1>10. ASSUME NEW c \in Consumers, ProcessingFails(c) PROVE Redelivery'
  BY <1>10 DEF ProcessingFails, EndRun
<1>11. ASSUME NEW c \in Consumers, Crash(c) PROVE Redelivery'
  BY <1>11 DEF Crash, EndRun
<1>12. ASSUME NEW c \in Consumers, HandOver(c) PROVE Redelivery'
  BY <1>12 DEF HandOver
<1>13. ASSUME NEW c \in Consumers, Accept(c) PROVE Redelivery'
  BY <1>13 DEF Accept
<1>14. ASSUME NEW c \in Consumers, Withdraw(c) PROVE Redelivery'
  BY <1>14 DEF Withdraw
<1>15. CASE UNCHANGED vars
  BY <1>15 DEF vars
<1>16. ASSUME NEW c \in Consumers, CallFails(c) PROVE Redelivery'
  <2>1. UNCHANGED <<shared, owner, answers, processed>> /\ LatestState' = LatestState
    BY <1>16 DEF CallFails
  <2>2. missed' \in Nat /\ missed <= missed'
    BY <1>16 DEF CallFails
  <2>3. ASSUME answers[owner] = "all", NEW e \in processed
        PROVE  e <= LatestState + Interval + missed'
    <3>1. e \in Nat /\ e <= LatestState + Interval + missed
      BY <2>1, <2>3
    <3> QED BY <1>a, <2>2, <3>1
  <2> QED BY <2>1, <2>3
<1>17. ASSUME NEW c \in Consumers, SaveUnanswered(c) PROVE Redelivery'
  <2>1. /\ c = owner /\ owner' = owner /\ LatestState' = state[c]
        /\ UNCHANGED <<shared, missed, processed>> /\ pc[c] = "publishing"
    BY <1>17, SavedIsLatest DEF Work, SaveUnanswered
  <2>2. LatestState \in Nat /\ state[c] \in Nat /\ LatestState <= state[c]
    BY <2>1, OwnerProgress
  <2>3. answers'[owner] = "all" => answers[owner] = "all"
    BY <1>17, <2>1 DEF SaveUnanswered
  <2>4. ASSUME answers[owner] = "all", NEW e \in processed
        PROVE  e <= state[c] + Interval + missed
    <3>1. e \in Nat /\ e <= LatestState + Interval + missed
      BY <2>1, <2>4
    <3> QED BY <2>2, <3>1
  <2> QED BY <2>1, <2>3, <2>4
<1> QED BY <1>0, <1>1, <1>2, <1>3, <1>4, <1>5, <1>6, <1>7, <1>8, <1>9, <1>10,
           <1>11, <1>12, <1>13, <1>14, <1>15, <1>16, <1>17
       DEF Next, Work

-----------------------------------------------------------------------------
\* The inductive invariant holds in every reachable state of the consumers.
THEOREM Invariant == Spec => []IInv
<1>1. IInv /\ [Next]_vars => IInv'
  BY TypeStep, ProcessedStep, OwnerAloneStep, OwnerInStepStep, IntervalStep, ProjectedStep,
     RedeliveryStep DEF IInv
<1> QED BY InitHolds, <1>1, PTL DEF Spec

\* Every reachable state of the consumers is well typed.
THEOREM TypeCorrect == Spec => []TypeOK
<1>1. IInv => TypeOK
  BY DEF IInv
<1> QED BY Invariant, <1>1, PTL

\* At least once delivery: whichever of any number of consumers saves its
\* progress, and however often they crash, fail, have a save refused or not
\* answered, or take the source from each other, every event up to that progress has been
\* processed.
THEOREM AtLeastOnce == Spec => []ProcessedBeforeSaved
<1>1. IInv => ProcessedBeforeSaved
  BY DEF IInv
<1> QED BY Invariant, <1>1, PTL

\* A consumer that persists its state at an interval and has the source to
\* itself repeats at most that many events after a crash, and one more for each
\* save that has failed, as long as no answer to a save made with a cached
\* position is lost.
THEOREM CrashRepeatsAtMostInterval ==
  ASSUME Interval > 0
  PROVE  Spec => []RedeliveryBounded
<1>1. IInv => RedeliveryBounded
  BY DEF IInv, Redelivery
<1> QED BY Invariant, <1>1, PTL

\* The stored projection contains every event up to the progress saved as long
\* as the source has not been handed over: locating, projecting and saving in
\* separate steps loses no update, crashes and failures in between included.
THEOREM ProjectionIsComplete == Spec => []ProjectionCoversProgress
<1>1. IInv => ProjectionCoversProgress
  BY DEF IInv
<1> QED BY Invariant, <1>1, PTL
=============================================================================
