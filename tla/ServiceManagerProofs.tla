------------------------- MODULE ServiceManagerProofs -------------------------
(***************************************************************************)
(* Proofs about ServiceManager for any services, isolation modes and error *)
(* handlers.                                                               *)
(***************************************************************************)
EXTENDS ServiceManager, SequenceTheorems, WellFoundedInduction, TLAPS

-----------------------------------------------------------------------------
(***************************************************************************)
(* The inductive invariant: how far start has come, what a call of stop    *)
(* has done on an executor, and what that means for its services.          *)
(***************************************************************************)
Dedicated(e) == e \notin {Main, Shared}

\* A task runs in a loop that has been started; before the services are
\* scheduled there is no task, and no dedicated executor.
StartInv ==
  /\ loop[Main] # "new"
  /\ phase # "new" => loop[Shared] # "new"
  /\ phase \in {"new", "starting"} => \A s \in Services : task[s] = "none"
  /\ phase \in {"new", "starting"} => \A e \in Executors : Dedicated(e) => loop[e] = "new"
  /\ \A s \in Services : task[s] # "none" => loop[Executor(s)] # "new"

StopInv ==
  \A k \in Stops :
    /\ \A e \in Executors : part[k][e] = "none" <=> stop[k] = "idle"
    /\ stop[k] = "idle" => before[k] = {}
    /\ stop[k] = "returned" => \A e \in Executors : part[k][e] = "done"
    /\ \A s \in before[k] : task[s] # "none"
    /\ \A e \in Executors : Dedicated(e) /\ loop[e] = "new" => part[k][e] \in {"none", "done"}

\* A stop that is done with a thread has closed its loop, unless the thread had
\* none of the services; one that is done with the main thread has seen all its
\* services end.
DoneInv ==
  \A k \in Stops :
    /\ \A s \in before[k] :
         part[k][Executor(s)] = "done" /\ Executor(s) # Main => loop[Executor(s)] = "closed"
    /\ \A s \in before[k] \cap On(Main) :
         /\ part[k][Main] = "done" => task[s] \in Ended
         /\ part[k][Main] = "shutting" => s \in awaited[k][Main] \/ task[s] \in Ended

\* Tasks are cancelled by a call of stop, and by nothing else.
CancelInv ==
  \A s \in Services : task[s] = "cancelling" => \E k \in Stops : stop[k] # "idle"

IInv == TypeOK /\ StartInv /\ StopInv /\ DoneInv /\ CancelInv

-----------------------------------------------------------------------------
(***************************************************************************)
(* Executors and error handlers.                                           *)
(***************************************************************************)
LEMMA ExecutorFacts ==
  /\ Main \in Executors /\ Shared \in Executors /\ Main # Shared
  /\ \A s \in Services :
       /\ Executor(s) \in Executors
       /\ Isolation[s] = "main_thread" => Executor(s) = Main
       /\ Isolation[s] = "shared_thread" => Executor(s) = Shared
       /\ Isolation[s] = "dedicated_thread" => Dedicated(Executor(s))
       /\ Isolation[s] \in {"main_thread", "shared_thread", "dedicated_thread"}
<1>1. Main # Shared
  BY DEF Main, Shared
<1>2. \A s : <<"dedicated", s>> # Main /\ <<"dedicated", s>> # Shared
  BY DEF Main, Shared
<1>3. \A s \in Services : Isolation[s] \in {"main_thread", "shared_thread", "dedicated_thread"}
  BY IsolationAssumption
<1> QED BY <1>1, <1>2, <1>3 DEF Executors, Executor, Dedicated

Mapped(h, c) == {i \in DOMAIN Mro[c] : TypeMapping(h, Mro[c][i]) # "unmapped"}

\* The class that decides is mapped, and no class before it is.
LEMMA FirstMapped ==
  ASSUME NEW h, NEW c \in Errors \cup {"CancelledError"}, Mapped(h, c) # {}
  PROVE  \E i \in Mapped(h, c) :
           /\ \A j \in Mapped(h, c) : i <= j
           /\ Handle(h, c) = Decision(TypeMapping(h, Mro[c][i]), c)
<1> DEFINE M == Mapped(h, c)
           first == CHOOSE i \in M : \A j \in M : i <= j
<1>1. M \in SUBSET Nat
  BY MroAssumption, LenProperties DEF Mapped
<1>2. PICK x \in M : \A y \in M : ~ (<<y, x>> \in OpToRel(<, Nat))
  <2> HIDE DEF M
  <2> QED BY <1>1, WFMin, NatLessThanWellFounded DEF M
<1>3. \A y \in M : x <= y
  <2> TAKE y \in M
  <2>1. x \in Nat /\ y \in Nat
    BY <1>1
  <2>2. ~ (<<y, x>> \in OpToRel(<, Nat))
    BY <1>2
  <2> QED BY <2>1, <2>2 DEF OpToRel
<1>4. first \in M /\ \A j \in M : first <= j
  <2> HIDE DEF M
  <2> QED BY <1>3
<1>5. Handle(h, c) = Decision(TypeMapping(h, Mro[c][first]), c)
  BY DEF Handle, Mapped
<1> QED BY <1>4, <1>5

LEMMA HandleType ==
  ASSUME NEW h, h.default \in Decisions, NEW c \in Errors \cup {"CancelledError"}
  PROVE  Handle(h, c) \in Decisions
<1>1. \A d \in Decisions : Decision(d, c) \in Decisions
  BY DEF Decision, Decisions
<1>2. CASE Mapped(h, c) = {}
  BY <1>1, <1>2 DEF Handle, Mapped
<1>3. CASE Mapped(h, c) # {}
  <2>1. PICK i \in Mapped(h, c) : Handle(h, c) = Decision(TypeMapping(h, Mro[c][i]), c)
    BY <1>3, FirstMapped
  <2>2. TypeMapping(h, Mro[c][i]) \in Decisions
    BY DEF Mapped, TypeMapping, Decisions
  <2> QED BY <1>1, <2>1, <2>2
<1> QED BY <1>2, <1>3

-----------------------------------------------------------------------------
(***************************************************************************)
(* Steps.                                                                  *)
(***************************************************************************)
\* A task goes on: it ends, or its service is executed again.
Proceeds(s) ==
  /\ Runs(s) /\ task[s] \in {"running", "cancelling"}
  /\ \E t \in Ended \cup {"running"} : task' = [task EXCEPT ![s] = t]
  /\ loop' = loop \/ loop' = [loop EXCEPT ![Executor(s)] = "dead"]
  /\ UNCHANGED <<phase, handler, stop, part, awaited, before>>

LEMMA TaskSteps ==
  ASSUME TypeOK, NEW s \in Services, Finish(s) \/ Fails(s) \/ Cancelled(s)
  PROVE  Proceeds(s)
<1>1. ASSUME NEW c \in Errors \cup {"CancelledError"}, Execute(s, c),
             Runs(s), task[s] \in {"running", "cancelling"}
      PROVE  Proceeds(s)
  <2> DEFINE d == Handle(handler[s], c)
  <2>1. d \in Decisions
    BY HandleType, HandlersAssumption DEF TypeOK
  <2>2. /\ task' = [task EXCEPT ![s] =
             CASE d = "raise"    -> "raised"
               [] d = "continue" -> "returned"
               [] d = "exit"     -> "exited"
               [] d = "retry"    -> "running"]
        /\ loop' = [loop EXCEPT ![Executor(s)] = IF d = "exit" THEN "dead" ELSE loop[Executor(s)]]
        /\ UNCHANGED <<phase, handler, stop, part, awaited, before>>
    BY <1>1 DEF Execute
  <2> HIDE DEF d
  <2>3. \E t \in Ended \cup {"running"} : task' = [task EXCEPT ![s] = t]
    BY <2>1, <2>2 DEF Decisions, Ended
  <2>4. loop' = loop \/ loop' = [loop EXCEPT ![Executor(s)] = "dead"]
    BY <2>2, ExecutorFacts DEF TypeOK
  <2> QED BY <1>1, <2>2, <2>3, <2>4 DEF Proceeds
<1>2. CASE Finish(s)
  BY <1>2 DEF Finish, Proceeds, Ended
<1>3. CASE Fails(s)
  BY <1>1, <1>3 DEF Fails
<1>4. CASE Cancelled(s)
  BY <1>1, <1>4 DEF Cancelled
<1> QED BY <1>2, <1>3, <1>4

LEMMA StepKinds ==
  ASSUME TypeOK, Next
  PROVE  \/ Start \/ Schedule \/ Started
         \/ \E s \in Services : Proceeds(s)
         \/ \E k \in Stops : CallStop(k) \/ StopExecutors(k) \/ StopMainEnds(k) \/ StopEnds(k)
         \/ \E k \in Stops, e \in Executors \ {Main} :
              ShutDown(k, e) \/ ShutDownEnds(k, e) \/ Close(k, e)
         \/ \E e \in Executors : LoopStops(e)
BY TaskSteps DEF Next, StopStep

\* A closing stop is done, or refused by the loop.
LEMMA CloseEnd ==
  ASSUME NEW k \in Stops, NEW e \in Executors, Close(k, e)
  PROVE  \E end \in {"done", "failed"} : part' = [part EXCEPT ![k] = [part[k] EXCEPT ![e] = end]]
BY DEF Close

LEMMA TypeStep ==
  ASSUME TypeOK, [Next]_vars
  PROVE  TypeOK'
<1> USE DEF TypeOK, Ended
<1>1. CASE Start
  BY <1>1, ExecutorFacts DEF Start
<1>2. CASE Schedule
  BY <1>2 DEF Schedule
<1>3. CASE Started
  BY <1>3 DEF Started
<1>4. ASSUME NEW s \in Services, Proceeds(s) PROVE TypeOK'
  BY <1>4 DEF Proceeds
<1>5. ASSUME NEW k \in Stops, CallStop(k) PROVE TypeOK'
  BY <1>5 DEF CallStop
<1>6. ASSUME NEW k \in Stops, StopExecutors(k) PROVE TypeOK'
  BY <1>6, ExecutorFacts DEF StopExecutors, CancelAll, Unfinished, On
<1>7. ASSUME NEW k \in Stops, StopMainEnds(k) PROVE TypeOK'
  BY <1>7, ExecutorFacts DEF StopMainEnds
<1>8. ASSUME NEW k \in Stops, StopEnds(k) PROVE TypeOK'
  BY <1>8 DEF StopEnds
<1>9. ASSUME NEW k \in Stops, NEW e \in Executors, ShutDown(k, e) PROVE TypeOK'
  BY <1>9 DEF ShutDown, CancelAll, Unfinished, On
<1>10. ASSUME NEW k \in Stops, NEW e \in Executors, ShutDownEnds(k, e) PROVE TypeOK'
  BY <1>10 DEF ShutDownEnds
<1>11. ASSUME NEW k \in Stops, NEW e \in Executors, Close(k, e) PROVE TypeOK'
  <2>1. PICK end \in {"done", "failed"} : part' = [part EXCEPT ![k] = [part[k] EXCEPT ![e] = end]]
    BY <1>11, CloseEnd
  <2>2. part' \in [Stops -> [Executors ->
          {"none", "called", "submitted", "shutting", "stopping", "done", "failed"}]]
    BY <2>1
  <2> QED BY <1>11, <2>2 DEF Close
<1>12. ASSUME NEW e \in Executors, LoopStops(e) PROVE TypeOK'
  BY <1>12 DEF LoopStops
<1>13. CASE UNCHANGED vars
  BY <1>13 DEF vars
<1> QED BY <1>1, <1>2, <1>3, <1>4, <1>5, <1>6, <1>7, <1>8, <1>9, <1>10, <1>11, <1>12, <1>13, StepKinds

\* A cancellation leaves alone the tasks that have ended and those that do not
\* exist.
LEMMA CancelFacts ==
  ASSUME TypeOK, NEW k \in Stops, NEW e \in Executors, CancelAll(k, e)
  PROVE  /\ \A s \in Services : task'[s] = task[s] \/ (task[s] = "running" /\ task'[s] = "cancelling")
         /\ awaited'[k][e] = Unfinished(e)
         /\ \A j \in Stops, f \in Executors : <<j, f>> # <<k, e>> => awaited'[j][f] = awaited[j][f]
BY DEF CancelAll, Unfinished, TypeOK

LEMMA StartStep ==
  ASSUME TypeOK, StartInv, StopInv, [Next]_vars
  PROVE  StartInv'
<1> USE DEF TypeOK, StartInv, Dedicated
<1>1. CASE Start
  BY <1>1, ExecutorFacts DEF Start
<1>2. CASE Schedule
  <2>1. \A e \in Executors : loop'[e] \in {loop[e], "running"}
    BY <1>2 DEF Schedule
  <2>2. phase' \notin {"new", "starting"} /\ loop[Shared] # "new"
    BY <1>2 DEF Schedule
  <2>3. ASSUME NEW s \in Services, task'[s] # "none" PROVE loop'[Executor(s)] # "new"
    <3>1. s \in Scheduled
      BY <1>2, <2>3 DEF Schedule
    <3>2. CASE Isolation[s] = "dedicated_thread"
      BY <1>2, <3>1, <3>2, ExecutorFacts DEF Schedule
    <3>3. CASE Executor(s) \in {Main, Shared}
      BY <2>1, <2>2, <3>3, ExecutorFacts
    <3> QED BY <3>2, <3>3, ExecutorFacts
  <2> QED BY <2>1, <2>2, <2>3, ExecutorFacts
<1>3. CASE Started
  BY <1>3 DEF Started
<1>4. ASSUME NEW s \in Services, Proceeds(s) PROVE StartInv'
  <2>1. \A e \in Executors : loop'[e] \in {loop[e], "dead"}
    BY <1>4 DEF Proceeds
  <2>2. task[s] # "none" /\ \A u \in Services \ {s} : task'[u] = task[u]
    BY <1>4 DEF Proceeds
  <2>3. phase' = phase /\ phase \notin {"new", "starting"}
    BY <1>4, <2>2 DEF Proceeds
  <2> QED BY <2>1, <2>2, <2>3, ExecutorFacts
<1>5. ASSUME NEW k \in Stops, CallStop(k) \/ StopMainEnds(k) \/ StopEnds(k) PROVE StartInv'
  BY <1>5 DEF CallStop, StopMainEnds, StopEnds
<1>6. ASSUME NEW k \in Stops, NEW e \in Executors, CancelAll(k, e), UNCHANGED <<phase, loop>>
      PROVE  StartInv'
  <2>1. \A s \in Services : task'[s] = "none" <=> task[s] = "none"
    BY <1>6, CancelFacts
  <2> QED BY <1>6, <2>1
<1>7. ASSUME NEW k \in Stops, StopExecutors(k) PROVE StartInv'
  BY <1>6, <1>7, ExecutorFacts DEF StopExecutors
<1>8. ASSUME NEW k \in Stops, NEW e \in Executors, ShutDown(k, e) PROVE StartInv'
  BY <1>6, <1>8 DEF ShutDown
<1>9. ASSUME NEW k \in Stops, NEW e \in Executors, ShutDownEnds(k, e) PROVE StartInv'
  BY <1>9 DEF ShutDownEnds
<1>10. ASSUME NEW k \in Stops, NEW e \in Executors \ {Main}, Close(k, e) PROVE StartInv'
  <2>1. loop' = [loop EXCEPT ![e] = "closed"] /\ UNCHANGED <<phase, task>>
    BY <1>10 DEF Close
  <2>2. ~ (e \notin {Main, Shared} /\ loop[e] = "new")
    BY <1>10 DEF Close, StopInv
  <2> QED BY <2>1, <2>2, ExecutorFacts
<1>11. ASSUME NEW e \in Executors, LoopStops(e) PROVE StartInv'
  <2>1. loop[e] = "running" /\ loop' = [loop EXCEPT ![e] = "stopped"] /\ UNCHANGED <<phase, task>>
    BY <1>11 DEF LoopStops
  <2> QED BY <2>1, ExecutorFacts
<1>12. CASE UNCHANGED vars
  BY <1>12 DEF vars
<1> QED BY <1>1, <1>2, <1>3, <1>4, <1>5, <1>7, <1>8, <1>9, <1>10, <1>11, <1>12, StepKinds

LEMMA StopStepInv ==
  ASSUME TypeOK, StartInv, StopInv, [Next]_vars
  PROVE  StopInv'
<1> USE DEF TypeOK, StopInv, Dedicated
<1>1. CASE Start
  BY <1>1, ExecutorFacts DEF Start
<1>2. CASE Schedule
  <2>1. \A k \in Stops : before[k] = {}
    BY <1>2 DEF Schedule, StartInv
  <2>2. UNCHANGED <<stop, part, before>> /\ \A e \in Executors : loop'[e] = "new" => loop[e] = "new"
    BY <1>2 DEF Schedule
  <2> QED BY <2>1, <2>2
<1>3. CASE Started
  BY <1>3 DEF Started
<1>4. ASSUME NEW s \in Services, Proceeds(s) PROVE StopInv'
  <2>1. \A e \in Executors : loop'[e] = "new" => loop[e] = "new"
    BY <1>4 DEF Proceeds
  <2>2. UNCHANGED <<stop, part, before>> /\ \A u \in Services : task'[u] = "none" => task[u] = "none"
    BY <1>4 DEF Proceeds, Ended
  <2> QED BY <2>1, <2>2
<1>5. ASSUME NEW k \in Stops, CallStop(k) PROVE StopInv'
  <2>1. /\ stop' = [stop EXCEPT ![k] = "running"]
        /\ part' = [part EXCEPT ![k] =
             [e \in Executors |-> IF e \in AllExecutors THEN "called" ELSE "done"]]
        /\ before' = [before EXCEPT ![k] = {s \in Services : task[s] # "none"}]
        /\ UNCHANGED <<loop, task>>
    BY <1>5 DEF CallStop
  <2>2. \A e \in Executors : Dedicated(e) /\ loop[e] = "new" => e \notin AllExecutors
    BY DEF AllExecutors
  <2> QED BY <2>1, <2>2
<1>6. ASSUME NEW k \in Stops, StopExecutors(k) PROVE StopInv'
  <2>1. stop[k] = "running" /\ UNCHANGED <<stop, loop, before>>
    BY <1>6 DEF StopExecutors
  <2>2. \A s \in Services : task'[s] = "none" => task[s] = "none"
    BY <1>6, CancelFacts, ExecutorFacts DEF StopExecutors
  <2>3. /\ \A j \in Stops \ {k} : part'[j] = part[j]
        /\ \A e \in Executors :
             /\ part'[k][e] # "none"
             /\ part[k][e] = "done" => part'[k][e] = "done"
    BY <1>6 DEF StopExecutors
  <2> QED BY <2>1, <2>2, <2>3
<1>7. ASSUME NEW k \in Stops, StopMainEnds(k) PROVE StopInv'
  <2>1. /\ part' = [part EXCEPT ![k] = [part[k] EXCEPT ![Main] = "done"]]
        /\ part[k][Main] = "shutting" /\ UNCHANGED <<stop, loop, task, before>>
    BY <1>7 DEF StopMainEnds
  <2> QED BY <2>1, ExecutorFacts
<1>8. ASSUME NEW k \in Stops, StopEnds(k) PROVE StopInv'
  <2>1. UNCHANGED <<loop, task, part, before>> /\ stop[k] = "running"
    BY <1>8 DEF StopEnds
  <2>2. \/ stop' = [stop EXCEPT ![k] = "returned"] /\ \A e \in Executors : part[k][e] = "done"
        \/ stop' = [stop EXCEPT ![k] = "raised"]
    BY <1>8 DEF StopEnds
  <2> QED BY <2>1, <2>2
<1>9. ASSUME NEW k \in Stops, NEW e \in Executors, ShutDown(k, e) PROVE StopInv'
  <2>1. \A s \in Services : task'[s] = "none" => task[s] = "none"
    BY <1>9, CancelFacts DEF ShutDown
  <2>2. loop[e] = "running" /\ part[k][e] = "submitted" /\ UNCHANGED <<stop, loop, before>>
    BY <1>9 DEF ShutDown
  <2>3. \A j \in Stops, f \in Executors :
          IF f # e THEN part'[j][f] = part[j][f]
          ELSE \/ part'[j][f] = part[j][f]
               \/ part[j][f] \in {"submitted", "shutting"} /\ part'[j][f] \in {"shutting", "failed"}
    BY <1>9 DEF ShutDown
  <2>4. \A j \in Stops, f \in Executors :
          /\ part'[j][f] = "none" <=> part[j][f] = "none"
          /\ part[j][f] = "done" => part'[j][f] = "done"
          /\ f # e => part'[j][f] = part[j][f]
    BY <2>3
  <2> QED BY <2>1, <2>2, <2>4
<1>10. ASSUME NEW k \in Stops, NEW e \in Executors, ShutDownEnds(k, e) PROVE StopInv'
  <2>1. /\ part' = [part EXCEPT ![k] = [part[k] EXCEPT ![e] = "stopping"]]
        /\ part[k][e] = "shutting" /\ loop[e] = "running" /\ UNCHANGED <<stop, loop, task, before>>
    BY <1>10 DEF ShutDownEnds
  <2> QED BY <2>1
<1>11. ASSUME NEW k \in Stops, NEW e \in Executors, Close(k, e) PROVE StopInv'
  <2>1. PICK end \in {"done", "failed"} : part' = [part EXCEPT ![k] = [part[k] EXCEPT ![e] = end]]
    BY <1>11, CloseEnd
  <2>2. /\ part[k][e] = "stopping" /\ loop' = [loop EXCEPT ![e] = "closed"]
        /\ UNCHANGED <<stop, task, before>>
    BY <1>11 DEF Close
  <2> QED BY <2>1, <2>2
<1>12. ASSUME NEW e \in Executors, LoopStops(e) PROVE StopInv'
  BY <1>12 DEF LoopStops
<1>13. CASE UNCHANGED vars
  BY <1>13 DEF vars
<1> QED BY <1>1, <1>2, <1>3, <1>4, <1>5, <1>6, <1>7, <1>8, <1>9, <1>10, <1>11, <1>12, <1>13, StepKinds

LEMMA DoneStep ==
  ASSUME TypeOK, StartInv, StopInv, DoneInv, [Next]_vars
  PROVE  DoneInv'
<1> USE DEF TypeOK, On
<1> DEFINE Closed(k) ==
      \A s \in before[k] :
        part[k][Executor(s)] = "done" /\ Executor(s) # Main => loop[Executor(s)] = "closed"
           MainDone(k) ==
      \A s \in before[k] \cap On(Main) :
        /\ part[k][Main] = "done" => task[s] \in Ended
        /\ part[k][Main] = "shutting" => s \in awaited[k][Main] \/ task[s] \in Ended
<1>0. \A k \in Stops : Closed(k) /\ MainDone(k) /\ before[k] \in SUBSET Services
  BY DEF DoneInv
<1> SUFFICES ASSUME NEW j \in Stops PROVE Closed(j)' /\ MainDone(j)'
  BY DEF DoneInv
\* Steps that leave the parts of the stop alone, keep closed loops closed and
\* ended tasks ended.
<1>a. ASSUME UNCHANGED <<before[j], part[j], awaited[j]>>,
             \A s \in before[j] : loop[Executor(s)] = "closed" => loop'[Executor(s)] = "closed",
             \A s \in before[j] : task[s] \in Ended => task'[s] \in Ended
      PROVE  Closed(j)' /\ MainDone(j)'
  BY <1>0, <1>a
<1>1. CASE Start
  <2>1. before[j] = {}
    BY <1>1 DEF Start, StartInv, StopInv
  <2> QED BY <1>1, <1>a, <2>1 DEF Start
<1>2. CASE Schedule
  <2>1. before[j] = {}
    BY <1>0, <1>2 DEF Schedule, StartInv, StopInv
  <2> QED BY <1>2, <1>a, <2>1 DEF Schedule
<1>3. CASE Started
  BY <1>3, <1>a DEF Started
<1>4. ASSUME NEW s \in Services, Proceeds(s) PROVE Closed(j)' /\ MainDone(j)'
  <2>1. \A u \in Services : loop[Executor(u)] = "closed" => loop'[Executor(u)] = "closed"
    BY <1>4, ExecutorFacts DEF Proceeds, Runs
  <2>2. \A u \in Services : task[u] \in Ended => task'[u] \in Ended
    BY <1>4 DEF Proceeds, Ended
  <2> QED BY <1>0, <1>4, <1>a, <2>1, <2>2 DEF Proceeds
<1>5. ASSUME NEW k \in Stops, CallStop(k) PROVE Closed(j)' /\ MainDone(j)'
  <2>1. /\ part' = [part EXCEPT ![k] =
             [e \in Executors |-> IF e \in AllExecutors THEN "called" ELSE "done"]]
        /\ before' = [before EXCEPT ![k] = {s \in Services : task[s] # "none"}]
        /\ UNCHANGED <<loop, task, awaited>>
    BY <1>5 DEF CallStop
  <2>2. CASE j # k
    BY <1>a, <2>1, <2>2
  <2>3. CASE j = k
    <3>1. \A s \in before'[j] : s \in Services /\ Executor(s) \in AllExecutors
      BY <2>1, <2>3, ExecutorFacts DEF AllExecutors, StartInv
    <3>2. Main \in AllExecutors
      BY ExecutorFacts DEF AllExecutors
    <3> QED BY <2>1, <2>3, <3>1, <3>2, ExecutorFacts
  <2> QED BY <2>2, <2>3
<1>6. ASSUME NEW k \in Stops, StopExecutors(k) PROVE Closed(j)' /\ MainDone(j)'
  <2>1. part[k][Main] = "called" /\ UNCHANGED <<loop, before>> /\ CancelAll(k, Main)
    BY <1>6 DEF StopExecutors
  <2>2. /\ \A s \in Services : task'[s] = task[s] \/ (task[s] = "running" /\ task'[s] = "cancelling")
        /\ awaited'[k][Main] = Unfinished(Main)
        /\ \A i \in Stops : i # k => awaited'[i][Main] = awaited[i][Main]
    BY <2>1, CancelFacts, ExecutorFacts
  <2>3. \A s \in Services : task[s] \in Ended => task'[s] \in Ended
    BY <2>2 DEF Ended
  <2>4. CASE j # k
    <3>1. part'[j] = part[j]
      BY <1>6, <2>4 DEF StopExecutors
    <3> QED BY <1>0, <2>1, <2>2, <2>3, <2>4, <3>1
  <2>5. CASE j = k
    <3>1. /\ part'[k][Main] = "shutting"
          /\ \A e \in Executors : part'[k][e] = "done" => part[k][e] = "done"
      BY <1>6, <2>1, ExecutorFacts DEF StopExecutors
    <3>2. \A s \in before[k] \cap On(Main) : s \in Unfinished(Main) \/ task[s] \in Ended
      BY <1>0 DEF Unfinished, StopInv, Ended
    <3>3. MainDone(j)'
      BY <2>1, <2>2, <2>3, <2>5, <3>1, <3>2
    <3>4. Closed(j)'
      BY <1>0, <2>1, <2>5, <3>1, ExecutorFacts
    <3> QED BY <3>3, <3>4
  <2> QED BY <2>4, <2>5
<1>7. ASSUME NEW k \in Stops, StopMainEnds(k) PROVE Closed(j)' /\ MainDone(j)'
  <2>1. /\ part[k][Main] = "shutting" /\ UNCHANGED <<loop, task, before>>
        /\ part' = [part EXCEPT ![k] = [part[k] EXCEPT ![Main] = "done"]]
        /\ \A i \in Stops \ {k} : awaited'[i] = awaited[i]
        /\ \A s \in awaited[k][Main] : task[s] \in Ended
    BY <1>7 DEF StopMainEnds, AwaitedEnded
  <2>2. CASE j # k
    BY <1>0, <2>1, <2>2
  <2>3. CASE j = k
    BY <1>0, <2>1, <2>3, ExecutorFacts
  <2> QED BY <2>2, <2>3
<1>8. ASSUME NEW k \in Stops, StopEnds(k) PROVE Closed(j)' /\ MainDone(j)'
  BY <1>8, <1>a DEF StopEnds
<1>9. ASSUME NEW k \in Stops, NEW e \in Executors \ {Main}, ShutDown(k, e)
      PROVE  Closed(j)' /\ MainDone(j)'
  <2>1. CancelAll(k, e) /\ UNCHANGED <<loop, before>>
    BY <1>9 DEF ShutDown
  <2>2. /\ \A s \in Services : task'[s] = task[s] \/ (task[s] = "running" /\ task'[s] = "cancelling")
        /\ awaited'[j][Main] = awaited[j][Main]
    BY <2>1, CancelFacts, ExecutorFacts
  <2>3. \A s \in Services : task[s] \in Ended => task'[s] \in Ended
    BY <2>2 DEF Ended
  <2>4. /\ part'[j][Main] = part[j][Main]
        /\ \A f \in Executors : part'[j][f] = "done" => part[j][f] = "done"
    BY <1>9, ExecutorFacts DEF ShutDown
  <2> QED BY <1>0, <2>1, <2>2, <2>3, <2>4, ExecutorFacts
<1>10. ASSUME NEW k \in Stops, NEW e \in Executors \ {Main}, ShutDownEnds(k, e)
       PROVE  Closed(j)' /\ MainDone(j)'
  <2>1. /\ part' = [part EXCEPT ![k] = [part[k] EXCEPT ![e] = "stopping"]]
        /\ awaited' = [awaited EXCEPT ![k] = [awaited[k] EXCEPT ![e] = {}]]
        /\ UNCHANGED <<loop, task, before>>
    BY <1>10 DEF ShutDownEnds
  <2> QED BY <1>0, <2>1, ExecutorFacts
<1>11. ASSUME NEW k \in Stops, NEW e \in Executors \ {Main}, Close(k, e)
       PROVE  Closed(j)' /\ MainDone(j)'
  <2>1. PICK end \in {"done", "failed"} : part' = [part EXCEPT ![k] = [part[k] EXCEPT ![e] = end]]
    BY <1>11, CloseEnd
  <2>2. loop' = [loop EXCEPT ![e] = "closed"] /\ UNCHANGED <<awaited, task, before>>
    BY <1>11 DEF Close
  <2> QED BY <1>0, <2>1, <2>2, ExecutorFacts
<1>12. ASSUME NEW e \in Executors, LoopStops(e) PROVE Closed(j)' /\ MainDone(j)'
  <2>1. \A s \in Services : loop[Executor(s)] = "closed" => loop'[Executor(s)] = "closed"
    BY <1>12, ExecutorFacts DEF LoopStops
  <2> QED BY <1>0, <1>12, <1>a, <2>1 DEF LoopStops
<1>13. CASE UNCHANGED vars
  BY <1>13, <1>a DEF vars
<1> QED BY <1>1, <1>2, <1>3, <1>4, <1>5, <1>6, <1>7, <1>8, <1>9, <1>10, <1>11, <1>12, <1>13, StepKinds

LEMMA CancelStep ==
  ASSUME TypeOK, StopInv, CancelInv, [Next]_vars
  PROVE  CancelInv'
<1> USE DEF TypeOK, CancelInv
\* No stop becomes idle again.
<1>a. ASSUME \A k \in Stops : stop'[k] = "idle" => stop[k] = "idle",
             \A s \in Services : task'[s] = "cancelling" => task[s] = "cancelling"
      PROVE  CancelInv'
  BY <1>a
<1>b. ASSUME NEW k \in Stops, stop[k] # "idle", UNCHANGED stop PROVE CancelInv'
  BY <1>b
<1>1. CASE Start
  BY <1>1, <1>a DEF Start
<1>2. CASE Schedule
  BY <1>2, <1>a DEF Schedule
<1>3. CASE Started
  BY <1>3, <1>a DEF Started
<1>4. ASSUME NEW s \in Services, Proceeds(s) PROVE CancelInv'
  <2>1. \A u \in Services : task'[u] = "cancelling" => task[u] = "cancelling"
    BY <1>4 DEF Proceeds, Ended
  <2> QED BY <1>4, <1>a, <2>1 DEF Proceeds
<1>5. ASSUME NEW k \in Stops, CallStop(k) PROVE CancelInv'
  BY <1>5, <1>a DEF CallStop
<1>6. ASSUME NEW k \in Stops, StopExecutors(k) PROVE CancelInv'
  BY <1>6, <1>b DEF StopExecutors
<1>7. ASSUME NEW k \in Stops, StopMainEnds(k) PROVE CancelInv'
  BY <1>7, <1>a DEF StopMainEnds
<1>8. ASSUME NEW k \in Stops, StopEnds(k) PROVE CancelInv'
  BY <1>8, <1>a DEF StopEnds
<1>9. ASSUME NEW k \in Stops, NEW e \in Executors, ShutDown(k, e) PROVE CancelInv'
  BY <1>9, <1>b DEF ShutDown, StopInv
<1>10. ASSUME NEW k \in Stops, NEW e \in Executors, ShutDownEnds(k, e) \/ Close(k, e)
       PROVE  CancelInv'
  BY <1>10, <1>a DEF ShutDownEnds, Close
<1>11. ASSUME NEW e \in Executors, LoopStops(e) PROVE CancelInv'
  BY <1>11, <1>a DEF LoopStops
<1>12. CASE UNCHANGED vars
  BY <1>12, <1>a DEF vars
<1> QED BY <1>1, <1>2, <1>3, <1>4, <1>5, <1>6, <1>7, <1>8, <1>9, <1>10, <1>11, <1>12, StepKinds

LEMMA InitHolds ==
  ASSUME Init
  PROVE  IInv
<1> USE DEF Init
<1>1. TypeOK
  BY DEF TypeOK
<1>2. StartInv
  BY ExecutorFacts DEF StartInv, Dedicated
<1>3. StopInv /\ DoneInv /\ CancelInv
  BY DEF StopInv, DoneInv, CancelInv
<1> QED BY <1>1, <1>2, <1>3 DEF IInv

-----------------------------------------------------------------------------
(***************************************************************************)
(* Theorems.                                                               *)
(***************************************************************************)
\* The invariant holds in every reachable state, however the services end and
\* whenever the caller and a signal stop them.
THEOREM Invariant == Spec => []IInv
<1>1. Init => IInv
  BY InitHolds
<1>2. IInv /\ [Next]_vars => IInv'
  BY TypeStep, StartStep, StopStepInv, DoneStep, CancelStep DEF IInv
<1> QED BY <1>1, <1>2, PTL DEF Spec

\* Every reachable state of the manager is well typed.
THEOREM TypeCorrect == Spec => []TypeOK
<1>1. IInv => TypeOK
  BY DEF IInv
<1> QED BY Invariant, <1>1, PTL

\* For any number of services on any threads: when a stop has returned, the
\* services of the main thread have ended, and no other thread runs its loop.
THEOREM StopLeavesNothingRunning == Spec => []NoServiceOutlivesStop
<1>1. IInv => NoServiceOutlivesStop
  <2> SUFFICES ASSUME IInv, NEW k \in Stops, stop[k] = "returned", NEW s \in before[k]
               PROVE  ~Active(s)
    BY DEF NoServiceOutlivesStop
  <2>1. s \in Services /\ Executor(s) \in Executors
    BY ExecutorFacts DEF IInv, TypeOK
  <2>2. part[k][Executor(s)] = "done"
    BY <2>1 DEF IInv, StopInv
  <2>3. CASE Executor(s) = Main
    <3>1. task[s] \in Ended
      BY <2>1, <2>2, <2>3 DEF IInv, DoneInv, On
    <3> QED BY <3>1 DEF Ended, Active
  <2>4. CASE Executor(s) # Main
    BY <2>1, <2>2, <2>4 DEF IInv, DoneInv, Active, Runs
  <2> QED BY <2>3, <2>4
<1> QED BY Invariant, <1>1, PTL

-----------------------------------------------------------------------------
\* The services' errors are exceptions: retry has no effect on others.
ErrorsAreExceptions == \A c \in Errors : IsA(c, "Exception")

\* The mapping of an error's own class comes first.
LEMMA RetryDecides ==
  ASSUME ErrorsAreExceptions, NEW h, NEW c \in Errors, TypeMapping(h, c) = "retry"
  PROVE  Handle(h, c) = "retry"
<1>1. 1 \in DOMAIN Mro[c] /\ Mro[c][1] = c /\ DOMAIN Mro[c] \in SUBSET (Nat \ {0})
  BY MroAssumption, LenProperties, EmptySeq
<1>2. 1 \in Mapped(h, c)
  BY <1>1 DEF Mapped
<1>3. PICK i \in Mapped(h, c) :
        /\ \A j \in Mapped(h, c) : i <= j
        /\ Handle(h, c) = Decision(TypeMapping(h, Mro[c][i]), c)
  BY <1>2, FirstMapped
<1>4. i = 1
  BY <1>1, <1>2, <1>3 DEF Mapped
<1>5. IsA(c, "Exception")
  BY DEF ErrorsAreExceptions
<1> QED BY <1>1, <1>3, <1>4, <1>5 DEF Decision

LEMMA RetriedStep ==
  ASSUME ErrorsAreExceptions, TypeOK, CancelInv, RetriedUntilStopped, [Next]_vars
  PROVE  RetriedUntilStopped'
<1> DEFINE AllRetried(s) == \A c \in Errors : TypeMapping(handler[s], c) = "retry"
           Failed(s) == task[s] \in {"raised", "exited"}
           Stopping == \E k \in Stops : stop[k] # "idle"
<1>0. handler' = handler /\ \A k \in Stops : stop'[k] = "idle" => stop[k] = "idle"
  BY DEF Next, vars, StopStep, Start, Schedule, Started, Finish, Fails, Cancelled, Execute, CallStop,
         StopExecutors, StopMainEnds, StopEnds, ShutDown, ShutDownEnds, Close, LoopStops, TypeOK
<1>1. Stopping => Stopping'
  BY <1>0
<1> SUFFICES ASSUME NEW s \in Services, AllRetried(s), Failed(s)' PROVE Stopping'
  BY <1>0 DEF RetriedUntilStopped
<1>2. Failed(s) => Stopping
  BY DEF RetriedUntilStopped
<1>a. ASSUME task'[s] = task[s] \/ task'[s] \notin {"raised", "exited"} PROVE Stopping'
  BY <1>1, <1>2, <1>a
<1>3. CASE Start \/ Schedule \/ Started \/ UNCHANGED vars
  BY <1>3, <1>a DEF Start, Schedule, Started, vars
<1>4. ASSUME NEW u \in Services, Finish(u) PROVE Stopping'
  BY <1>4, <1>a DEF Finish, TypeOK
<1>5. ASSUME NEW u \in Services, Fails(u) PROVE Stopping'
  <2>1. PICK c \in Errors : Execute(u, c)
    BY <1>5 DEF Fails
  <2>2. CASE u # s
    <3>1. task'[s] = task[s]
      BY <2>1, <2>2 DEF Execute, TypeOK
    <3> QED BY <1>a, <3>1
  <2>3. CASE u = s
    <3>1. Handle(handler[s], c) = "retry"
      BY RetryDecides
    <3>2. task'[s] = "running"
      BY <2>1, <2>3, <3>1 DEF Execute, TypeOK
    <3> QED BY <1>a, <3>2
  <2> QED BY <2>2, <2>3
<1>6. ASSUME NEW u \in Services, Cancelled(u) PROVE Stopping'
  BY <1>1, <1>6 DEF Cancelled, CancelInv
<1>7. ASSUME NEW k \in Stops, CallStop(k) \/ StopMainEnds(k) \/ StopEnds(k) PROVE Stopping'
  BY <1>7, <1>a DEF CallStop, StopMainEnds, StopEnds
<1>8. ASSUME NEW k \in Stops, NEW e \in Executors, StopExecutors(k) \/ ShutDown(k, e)
      PROVE  Stopping'
  BY <1>8, <1>a, ExecutorFacts DEF StopExecutors, ShutDown, CancelAll
<1>9. ASSUME NEW k \in Stops, NEW e \in Executors, ShutDownEnds(k, e) \/ Close(k, e) \/ LoopStops(e)
      PROVE  Stopping'
  BY <1>9, <1>a DEF ShutDownEnds, Close, LoopStops
<1> QED BY <1>3, <1>4, <1>5, <1>6, <1>7, <1>8, <1>9, ExecutorFacts DEF Next, StopStep, Stops

\* A service all of whose errors are to be retried fails only when it is
\* stopped, whatever its handler maps more general exceptions to.
THEOREM RetriedWhileRunning ==
  ASSUME ErrorsAreExceptions
  PROVE  Spec => []RetriedUntilStopped
<1>1. Init => RetriedUntilStopped
  BY DEF Init, RetriedUntilStopped
<1>2. IInv /\ RetriedUntilStopped /\ [Next]_vars => RetriedUntilStopped'
  BY RetriedStep DEF IInv
<1> QED BY Invariant, <1>1, <1>2, PTL DEF Spec
=============================================================================
