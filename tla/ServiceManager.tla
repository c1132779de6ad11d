---------------------------- MODULE ServiceManager ----------------------------
(***************************************************************************)
(* The service manager: it starts services on the main thread, on a shared *)
(* thread or on threads of their own, each thread with its event loop, and *)
(* stops them when the caller leaves its context or a signal arrives.      *)
(* Services handle their errors by the decisions of an error handler.      *)
(*                                                                         *)
(* Event loops are external.  A callback that raises SystemExit ends the   *)
(* loop it runs in: the tasks of that loop stay where they are, and so     *)
(* does what is submitted to it later; if it is the main loop the program  *)
(* is left.  The code of a service does not swallow its cancellation.      *)
(***************************************************************************)
EXTENDS Naturals, Sequences, FiniteSets

CONSTANTS
  Services,        \* the registered services, in order: 1 .. N
  Isolation,       \* the isolation mode of each
  Foreground,      \* the services with foreground execution
  HandlerChoices,  \* the error handlers the services may have
  Errors,          \* the classes of errors a service may raise
  Mro              \* the classes of an exception, from its own upwards

ASSUME ServicesAssumption == Services = 1 .. Cardinality(Services)
ASSUME IsolationAssumption ==
  Isolation \in [Services -> {"main_thread", "shared_thread", "dedicated_thread"}]
ASSUME ForegroundAssumption == Foreground \subseteq Services

Decisions == {"raise", "continue", "exit", "retry"}

ASSUME HandlersAssumption ==
  \A h \in HandlerChoices :
    DOMAIN h = Services /\ \A s \in Services : h[s].default \in Decisions
ASSUME MroAssumption ==
  \A c \in Errors \cup {"CancelledError"} :
    Mro[c] \in Seq(STRING) /\ Mro[c] # <<>> /\ Mro[c][1] = c

Stops == {"caller", "signal"}    \* the calls of stop

Main == <<"main">>

Shared == <<"shared">>

Executor(s) ==
  CASE Isolation[s] = "main_thread"      -> Main
    [] Isolation[s] = "shared_thread"    -> Shared
    [] Isolation[s] = "dedicated_thread" -> <<"dedicated", s>>

VARIABLES
  phase,     \* of start: new, starting, waiting, started or failed
  handler,   \* the error handler of each service
  loop,      \* the state of each executor's event loop
  task,      \* the state of each service's task
  stop,      \* the state of each call of stop
  part,      \* its progress on each executor
  awaited,   \* the tasks it waits for on each executor
  before     \* the services that were scheduled when it was called

vars == <<phase, handler, loop, task, stop, part, awaited, before>>

Executors == {Main, Shared} \cup {Executor(s) : s \in Services}

On(e) == {s \in Services : Executor(s) = e}

Ended == {"returned", "raised", "exited"}

Init ==
  /\ phase = "new"
  /\ handler \in HandlerChoices
  /\ loop = [e \in Executors |-> IF e = Main THEN "running" ELSE "new"]
  /\ task = [s \in Services |-> "none"]
  /\ stop = [k \in Stops |-> "idle"]
  /\ part = [k \in Stops |-> [e \in Executors |-> "none"]]
  /\ awaited = [k \in Stops |-> [e \in Executors |-> {}]]
  /\ before = [k \in Stops |-> {}]

-----------------------------------------------------------------------------
(***************************************************************************)
(* Error handlers.                                                         *)
(***************************************************************************)
IsA(c, class) == \E i \in DOMAIN Mro[c] : Mro[c][i] = class

\* The decision a mapping names for a class: the later ones win.
TypeMapping(h, class) ==
  IF class \in h.retry THEN "retry"
  ELSE IF class \in h.continue THEN "continue"
  ELSE IF class \in h.raise THEN "raise"
  ELSE IF class \in h.exit THEN "exit"
  ELSE "unmapped"

\* Slip: every exception is continued or retried.
DecisionForAll(kind, c) == kind

\* Only an Exception is continued or retried: a cancellation is raised.
Decision(kind, c) ==
  IF kind \in {"continue", "retry"} /\ ~IsA(c, "Exception") THEN "raise" ELSE kind

\* Slip: the most general class that is mapped decides.
HandleGeneral(h, c) ==
  LET mapped == {i \in DOMAIN Mro[c] : TypeMapping(h, Mro[c][i]) # "unmapped"}
  IN  IF mapped = {} THEN Decision(h.default, c)
      ELSE Decision(TypeMapping(h, Mro[c][CHOOSE i \in mapped : \A j \in mapped : j <= i]), c)

\* The first class of the exception that is mapped decides.
Handle(h, c) ==
  LET mapped == {i \in DOMAIN Mro[c] : TypeMapping(h, Mro[c][i]) # "unmapped"}
  IN  IF mapped = {} THEN Decision(h.default, c)
      ELSE Decision(TypeMapping(h, Mro[c][CHOOSE i \in mapped : \A j \in mapped : i <= j]), c)

\* ErrorHandlingServiceMixin.execute, when _do_execute raises an exception.
Execute(s, c) ==
  LET decision == Handle(handler[s], c) IN
  /\ task' = [task EXCEPT ![s] =
       CASE decision = "raise"    -> "raised"
         [] decision = "continue" -> "returned"
         [] decision = "exit"     -> "exited"
         [] decision = "retry"    -> "running"]
  /\ loop' = [loop EXCEPT ![Executor(s)] = IF decision = "exit" THEN "dead" ELSE @]
  /\ UNCHANGED <<phase, handler, stop, part, awaited, before>>

Runs(s) == loop[Executor(s)] = "running"

Finish(s) ==
  /\ Runs(s) /\ task[s] = "running"
  /\ task' = [task EXCEPT ![s] = "returned"]
  /\ UNCHANGED <<phase, handler, loop, stop, part, awaited, before>>

Fails(s) == Runs(s) /\ task[s] = "running" /\ \E c \in Errors : Execute(s, c)

Cancelled(s) == Runs(s) /\ task[s] = "cancelling" /\ Execute(s, "CancelledError")

-----------------------------------------------------------------------------
MainRuns == loop[Main] = "running"

\* Signal handlers are added and the executors that exist are started.
Start ==
  /\ phase = "new"
  /\ phase' = "starting"
  /\ loop' = [loop EXCEPT ![Shared] = "running"]
  /\ UNCHANGED <<handler, task, stop, part, awaited, before>>

\* Nothing is submitted to a loop that is closed: start raises at the first
\* service of the shared thread.
Scheduled ==
  {s \in Services :
     loop[Shared] = "closed" => \A u \in 1 .. s : Isolation[u] # "shared_thread"}

\* The services are scheduled, without anything in between; a dedicated executor
\* is made and started on the way.
Schedule ==
  /\ phase = "starting" /\ MainRuns
  /\ phase' = IF Scheduled = Services THEN "waiting" ELSE "failed"
  /\ task' = [s \in Services |-> IF s \in Scheduled THEN "running" ELSE "none"]
  /\ loop' = [e \in Executors |->
                IF \E s \in Scheduled : Isolation[s] = "dedicated_thread" /\ Executor(s) = e
                THEN "running" ELSE loop[e]]
  /\ UNCHANGED <<handler, stop, part, awaited, before>>

\* The result of a task reaches the main thread, unless its loop ended with it.
FutureDone(s) == task[s] \in {"returned", "raised"}

\* The foreground services have ended, in whatever way.
Started ==
  /\ phase = "waiting" /\ MainRuns
  /\ \A s \in Foreground : FutureDone(s)
  /\ phase' = "started"
  /\ UNCHANGED <<handler, loop, task, stop, part, awaited, before>>

-----------------------------------------------------------------------------
\* Slip: a dedicated executor is not added to _all_executors.
AllExecutorsInitial == {Main, Shared}

AllExecutors == {e \in Executors : e \in {Main, Shared} \/ loop[e] # "new"}

\* stop is called when the context is left, and by the handler of a signal.
CallStop(k) ==
  /\ MainRuns /\ stop[k] = "idle"
  /\ IF k = "signal" THEN phase # "new" ELSE phase = "started"
  /\ stop' = [stop EXCEPT ![k] = "running"]
  /\ part' = [part EXCEPT ![k] = [e \in Executors |-> IF e \in AllExecutors THEN "called" ELSE "done"]]
  /\ before' = [before EXCEPT ![k] = {s \in Services : task[s] # "none"}]
  /\ UNCHANGED <<phase, handler, loop, task, awaited>>

Unfinished(e) == {s \in On(e) : task[s] \in {"running", "cancelling"}}

CancelAll(k, e) ==
  /\ task' = [s \in Services |-> IF s \in Unfinished(e) THEN "cancelling" ELSE task[s]]
  /\ awaited' = [awaited EXCEPT ![k][e] = Unfinished(e)]

\* The executors' stop methods run up to their first await, one after the other:
\* the main one cancels its tasks, the others submit _shutdown_services to the
\* loops of their threads; a closed loop refuses it.
StopExecutors(k) ==
  /\ MainRuns /\ stop[k] = "running" /\ part[k][Main] = "called"
  /\ part' = [part EXCEPT ![k] = [e \in Executors |->
       IF part[k][e] = "done" THEN "done"
       ELSE IF e = Main THEN "shutting"
       ELSE IF loop[e] = "closed" THEN "failed" ELSE "submitted"]]
  /\ CancelAll(k, Main)
  /\ UNCHANGED <<phase, handler, loop, stop, before>>

AwaitedEnded(k, e) == \A s \in awaited[k][e] : task[s] \in Ended

StopMainEnds(k) ==
  /\ MainRuns /\ part[k][Main] = "shutting"
  /\ AwaitedEnded(k, Main)
  /\ part' = [part EXCEPT ![k][Main] = "done"]
  /\ awaited' = [awaited EXCEPT ![k][Main] = {}]
  /\ UNCHANGED <<phase, handler, loop, task, stop, before>>

\* In the thread: all tasks of the loop are cancelled, the _shutdown_services of
\* another stop included.
ShutDown(k, e) ==
  /\ loop[e] = "running" /\ part[k][e] = "submitted"
  /\ part' = [j \in Stops |-> [part[j] EXCEPT ![e] =
                IF j = k THEN "shutting" ELSE IF @ = "shutting" THEN "failed" ELSE @]]
  /\ CancelAll(k, e)
  /\ UNCHANGED <<phase, handler, loop, stop, before>>

\* They have ended: the loop is told to stop.
ShutDownEnds(k, e) ==
  /\ loop[e] = "running" /\ part[k][e] = "shutting"
  /\ AwaitedEnded(k, e)
  /\ part' = [part EXCEPT ![k][e] = "stopping"]
  /\ awaited' = [awaited EXCEPT ![k][e] = {}]
  /\ UNCHANGED <<phase, handler, loop, task, stop, before>>

LoopStops(e) ==
  /\ loop[e] = "running"
  /\ \E k \in Stops : part[k][e] = "stopping"
  /\ loop' = [loop EXCEPT ![e] = "stopped"]
  /\ UNCHANGED <<phase, handler, task, stop, part, awaited, before>>

\* The main thread sees that the loop runs no longer, closes it and joins.  If
\* another stop has closed it before this one tells it to stop, that raises.
Close(k, e) ==
  /\ MainRuns /\ part[k][e] = "stopping" /\ loop[e] # "running"
  /\ loop' = [loop EXCEPT ![e] = "closed"]
  /\ \/ part' = [part EXCEPT ![k][e] = "done"]
     \/ loop[e] = "closed" /\ part' = [part EXCEPT ![k][e] = "failed"]
  /\ UNCHANGED <<phase, handler, task, stop, awaited, before>>

\* gather: the first exception ends it.
StopEnds(k) ==
  /\ MainRuns /\ stop[k] = "running"
  /\ \/ /\ \A e \in Executors : part[k][e] = "done"
        /\ stop' = [stop EXCEPT ![k] = "returned"]
     \/ /\ \E e \in Executors : part[k][e] = "failed"
        /\ stop' = [stop EXCEPT ![k] = "raised"]
  /\ UNCHANGED <<phase, handler, loop, task, part, awaited, before>>

StopStep(k) ==
  \/ StopExecutors(k) \/ StopMainEnds(k) \/ StopEnds(k)
  \/ \E e \in Executors \ {Main} :
       ShutDown(k, e) \/ ShutDownEnds(k, e) \/ Close(k, e)

Next ==
  \/ Start \/ Schedule \/ Started
  \/ \E s \in Services : Finish(s) \/ Fails(s) \/ Cancelled(s)
  \/ \E k \in Stops : CallStop(k) \/ StopStep(k)
  \/ \E e \in Executors : LoopStops(e)

\* Event loops run what is ready.  Nothing makes a service end by itself.
Fairness ==
  /\ WF_vars(Schedule)
  /\ \A s \in Services : WF_vars(Cancelled(s))
  /\ \A k \in Stops : WF_vars(StopStep(k))
  /\ \A e \in Executors : WF_vars(LoopStops(e))

Spec == Init /\ [][Next]_vars /\ Fairness

-----------------------------------------------------------------------------
TypeOK ==
  /\ phase \in {"new", "starting", "waiting", "started", "failed"}
  /\ handler \in HandlerChoices
  /\ loop \in [Executors -> {"new", "running", "stopped", "dead", "closed"}]
  /\ task \in [Services -> Ended \cup {"none", "running", "cancelling"}]
  /\ stop \in [Stops -> {"idle", "running", "returned", "raised"}]
  /\ part \in [Stops -> [Executors ->
       {"none", "called", "submitted", "shutting", "stopping", "done", "failed"}]]
  /\ awaited \in [Stops -> [Executors -> SUBSET Services]]
  /\ before \in [Stops -> SUBSET Services]

Active(s) == task[s] \in {"running", "cancelling"} /\ Runs(s)

\* When stop has returned, no service that had been scheduled before it was
\* called runs on, on whatever thread.
NoServiceOutlivesStop ==
  \A k \in Stops : stop[k] = "returned" => \A s \in before[k] : ~Active(s)

\* Even if a second stop cancels the first one, or comes too late, every such
\* service is ended, or dead with its loop, as long as the main loop lives.
ServicesEnd ==
  \A k \in Stops : stop[k] = "running" ~> (~MainRuns \/ \A s \in before[k] : ~Active(s))

MayExit(s) == \E c \in Errors \cup {"CancelledError"} : Handle(handler[s], c) = "exit"

\* A stop that is the only one returns, when the handler of no service decides
\* to exit, also not on its cancellation.
StopReturns ==
  \A k \in Stops :
    (stop[k] = "running" /\ \A s \in Services : ~MayExit(s))
      ~> (stop[k] = "returned" \/ \A j \in Stops : stop[j] # "idle")

\* A service all of whose errors are to be retried ends with an error only
\* when it is stopped, whatever is to be done with more general exceptions.
RetriedUntilStopped ==
  \A s \in Services :
    /\ \A c \in Errors : TypeMapping(handler[s], c) = "retry"
    /\ task[s] \in {"raised", "exited"}
    => \E k \in Stops : stop[k] # "idle"
=============================================================================
