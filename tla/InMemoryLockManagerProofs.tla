---------------------- MODULE InMemoryLockManagerProofs ----------------------
(***************************************************************************)
(* Proofs about InMemoryLockManager for any number of tasks and of lock    *)
(* objects, and any mix of operations.                                     *)
(***************************************************************************)
EXTENDS InMemoryLockManager, TLAPS

-----------------------------------------------------------------------------
(***************************************************************************)
(* The inductive invariant.  Exclusion is not inductive: a task that finds *)
(* another lock object under the name than the one that is held would      *)
(* acquire it.  The invariant ties the entry of the dictionary to the      *)
(* object that is held.                                                    *)
(***************************************************************************)

\* Whoever holds a lock object is in its context, and the other way round.
HolderInv ==
  /\ \A o \in Controls :
       holder[o] # None => pc[holder[o]] = "locked" /\ control[holder[o]] = o
  /\ \A t \in Tasks :
       pc[t] = "locked" => control[t] \in Controls /\ holder[control[t]] = t

\* A task that waits does so on some lock object.
WaitingInv == \A t \in Tasks : pc[t] = "waiting" => control[t] \in Controls

\* Without wait_for_lock nobody ever waits, and the entry of the dictionary is
\* the lock object of the task that has the lock.
TryOnlyInv ==
  modes = {"try"} =>
    \A t \in Tasks :
      /\ pc[t] \notin {"waiting", "timedout"}
      /\ pc[t] = "locked" => entry = control[t]

IInv == TypeOK /\ HolderInv /\ WaitingInv /\ TryOnlyInv

-----------------------------------------------------------------------------
LEMMA InitHolds == ASSUME Init PROVE IInv
BY NoneAssumption DEF Init, IInv, TypeOK, HolderInv, WaitingInv, TryOnlyInv

LEMMA TypeStep == ASSUME IInv, [Next]_vars PROVE TypeOK'
<1> USE DEF IInv, TypeOK, WaitingInv
<1>1. ASSUME NEW t \in Tasks, Refuse(t), UNCHANGED modes PROVE TypeOK'
  BY <1>1 DEF Refuse
<1>2. ASSUME NEW t \in Tasks, AcquireFree(t), UNCHANGED modes PROVE TypeOK'
  BY <1>2 DEF AcquireFree
<1>3. ASSUME NEW t \in Tasks, StartWaiting(t), UNCHANGED modes PROVE TypeOK'
  BY <1>3 DEF StartWaiting
<1>4. ASSUME NEW t \in Tasks, Grant(t), UNCHANGED modes PROVE TypeOK'
  BY <1>4 DEF Grant
<1>5. ASSUME NEW t \in Tasks, TimeOut(t), UNCHANGED modes PROVE TypeOK'
  BY <1>5 DEF TimeOut
<1>6. ASSUME NEW t \in Tasks, Leave(t), UNCHANGED modes PROVE TypeOK'
  BY <1>6 DEF Leave
<1>7. ASSUME NEW t \in Tasks, LeaveRefused(t), UNCHANGED modes PROVE TypeOK'
  BY <1>7 DEF LeaveRefused
<1>8. CASE UNCHANGED vars
  BY <1>8 DEF vars
<1> QED BY <1>1, <1>2, <1>3, <1>4, <1>5, <1>6, <1>7, <1>8 DEF Next

LEMMA HolderStep == ASSUME IInv, [Next]_vars PROVE HolderInv' /\ WaitingInv'
<1> USE NoneAssumption DEF IInv, TypeOK, HolderInv, WaitingInv
<1>1. ASSUME NEW t \in Tasks, Refuse(t) PROVE HolderInv' /\ WaitingInv'
  BY <1>1 DEF Refuse
<1>2. ASSUME NEW t \in Tasks, AcquireFree(t) PROVE HolderInv' /\ WaitingInv'
  BY <1>2 DEF AcquireFree
<1>3. ASSUME NEW t \in Tasks, StartWaiting(t) PROVE HolderInv' /\ WaitingInv'
  BY <1>3 DEF StartWaiting
<1>4. ASSUME NEW t \in Tasks, Grant(t) PROVE HolderInv' /\ WaitingInv'
  BY <1>4 DEF Grant
<1>5. ASSUME NEW t \in Tasks, TimeOut(t) PROVE HolderInv' /\ WaitingInv'
  BY <1>5 DEF TimeOut
<1>6. ASSUME NEW t \in Tasks, Leave(t) PROVE HolderInv' /\ WaitingInv'
  BY <1>6 DEF Leave
<1>7. ASSUME NEW t \in Tasks, LeaveRefused(t) PROVE HolderInv' /\ WaitingInv'
  BY <1>7 DEF LeaveRefused
<1>8. CASE UNCHANGED vars
  BY <1>8 DEF vars
<1> QED BY <1>1, <1>2, <1>3, <1>4, <1>5, <1>6, <1>7, <1>8 DEF Next

\* When nobody waits and the entry is the lock of the task that has it, a free
\* lock object is found only when no task has the lock.
LEMMA FreeMeansUnlocked ==
  ASSUME IInv, modes = {"try"}, NEW o \in Controls, Lookup(o), holder[o] = None
  PROVE  \A t \in Tasks : pc[t] # "locked"
<1> SUFFICES ASSUME NEW t \in Tasks, pc[t] = "locked" PROVE FALSE
  OBVIOUS
<1>1. control[t] \in Controls /\ holder[control[t]] = t /\ entry = control[t]
  BY DEF IInv, HolderInv, TryOnlyInv
<1> QED BY <1>1, NoneAssumption DEF Lookup

LEMMA TryOnlyStep == ASSUME IInv, [Next]_vars PROVE TryOnlyInv'
<1> SUFFICES ASSUME modes' = {"try"}
             PROVE  \A t \in Tasks :
                      /\ pc'[t] \notin {"waiting", "timedout"}
                      /\ pc'[t] = "locked" => entry' = control'[t]
  BY DEF TryOnlyInv
<1> DEFINE Goal == \A t \in Tasks :
                     /\ pc'[t] \notin {"waiting", "timedout"}
                     /\ pc'[t] = "locked" => entry' = control'[t]
<1>0. modes = {"try"}
  BY DEF Next, vars
<1>a. /\ \A t \in Tasks : pc[t] \notin {"waiting", "timedout"}
      /\ \A t \in Tasks : pc[t] = "locked" => entry = control[t]
      /\ \A t \in Tasks : mode[t] = "try"
  BY <1>0 DEF IInv, TypeOK, TryOnlyInv
<1>1. ASSUME NEW t \in Tasks, Refuse(t) PROVE Goal
  BY <1>a, <1>1 DEF Refuse, IInv, TypeOK
<1>2. ASSUME NEW t \in Tasks, AcquireFree(t) PROVE Goal
  <2>1. \A u \in Tasks : pc[u] # "locked"
    BY <1>0, <1>2, FreeMeansUnlocked DEF AcquireFree
  <2> QED BY <1>a, <1>2, <2>1 DEF AcquireFree, IInv, TypeOK
<1>3. ASSUME NEW t \in Tasks, StartWaiting(t) PROVE FALSE
  BY <1>a, <1>3 DEF StartWaiting, Waiting
<1>4. ASSUME NEW t \in Tasks, Grant(t) PROVE FALSE
  BY <1>a, <1>4 DEF Grant
<1>5. ASSUME NEW t \in Tasks, TimeOut(t) PROVE FALSE
  BY <1>a, <1>5 DEF TimeOut
<1>6. ASSUME NEW t \in Tasks, Leave(t) PROVE Goal
  <2>1. \A u \in Tasks : pc[u] = "locked" => u = t
    BY <1>a, <1>6 DEF Leave, IInv, TypeOK, HolderInv
  <2> QED BY <1>a, <1>6, <2>1 DEF Leave, IInv, TypeOK
<1>7. ASSUME NEW t \in Tasks, LeaveRefused(t) PROVE Goal
  BY <1>a, <1>7 DEF LeaveRefused, IInv, TypeOK
<1>8. CASE UNCHANGED vars
  BY <1>a, <1>8 DEF vars
<1> QED BY <1>1, <1>2, <1>3, <1>4, <1>5, <1>6, <1>7, <1>8 DEF Next

-----------------------------------------------------------------------------
\* The inductive invariant holds in every reachable state of the lock manager.
THEOREM Invariant == Spec => []IInv
<1>1. IInv /\ [Next]_vars => IInv'
  BY TypeStep, HolderStep, TryOnlyStep DEF IInv
<1> QED BY InitHolds, <1>1, PTL DEF Spec

\* The type invariant, and with it that holders are tasks and entries are lock
\* objects, whatever the tasks do.
THEOREM TypeCorrect == Spec => []TypeOK
<1>1. IInv => TypeOK
  BY DEF IInv
<1> QED BY Invariant, <1>1, PTL

\* try_lock excludes: in a program that does not use wait_for_lock, as the
\* brokers do not, two tasks never have the lock at once, although every task
\* that leaves removes the entry of the dictionary.
THEOREM TryLockIsExclusive == Spec => []TryLockExcludes
<1>1. IInv => TryLockExcludes
  BY DEF IInv, HolderInv, TryOnlyInv, TryLockExcludes, ExclusiveAccess
<1> QED BY Invariant, <1>1, PTL

\* try_lock says no only while some task has the lock, also in programs that
\* mix try_lock and wait_for_lock and whose waits time out.
THEOREM RefusalIsHonest == Spec => RefusedOnlyIfHeld
<1> DEFINE Honest ==
      \A t \in Tasks :
        pc[t] = "idle" /\ pc'[t] = "refused" => \E u \in Tasks : pc[u] = "locked"
<1>1. IInv /\ [Next]_vars => [Honest]_vars
  <2> SUFFICES ASSUME IInv, Next PROVE Honest
    OBVIOUS
  <2> SUFFICES ASSUME NEW t \in Tasks, pc[t] = "idle", pc'[t] = "refused"
               PROVE  \E u \in Tasks : pc[u] = "locked"
    OBVIOUS
  <2>1. Refuse(t)
    BY DEF Next, IInv, TypeOK, Refuse, AcquireFree, StartWaiting, Grant, TimeOut,
           Leave, LeaveRefused
  <2> QED BY <2>1 DEF Refuse, IInv, TypeOK, HolderInv
<1> QED BY Invariant, <1>1, PTL DEF Spec, RefusedOnlyIfHeld
=============================================================================
