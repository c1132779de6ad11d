-------------------------- MODULE InMemoryLockManager --------------------------
(***************************************************************************)
(* InMemoryLockManager, for one lock name (names do not interact).  The    *)
(* manager keeps a dictionary from names to asyncio locks: a task that     *)
(* finds no entry creates one, and a task that leaves its context removes  *)
(* the entry.  Tasks call the manager again and again.                     *)
(***************************************************************************)
EXTENDS Naturals

CONSTANTS
  Tasks,      \* the tasks that use the lock
  Usages,     \* the sets of operations a program may use: try_lock, wait_for_lock
  Controls,   \* identities of asyncio.Lock objects
  None        \* no task, no object

ASSUME UsagesAssumption == Usages \subseteq SUBSET {"try", "wait"}
ASSUME NoneAssumption == None \notin Tasks \cup Controls

VARIABLES
  modes,      \* the operations this program uses: "try", "wait" or both
  entry,      \* the lock object in _locks under the name, or None
  control,    \* the lock object each task uses
  holder,     \* the task that has acquired each lock object, or None
  mode,       \* the operation each task has called
  pc          \* where each task is

vars == <<modes, entry, control, holder, mode, pc>>

Init ==
  /\ modes \in Usages
  /\ entry = None
  /\ control = [t \in Tasks |-> None]
  /\ holder = [o \in Controls |-> None]
  /\ mode \in [Tasks -> modes]
  /\ pc = [t \in Tasks |-> "idle"]

Waiting(o) == {t \in Tasks : pc[t] = "waiting" /\ control[t] = o}

\* defaultdict(asyncio.Lock): the entry, or a lock nobody refers to.
Lookup(o) ==
  \/ o = entry
  \/ entry = None /\ \A t \in Tasks : control[t] # o

\* try_lock finds the lock locked and yields without it.
Refuse(t) ==
  /\ pc[t] = "idle" /\ mode[t] = "try"
  /\ \E o \in Controls :
       /\ Lookup(o)
       /\ holder[o] # None
  /\ pc' = [pc EXCEPT ![t] = "refused"]
  /\ UNCHANGED <<entry, control, holder, mode>>

\* acquire on a lock that is free and has no waiters returns at once ...
AcquireFree(t) ==
  /\ pc[t] = "idle"
  /\ \E o \in Controls :
       /\ Lookup(o)
       /\ holder[o] = None /\ Waiting(o) = {}
       /\ entry' = o
       /\ control' = [control EXCEPT ![t] = o]
       /\ holder' = [holder EXCEPT ![o] = t]
  /\ pc' = [pc EXCEPT ![t] = "locked"]
  /\ UNCHANGED mode

\* ... and waits otherwise.
StartWaiting(t) ==
  /\ pc[t] = "idle"
  /\ \E o \in Controls :
       /\ Lookup(o)
       /\ ~(holder[o] = None /\ Waiting(o) = {})
       /\ mode[t] = "try" => holder[o] = None
       /\ control' = [control EXCEPT ![t] = o]
  /\ pc' = [pc EXCEPT ![t] = "waiting"]
  /\ UNCHANGED <<entry, holder, mode>>

\* A released lock goes to one of its waiters.
Grant(t) ==
  /\ pc[t] = "waiting"
  /\ holder[control[t]] = None
  /\ holder' = [holder EXCEPT ![control[t]] = t]
  /\ pc' = [pc EXCEPT ![t] = "locked"]
  /\ UNCHANGED <<entry, control, mode>>

\* wait_for gives up; the context is entered with timed_out set.
TimeOut(t) ==
  /\ pc[t] = "waiting" /\ mode[t] = "wait"
  /\ pc' = [pc EXCEPT ![t] = "timedout"]
  /\ UNCHANGED <<entry, control, holder, mode>>

\* Slip: the lock is neither released nor removed.
LeaveWithoutRelease(t) ==
  /\ pc[t] \in {"locked", "timedout"}
  /\ control' = [control EXCEPT ![t] = None]
  /\ pc' = [pc EXCEPT ![t] = "idle"]
  /\ mode' \in {[mode EXCEPT ![t] = m] : m \in modes}
  /\ UNCHANGED <<entry, holder>>

\* Leaving the context: the lock is released if it was acquired, and the
\* dictionary entry is removed, whichever lock it refers to by now.
Leave(t) ==
  /\ pc[t] \in {"locked", "timedout"}
  /\ holder' = IF pc[t] = "locked" THEN [holder EXCEPT ![control[t]] = None] ELSE holder
  /\ entry' = None
  /\ control' = [control EXCEPT ![t] = None]
  /\ pc' = [pc EXCEPT ![t] = "idle"]
  /\ mode' \in {[mode EXCEPT ![t] = m] : m \in modes}

\* Slip: the clean up of an acquired lock also runs when it was refused.
LeaveRefusedRemoving(t) ==
  /\ pc[t] = "refused"
  /\ pc' = [pc EXCEPT ![t] = "idle"]
  /\ mode' \in {[mode EXCEPT ![t] = m] : m \in modes}
  /\ entry' = None
  /\ UNCHANGED <<control, holder>>

\* A refused try_lock returns without touching the dictionary.
LeaveRefused(t) ==
  /\ pc[t] = "refused"
  /\ pc' = [pc EXCEPT ![t] = "idle"]
  /\ mode' \in {[mode EXCEPT ![t] = m] : m \in modes}
  /\ UNCHANGED <<entry, control, holder>>

Next ==
  /\ \E t \in Tasks :
       \/ Refuse(t) \/ AcquireFree(t) \/ StartWaiting(t) \/ Grant(t)
       \/ TimeOut(t) \/ Leave(t) \/ LeaveRefused(t)
  /\ UNCHANGED modes

Spec == Init /\ [][Next]_vars

-----------------------------------------------------------------------------
TypeOK ==
  /\ entry \in Controls \cup {None}
  /\ control \in [Tasks -> Controls \cup {None}]
  /\ holder \in [Controls -> Tasks \cup {None}]
  /\ modes \in Usages
  /\ mode \in [Tasks -> modes]
  /\ pc \in [Tasks -> {"idle", "waiting", "locked", "refused", "timedout"}]

\* Exclusive access: two tasks are never told at once that they have the lock.
ExclusiveAccess ==
  \A t, u \in Tasks : pc[t] = "locked" /\ pc[u] = "locked" => t = u

\* The lock of a program that only tries, as the coordinators do, excludes: a
\* refused task leaves the entry of the task that has the lock alone.
TryLockExcludes == modes = {"try"} => ExclusiveAccess

\* try_lock says no only while some task has the lock: no entry of the
\* dictionary outlives its holder, or nobody could ever be leader again.
RefusedOnlyIfHeld ==
  [][\A t \in Tasks :
       pc[t] = "idle" /\ pc'[t] = "refused" => \E u \in Tasks : pc[u] = "locked"]_vars
=============================================================================
