------------------------- MODULE PostgresEventStorage -------------------------
(***************************************************************************)
(* The save operation of PostgresEventStorageAdapter.  Each writer is one  *)
(* database session that runs one transaction: it takes advisory locks,    *)
(* reads the last event of each stream it publishes to, enforces the write *)
(* conditions, inserts its events in one statement and commits.            *)
(*                                                                         *)
(* The database is external: a transaction is READ COMMITTED, so that each *)
(* statement sees what is committed when it begins; the rows of an insert  *)
(* take their sequence numbers one by one, beside the inserts of other     *)
(* sessions; numbers taken are not given back; advisory locks end with the *)
(* transaction, however it ends.                                           *)
(***************************************************************************)
EXTENDS EventStoreTypes, FiniteSets

CONSTANTS
  None,          \* no session
  FailPoints     \* the control points at which a session may be lost

ASSUME NoneAssumption == None \notin Writers

\* A request also says whether it is a publish to a stream or to a category.
ASSUME LevelAssumption ==
  \A r \in Requests :
    r.level = "category" \/ (r.level = "stream" /\ \E s \in Streams : DOMAIN r.streams = {s})

VARIABLES
  table,      \* the committed rows of the events table
  sequence,   \* the next value of the sequence of sequence_number
  holder,     \* the session that holds each advisory lock, or None
  pc,         \* where each session is in save
  request,    \* what each session publishes
  required,   \* the locks each session has still to take
  latest,     \* the position of the last event of each stream, as read
  inserted    \* the uncommitted rows of each session

vars == <<table, sequence, holder, pc, request, required, latest, inserted>>

Ended == {"saved", "rejected", "failed"}

InTransaction == {"locking", "reading", "enforcing", "inserting", "committing"}

NothingRead == [s \in Streams |-> NoPosition]

Init ==
  /\ table = {}
  /\ sequence = 1
  /\ holder = [l \in LockNames |-> None]
  /\ pc = [w \in Writers |-> "idle"]
  /\ request \in [Writers -> Requests]
  /\ required = [w \in Writers |-> {}]
  /\ latest = [w \in Writers |-> NothingRead]
  /\ inserted = [w \in Writers |-> {}]

Rows(T, id) == {e \in T : InStream(e, id)}

\* read_last: the row with the greatest sequence number.
read_last(id) ==
  IF Rows(table, id) = {} THEN NoPosition
  ELSE (CHOOSE e \in Rows(table, id) :
          \A f \in Rows(table, id) : f.sequence_number <= e.sequence_number).position

\* read_last_category_batch: of each stream the row with the greatest position.
read_last_category_batch(id) ==
  IF Rows(table, id) = {} THEN NoPosition
  ELSE LastIndex({e.position : e \in Rows(table, id)})

\* The end of a transaction: its advisory locks are released.
Release(w) == [l \in LockNames |-> IF holder[l] = w THEN None ELSE holder[l]]

\* An exception leaves the connection's block: the transaction is rolled back.
Rollback(w, outcome) ==
  /\ holder' = Release(w)
  /\ inserted' = [inserted EXCEPT ![w] = {}]
  /\ latest' = [latest EXCEPT ![w] = NothingRead]
  /\ pc' = [pc EXCEPT ![w] = outcome]
  /\ required' = [required EXCEPT ![w] = {}]
  /\ UNCHANGED <<table, sequence, request>>

-----------------------------------------------------------------------------
Save(w) ==
  /\ pc[w] = "idle"
  /\ pc' = [pc EXCEPT ![w] = "locking"]
  /\ required' = [required EXCEPT ![w] = RequiredLocks(request[w])]
  /\ UNCHANGED <<table, sequence, holder, request, latest, inserted>>

\* Slip: the locks are named in the order of the request's streams.
NextToLockUnsorted(w, s) ==
  /\ s \in DOMAIN request[w].streams
  /\ lock_name(Target(request[w], s)) \in required[w]

\* The locks are named in the order of the sorted stream names.
NextToLock(w, s) ==
  /\ s \in DOMAIN request[w].streams
  /\ lock_name(Target(request[w], s)) \in required[w]
  /\ \A u \in DOMAIN request[w].streams :
       lock_name(Target(request[w], u)) \in required[w] => s <= u

\* Slip: pg_try_advisory_xact_lock, whose answer is not looked at.
ObtainWriteLocksTrying(w) ==
  /\ pc[w] = "locking"
  /\ \E s \in Streams :
       LET l == lock_name(Target(request[w], s)) IN
         /\ NextToLock(w, s)
         /\ holder' = [holder EXCEPT ![l] = IF @ = None THEN w ELSE @]
         /\ required' = [required EXCEPT ![w] = @ \ {l}]
         /\ pc' = [pc EXCEPT ![w] = IF required[w] = {l} THEN "reading" ELSE "locking"]
  /\ UNCHANGED <<table, sequence, request, latest, inserted>>

\* obtain_write_locks: one statement that takes the locks one after the other.
ObtainWriteLocks(w) ==
  /\ pc[w] = "locking"
  /\ \E s \in Streams :
       LET l == lock_name(Target(request[w], s)) IN
         /\ NextToLock(w, s)
         /\ holder[l] = None
         /\ holder' = [holder EXCEPT ![l] = w]
         /\ required' = [required EXCEPT ![w] = @ \ {l}]
         /\ pc' = [pc EXCEPT ![w] = IF required[w] = {l} THEN "reading" ELSE "locking"]
  /\ UNCHANGED <<table, sequence, request, latest, inserted>>

\* Slip: the number of rows of the stream, taken for its last position.
ReadLastCounting(w) ==
  /\ pc[w] = "reading"
  /\ latest' = [latest EXCEPT ![w] = [s \in Streams |->
                  IF s \notin DOMAIN request[w].streams THEN NoPosition
                  ELSE Cardinality(Rows(table, Target(request[w], s)))]]
  /\ pc' = [pc EXCEPT ![w] = "enforcing"]
  /\ UNCHANGED <<table, sequence, holder, request, required, inserted>>

\* A statement of its own, begun with all locks held: a stream publish reads
\* the last event of its stream, a category publish those of all its streams.
ReadLast(w) ==
  /\ pc[w] = "reading"
  /\ latest' = [latest EXCEPT ![w] = [s \in Streams |->
                  IF s \notin DOMAIN request[w].streams THEN NoPosition
                  ELSE IF request[w].level = "stream" THEN read_last(Target(request[w], s))
                  ELSE read_last_category_batch(Target(request[w], s))]]
  /\ pc' = [pc EXCEPT ![w] = "enforcing"]
  /\ UNCHANGED <<table, sequence, holder, request, required, inserted>>

Accepted(w, s) == Satisfied(request[w].streams[s].condition, latest[w][s])

\* Slip: one condition that holds is enough.
ConditionsSomeMet(w) == \E s \in DOMAIN request[w].streams : Accepted(w, s)

ConditionsMet(w) == \A s \in DOMAIN request[w].streams : Accepted(w, s)

\* assert_satisfied for each stream; the first unmet condition raises.
Enforce(w) ==
  /\ pc[w] = "enforcing"
  /\ ConditionsMet(w)
  /\ pc' = [pc EXCEPT ![w] = "inserting"]
  /\ UNCHANGED <<table, sequence, holder, request, required, latest, inserted>>

ConditionUnmet(w) ==
  /\ pc[w] = "enforcing"
  /\ ~ConditionsMet(w)
  /\ Rollback(w, "rejected")

InsertedInto(w, s) == Cardinality(Rows(inserted[w], Target(request[w], s)))

NewRow(w, s) ==
  [category |-> request[w].category, stream |-> s,
   position |-> latest[w][s] + 1 + InsertedInto(w, s),
   sequence_number |-> sequence, payload |-> w]

\* insert_batch: the next row of the one insert statement.  The streams come in
\* any order, each with all its events.
InsertRow(w) ==
  /\ pc[w] = "inserting"
  /\ \E s \in DOMAIN request[w].streams :
       LET wanted(u) == request[w].streams[u].events
           done      == InsertedInto(w, s)
       IN  /\ done < wanted(s)
           /\ \A u \in DOMAIN request[w].streams \ {s} : InsertedInto(w, u) \in {0, wanted(u)}
           /\ inserted' = [inserted EXCEPT ![w] = @ \cup {NewRow(w, s)}]
           /\ pc' = [pc EXCEPT ![w] =
                IF /\ done + 1 = wanted(s)
                   /\ \A u \in DOMAIN request[w].streams \ {s} : InsertedInto(w, u) = wanted(u)
                THEN "committing" ELSE "inserting"]
  /\ sequence' = sequence + 1
  /\ UNCHANGED <<table, holder, request, required, latest>>

\* A request without any event makes an insert without rows, a syntax error.
InsertFails(w) ==
  /\ pc[w] = "inserting"
  /\ \A s \in DOMAIN request[w].streams : request[w].streams[s].events = 0
  /\ Rollback(w, "failed")

\* The connection's block is left, which commits the transaction.
CommitWith(w, outcome) ==
  /\ pc[w] = "committing"
  /\ table' = table \cup inserted[w]
  /\ holder' = Release(w)
  /\ inserted' = [inserted EXCEPT ![w] = {}]
  /\ latest' = [latest EXCEPT ![w] = NothingRead]
  /\ pc' = [pc EXCEPT ![w] = outcome]
  /\ UNCHANGED <<sequence, request, required>>

Commit(w) == CommitWith(w, "saved")

\* The commit takes effect, but its answer is lost with the connection or the
\* task is cancelled while it waits for it: save raises.
CommitUnanswered(w) ==
  /\ "committing" \in FailPoints
  /\ CommitWith(w, "failed")

\* The connection is lost or the task is cancelled before the commit takes
\* effect.
Fail(w) ==
  /\ pc[w] \in FailPoints \cap InTransaction
  /\ Rollback(w, "failed")

Step(w) ==
  \/ ObtainWriteLocks(w) \/ ReadLast(w) \/ Enforce(w) \/ ConditionUnmet(w)
  \/ InsertRow(w) \/ InsertFails(w) \/ Commit(w)

Next == \E w \in Writers : Save(w) \/ Step(w) \/ Fail(w) \/ CommitUnanswered(w)

Spec == Init /\ [][Next]_vars

-----------------------------------------------------------------------------
TypeOK ==
  /\ table \subseteq StoredEvent
  /\ sequence \in Nat
  /\ holder \in [LockNames -> Writers \cup {None}]
  /\ pc \in [Writers -> Ended \cup InTransaction \cup {"idle"}]
  /\ request \in [Writers -> Requests]
  /\ required \in [Writers -> SUBSET LockNames]
  /\ latest \in [Writers -> [Streams -> Position]]
  /\ inserted \in [Writers -> SUBSET StoredEvent]

\* The table has no constraint on the position of an event: that no position
\* of a stream is given twice and none is left out, in the order of the
\* sequence numbers, rests on the advisory locks alone.
StreamPositionsGapless ==
  \A e \in table :
    /\ \A f \in table :
         e # f /\ SameStream(e, f) =>
           (e.position < f.position <=> e.sequence_number < f.sequence_number)
    /\ \A p \in 0 .. e.position : \E f \in table : SameStream(e, f) /\ f.position = p

\* The events over which a guarantee orders: all of them, those of a category,
\* those of a stream.
SameScope(e, f) ==
  /\ Guarantee # "log" => e.category = f.category
  /\ Guarantee = "stream" => e.stream = f.stream

\* The serialisation guarantee: rows that become visible have greater sequence
\* numbers than all the rows of their scope that are visible already.
CommitsInOrder ==
  [][\A e \in table' \ table, f \in table :
       SameScope(e, f) => f.sequence_number < e.sequence_number]_vars

\* The rows readers can see, as the abstract store keeps them.
Visible ==
  { [category |-> e.category, stream |-> e.stream,
     position |-> e.position, payload |-> e.payload] : e \in table }

Outcome ==
  [w \in Writers |-> IF pc[w] \in InTransaction THEN "pending"
                     ELSE IF pc[w] = "failed" THEN "cancelled" ELSE pc[w]]

\* save is atomic, and its write conditions hold at the very step of the
\* commit, although they were enforced several statements before.
Atomic == INSTANCE AtomicEventStore WITH events <- Visible, outcome <- Outcome

AtomicSpec == Atomic!Spec
=============================================================================
