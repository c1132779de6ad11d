---------------------- MODULE PostgresEventStorageProofs ----------------------
(***************************************************************************)
(* Proofs about PostgresEventStorage for any number of sessions,           *)
(* categories and streams, any requests and conditions, each guarantee,    *)
(* and sessions that are lost at any of the points named; about            *)
(* EventStoreTransactions, for any decorators, numbers of tries and        *)
(* handlers; and about PostgresEventReader, the paged scan beside any      *)
(* number of writers, for any page size.                                   *)
(***************************************************************************)
EXTENDS PostgresEventReader, FiniteSetTheorems, SequenceTheorems, WellFoundedInduction, TLAPS

-----------------------------------------------------------------------------
(***************************************************************************)
(* The inductive invariant.  The properties speak of committed rows; a     *)
(* commit makes rows visible that were numbered several statements before. *)
(* The invariant says what a session has read and inserted, and that the   *)
(* advisory locks keep both valid until its transaction ends.              *)
(***************************************************************************)
Writing == {"inserting", "committing"}

HasRead == {"enforcing"} \cup Writing

\* The locks a session no longer asks for are its own until it ends.
LockInv ==
  \A w \in Writers :
    /\ pc[w] = "locking" =>
         /\ required[w] \subseteq RequiredLocks(request[w])
         /\ \A l \in RequiredLocks(request[w]) : l \notin required[w] => holder[l] = w
    /\ pc[w] \in {"reading"} \cup HasRead =>
         \A l \in RequiredLocks(request[w]) : holder[l] = w

\* Uncommitted rows belong to a session that inserts them, and to the streams
\* of its request.
RowsInv ==
  \A w \in Writers :
    /\ IsFiniteSet(inserted[w])
    /\ pc[w] \notin Writing => inserted[w] = {}
    /\ \A e \in inserted[w] :
         /\ e.category = request[w].category
         /\ e.stream \in DOMAIN request[w].streams
         /\ e.payload = w

\* Sequence numbers have been taken from the sequence.  A position never
\* exceeds them, so that the rows of a stream have a last one.
Numbered(e) == e.position < e.sequence_number /\ e.sequence_number < sequence

SequenceInv ==
  /\ sequence > 0
  /\ \A e \in table : Numbered(e)
  /\ \A w \in Writers : \A e \in inserted[w] : Numbered(e)

\* p is the position of the last committed row of a stream.
IsLastPosition(p, id) ==
  /\ \A e \in Rows(table, id) : e.position <= p
  /\ p # NoPosition => \E e \in Rows(table, id) : e.position = p

\* What a session has read stays true until it ends.
ReadInv ==
  \A w \in Writers :
    pc[w] \in HasRead =>
      \A s \in DOMAIN request[w].streams :
        IsLastPosition(latest[w][s], Target(request[w], s))

\* The rows a session has inserted into a stream continue it without gaps, in
\* the order of their sequence numbers.
Continues(w, s) ==
  LET own == Rows(inserted[w], Target(request[w], s))
      n   == InsertedInto(w, s)
  IN  /\ \A e \in own : e.position \in (latest[w][s] + 1) .. (latest[w][s] + n)
      /\ \A p \in (latest[w][s] + 1) .. (latest[w][s] + n) : \E e \in own : e.position = p
      /\ \A e, f \in own :
           e # f => (e.position < f.position <=> e.sequence_number < f.sequence_number)

PendingInv ==
  \A w \in Writers :
    pc[w] \in Writing => \A s \in DOMAIN request[w].streams : Continues(w, s)

\* They are numbered after all committed rows that share a lock with them.
PendingOrderInv ==
  \A w \in Writers : \A e \in inserted[w], f \in table :
    lock_name(e) = lock_name(f) => f.sequence_number < e.sequence_number

\* A session inserts what was asked for, all of it before it commits, and its
\* conditions were met.
RequestedInv ==
  \A w \in Writers :
    /\ pc[w] \in Writing => ConditionsMet(w)
    /\ pc[w] \in Writing => \A s \in DOMAIN request[w].streams :
         InsertedInto(w, s) <= request[w].streams[s].events
    /\ pc[w] = "committing" => \A s \in DOMAIN request[w].streams :
         InsertedInto(w, s) = request[w].streams[s].events

IInv ==
  /\ TypeOK
  /\ LockInv
  /\ RowsInv
  /\ SequenceInv
  /\ ReadInv
  /\ PendingInv
  /\ PendingOrderInv
  /\ RequestedInv
  /\ StreamPositionsGapless

-----------------------------------------------------------------------------
(***************************************************************************)
(* The last row of a stream.                                               *)
(***************************************************************************)

\* A bounded set of naturals has a greatest element, the one that LastIndex
\* chooses.
LEMMA GreatestElement ==
  ASSUME NEW n \in Nat, NEW I \in SUBSET (0 .. n), I # {}
  PROVE  LastIndex(I) \in I /\ \A j \in I : j <= LastIndex(I)
<1> DEFINE T == {n - i : i \in I}
<1>1. \A i \in I : i \in Nat /\ n - i \in Nat
  OBVIOUS
<1>2. T \in SUBSET Nat /\ T # {}
  BY <1>1
<1>3. PICK x \in T : \A y \in T : ~ (<<y, x>> \in OpToRel(<, Nat))
  <2> HIDE DEF T
  <2> QED BY <1>2, WFMin, NatLessThanWellFounded
<1>4. \A y \in T : ~ (y < x)
  <2> TAKE y \in T
  <2>1. x \in Nat /\ y \in Nat
    BY <1>2
  <2>2. ~ (<<y, x>> \in OpToRel(<, Nat))
    BY <1>3
  <2> QED BY <2>1, <2>2 DEF OpToRel
<1>5. PICK i \in I : x = n - i
  OBVIOUS
<1>6. \A j \in I : j <= i
  <2> TAKE j \in I
  <2>1. ~ (n - j < n - i)
    BY <1>4, <1>5
  <2>2. i \in 0 .. n /\ j \in 0 .. n
    OBVIOUS
  <2> QED BY <2>1, <2>2
<1> QED BY <1>6 DEF LastIndex

LEMMA RowsType ==
  ASSUME TypeOK, SequenceInv, NEW id, NEW e \in Rows(table, id)
  PROVE  /\ e \in StoredEvent /\ e \in table
         /\ e.position \in 0 .. sequence /\ e.sequence_number \in 0 .. sequence
<1>1. e \in StoredEvent /\ e \in table
  BY DEF TypeOK, Rows
<1>2. e.position \in Nat /\ e.sequence_number \in Nat /\ sequence \in Nat
  BY <1>1 DEF StoredEvent, TypeOK
<1>3. e.position < e.sequence_number /\ e.sequence_number < sequence
  BY <1>1 DEF SequenceInv, Numbered
<1> QED BY <1>1, <1>2, <1>3

\* read_last takes the row with the greatest sequence number for the last one
\* of its stream; it is also the one with the greatest position.
LEMMA ReadLastIsLast ==
  ASSUME TypeOK, SequenceInv, StreamPositionsGapless, NEW id
  PROVE  read_last(id) \in Position /\ IsLastPosition(read_last(id), id)
<1>1. CASE Rows(table, id) = {}
  BY <1>1 DEF read_last, Position, NoPosition, IsLastPosition
<1>2. CASE Rows(table, id) # {}
  <2> DEFINE R == Rows(table, id)
             I == {e.sequence_number : e \in R}
             IsLastRow(e) == \A f \in R : f.sequence_number <= e.sequence_number
             last == CHOOSE e \in R : IsLastRow(e)
  <2>1. I \in SUBSET (0 .. sequence) /\ I # {} /\ sequence \in Nat
    BY <1>2, RowsType DEF TypeOK
  <2>2. LastIndex(I) \in I /\ \A j \in I : j <= LastIndex(I)
    <3> HIDE DEF I
    <3> QED BY <2>1, GreatestElement
  <2>3. PICK e \in R : e.sequence_number = LastIndex(I)
    BY <2>2
  <2>4. \E r \in R : IsLastRow(r)
    BY <2>2, <2>3
  <2>5. last \in R /\ IsLastRow(last)
    <3> HIDE DEF R, IsLastRow
    <3> QED BY <2>4
  <2>6. read_last(id) = last.position
    BY <1>2 DEF read_last
  <2> HIDE DEF last
  <2>7. \A f \in R : f.position <= last.position
    <3> TAKE f \in R
    <3>1. /\ f.position \in Nat /\ last.position \in Nat
          /\ f.sequence_number \in Nat /\ last.sequence_number \in Nat
      BY <2>5, RowsType
    <3>2. f \in table /\ last \in table /\ SameStream(last, f)
      BY <2>5 DEF Rows, InStream, SameStream
    <3>3. f # last => (last.position < f.position <=> last.sequence_number < f.sequence_number)
      BY <3>2 DEF StreamPositionsGapless
    <3> QED BY <2>5, <3>1, <3>3
  <2>8. last.position \in Nat
    BY <2>5, RowsType
  <2> QED BY <2>5, <2>6, <2>7, <2>8 DEF IsLastPosition, Position
<1> QED BY <1>1, <1>2

\* read_last_category_batch takes the row with the greatest position.
LEMMA ReadBatchIsLast ==
  ASSUME TypeOK, SequenceInv, NEW id
  PROVE  /\ read_last_category_batch(id) \in Position
         /\ IsLastPosition(read_last_category_batch(id), id)
<1>1. CASE Rows(table, id) = {}
  BY <1>1 DEF read_last_category_batch, Position, NoPosition, IsLastPosition
<1>2. CASE Rows(table, id) # {}
  <2> DEFINE I == {e.position : e \in Rows(table, id)}
  <2>1. I \in SUBSET (0 .. sequence) /\ I # {} /\ sequence \in Nat
    BY <1>2, RowsType DEF TypeOK
  <2>2. LastIndex(I) \in I /\ \A j \in I : j <= LastIndex(I)
    <3> HIDE DEF I
    <3> QED BY <2>1, GreatestElement
  <2>3. read_last_category_batch(id) = LastIndex(I)
    BY <1>2 DEF read_last_category_batch
  <2>4. LastIndex(I) \in Nat
    BY <2>1, <2>2
  <2> QED BY <2>2, <2>3, <2>4 DEF IsLastPosition, Position
<1> QED BY <1>1, <1>2

\* A stream has one last position only.
LEMMA LastPositionUnique ==
  ASSUME TypeOK, NEW id, NEW p \in Position, NEW q \in Position,
         IsLastPosition(p, id), IsLastPosition(q, id)
  PROVE  p = q
<1>1. \A e \in Rows(table, id) : e.position \in Nat
  BY DEF TypeOK, Rows, StoredEvent
<1> QED BY <1>1 DEF IsLastPosition, Position, NoPosition

-----------------------------------------------------------------------------
(***************************************************************************)
(* Requests, rows and locks.                                               *)
(***************************************************************************)
LEMMA RequestLocks ==
  ASSUME NEW r \in Requests
  PROVE  /\ RequiredLocks(r) \subseteq LockNames
         /\ \A s \in DOMAIN r.streams :
              s \in Streams /\ lock_name(Target(r, s)) \in RequiredLocks(r)
         /\ r.category \in Categories
<1>1. \A s \in DOMAIN r.streams : Target(r, s) \in StreamIdentifier
  BY RequestsAssumption DEF Target, StreamIdentifier
<1>2. \A s \in DOMAIN r.streams : lock_name(Target(r, s)) \in RequiredLocks(r)
  BY DEF RequiredLocks, Targets
<1>3. RequiredLocks(r) \subseteq LockNames
  BY <1>1 DEF RequiredLocks, Targets, LockNames
<1> QED BY <1>1, <1>2, <1>3, RequestsAssumption

\* Every guarantee gives the events of a stream one lock, and so does the
\* adapter's guarantee to the events of its scope.
LEMMA SameStreamSameLock ==
  ASSUME NEW e, NEW f, SameStream(e, f)
  PROVE  lock_name(e) = lock_name(f)
BY GuaranteeAssumption DEF SameStream, lock_name

LEMMA SameScopeSameLock ==
  ASSUME NEW e, NEW f, SameScope(e, f)
  PROVE  lock_name(e) = lock_name(f)
BY GuaranteeAssumption DEF SameScope, lock_name

\* The lock of a row is the lock of the target it is in.
LEMMA RowLock ==
  ASSUME NEW r, NEW s, NEW e, InStream(e, Target(r, s))
  PROVE  lock_name(e) = lock_name(Target(r, s))
BY GuaranteeAssumption DEF InStream, Target, lock_name

\* A session that has inserted a row holds its lock.
LEMMA InsertedLocked ==
  ASSUME TypeOK, LockInv, RowsInv, NEW w \in Writers, NEW e \in inserted[w]
  PROVE  /\ pc[w] \in Writing
         /\ holder[lock_name(e)] = w
         /\ InStream(e, Target(request[w], e.stream))
         /\ e.stream \in DOMAIN request[w].streams
<1>1. pc[w] \in Writing
  BY DEF RowsInv
<1>2. e.category = request[w].category /\ e.stream \in DOMAIN request[w].streams
  BY DEF RowsInv
<1>3. InStream(e, Target(request[w], e.stream))
  BY <1>2 DEF InStream, Target
<1>4. lock_name(e) \in RequiredLocks(request[w])
  BY <1>2, <1>3, RowLock DEF RequiredLocks, Targets
<1>5. \A l \in RequiredLocks(request[w]) : holder[l] = w
  BY <1>1 DEF LockInv, HasRead
<1> QED BY <1>1, <1>2, <1>3, <1>4, <1>5

\* A session that has read its streams shares no stream with the rows another
\* session has inserted.
LEMMA NoForeignRows ==
  ASSUME TypeOK, LockInv, RowsInv,
         NEW v \in Writers, NEW w \in Writers, v # w,
         pc[v] \in {"reading"} \cup HasRead,
         NEW s \in DOMAIN request[v].streams, NEW e \in inserted[w]
  PROVE  ~InStream(e, Target(request[v], s))
<1> SUFFICES ASSUME InStream(e, Target(request[v], s)) PROVE FALSE
  OBVIOUS
<1>1. lock_name(e) = lock_name(Target(request[v], s))
  BY RowLock
<1>2. lock_name(e) \in RequiredLocks(request[v])
  BY <1>1 DEF RequiredLocks, Targets
<1>3. holder[lock_name(e)] = v
  BY <1>2 DEF LockInv
<1> QED BY <1>3, InsertedLocked

-----------------------------------------------------------------------------
(***************************************************************************)
(* What the steps do: one session takes a lock, inserts a row, commits,    *)
(* rolls back, or moves on.                                                *)
(***************************************************************************)
LEMMA ObtainFacts ==
  ASSUME NEW w \in Writers, ObtainWriteLocks(w)
  PROVE  \E l \in required[w] :
           /\ holder[l] = None
           /\ holder' = [holder EXCEPT ![l] = w]
           /\ required' = [required EXCEPT ![w] = required[w] \ {l}]
           /\ pc' = [pc EXCEPT ![w] = IF required[w] = {l} THEN "reading" ELSE "locking"]
BY DEF ObtainWriteLocks, NextToLock

LEMMA InsertFacts ==
  ASSUME NEW w \in Writers, InsertRow(w)
  PROVE  \E s \in DOMAIN request[w].streams :
           /\ InsertedInto(w, s) < request[w].streams[s].events
           /\ inserted' = [inserted EXCEPT ![w] = inserted[w] \cup {NewRow(w, s)}]
           /\ \/ /\ pc' = [pc EXCEPT ![w] = "committing"]
                 /\ InsertedInto(w, s) + 1 = request[w].streams[s].events
                 /\ \A u \in DOMAIN request[w].streams \ {s} :
                      InsertedInto(w, u) = request[w].streams[u].events
              \/ pc' = [pc EXCEPT ![w] = "inserting"]
BY DEF InsertRow

\* The transaction of a session ends without a commit.
Ends(w) == \E outcome \in Ended : Rollback(w, outcome)

LEMMA EndKinds ==
  ASSUME NEW w \in Writers, ConditionUnmet(w) \/ InsertFails(w) \/ Fail(w)
  PROVE  Ends(w)
BY DEF ConditionUnmet, InsertFails, Fail, Ends, Ended

\* The transaction is committed, whether the session learns it or not.
Commits(w) == \E outcome \in {"saved", "failed"} : CommitWith(w, outcome)

LEMMA CommitKinds ==
  ASSUME NEW w \in Writers, Commit(w) \/ CommitUnanswered(w)
  PROVE  Commits(w)
BY DEF Commit, CommitUnanswered, Commits

LEMMA StepKinds ==
  ASSUME Next
  PROVE  \E w \in Writers :
           \/ Save(w) \/ ObtainWriteLocks(w) \/ ReadLast(w) \/ Enforce(w)
           \/ InsertRow(w) \/ Commits(w) \/ Ends(w)
BY EndKinds, CommitKinds DEF Next, Step

LEMMA NewRowType ==
  ASSUME TypeOK, RowsInv, NEW w \in Writers, NEW s \in DOMAIN request[w].streams
  PROVE  /\ NewRow(w, s) \in StoredEvent
         /\ InsertedInto(w, s) \in Nat
         /\ NewRow(w, s).position = latest[w][s] + 1 + InsertedInto(w, s)
         /\ NewRow(w, s).sequence_number = sequence
         /\ InStream(NewRow(w, s), Target(request[w], s))
         /\ latest[w][s] \in Int /\ latest[w][s] + 1 \in Nat
<1>1. s \in Streams /\ request[w].category \in Categories
  BY RequestLocks DEF TypeOK
<1>2. IsFiniteSet(Rows(inserted[w], Target(request[w], s)))
  <2>1. Rows(inserted[w], Target(request[w], s)) \in SUBSET inserted[w]
    BY DEF Rows
  <2> QED BY <2>1, FS_Subset DEF RowsInv
<1>3. InsertedInto(w, s) \in Nat
  BY <1>2, FS_CardinalityType DEF InsertedInto
<1>4. latest[w][s] \in Int /\ latest[w][s] + 1 \in Nat /\ sequence \in Nat
  BY <1>1 DEF TypeOK, Position, NoPosition
<1>5. latest[w][s] + 1 + InsertedInto(w, s) \in Nat
  BY <1>3, <1>4
<1> QED BY <1>1, <1>3, <1>4, <1>5 DEF NewRow, StoredEvent, InStream, Target

\* The row that is inserted is one more of its stream, and of no other.
LEMMA InsertCounts ==
  ASSUME TypeOK, RowsInv, SequenceInv, NEW w \in Writers,
         NEW s \in DOMAIN request[w].streams,
         inserted' = [inserted EXCEPT ![w] = inserted[w] \cup {NewRow(w, s)}],
         UNCHANGED request
  PROVE  /\ Rows(inserted'[w], Target(request[w], s))
              = Rows(inserted[w], Target(request[w], s)) \cup {NewRow(w, s)}
         /\ InsertedInto(w, s)' = InsertedInto(w, s) + 1
         /\ \A u \in DOMAIN request[w].streams \ {s} :
              /\ Rows(inserted'[w], Target(request[w], u))
                   = Rows(inserted[w], Target(request[w], u))
              /\ InsertedInto(w, u)' = InsertedInto(w, u)
<1> DEFINE n == NewRow(w, s)
<1>1. inserted'[w] = inserted[w] \cup {n}
  BY DEF TypeOK
<1>2. InStream(n, Target(request[w], s)) /\ n.sequence_number = sequence
  BY NewRowType
<1>3. n \notin inserted[w]
  BY <1>2 DEF SequenceInv, Numbered, TypeOK
<1>4. \A u \in DOMAIN request[w].streams \ {s} : ~InStream(n, Target(request[w], u))
  BY <1>2 DEF InStream, Target
<1> HIDE DEF n
<1>5. Rows(inserted'[w], Target(request[w], s)) = Rows(inserted[w], Target(request[w], s)) \cup {n}
  BY <1>1, <1>2 DEF Rows
<1>6. n \notin Rows(inserted[w], Target(request[w], s))
  BY <1>3 DEF Rows
<1>7. IsFiniteSet(Rows(inserted[w], Target(request[w], s)))
  <2>1. Rows(inserted[w], Target(request[w], s)) \in SUBSET inserted[w]
    BY DEF Rows
  <2> QED BY <2>1, FS_Subset DEF RowsInv
<1>8. InsertedInto(w, s)' = InsertedInto(w, s) + 1
  <2> DEFINE R == Rows(inserted[w], Target(request[w], s))
  <2>1. Cardinality(R \cup {n}) = Cardinality(R) + 1
    <3> HIDE DEF R
    <3> QED BY <1>6, <1>7, FS_AddElement DEF R
  <2>2. InsertedInto(w, s)' = Cardinality(R \cup {n})
    BY <1>5 DEF InsertedInto
  <2> QED BY <2>1, <2>2 DEF InsertedInto
<1>9. \A u \in DOMAIN request[w].streams \ {s} :
        Rows(inserted'[w], Target(request[w], u)) = Rows(inserted[w], Target(request[w], u))
  BY <1>1, <1>4 DEF Rows
<1>10. \A u \in DOMAIN request[w].streams \ {s} : InsertedInto(w, u)' = InsertedInto(w, u)
  BY <1>9 DEF InsertedInto
<1> QED BY <1>5, <1>8, <1>9, <1>10 DEF n

-----------------------------------------------------------------------------
(***************************************************************************)
(* Types and locks.                                                        *)
(***************************************************************************)
LEMMA TypeStep ==
  ASSUME IInv, [Next]_vars
  PROVE  TypeOK'
<1> USE DEF IInv, TypeOK, InTransaction, Ended
<1>1. ASSUME NEW w \in Writers, Save(w) PROVE TypeOK'
  <2>1. RequiredLocks(request[w]) \subseteq LockNames
    BY RequestLocks
  <2> QED BY <1>1, <2>1 DEF Save
<1>2. ASSUME NEW w \in Writers, ObtainWriteLocks(w) PROVE TypeOK'
  <2>1. PICK l \in required[w] :
          /\ holder' = [holder EXCEPT ![l] = w]
          /\ required' = [required EXCEPT ![w] = required[w] \ {l}]
          /\ pc' = [pc EXCEPT ![w] = IF required[w] = {l} THEN "reading" ELSE "locking"]
    BY <1>2, ObtainFacts
  <2> QED BY <1>2, <2>1 DEF ObtainWriteLocks
<1>3. ASSUME NEW w \in Writers, ReadLast(w) PROVE TypeOK'
  <2>1. \A id : read_last(id) \in Position /\ read_last_category_batch(id) \in Position
    BY ReadLastIsLast, ReadBatchIsLast
  <2>2. latest' \in [Writers -> [Streams -> Position]]
    BY <1>3, <2>1 DEF ReadLast, Position
  <2> QED BY <1>3, <2>2 DEF ReadLast
<1>4. ASSUME NEW w \in Writers, Enforce(w) PROVE TypeOK'
  BY <1>4 DEF Enforce
<1>5. ASSUME NEW w \in Writers, InsertRow(w) PROVE TypeOK'
  <2>1. PICK s \in DOMAIN request[w].streams :
          /\ inserted' = [inserted EXCEPT ![w] = inserted[w] \cup {NewRow(w, s)}]
          /\ \/ pc' = [pc EXCEPT ![w] = "committing"]
             \/ pc' = [pc EXCEPT ![w] = "inserting"]
    BY <1>5, InsertFacts
  <2>2. NewRow(w, s) \in StoredEvent
    BY NewRowType
  <2>3. inserted' \in [Writers -> SUBSET StoredEvent]
    BY <2>1, <2>2
  <2>4. pc' \in [Writers -> Ended \cup InTransaction \cup {"idle"}]
    BY <2>1
  <2>5. sequence' \in Nat /\ UNCHANGED <<table, holder, request, required, latest>>
    BY <1>5 DEF InsertRow
  <2> QED BY <2>3, <2>4, <2>5
<1>6. ASSUME NEW w \in Writers, Commits(w) PROVE TypeOK'
  <2>1. table' \subseteq StoredEvent
    BY <1>6 DEF Commits, CommitWith
  <2> QED BY <1>6, <2>1 DEF Commits, CommitWith, Release, NothingRead, Position
<1>7. ASSUME NEW w \in Writers, Ends(w) PROVE TypeOK'
  BY <1>7 DEF Ends, Rollback, Release, NothingRead, Position
<1>8. CASE UNCHANGED vars
  BY <1>8 DEF vars
<1> QED BY <1>1, <1>2, <1>3, <1>4, <1>5, <1>6, <1>7, <1>8, StepKinds

LEMMA LockStep ==
  ASSUME TypeOK, LockInv, [Next]_vars
  PROVE  LockInv'
<1> USE NoneAssumption DEF TypeOK, LockInv, HasRead, Writing
<1>1. ASSUME NEW w \in Writers, Save(w) PROVE LockInv'
  BY <1>1 DEF Save
<1>2. ASSUME NEW w \in Writers, ObtainWriteLocks(w) PROVE LockInv'
  <2>1. PICK l \in required[w] :
          /\ holder[l] = None
          /\ holder' = [holder EXCEPT ![l] = w]
          /\ required' = [required EXCEPT ![w] = required[w] \ {l}]
          /\ pc' = [pc EXCEPT ![w] = IF required[w] = {l} THEN "reading" ELSE "locking"]
    BY <1>2, ObtainFacts
  <2>2. pc[w] = "locking" /\ request' = request
    BY <1>2 DEF ObtainWriteLocks
  <2>3. \A m \in LockNames : m # l => holder'[m] = holder[m]
    BY <2>1
  <2>4. holder'[l] = w
    BY <2>1
  <2>5. \A v \in Writers : RequiredLocks(request[v]) \subseteq LockNames
    BY RequestLocks
  <2>6. ASSUME NEW v \in Writers, v # w
        PROVE  /\ pc'[v] = pc[v] /\ required'[v] = required[v]
               /\ \A m \in RequiredLocks(request[v]) : holder[m] = v => holder'[m] = v
    BY <2>1, <2>3, <2>5, <2>6
  <2>7. required'[w] \subseteq RequiredLocks(request[w])
    BY <2>1, <2>2
  <2>8. \A m \in RequiredLocks(request[w]) : m \notin required'[w] => holder'[m] = w
    BY <2>1, <2>2, <2>3, <2>4, <2>5
  <2>9. pc'[w] = "reading" => required'[w] = {}
    BY <2>1
  <2>10. pc'[w] \in {"reading", "locking"}
    BY <2>1
  <2>11. ASSUME NEW v \in Writers
         PROVE  /\ pc'[v] = "locking" =>
                     /\ required'[v] \subseteq RequiredLocks(request[v])
                     /\ \A m \in RequiredLocks(request[v]) : m \notin required'[v] => holder'[m] = v
                /\ pc'[v] \in {"reading"} \cup HasRead =>
                     \A m \in RequiredLocks(request[v]) : holder'[m] = v
    <3>1. CASE v = w
      BY <2>7, <2>8, <2>9, <2>10, <3>1
    <3>2. CASE v # w
      BY <2>6, <3>2
    <3> QED BY <3>1, <3>2
  <2> QED BY <2>2, <2>11
<1>3. ASSUME NEW w \in Writers, ReadLast(w) PROVE LockInv'
  BY <1>3 DEF ReadLast
<1>4. ASSUME NEW w \in Writers, Enforce(w) PROVE LockInv'
  BY <1>4 DEF Enforce
<1>5. ASSUME NEW w \in Writers, InsertRow(w) PROVE LockInv'
  <2>1. \A v \in Writers : pc'[v] = pc[v] \/ (pc[v] = "inserting" /\ pc'[v] \in Writing)
    BY <1>5, InsertFacts DEF InsertRow
  <2> QED BY <1>5, <2>1 DEF InsertRow
<1>6. ASSUME NEW w \in Writers, Commits(w) PROVE LockInv'
  <2>1. \A v \in Writers \ {w} : RequiredLocks(request[v]) \subseteq LockNames
    BY RequestLocks
  <2> QED BY <1>6, <2>1 DEF Commits, CommitWith, Release
<1>7. ASSUME NEW w \in Writers, Ends(w) PROVE LockInv'
  <2>1. \A v \in Writers \ {w} : RequiredLocks(request[v]) \subseteq LockNames
    BY RequestLocks
  <2> QED BY <1>7, <2>1 DEF Ends, Ended, Rollback, Release
<1>8. CASE UNCHANGED vars
  BY <1>8 DEF vars
<1> QED BY <1>1, <1>2, <1>3, <1>4, <1>5, <1>6, <1>7, <1>8, StepKinds

-----------------------------------------------------------------------------
(***************************************************************************)
(* Rows and their numbers.                                                 *)
(***************************************************************************)

\* A step that neither inserts nor commits leaves the table and the sequence
\* alone, and no session has more rows after it.
LEMMA QuietFacts ==
  ASSUME TypeOK, RowsInv, NEW w \in Writers,
         Save(w) \/ ObtainWriteLocks(w) \/ ReadLast(w) \/ Enforce(w) \/ Ends(w)
  PROVE  /\ UNCHANGED <<table, sequence, request>>
         /\ \A v \in Writers : inserted'[v] \in {inserted[v], {}}
         /\ \A v \in Writers \ {w} :
              /\ UNCHANGED <<inserted[v], latest[v]>>
              /\ pc'[v] = pc[v]
         /\ pc'[w] \notin Writing => inserted'[w] = {}
         /\ pc'[w] \in Writing =>
              pc[w] = "enforcing" /\ ConditionsMet(w) /\ UNCHANGED <<inserted, latest>>
<1> USE DEF TypeOK, RowsInv, Writing
<1>1. CASE Save(w)
  BY <1>1 DEF Save
<1>2. CASE ObtainWriteLocks(w)
  <2>1. pc'[w] \in {"reading", "locking"} /\ \A v \in Writers \ {w} : pc'[v] = pc[v]
    BY <1>2, ObtainFacts
  <2> QED BY <1>2, <2>1 DEF ObtainWriteLocks
<1>3. CASE ReadLast(w)
  BY <1>3 DEF ReadLast
<1>4. CASE Enforce(w)
  BY <1>4 DEF Enforce
<1>5. CASE Ends(w)
  BY <1>5 DEF Ends, Ended, Rollback
<1> QED BY <1>1, <1>2, <1>3, <1>4, <1>5

LEMMA RowsStep ==
  ASSUME TypeOK, RowsInv, [Next]_vars
  PROVE  RowsInv'
<1> USE DEF TypeOK, RowsInv
<1>1. ASSUME NEW w \in Writers,
             Save(w) \/ ObtainWriteLocks(w) \/ ReadLast(w) \/ Enforce(w) \/ Ends(w)
      PROVE  RowsInv'
  <2>1. /\ request' = request
        /\ \A v \in Writers : inserted'[v] \in {inserted[v], {}}
        /\ \A v \in Writers \ {w} : inserted'[v] = inserted[v] /\ pc'[v] = pc[v]
        /\ pc'[w] \notin Writing => inserted'[w] = {}
    BY <1>1, QuietFacts
  <2>2. IsFiniteSet({}) /\ \A v \in Writers : inserted'[v] \subseteq inserted[v]
    BY <2>1, FS_EmptySet
  <2>3. \A v \in Writers : IsFiniteSet(inserted'[v])
    BY <2>1, <2>2
  <2>4. \A v \in Writers : pc'[v] \notin Writing => inserted'[v] = {}
    BY <2>1
  <2> QED BY <2>1, <2>2, <2>3, <2>4
<1>2. ASSUME NEW w \in Writers, InsertRow(w) PROVE RowsInv'
  <2>1. PICK s \in DOMAIN request[w].streams :
          /\ inserted' = [inserted EXCEPT ![w] = inserted[w] \cup {NewRow(w, s)}]
          /\ \/ pc' = [pc EXCEPT ![w] = "committing"]
             \/ pc' = [pc EXCEPT ![w] = "inserting"]
    BY <1>2, InsertFacts
  <2>2. IsFiniteSet(inserted[w] \cup {NewRow(w, s)})
    BY FS_AddElement
  <2>3. /\ NewRow(w, s).category = request[w].category
        /\ NewRow(w, s).stream = s
        /\ NewRow(w, s).payload = w
    BY DEF NewRow
  <2>4. request' = request
    BY <1>2 DEF InsertRow
  <2> QED BY <2>1, <2>2, <2>3, <2>4 DEF Writing
<1>3. ASSUME NEW w \in Writers, Commits(w) PROVE RowsInv'
  BY <1>3, FS_EmptySet DEF Commits, CommitWith
<1>4. CASE UNCHANGED vars
  BY <1>4 DEF vars
<1> QED BY <1>1, <1>2, <1>3, <1>4, StepKinds

\* The position of a new row is below its sequence number, because the row
\* before it in the stream has a smaller one.
LEMMA NewRowNumbered ==
  ASSUME IInv, NEW w \in Writers, pc[w] \in Writing, NEW s \in DOMAIN request[w].streams
  PROVE  NewRow(w, s).position < sequence
<1> DEFINE id == Target(request[w], s)
           p  == NewRow(w, s).position
           n  == InsertedInto(w, s)
<1>1. p = latest[w][s] + 1 + n /\ n \in Nat /\ latest[w][s] \in Int /\ latest[w][s] + 1 \in Nat
  BY NewRowType DEF IInv
<1>2. sequence \in Nat /\ sequence > 0
  BY DEF IInv, TypeOK, SequenceInv
<1>3. CASE p = 0
  BY <1>2, <1>3
<1>4. CASE n > 0
  <2>1. latest[w][s] + n \in (latest[w][s] + 1) .. (latest[w][s] + n)
    BY <1>1, <1>4
  <2>2. PICK e \in Rows(inserted[w], id) : e.position = latest[w][s] + n
    BY <2>1 DEF IInv, PendingInv, Continues
  <2>3. e \in inserted[w] /\ e.sequence_number \in Nat /\ e.position \in Nat
    BY DEF Rows, IInv, TypeOK, StoredEvent
  <2>4. e.position < e.sequence_number /\ e.sequence_number < sequence
    BY <2>3 DEF IInv, SequenceInv, Numbered
  <2> QED BY <1>1, <1>2, <2>2, <2>3, <2>4
<1>5. CASE n = 0 /\ p > 0
  <2>1. latest[w][s] # NoPosition
    BY <1>1, <1>5 DEF NoPosition
  <2>2. PICK e \in Rows(table, id) : e.position = latest[w][s]
    BY <2>1 DEF IInv, ReadInv, IsLastPosition, HasRead
  <2>3. e \in table /\ e.sequence_number \in Nat /\ e.position \in Nat
    BY DEF Rows, IInv, TypeOK, StoredEvent
  <2>4. e.position < e.sequence_number /\ e.sequence_number < sequence
    BY <2>3 DEF IInv, SequenceInv, Numbered
  <2> QED BY <1>1, <1>2, <1>5, <2>2, <2>3, <2>4
<1>6. p \in Nat
  BY <1>1
<1> QED BY <1>1, <1>3, <1>4, <1>5, <1>6

LEMMA SequenceStep ==
  ASSUME IInv, [Next]_vars
  PROVE  SequenceInv'
<1> USE DEF IInv, TypeOK, SequenceInv, Numbered
<1>1. ASSUME NEW w \in Writers,
             Save(w) \/ ObtainWriteLocks(w) \/ ReadLast(w) \/ Enforce(w) \/ Ends(w)
      PROVE  SequenceInv'
  <2>1. /\ UNCHANGED <<table, sequence>>
        /\ \A v \in Writers : inserted'[v] \in {inserted[v], {}}
    BY <1>1, QuietFacts
  <2> QED BY <2>1
<1>2. ASSUME NEW w \in Writers, InsertRow(w) PROVE SequenceInv'
  <2>1. PICK s \in DOMAIN request[w].streams :
          inserted' = [inserted EXCEPT ![w] = inserted[w] \cup {NewRow(w, s)}]
    BY <1>2, InsertFacts
  <2>2. table' = table /\ sequence' = sequence + 1 /\ pc[w] = "inserting"
    BY <1>2 DEF InsertRow
  <2>3. NewRow(w, s).position < sequence /\ NewRow(w, s).sequence_number = sequence
    BY <2>2, NewRowNumbered, NewRowType DEF Writing
  <2>4. \A e \in table : e \in StoredEvent
    OBVIOUS
  <2>5. \A v \in Writers : \A e \in inserted[v] : e \in StoredEvent
    OBVIOUS
  <2>6. \A e \in StoredEvent : e.position < e.sequence_number /\ e.sequence_number < sequence
          => e.sequence_number < sequence + 1
    BY DEF StoredEvent
  <2>7. \A e \in table' : e.position < e.sequence_number /\ e.sequence_number < sequence'
    BY <2>2, <2>4, <2>6
  <2>8. ASSUME NEW v \in Writers, NEW e \in inserted'[v]
        PROVE  e.position < e.sequence_number /\ e.sequence_number < sequence'
    <3>1. CASE e \in inserted[v]
      BY <2>2, <2>5, <2>6, <3>1
    <3>2. CASE v = w /\ e = NewRow(w, s)
      BY <2>2, <2>3, <3>2
    <3> QED BY <2>1, <2>8, <3>1, <3>2
  <2> QED BY <2>2, <2>7, <2>8
<1>3. ASSUME NEW w \in Writers, Commits(w) PROVE SequenceInv'
  BY <1>3 DEF Commits, CommitWith
<1>4. CASE UNCHANGED vars
  BY <1>4 DEF vars
<1> QED BY <1>1, <1>2, <1>3, <1>4, StepKinds

\* Rows that share a lock become visible in the order of their numbers: while
\* they are uncommitted nobody else commits rows under that lock.
LEMMA PendingOrderStep ==
  ASSUME IInv, [Next]_vars
  PROVE  PendingOrderInv'
<1> USE DEF IInv, TypeOK, PendingOrderInv
<1>1. ASSUME NEW w \in Writers,
             Save(w) \/ ObtainWriteLocks(w) \/ ReadLast(w) \/ Enforce(w) \/ Ends(w)
      PROVE  PendingOrderInv'
  <2>1. /\ UNCHANGED <<table, sequence>>
        /\ \A v \in Writers : inserted'[v] \in {inserted[v], {}}
    BY <1>1, QuietFacts
  <2> QED BY <2>1
<1>2. ASSUME NEW w \in Writers, InsertRow(w) PROVE PendingOrderInv'
  <2>1. PICK s \in DOMAIN request[w].streams :
          inserted' = [inserted EXCEPT ![w] = inserted[w] \cup {NewRow(w, s)}]
    BY <1>2, InsertFacts
  <2>2. table' = table
    BY <1>2 DEF InsertRow
  <2>3. \A f \in table : f.sequence_number < NewRow(w, s).sequence_number
    BY NewRowType DEF SequenceInv, Numbered
  <2> QED BY <2>1, <2>2, <2>3
<1>3. ASSUME NEW w \in Writers, Commits(w) PROVE PendingOrderInv'
  <2>1. /\ table' = table \cup inserted[w]
        /\ inserted'[w] = {}
        /\ \A v \in Writers \ {w} : inserted'[v] = inserted[v]
    BY <1>3 DEF Commits, CommitWith
  <2>2. \A v \in Writers \ {w} : \A e \in inserted[v], f \in inserted[w] :
          lock_name(e) # lock_name(f)
    BY InsertedLocked
  <2> QED BY <2>1, <2>2
<1>4. CASE UNCHANGED vars
  BY <1>4 DEF vars
<1> QED BY <1>1, <1>2, <1>3, <1>4, StepKinds

-----------------------------------------------------------------------------
(***************************************************************************)
(* What a session has read and inserted, and positions.                    *)
(***************************************************************************)
LEMMA ReadStep ==
  ASSUME IInv, [Next]_vars
  PROVE  ReadInv'
<1> USE DEF IInv, TypeOK, HasRead, Writing
<1> DEFINE IsLast(v, s) == IsLastPosition(latest[v][s], Target(request[v], s))
<1>a. ASSUME NEW v \in Writers, pc[v] \in HasRead, NEW s \in DOMAIN request[v].streams
      PROVE  IsLast(v, s)
  BY <1>a DEF ReadInv
<1>b. ASSUME NEW v \in Writers, NEW s \in DOMAIN request[v].streams, IsLast(v, s),
             latest'[v] = latest[v], request' = request,
             Rows(table', Target(request[v], s)) = Rows(table, Target(request[v], s))
      PROVE  IsLast(v, s)'
  BY <1>b DEF IsLastPosition
<1>1. ASSUME NEW w \in Writers, Save(w) \/ ObtainWriteLocks(w) \/ Enforce(w) \/ Ends(w)
      PROVE  ReadInv'
  <2>1. table' = table /\ request' = request
    BY <1>1, QuietFacts
  <2>2. \A v \in Writers : pc'[v] \in HasRead => pc[v] \in HasRead /\ latest'[v] = latest[v]
    <3>1. CASE Save(w)
      BY <3>1 DEF Save
    <3>2. CASE ObtainWriteLocks(w)
      BY <3>2, ObtainFacts DEF ObtainWriteLocks
    <3>3. CASE Enforce(w)
      BY <3>3 DEF Enforce
    <3>4. CASE Ends(w)
      BY <3>4 DEF Ends, Ended, Rollback
    <3> QED BY <1>1, <3>1, <3>2, <3>3, <3>4
  <2> QED BY <1>a, <1>b, <2>1, <2>2 DEF ReadInv
<1>2. ASSUME NEW w \in Writers, ReadLast(w) PROVE ReadInv'
  <2>1. table' = table /\ request' = request
    BY <1>2 DEF ReadLast
  <2>2. ASSUME NEW s \in DOMAIN request[w].streams PROVE IsLast(w, s)'
    <3> DEFINE id == Target(request[w], s)
    <3>1. s \in Streams
      BY RequestLocks
    <3>2. latest'[w][s] \in {read_last(id), read_last_category_batch(id)}
      BY <1>2, <3>1, <2>2 DEF ReadLast
    <3>3. IsLastPosition(latest'[w][s], id)
      BY <3>2, ReadLastIsLast, ReadBatchIsLast
    <3> QED BY <2>1, <3>3 DEF IsLastPosition, Rows
  <2>3. \A v \in Writers \ {w} : pc'[v] = pc[v] /\ latest'[v] = latest[v]
    BY <1>2 DEF ReadLast
  <2> QED BY <1>a, <1>b, <2>1, <2>2, <2>3 DEF ReadInv
<1>3. ASSUME NEW w \in Writers, InsertRow(w) PROVE ReadInv'
  <2>1. UNCHANGED <<table, request, latest>> /\ pc[w] = "inserting"
    BY <1>3 DEF InsertRow
  <2>2. \A v \in Writers \ {w} : pc'[v] = pc[v]
    BY <1>3, InsertFacts
  <2> QED BY <1>a, <1>b, <2>1, <2>2 DEF ReadInv
<1>4. ASSUME NEW w \in Writers, Commits(w) PROVE ReadInv'
  <2>1. /\ table' = table \cup inserted[w] /\ request' = request /\ pc'[w] \in {"saved", "failed"}
        /\ \A v \in Writers \ {w} : pc'[v] = pc[v] /\ latest'[v] = latest[v]
    BY <1>4 DEF Commits, CommitWith, IInv, TypeOK
  <2>2. ASSUME NEW v \in Writers \ {w}, pc[v] \in HasRead, NEW s \in DOMAIN request[v].streams
        PROVE  Rows(table', Target(request[v], s)) = Rows(table, Target(request[v], s))
    <3>1. \A e \in inserted[w] : ~InStream(e, Target(request[v], s))
      BY <2>2, NoForeignRows
    <3> QED BY <2>1, <3>1 DEF Rows
  <2> QED BY <1>a, <1>b, <2>1, <2>2 DEF ReadInv
<1>5. CASE UNCHANGED vars
  BY <1>5, <1>a, <1>b DEF vars, ReadInv
<1> QED BY <1>1, <1>2, <1>3, <1>4, <1>5, StepKinds

\* What a session has inserted depends on nothing but its own state.
LEMMA OwnStateOnly ==
  ASSUME NEW v \in Writers, inserted'[v] = inserted[v], latest'[v] = latest[v],
         request'[v] = request[v]
  PROVE  /\ \A s : Continues(v, s)' <=> Continues(v, s)
         /\ \A s : InsertedInto(v, s)' = InsertedInto(v, s)
         /\ ConditionsMet(v)' <=> ConditionsMet(v)
<1>1. \A s : InsertedInto(v, s)' = InsertedInto(v, s)
  BY DEF InsertedInto
<1>2. \A s : Continues(v, s)' <=> Continues(v, s)
  BY <1>1 DEF Continues
<1>3. ConditionsMet(v)' <=> ConditionsMet(v)
  BY DEF ConditionsMet, Accepted
<1> QED BY <1>1, <1>2, <1>3

\* A session begins its insert with no row.
LEMMA NothingInserted ==
  ASSUME NEW w \in Writers, inserted[w] = {}, NEW s,
         latest[w][s] \in Int
  PROVE  Continues(w, s) /\ InsertedInto(w, s) = 0
<1>1. Rows(inserted[w], Target(request[w], s)) = {}
  BY DEF Rows
<1>2. InsertedInto(w, s) = 0
  BY <1>1, FS_EmptySet DEF InsertedInto
<1> QED BY <1>1, <1>2 DEF Continues

\* One more row continues the stream.
LEMMA InsertContinues ==
  ASSUME IInv, NEW w \in Writers, pc[w] \in Writing, NEW s \in DOMAIN request[w].streams,
         inserted' = [inserted EXCEPT ![w] = inserted[w] \cup {NewRow(w, s)}],
         UNCHANGED <<request, latest>>
  PROVE  \A u \in DOMAIN request[w].streams : Continues(w, u)'
<1> DEFINE own == Rows(inserted[w], Target(request[w], s))
           row == NewRow(w, s)
           n   == InsertedInto(w, s)
           l   == latest[w][s]
<1>1. /\ Rows(inserted'[w], Target(request[w], s)) = own \cup {row}
      /\ InsertedInto(w, s)' = n + 1
      /\ \A u \in DOMAIN request[w].streams \ {s} :
           /\ Rows(inserted'[w], Target(request[w], u)) = Rows(inserted[w], Target(request[w], u))
           /\ InsertedInto(w, u)' = InsertedInto(w, u)
  BY InsertCounts DEF IInv
<1>2. /\ row.position = l + 1 + n /\ row.sequence_number = sequence
      /\ n \in Nat /\ l \in Int
  BY NewRowType DEF IInv
<1>3. \A u \in DOMAIN request[w].streams : Continues(w, u)
  BY DEF IInv, PendingInv
<1>4. \A e \in own : e.sequence_number < sequence /\ e.sequence_number \in Nat /\ e.position \in Nat
  BY DEF IInv, SequenceInv, Numbered, Rows, TypeOK, StoredEvent
<1>5. sequence \in Nat
  BY DEF IInv, TypeOK
<1>6. Continues(w, s)'
  <2> HIDE DEF own, row, n, l
  <2>1. /\ \A e \in own : e.position \in (l + 1) .. (l + n)
        /\ \A p \in (l + 1) .. (l + n) : \E e \in own : e.position = p
        /\ \A e, f \in own :
             e # f => (e.position < f.position <=> e.sequence_number < f.sequence_number)
    BY <1>3 DEF Continues, own, n, l
  <2>2. \A e \in own \cup {row} : e.position \in (l + 1) .. (l + (n + 1))
    BY <1>2, <2>1
  <2>3. \A p \in (l + 1) .. (l + (n + 1)) : \E e \in own \cup {row} : e.position = p
    <3> TAKE p \in (l + 1) .. (l + (n + 1))
    <3>1. p \in (l + 1) .. (l + n) \/ p = l + 1 + n
      BY <1>2
    <3> QED BY <1>2, <2>1, <3>1
  <2>4. \A e \in own : e.position < row.position /\ e.sequence_number < row.sequence_number
    BY <1>2, <1>4, <2>1
  <2>5. row.position \in Int /\ row.sequence_number \in Nat
    BY <1>2, <1>5
  <2>6. \A e \in own : ~(row.position < e.position) /\ ~(row.sequence_number < e.sequence_number)
    BY <1>4, <2>4, <2>5
  <2>7. \A e, f \in own \cup {row} :
          e # f => (e.position < f.position <=> e.sequence_number < f.sequence_number)
    BY <2>1, <2>4, <2>6
  <2>8. Rows(inserted[w], Target(request[w], s))' = own \cup {row}
    BY <1>1
  <2>9. (latest[w][s])' = l
    BY DEF l
  <2> QED BY <1>1, <2>2, <2>3, <2>7, <2>8, <2>9 DEF Continues
<1>7. \A u \in DOMAIN request[w].streams \ {s} : Continues(w, u)'
  BY <1>1, <1>3 DEF Continues
<1> QED BY <1>6, <1>7

LEMMA PendingStep ==
  ASSUME IInv, [Next]_vars
  PROVE  PendingInv' /\ RequestedInv'
<1> DEFINE Goal(v) ==
      /\ pc[v] \in Writing =>
           /\ ConditionsMet(v)
           /\ \A s \in DOMAIN request[v].streams :
                Continues(v, s) /\ InsertedInto(v, s) <= request[v].streams[s].events
      /\ pc[v] = "committing" =>
           \A s \in DOMAIN request[v].streams :
             InsertedInto(v, s) = request[v].streams[s].events
<1> SUFFICES \A v \in Writers : Goal(v)'
  BY DEF PendingInv, RequestedInv
<1>a. \A v \in Writers : Goal(v)
  BY DEF IInv, PendingInv, RequestedInv
<1>b. ASSUME NEW v \in Writers, pc'[v] = pc[v], inserted'[v] = inserted[v],
             latest'[v] = latest[v], request' = request
      PROVE  Goal(v)'
  BY <1>a, <1>b, OwnStateOnly
<1>1. ASSUME NEW w \in Writers,
             Save(w) \/ ObtainWriteLocks(w) \/ ReadLast(w) \/ Enforce(w) \/ Ends(w)
      PROVE  \A v \in Writers : Goal(v)'
  <2>1. /\ request' = request
        /\ \A v \in Writers \ {w} :
             pc'[v] = pc[v] /\ inserted'[v] = inserted[v] /\ latest'[v] = latest[v]
        /\ pc'[w] \in Writing =>
             pc[w] = "enforcing" /\ ConditionsMet(w) /\ UNCHANGED <<inserted, latest>>
    BY <1>1, QuietFacts DEF IInv
  <2>2. ASSUME pc'[w] \in Writing PROVE Goal(w)'
    <3>1. inserted[w] = {} /\ inserted'[w] = {}
      BY <2>1, <2>2 DEF IInv, RowsInv, Writing
    <3>2. \A s \in DOMAIN request[w].streams :
            latest[w][s] \in Int /\ request[w].streams[s].events \in Nat
      BY RequestLocks, RequestsAssumption DEF IInv, TypeOK, Position, NoPosition
    <3>3. \A s \in DOMAIN request[w].streams : Continues(w, s) /\ InsertedInto(w, s) = 0
      BY <3>1, <3>2, NothingInserted
    <3>4. pc'[w] = "inserting"
      BY <1>1, <2>1, <2>2 DEF Enforce, Save, ObtainWriteLocks, ReadLast, Ends, Rollback,
                              Writing, Ended, IInv, TypeOK
    <3> QED BY <2>1, <2>2, <3>1, <3>2, <3>3, <3>4, OwnStateOnly
  <2>3. pc'[w] \notin Writing => Goal(w)'
    BY DEF Writing
  <2> QED BY <1>b, <2>1, <2>2, <2>3
<1>2. ASSUME NEW w \in Writers, InsertRow(w) PROVE \A v \in Writers : Goal(v)'
  <2>1. PICK s \in DOMAIN request[w].streams :
           /\ InsertedInto(w, s) < request[w].streams[s].events
           /\ inserted' = [inserted EXCEPT ![w] = inserted[w] \cup {NewRow(w, s)}]
           /\ \/ /\ pc' = [pc EXCEPT ![w] = "committing"]
                 /\ InsertedInto(w, s) + 1 = request[w].streams[s].events
                 /\ \A u \in DOMAIN request[w].streams \ {s} :
                      InsertedInto(w, u) = request[w].streams[u].events
              \/ pc' = [pc EXCEPT ![w] = "inserting"]
    BY <1>2, InsertFacts
  <2>2. UNCHANGED <<request, latest>> /\ pc[w] \in Writing
    BY <1>2 DEF InsertRow, Writing
  <2>3. \A u \in DOMAIN request[w].streams : Continues(w, u)'
    BY <2>1, <2>2, InsertContinues
  <2>4. /\ InsertedInto(w, s)' = InsertedInto(w, s) + 1
        /\ \A u \in DOMAIN request[w].streams \ {s} : InsertedInto(w, u)' = InsertedInto(w, u)
    BY <2>1, <2>2, InsertCounts DEF IInv
  <2>5. InsertedInto(w, s) \in Nat /\ request[w].streams[s].events \in Nat
    BY NewRowType, RequestsAssumption DEF IInv, TypeOK
  <2>6. ConditionsMet(w)'
    BY <1>a, <2>2 DEF ConditionsMet, Accepted
  <2>7. \A u \in DOMAIN request[w].streams : InsertedInto(w, u)' <= request[w].streams[u].events
    BY <1>a, <2>1, <2>2, <2>4, <2>5
  <2>8. pc'[w] = "committing" => \A u \in DOMAIN request[w].streams :
          InsertedInto(w, u)' = request[w].streams[u].events
    BY <2>1, <2>4 DEF IInv, TypeOK
  <2>9. Goal(w)'
    BY <2>2, <2>3, <2>6, <2>7, <2>8
  <2>10. \A v \in Writers \ {w} :
           pc'[v] = pc[v] /\ inserted'[v] = inserted[v] /\ latest'[v] = latest[v]
    BY <2>1, <2>2 DEF IInv, TypeOK
  <2> QED BY <1>b, <2>2, <2>9, <2>10
<1>3. ASSUME NEW w \in Writers, Commits(w) PROVE \A v \in Writers : Goal(v)'
  <2>1. pc'[w] \in {"saved", "failed"} /\ request' = request /\ \A v \in Writers \ {w} :
           pc'[v] = pc[v] /\ inserted'[v] = inserted[v] /\ latest'[v] = latest[v]
    BY <1>3 DEF Commits, CommitWith, IInv, TypeOK
  <2>2. Goal(w)'
    BY <2>1 DEF Writing
  <2> QED BY <1>b, <2>1, <2>2
<1>4. CASE UNCHANGED vars
  BY <1>4, <1>b DEF vars
<1> QED BY <1>1, <1>2, <1>3, <1>4, StepKinds

\* A commit continues every stream of the table.
LEMMA GaplessStep ==
  ASSUME IInv, [Next]_vars
  PROVE  StreamPositionsGapless'
<1>1. ASSUME NEW w \in Writers, Commits(w) PROVE StreamPositionsGapless'
  <2>1. table' = table \cup inserted[w] /\ pc[w] = "committing"
    BY <1>1 DEF Commits, CommitWith
  <2> DEFINE InOrder(e, f) == e.position < f.position <=> e.sequence_number < f.sequence_number
  <2>2. \A e \in table \cup inserted[w] :
          e \in StoredEvent /\ e.position \in Nat /\ e.sequence_number \in Nat
    BY DEF IInv, TypeOK, StoredEvent
  <2>3. ASSUME NEW e \in inserted[w], NEW f \in table, SameStream(e, f)
        PROVE  f.position < e.position /\ f.sequence_number < e.sequence_number
    <3>1. e.stream \in DOMAIN request[w].streams /\ InStream(e, Target(request[w], e.stream))
      BY InsertedLocked DEF IInv
    <3>2. f \in Rows(table, Target(request[w], e.stream))
      BY <2>3, <3>1 DEF Rows, InStream, SameStream
    <3>3. IsLastPosition(latest[w][e.stream], Target(request[w], e.stream))
      BY <2>1, <3>1 DEF IInv, ReadInv, HasRead, Writing
    <3>4. f.position <= latest[w][e.stream]
      BY <3>2, <3>3 DEF IsLastPosition
    <3>5. e.position \in (latest[w][e.stream] + 1) .. (latest[w][e.stream] + InsertedInto(w, e.stream))
      BY <2>1, <3>1 DEF IInv, PendingInv, Continues, Writing, Rows
    <3>6. latest[w][e.stream] \in Int
      BY <3>1, NewRowType DEF IInv
    <3>7. f.position < e.position
      BY <2>2, <3>4, <3>5, <3>6
    <3> QED BY <2>3, <3>7, SameStreamSameLock DEF IInv, PendingOrderInv
  <2>4. ASSUME NEW e \in table', NEW f \in table', e # f, SameStream(e, f)
        PROVE  InOrder(e, f)
    <3>1. CASE e \in table /\ f \in table
      BY <2>4, <3>1 DEF IInv, StreamPositionsGapless
    <3>2. CASE e \in inserted[w] /\ f \in table
      BY <2>2, <2>3, <2>4, <3>2
    <3>3. CASE e \in table /\ f \in inserted[w]
      <4>1. SameStream(f, e)
        BY <2>4 DEF SameStream
      <4> QED BY <2>2, <2>3, <3>3, <4>1
    <3>4. CASE e \in inserted[w] /\ f \in inserted[w]
      <4>1. /\ e.stream \in DOMAIN request[w].streams
            /\ e \in Rows(inserted[w], Target(request[w], e.stream))
            /\ f \in Rows(inserted[w], Target(request[w], e.stream))
        BY <2>4, <3>4, InsertedLocked DEF IInv, Rows, InStream, SameStream, Target
      <4> QED BY <2>1, <2>4, <4>1 DEF IInv, PendingInv, Continues, Writing
    <3> QED BY <2>1, <3>1, <3>2, <3>3, <3>4
  <2>5. ASSUME NEW e \in table', NEW p \in 0 .. e.position
        PROVE  \E f \in table' : SameStream(e, f) /\ f.position = p
    <3>1. CASE e \in table
      BY <2>1, <2>5, <3>1 DEF IInv, StreamPositionsGapless
    <3>2. CASE e \in inserted[w]
      <4> DEFINE s == e.stream
                 l == latest[w][s]
                 n == InsertedInto(w, s)
                 id == Target(request[w], s)
      <4>1. s \in DOMAIN request[w].streams /\ InStream(e, id)
        BY <3>2, InsertedLocked DEF IInv
      <4>2. /\ e.position \in (l + 1) .. (l + n)
            /\ \A q \in (l + 1) .. (l + n) : \E f \in Rows(inserted[w], id) : f.position = q
        BY <2>1, <3>2, <4>1 DEF IInv, PendingInv, Continues, Writing, Rows
      <4>3. l \in Position /\ n \in Nat /\ l \in Int
        BY <4>1, NewRowType, RequestLocks DEF IInv, TypeOK
      <4>4. CASE p > l
        <5>1. p \in (l + 1) .. (l + n)
          BY <4>2, <4>3, <4>4
        <5>2. PICK f \in Rows(inserted[w], id) : f.position = p
          BY <4>2, <5>1
        <5>3. f \in table' /\ SameStream(e, f)
          BY <2>1, <4>1 DEF Rows, InStream, SameStream
        <5> QED BY <5>2, <5>3
      <4>5. CASE p <= l
        <5>1. l # NoPosition /\ l \in Nat
          BY <4>3, <4>5 DEF NoPosition, Position
        <5>2. PICK f \in Rows(table, id) : f.position = l
          BY <2>1, <4>1, <5>1 DEF IInv, ReadInv, IsLastPosition, HasRead, Writing
        <5>3. f \in table /\ p \in 0 .. f.position
          BY <4>5, <5>1, <5>2 DEF Rows
        <5>4. PICK g \in table : SameStream(f, g) /\ g.position = p
          BY <5>3 DEF IInv, StreamPositionsGapless
        <5>5. SameStream(e, g)
          BY <4>1, <5>4 DEF SameStream, Rows, InStream
        <5> QED BY <2>1, <5>4, <5>5
      <4> QED BY <4>3, <4>4, <4>5
    <3> QED BY <2>1, <3>1, <3>2
  <2> QED BY <2>4, <2>5 DEF StreamPositionsGapless
<1>2. CASE UNCHANGED table
  BY <1>2 DEF IInv, StreamPositionsGapless
<1>3. ASSUME NEW w \in Writers,
             Save(w) \/ ObtainWriteLocks(w) \/ ReadLast(w) \/ Enforce(w) \/ InsertRow(w) \/ Ends(w)
      PROVE  UNCHANGED table
  BY <1>3 DEF Save, ObtainWriteLocks, ReadLast, Enforce, InsertRow, Ends, Rollback
<1> QED BY <1>1, <1>2, <1>3, StepKinds DEF vars

-----------------------------------------------------------------------------
(***************************************************************************)
(* The theorems.                                                           *)
(***************************************************************************)
LEMMA InitHolds == ASSUME Init PROVE IInv
<1>1. TypeOK
  BY DEF Init, TypeOK, NothingRead, Position
<1>2. \A w \in Writers : pc[w] = "idle" /\ inserted[w] = {}
  BY DEF Init
<1>3. LockInv /\ ReadInv /\ PendingInv /\ RequestedInv
  BY <1>2 DEF LockInv, ReadInv, PendingInv, RequestedInv, HasRead, Writing
<1>4. RowsInv /\ PendingOrderInv
  BY <1>2, FS_EmptySet DEF RowsInv, PendingOrderInv
<1>5. SequenceInv /\ StreamPositionsGapless
  BY <1>2 DEF Init, SequenceInv, StreamPositionsGapless
<1> QED BY <1>1, <1>3, <1>4, <1>5 DEF IInv

LEMMA InvariantStep == ASSUME IInv, [Next]_vars PROVE IInv'
<1>1. TypeOK' /\ LockInv' /\ RowsInv'
  BY TypeStep, LockStep, RowsStep DEF IInv
<1> QED BY <1>1, SequenceStep, ReadStep, PendingStep, PendingOrderStep, GaplessStep DEF IInv

\* The inductive invariant holds in every reachable state of the adapter.
THEOREM Invariant == Spec => []IInv
BY InitHolds, InvariantStep, PTL DEF Spec

\* Every reachable state of the sessions and the table is well typed.
THEOREM TypeCorrect == Spec => []TypeOK
<1>1. IInv => TypeOK
  BY DEF IInv
<1> QED BY Invariant, <1>1, PTL

\* Without any constraint on positions in the table, the advisory locks give
\* every stream the positions 0, 1, 2, ... in the order of the sequence
\* numbers, whatever concurrent sessions publish, fail or lose.
THEOREM PositionsGapless == Spec => []StreamPositionsGapless
<1>1. IInv => StreamPositionsGapless
  BY DEF IInv
<1> QED BY Invariant, <1>1, PTL

\* A step makes rows visible only behind all visible rows of their scope.
LEMMA VisibleInOrder ==
  ASSUME IInv, [Next]_vars, NEW e \in table' \ table, NEW f \in table, SameScope(e, f)
  PROVE  f.sequence_number < e.sequence_number
<1>1. ASSUME NEW w \in Writers, Commits(w) PROVE f.sequence_number < e.sequence_number
  <2>1. e \in inserted[w]
    BY <1>1 DEF Commits, CommitWith
  <2> QED BY <2>1, SameScopeSameLock DEF IInv, PendingOrderInv
<1>2. ASSUME NEW w \in Writers,
             Save(w) \/ ObtainWriteLocks(w) \/ ReadLast(w) \/ Enforce(w) \/ InsertRow(w) \/ Ends(w)
      PROVE  UNCHANGED table
  BY <1>2 DEF Save, ObtainWriteLocks, ReadLast, Enforce, InsertRow, Ends, Rollback
<1> QED BY <1>1, <1>2, StepKinds DEF vars

\* The serialisation guarantee: within the scope of the adapter's guarantee
\* rows become visible in the order of their sequence numbers, although the
\* numbers are taken before the commit and beside other inserts.
THEOREM CommitsSerialised == Spec => CommitsInOrder
<1>1. IInv /\ [Next]_vars =>
        [\A e \in table' \ table, f \in table :
           SameScope(e, f) => f.sequence_number < e.sequence_number]_vars
  BY VisibleInOrder
<1> QED BY Invariant, <1>1, PTL DEF Spec, CommitsInOrder

-----------------------------------------------------------------------------
(***************************************************************************)
(* Refinement of AtomicEventStore.                                         *)
(***************************************************************************)

\* The last position of a stream of the table is what the abstract store takes
\* for it.
LEMMA LatestVisible ==
  ASSUME TypeOK, NEW id, NEW p \in Position, IsLastPosition(p, id)
  PROVE  Atomic!LatestPosition(Visible, id) = p
<1> DEFINE P == Atomic!PositionsOf(Visible, id)
<1>0. P = {x.position : x \in {f \in Visible : f.category = id.category /\ f.stream = id.stream}}
  BY DEF Atomic!PositionsOf, Atomic!InStream
<1>1. P = {e.position : e \in Rows(table, id)}
  <2>1. ASSUME NEW q \in P PROVE \E e \in Rows(table, id) : q = e.position
    <3>1. PICK x \in Visible : x.category = id.category /\ x.stream = id.stream /\ q = x.position
      BY <1>0, <2>1
    <3>2. PICK e \in table :
            x = [category |-> e.category, stream |-> e.stream,
                 position |-> e.position, payload |-> e.payload]
      BY DEF Visible
    <3> QED BY <3>1, <3>2 DEF Rows, InStream
  <2>2. ASSUME NEW e \in Rows(table, id) PROVE e.position \in P
    <3> DEFINE x == [category |-> e.category, stream |-> e.stream,
                     position |-> e.position, payload |-> e.payload]
    <3>1. x \in Visible /\ e.category = id.category /\ e.stream = id.stream
      BY DEF Visible, Rows, InStream
    <3> QED BY <1>0, <3>1
  <2> HIDE DEF P
  <2> QED BY <2>1, <2>2
<1>2. \A e \in Rows(table, id) : e.position \in Nat
  BY DEF TypeOK, Rows, StoredEvent
<1>3. CASE Rows(table, id) = {}
  <2>1. P = {} /\ p = NoPosition
    BY <1>1, <1>3 DEF IsLastPosition
  <2> QED BY <2>1 DEF Atomic!LatestPosition, NoPosition, Atomic!NoPosition
<1>4. CASE Rows(table, id) # {}
  <2>1. p # NoPosition
    BY <1>2, <1>4 DEF IsLastPosition, NoPosition
  <2>2. p \in P /\ \A q \in P : q <= p
    BY <1>1, <2>1 DEF IsLastPosition
  <2>3. \A q \in P : q \in Nat
    BY <1>1, <1>2
  <2> HIDE DEF P
  <2>4. \A q \in P : (\A r \in P : r <= q) => q = p
    BY <2>2, <2>3
  <2>5. Atomic!LastIndex(P) = p
    BY <2>2, <2>4 DEF Atomic!LastIndex
  <2> QED BY <2>2, <2>5 DEF Atomic!LatestPosition, P
<1> QED BY <1>3, <1>4

\* What the conditions are enforced on is what the abstract store enforces them
\* on, from the read to the end of the transaction.
LEMMA AcceptsVisible ==
  ASSUME IInv, NEW w \in Writers, pc[w] \in HasRead, NEW s \in DOMAIN request[w].streams
  PROVE  /\ Atomic!LatestPosition(Visible, Target(request[w], s)) = latest[w][s]
         /\ Atomic!Accepts(Visible, request[w], s) <=> Accepted(w, s)
<1>1. s \in Streams
  BY RequestLocks DEF IInv, TypeOK
<1>2. latest[w][s] \in Position
  BY <1>1 DEF IInv, TypeOK
<1>3. IsLastPosition(latest[w][s], Target(request[w], s))
  BY DEF IInv, ReadInv
<1>4. Atomic!LatestPosition(Visible, Target(request[w], s)) = latest[w][s]
  BY <1>2, <1>3, LatestVisible DEF IInv
<1> QED BY <1>4 DEF Atomic!Accepts, Accepted, Target, Atomic!Target

\* A commit publishes exactly what the abstract store publishes.
LEMMA CommitPublishes ==
  ASSUME IInv, NEW w \in Writers, Commits(w)
  PROVE  Visible' = Visible \cup Atomic!NewEvents(Visible, w, request[w])
<1> DEFINE Show(e) == [category |-> e.category, stream |-> e.stream,
                       position |-> e.position, payload |-> e.payload]
           r == request[w]
           New == Atomic!NewEvents(Visible, w, r)
<1>1. pc[w] = "committing" /\ table' = table \cup inserted[w]
  BY DEF Commits, CommitWith
<1>2. Visible' = Visible \cup {Show(e) : e \in inserted[w]}
  BY <1>1 DEF Visible
<1>3. New = UNION { { [category |-> r.category, stream |-> s, position |-> p, payload |-> w] :
                        p \in (latest[w][s] + 1) .. (latest[w][s] + r.streams[s].events) } :
                    s \in DOMAIN r.streams }
  <2>1. \A s \in DOMAIN r.streams : Atomic!LatestPosition(Visible, Atomic!Target(r, s)) = latest[w][s]
    BY <1>1, AcceptsVisible DEF HasRead, Writing, Target, Atomic!Target
  <2> QED BY <2>1 DEF Atomic!NewEvents
<1>4. \A s \in DOMAIN r.streams : Continues(w, s) /\ InsertedInto(w, s) = r.streams[s].events
  BY <1>1 DEF IInv, PendingInv, RequestedInv, Writing
<1>5. ASSUME NEW e \in inserted[w] PROVE Show(e) \in New
  <2>1. /\ e.stream \in DOMAIN r.streams /\ InStream(e, Target(r, e.stream))
        /\ e.category = r.category /\ e.payload = w
    BY InsertedLocked DEF IInv, RowsInv
  <2>2. e.position \in (latest[w][e.stream] + 1) .. (latest[w][e.stream] + r.streams[e.stream].events)
    BY <1>4, <2>1 DEF Continues, Rows
  <2> QED BY <1>3, <2>1, <2>2
<1>6. ASSUME NEW x \in New PROVE \E e \in inserted[w] : x = Show(e)
  <2>0. PICK s \in DOMAIN r.streams :
          \E p \in (latest[w][s] + 1) .. (latest[w][s] + r.streams[s].events) :
            x = [category |-> r.category, stream |-> s, position |-> p, payload |-> w]
    BY <1>3, <1>6
  <2>1. PICK p \in (latest[w][s] + 1) .. (latest[w][s] + r.streams[s].events) :
          x = [category |-> r.category, stream |-> s, position |-> p, payload |-> w]
    BY <2>0
  <2>2. PICK e \in Rows(inserted[w], Target(r, s)) : e.position = p
    BY <1>4, <2>1 DEF Continues
  <2>3. e \in inserted[w] /\ e.category = r.category /\ e.stream = s /\ e.payload = w
    BY DEF Rows, InStream, Target, IInv, RowsInv
  <2> QED BY <2>1, <2>2, <2>3
<1> HIDE DEF New
<1>7. New = {Show(e) : e \in inserted[w]}
  BY <1>5, <1>6
<1> QED BY <1>2, <1>7 DEF New

LEMMA RefinementStep ==
  ASSUME IInv, [Next]_vars
  PROVE  [Atomic!Next]_(Atomic!vars)
<1> USE DEF IInv, TypeOK, InTransaction, Ended
<1>a. ASSUME UNCHANGED table PROVE Visible' = Visible
  BY <1>a DEF Visible
<1>b. ASSUME NEW w \in Writers, NEW to, pc' = [pc EXCEPT ![w] = to]
      PROVE  Outcome' = [Outcome EXCEPT ![w] =
                           IF to \in InTransaction THEN "pending"
                           ELSE IF to = "failed" THEN "cancelled" ELSE to]
  BY <1>b DEF Outcome
<1>c. ASSUME NEW w \in Writers, NEW to \in InTransaction, pc[w] \in InTransaction,
             pc' = [pc EXCEPT ![w] = to], UNCHANGED <<table, request>>
      PROVE  UNCHANGED Atomic!vars
  BY <1>a, <1>b, <1>c DEF Outcome, Atomic!vars
<1>1. ASSUME NEW w \in Writers, Save(w) PROVE Atomic!Call(w)
  BY <1>1, <1>a, <1>b DEF Save, Atomic!Call, Outcome
<1>2. ASSUME NEW w \in Writers, ObtainWriteLocks(w) PROVE UNCHANGED Atomic!vars
  <2>1. \/ pc' = [pc EXCEPT ![w] = "reading"] \/ pc' = [pc EXCEPT ![w] = "locking"]
    BY <1>2, ObtainFacts
  <2> QED BY <1>2, <2>1, <1>c DEF ObtainWriteLocks
<1>3. ASSUME NEW w \in Writers, ReadLast(w) PROVE UNCHANGED Atomic!vars
  BY <1>3, <1>c DEF ReadLast
<1>4. ASSUME NEW w \in Writers, Enforce(w) PROVE UNCHANGED Atomic!vars
  BY <1>4, <1>c DEF Enforce
<1>5. ASSUME NEW w \in Writers, InsertRow(w) PROVE UNCHANGED Atomic!vars
  <2>1. \/ pc' = [pc EXCEPT ![w] = "committing"] \/ pc' = [pc EXCEPT ![w] = "inserting"]
    BY <1>5, InsertFacts
  <2> QED BY <1>5, <2>1, <1>c DEF InsertRow
<1>6. ASSUME NEW w \in Writers, NEW to \in {"saved", "failed"}, CommitWith(w, to)
      PROVE  Atomic!PublishWith(w, IF to = "failed" THEN "cancelled" ELSE to)
  <2>1. pc[w] = "committing" /\ pc' = [pc EXCEPT ![w] = to] /\ request' = request
    BY <1>6 DEF CommitWith
  <2>2. \A s \in DOMAIN request[w].streams : Atomic!Accepts(Visible, request[w], s)
    BY <2>1, AcceptsVisible DEF HasRead, Writing, RequestedInv, ConditionsMet
  <2>3. Visible' = Visible \cup Atomic!NewEvents(Visible, w, request[w])
    BY <1>6, CommitPublishes DEF Commits
  <2>4. Outcome[w] = "pending" /\ Outcome' = [Outcome EXCEPT ![w] = IF to = "failed" THEN "cancelled" ELSE to]
    BY <2>1, <1>b DEF Outcome
  <2> QED BY <2>1, <2>2, <2>3, <2>4 DEF Atomic!PublishWith
<1>10. ASSUME NEW w \in Writers, Commit(w) PROVE Atomic!Publish(w)
  BY <1>6, <1>10 DEF Commit, Atomic!Publish
<1>11. ASSUME NEW w \in Writers, CommitUnanswered(w) PROVE Atomic!PublishUnanswered(w)
  BY <1>6, <1>11 DEF CommitUnanswered, Atomic!PublishUnanswered
<1>7. ASSUME NEW w \in Writers, ConditionUnmet(w) PROVE Atomic!Reject(w)
  <2>1. pc[w] = "enforcing" /\ pc' = [pc EXCEPT ![w] = "rejected"] /\ UNCHANGED <<table, request>>
    BY <1>7 DEF ConditionUnmet, Rollback
  <2>2. \E s \in DOMAIN request[w].streams : ~Atomic!Accepts(Visible, request[w], s)
    BY <1>7, <2>1, AcceptsVisible DEF HasRead, ConditionUnmet, ConditionsMet
  <2>3. Outcome[w] = "pending" /\ Outcome' = [Outcome EXCEPT ![w] = "rejected"]
    BY <2>1, <1>b DEF Outcome
  <2> QED BY <2>1, <2>2, <2>3, <1>a DEF Atomic!Reject
<1>8. ASSUME NEW w \in Writers, InsertFails(w) \/ Fail(w) PROVE Atomic!Abandon(w)
  <2>1. pc[w] \in InTransaction /\ pc' = [pc EXCEPT ![w] = "failed"] /\ UNCHANGED <<table, request>>
    BY <1>8 DEF InsertFails, Fail, Rollback
  <2>2. Outcome[w] = "pending" /\ Outcome' = [Outcome EXCEPT ![w] = "cancelled"]
    BY <2>1, <1>b DEF Outcome
  <2> QED BY <2>1, <2>2, <1>a DEF Atomic!Abandon
<1>9. CASE UNCHANGED vars
  BY <1>9, <1>a DEF vars, Atomic!vars, Outcome
<1> QED BY <1>1, <1>2, <1>3, <1>4, <1>5, <1>7, <1>8, <1>9, <1>10, <1>11
        DEF Next, Step, Atomic!Next

LEMMA RefinementInit == ASSUME Init PROVE Atomic!Init
BY DEF Init, Atomic!Init, Visible, Outcome, InTransaction

\* save is atomic: with its locks, its read, its insert and its commit in
\* separate statements, and sessions lost between any two of them, every save
\* acts as one step of the abstract store, its write conditions true of the
\* streams as they are in that very step.
THEOREM SaveIsAtomic == Spec => AtomicSpec
<1>1. Init => Atomic!Init
  BY RefinementInit
<1>2. IInv /\ [Next]_vars => [Atomic!Next]_(Atomic!vars)
  BY RefinementStep
<1> QED BY Invariant, <1>1, <1>2, PTL DEF Spec, AtomicSpec, Atomic!Spec

-----------------------------------------------------------------------------
(***************************************************************************)
(* EventStoreTransactions: what holds of single saves holds of decorated   *)
(* handlers that are called again, and the answer of a decorated call is   *)
(* true.                                                                   *)
(***************************************************************************)
\* Whatever a handler has read, what it publishes is a request.
ReactionsAreRequests == \A p \in Position : Reaction(p) \in Requests

-----------------------------------------------------------------------------
(***************************************************************************)
(* The invariant: a call whose last try was saved has stored its events,   *)
(* and its result says so; one whose session failed has stored all of them *)
(* or none; any other has stored none.                                     *)
(***************************************************************************)
AnswerInv ==
  \A w \in Writers :
    /\ pc[w] \notin {"saved", "failed"} => Own(w) = {}
    /\ pc[w] = "saved" => StoredOnce(w)
    /\ pc[w] = "failed" => Own(w) = {} \/ StoredOnce(w)
    /\ result[w] = "returned" => pc[w] = "saved"
    /\ result[w] = "raised" => pc[w] \in {"rejected", "failed"}
    /\ result[w] = "ignored" => pc[w] = "rejected"

TransactionTypeOK == result \in [Writers -> {"pending", "returned", "raised", "ignored"}]

TransactionInv == IInv /\ TransactionTypeOK /\ AnswerInv

-----------------------------------------------------------------------------
\* A step of the decorators is a step of the adapter, or a handler is called,
\* or called again after a rejection, or the call is concluded.
Prepares(w) ==
  /\ pc[w] \in {"idle", "rejected"}
  /\ pc' = [pc EXCEPT ![w] = "idle"]
  /\ \E r \in Requests : request' = [request EXCEPT ![w] = r]
  /\ UNCHANGED <<table, sequence, holder, required, latest, inserted, result>>

LEMMA TransactionKinds ==
  ASSUME ReactionsAreRequests, IInv, TransactionNext
  PROVE  \/ [Next]_vars /\ UNCHANGED result
         \/ \E w \in Writers : Prepares(w) /\ (result[w] = "pending" \/ pc[w] = "idle")
         \/ \E w \in Writers : Conclude(w)
<1>1. ASSUME NEW w \in Writers, Handle(w) PROVE Prepares(w) /\ pc[w] = "idle"
  <2>1. read_last(HandlerStream) \in Position
    BY ReadLastIsLast DEF IInv
  <2>2. Reaction(read_last(HandlerStream)) \in Requests /\ request[w] \in Requests
    BY <2>1 DEF ReactionsAreRequests, IInv, TypeOK
  <2>3. pc' = [pc EXCEPT ![w] = "idle"]
    BY <1>1 DEF Handle, IInv, TypeOK
  <2> QED BY <1>1, <2>2, <2>3 DEF Handle, Prepares
<1>2. ASSUME NEW w \in Writers, Retry(w) PROVE Prepares(w) /\ result[w] = "pending"
  <2>1. request[w] \in Requests /\ request' = [request EXCEPT ![w] = request[w]]
    BY <1>2 DEF Retry, IInv, TypeOK
  <2> QED BY <1>2, <2>1 DEF Retry, Retriable, Prepares
<1>3. ASSUME NEW w \in Writers, PublishHandled(w) \/ (Step(w) /\ UNCHANGED transaction)
                               \/ ((Fail(w) \/ CommitUnanswered(w)) /\ UNCHANGED transaction)
      PROVE  Next /\ UNCHANGED result
  BY <1>3 DEF PublishHandled, Next, transaction
<1> QED BY <1>1, <1>2, <1>3 DEF TransactionNext, Transact

\* A session that is not in a transaction may be given another request.
LEMMA PrepareKeeps ==
  ASSUME IInv, NEW w \in Writers, Prepares(w)
  PROVE  IInv'
<1> USE DEF IInv, TypeOK
<1>1. /\ UNCHANGED <<table, sequence, holder, required, latest, inserted>>
      /\ pc[w] \in {"idle", "rejected"} /\ pc'[w] = "idle"
      /\ inserted[w] = {}
      /\ request' \in [Writers -> Requests]
      /\ pc' \in [Writers -> Ended \cup InTransaction \cup {"idle"}]
      /\ \A v \in Writers \ {w} : pc'[v] = pc[v] /\ request'[v] = request[v]
  BY DEF Prepares, RowsInv, Writing
<1>2. TypeOK'
  BY <1>1
<1>3. LockInv' /\ RowsInv'
  <2>1. LockInv'
    BY <1>1 DEF LockInv, HasRead, Writing
  <2>2. RowsInv'
    BY <1>1 DEF RowsInv, Writing
  <2> QED BY <2>1, <2>2
<1>4. SequenceInv' /\ PendingOrderInv' /\ StreamPositionsGapless'
  BY <1>1 DEF SequenceInv, Numbered, PendingOrderInv, StreamPositionsGapless
<1>5. ReadInv'
  BY <1>1 DEF ReadInv, IsLastPosition, HasRead, Writing
<1>6. PendingInv' /\ RequestedInv'
  <2>1. \A v \in Writers \ {w} :
          /\ \A s : Continues(v, s)' <=> Continues(v, s)
          /\ \A s : InsertedInto(v, s)' = InsertedInto(v, s)
          /\ ConditionsMet(v)' <=> ConditionsMet(v)
    BY <1>1, OwnStateOnly
  <2> QED BY <1>1, <2>1 DEF PendingInv, RequestedInv, Writing
<1> QED BY <1>2, <1>3, <1>4, <1>5, <1>6

LEMMA AdapterInvariantStep ==
  ASSUME ReactionsAreRequests, IInv, [TransactionNext]_<<vars, transaction>>
  PROVE  IInv'
<1>1. CASE UNCHANGED <<vars, transaction>>
  BY <1>1, InvariantStep
<1>2. ASSUME NEW w \in Writers, Conclude(w) PROVE IInv'
  BY <1>2, InvariantStep DEF Conclude
<1> QED BY <1>1, <1>2, TransactionKinds, PrepareKeeps, InvariantStep

-----------------------------------------------------------------------------
\* What a session stores is stored by its commit, once and completely.
LEMMA CommitStores ==
  ASSUME IInv, AnswerInv, NEW w \in Writers, Commits(w)
  PROVE  /\ \A v \in Writers \ {w} : Own(v)' = Own(v)
         /\ StoredOnce(w)'
<1>1. table' = table \cup inserted[w] /\ pc[w] = "committing" /\ request' = request
  BY DEF Commits, CommitWith
<1>2. \A e \in inserted[w] : e.payload = w
  BY DEF IInv, RowsInv
<1>3. \A v \in Writers \ {w} : Own(v)' = Own(v)
  BY <1>1, <1>2 DEF Own
<1>4. Own(w) = {}
  BY <1>1 DEF AnswerInv
<1>5. Own(w)' = inserted[w]
  BY <1>1, <1>2, <1>4 DEF Own
<1>6. \A s \in DOMAIN request[w].streams : InsertedInto(w, s) = request[w].streams[s].events
  BY <1>1 DEF IInv, RequestedInv
<1>7. StoredOnce(w)'
  BY <1>1, <1>5, <1>6 DEF InsertedInto, StoredOnce, Target, Rows
<1> QED BY <1>3, <1>7

LEMMA AnswerStep ==
  ASSUME ReactionsAreRequests, TransactionInv, [TransactionNext]_<<vars, transaction>>
  PROVE  TransactionTypeOK' /\ AnswerInv'
<1> USE DEF TransactionInv, TransactionTypeOK
<1>a. ASSUME UNCHANGED table PROVE \A w \in Writers : Own(w)' = Own(w)
  BY <1>a DEF Own
<1>b. ASSUME NEW w \in Writers, Own(w)' = Own(w), request'[w] = request[w]
      PROVE  StoredOnce(w)' <=> StoredOnce(w)
  BY <1>b DEF StoredOnce, Target
<1>1. CASE UNCHANGED <<vars, transaction>>
  BY <1>1, <1>a, <1>b DEF vars, transaction, AnswerInv
<1>2. ASSUME NEW w \in Writers, Conclude(w) PROVE TransactionTypeOK' /\ AnswerInv'
  <2>1. UNCHANGED vars /\ pc[w] \in Ended /\ result[w] = "pending"
    BY <1>2 DEF Conclude
  <2>2. UNCHANGED <<table, pc, request>>
    BY <2>1 DEF vars
  <2>3. /\ result'[w] = IF pc[w] = "saved" THEN "returned"
                        ELSE IF pc[w] = "rejected" /\ Decorator[w] = "ignore" THEN "ignored"
                        ELSE "raised"
        /\ \A v \in Writers \ {w} : result'[v] = result[v]
        /\ TransactionTypeOK'
    BY <1>2 DEF Conclude
  <2>4. \A v \in Writers : Own(v)' = Own(v)
    BY <1>a, <2>2
  <2> QED BY <1>b, <2>1, <2>2, <2>3, <2>4 DEF AnswerInv, Ended
<1>3. ASSUME NEW w \in Writers, Prepares(w), result[w] = "pending" \/ pc[w] = "idle"
      PROVE  TransactionTypeOK' /\ AnswerInv'
  <2>1. /\ UNCHANGED <<table, result>> /\ pc[w] \in {"idle", "rejected"} /\ pc'[w] = "idle"
        /\ \A v \in Writers \ {w} : pc'[v] = pc[v] /\ request'[v] = request[v]
    BY <1>3 DEF Prepares, IInv, TypeOK
  <2>2. result[w] = "pending"
    BY <1>3, <2>1 DEF AnswerInv
  <2>3. \A v \in Writers : Own(v)' = Own(v)
    BY <1>a, <2>1
  <2> QED BY <1>b, <2>1, <2>2, <2>3 DEF AnswerInv
<1>4. ASSUME Next, UNCHANGED result PROVE TransactionTypeOK' /\ AnswerInv'
  <2>1. ASSUME NEW w \in Writers, Commits(w) PROVE AnswerInv'
    <3>1. /\ pc[w] = "committing" /\ pc'[w] \in {"saved", "failed"} /\ UNCHANGED request
          /\ \A v \in Writers \ {w} : pc'[v] = pc[v]
      BY <2>1 DEF Commits, CommitWith, IInv, TypeOK
    <3>2. result[w] \notin {"returned", "raised", "ignored"}
      BY <3>1 DEF AnswerInv
    <3>3. StoredOnce(w)' /\ \A v \in Writers \ {w} : Own(v)' = Own(v)
      BY <2>1, CommitStores
    <3>4. \A v \in Writers \ {w} : StoredOnce(v)' <=> StoredOnce(v)
      BY <1>b, <3>1, <3>3
    <3> QED BY <1>4, <3>1, <3>2, <3>3, <3>4 DEF AnswerInv
  <2>2. ASSUME NEW w \in Writers, UNCHANGED <<table, request>>,
               \A v \in Writers \ {w} : pc'[v] = pc[v],
               pc[w] \in InTransaction \cup {"idle"}, pc'[w] # "saved"
        PROVE  AnswerInv'
    <3>1. \A v \in Writers : Own(v)' = Own(v)
      BY <1>a, <2>2
    <3>2. result[w] \notin {"returned", "raised", "ignored"} /\ Own(w) = {}
      BY <2>2 DEF AnswerInv, InTransaction
    <3>3. \A v \in Writers : StoredOnce(v)' <=> StoredOnce(v)
      BY <1>b, <2>2, <3>1
    <3> QED BY <1>4, <2>2, <3>1, <3>2, <3>3 DEF AnswerInv
  <2>3. ASSUME NEW w \in Writers,
               Save(w) \/ ObtainWriteLocks(w) \/ ReadLast(w) \/ Enforce(w) \/ InsertRow(w)
               \/ ConditionUnmet(w) \/ InsertFails(w) \/ Fail(w)
        PROVE  /\ UNCHANGED <<table, request>>
               /\ \A v \in Writers \ {w} : pc'[v] = pc[v]
               /\ pc[w] \in InTransaction \cup {"idle"} /\ pc'[w] # "saved"
    <3> USE DEF IInv, TypeOK, InTransaction
    <3>1. CASE Save(w)
      BY <3>1 DEF Save
    <3>2. CASE ObtainWriteLocks(w)
      BY <3>2, ObtainFacts DEF ObtainWriteLocks
    <3>3. CASE ReadLast(w)
      BY <3>3 DEF ReadLast
    <3>4. CASE Enforce(w)
      BY <3>4 DEF Enforce
    <3>5. CASE InsertRow(w)
      BY <3>5, InsertFacts DEF InsertRow
    <3>6. CASE ConditionUnmet(w) \/ InsertFails(w) \/ Fail(w)
      BY <3>6 DEF ConditionUnmet, InsertFails, Fail, Rollback
    <3> QED BY <2>3, <3>1, <3>2, <3>3, <3>4, <3>5, <3>6
  <2>4. AnswerInv'
    BY <1>4, <2>1, <2>2, <2>3, CommitKinds DEF Next, Step
  <2> QED BY <1>4, <2>4
<1>5. CASE UNCHANGED vars /\ UNCHANGED result
  BY <1>5, <1>a, <1>b DEF vars, AnswerInv
<1> QED BY <1>1, <1>2, <1>3, <1>4, <1>5, TransactionKinds

-----------------------------------------------------------------------------
LEMMA TransactionInitHolds ==
  ASSUME Init, TransactionInit PROVE TransactionInv
<1>1. \A w \in Writers : pc[w] = "idle" /\ Own(w) = {} /\ result[w] = "pending"
  BY DEF Init, TransactionInit, Own
<1> QED BY <1>1, InitHolds DEF TransactionInit, TransactionInv, TransactionTypeOK, AnswerInv

LEMMA TransactionInvStep ==
  ASSUME ReactionsAreRequests, TransactionInv, [TransactionNext]_<<vars, transaction>>
  PROVE  TransactionInv'
BY AdapterInvariantStep, AnswerStep DEF TransactionInv

\* The invariants of the adapter and of the decorators hold in every reachable
\* state, however often handlers are called again.
THEOREM TransactionInvariant ==
  ASSUME ReactionsAreRequests
  PROVE  TransactionSpec => []TransactionInv
<1>1. Init /\ TransactionInit => TransactionInv
  BY TransactionInitHolds
<1>2. TransactionInv /\ [TransactionNext]_<<vars, transaction>> => TransactionInv'
  BY TransactionInvStep
<1> QED BY <1>1, <1>2, PTL DEF TransactionSpec

\* The answer of a decorated call is the truth: over all its tries it has
\* stored the events of its request exactly once if it returns, and nothing if
\* it raises or ignores an unmet condition.  If it raises because the session
\* failed, in any statement or with the answer to the commit, it has stored all
\* of its request once or nothing of it, and never a part.
THEOREM AnswersAreTrue ==
  ASSUME ReactionsAreRequests
  PROVE  TransactionSpec => []StoredAsAnswered
<1>1. TransactionInv => StoredAsAnswered
  <2> SUFFICES ASSUME TransactionInv, NEW w \in Writers
               PROVE  /\ result[w] = "returned" => StoredOnce(w)
                      /\ result[w] = "ignored" \/ (result[w] = "raised" /\ pc[w] = "rejected") => Own(w) = {}
                      /\ result[w] = "raised" => Own(w) = {} \/ StoredOnce(w)
    BY DEF StoredAsAnswered
  <2> QED BY DEF TransactionInv, AnswerInv
<1> QED BY TransactionInvariant, <1>1, PTL

\* Retried and conditional publishes leave every stream gapless, too.
THEOREM RetriesKeepPositionsGapless ==
  ASSUME ReactionsAreRequests
  PROVE  TransactionSpec => []StreamPositionsGapless
<1>1. TransactionInv => StreamPositionsGapless
  BY DEF TransactionInv, IInv
<1> QED BY TransactionInvariant, <1>1, PTL

\* A handler that is called, or called again, prepares a request of the
\* abstract store; to conclude a call is no step of it.
LEMMA TransactionRefinementStep ==
  ASSUME ReactionsAreRequests, IInv, [TransactionNext]_<<vars, transaction>>
  PROVE  [Atomic!Next]_(Atomic!vars)
<1>1. ASSUME NEW w \in Writers, Prepares(w) PROVE Atomic!Prepare(w)
  <2>1. Outcome[w] = pc[w] /\ Outcome' = [Outcome EXCEPT ![w] = "idle"] /\ Visible' = Visible
    BY <1>1 DEF Prepares, Outcome, Visible, InTransaction, IInv, TypeOK
  <2> QED BY <1>1, <2>1 DEF Prepares, Atomic!Prepare
<1>2. CASE UNCHANGED vars
  BY <1>2, RefinementStep
<1>3. ASSUME NEW w \in Writers, Conclude(w) PROVE UNCHANGED vars
  BY <1>3 DEF Conclude
<1> QED BY <1>1, <1>2, <1>3, TransactionKinds, RefinementStep DEF Atomic!Next

\* Decorated transactions implement the abstract store: each try is one atomic
\* step, and the handler's condition holds in the step that stores its events,
\* although what the handler read is stale by then.
THEOREM TransactionsAreAtomic ==
  ASSUME ReactionsAreRequests
  PROVE  TransactionSpec => AtomicSpec
<1>1. Init => Atomic!Init
  BY RefinementInit
<1>2. TransactionInv /\ [TransactionNext]_<<vars, transaction>> => [Atomic!Next]_(Atomic!vars)
  BY TransactionRefinementStep DEF TransactionInv
<1> QED BY TransactionInvariant, <1>1, <1>2, PTL DEF TransactionSpec, AtomicSpec, Atomic!Spec

-----------------------------------------------------------------------------
(***************************************************************************)
(* RetriesSuffice.  Each time a handler is rejected, another writer has    *)
(* committed since the handler read, and is done with it: the tries of a   *)
(* handler never exceed the number of the others that are done, saved or   *)
(* failed, but for the one under way, and that one is rejected only after  *)
(* one more of them is.                                                    *)
(***************************************************************************)
\* What a handler publishes goes to the stream it has read, under a condition
\* that holds as long as the stream's last event is the one it has read.
ReactsToWhatItReads ==
  \A p \in Position :
    /\ Reaction(p).category = HandlerStream.category
    /\ DOMAIN Reaction(p).streams = {HandlerStream.stream}
    /\ Satisfied(Reaction(p).streams[HandlerStream.stream].condition, p)

OthersDone(w) == {v \in Writers \ {w} : pc[v] \in {"saved", "failed"}}

UnderWay(w) == (pc[w] = "idle" /\ ready[w]) \/ pc[w] \in InTransaction

\* The condition of the handler's request still holds.
StillTrue(w) ==
  Satisfied(request[w].streams[HandlerStream.stream].condition, read_last(HandlerStream))

\* No try of the handler has been in vain without another writer's commit.
Excused(w) == attempts[w] <= Cardinality(OthersDone(w))

TriesOK(w) ==
  /\ \E p \in Position : request[w] = Reaction(p)
  /\ pc[w] = "rejected" => Excused(w)
  /\ pc[w] = "idle" /\ ~ready[w] => Excused(w)
  /\ UnderWay(w) =>
       /\ attempts[w] <= Cardinality(OthersDone(w)) + 1
       /\ StillTrue(w) \/ Excused(w)

\* An error that is passed on was that of the last try.
LastTryInv ==
  \A w \in Writers :
    Decorator[w] = "retry" /\ result[w] = "raised" /\ pc[w] = "rejected" =>
      Tries <= attempts[w]

RetryInv ==
  /\ attempts \in [Writers -> Nat] /\ ready \in [Writers -> BOOLEAN]
  /\ LastTryInv
  /\ \A w \in Handlers : TriesOK(w)

-----------------------------------------------------------------------------
LEMMA OthersDoneFacts ==
  ASSUME IsFiniteSet(Writers), NEW w \in Writers
  PROVE  /\ Cardinality(OthersDone(w)) \in Nat
         /\ Cardinality(Writers) \in Nat
         /\ Cardinality(OthersDone(w)) < Cardinality(Writers)
<1>1. OthersDone(w) \subseteq Writers /\ OthersDone(w) # Writers
  BY DEF OthersDone
<1> QED BY <1>1, FS_Subset, FS_CardinalityType

\* A commit of another writer excuses one try more.
LEMMA CommitExcuses ==
  ASSUME IsFiniteSet(Writers), TypeOK, NEW w \in Writers, NEW v \in Writers \ {w}, Commits(v)
  PROVE  Cardinality(OthersDone(w))' = Cardinality(OthersDone(w)) + 1
<1>1. OthersDone(w)' = OthersDone(w) \cup {v} /\ v \notin OthersDone(w)
  BY DEF OthersDone, Commits, CommitWith, TypeOK
<1>2. IsFiniteSet(OthersDone(w))
  BY FS_Subset DEF OthersDone
<1> QED BY <1>1, <1>2, FS_AddElement

\* A rejected handler has seen another last event in its transaction than the
\* one it had read.
LEMMA RejectedIsStale ==
  ASSUME ReactsToWhatItReads, IInv, NEW w \in Handlers, TriesOK(w), ConditionUnmet(w)
  PROVE  ~StillTrue(w)
<1> DEFINE s == HandlerStream.stream
<1>1. w \in Writers
  BY HandlersAssumption
<1>2. PICK p \in Position : request[w] = Reaction(p)
  BY DEF TriesOK
<1>3. DOMAIN request[w].streams = {s} /\ Target(request[w], s) = HandlerStream
  BY <1>2, HandlerStreamAssumption DEF ReactsToWhatItReads, Target, StreamIdentifier
<1>4. ~Accepted(w, s) /\ pc[w] \in HasRead
  BY <1>3 DEF ConditionUnmet, ConditionsMet, HasRead
<1>5. IsLastPosition(latest[w][s], HandlerStream)
  BY <1>1, <1>3, <1>4 DEF IInv, ReadInv
<1>6. latest[w][s] \in Position
  BY <1>1, HandlerStreamAssumption DEF IInv, TypeOK, StreamIdentifier
<1>7. read_last(HandlerStream) = latest[w][s]
  BY <1>5, <1>6, ReadLastIsLast, LastPositionUnique DEF IInv
<1> QED BY <1>4, <1>7 DEF Accepted, StillTrue

-----------------------------------------------------------------------------
Moves(w) == Transact(w) \/ ((Fail(w) \/ CommitUnanswered(w)) /\ UNCHANGED transaction)

\* A step of one writer, as the others see it.
LEMMA MoveFacts ==
  ASSUME IInv, RetryInv, TransactionTypeOK, NEW w \in Writers, Moves(w)
  PROVE  /\ \A v \in Writers \ {w} :
              /\ pc'[v] = pc[v] /\ request'[v] = request[v]
              /\ attempts'[v] = attempts[v] /\ ready'[v] = ready[v] /\ result'[v] = result[v]
         /\ Commits(w) \/ (UNCHANGED table /\ (pc[w] \in {"saved", "failed"} => pc'[w] = pc[w]))
         /\ attempts' \in [Writers -> Nat] /\ ready' \in [Writers -> BOOLEAN]
<1> USE DEF IInv, TypeOK, RetryInv, TransactionTypeOK, transaction, InTransaction
<1>1. CASE Handle(w)
  BY <1>1 DEF Handle
<1>2. CASE Retry(w)
  BY <1>2 DEF Retry, Retriable
<1>3. CASE Conclude(w)
  BY <1>3 DEF Conclude, vars
<1>4. CASE PublishHandled(w)
  BY <1>4 DEF PublishHandled, Save
<1>5. CASE ObtainWriteLocks(w) /\ UNCHANGED transaction
  BY <1>5, ObtainFacts DEF ObtainWriteLocks
<1>6. CASE ReadLast(w) /\ UNCHANGED transaction
  BY <1>6 DEF ReadLast
<1>7. CASE Enforce(w) /\ UNCHANGED transaction
  BY <1>7 DEF Enforce
<1>8. CASE InsertRow(w) /\ UNCHANGED transaction
  BY <1>8, InsertFacts DEF InsertRow
<1>9. CASE Commits(w) /\ UNCHANGED transaction
  BY <1>9 DEF Commits, CommitWith
<1>10. CASE (ConditionUnmet(w) \/ InsertFails(w) \/ Fail(w)) /\ UNCHANGED transaction
  BY <1>10 DEF ConditionUnmet, InsertFails, Fail, Rollback
<1> QED BY <1>1, <1>2, <1>3, <1>4, <1>5, <1>6, <1>7, <1>8, <1>9, <1>10, CommitKinds DEF Moves, Transact, Step

\* Whatever another writer does, a handler's tries stay accounted for.
LEMMA OthersMove ==
  ASSUME IsFiniteSet(Writers), IInv, RetryInv, TransactionTypeOK, NEW w \in Writers, Moves(w),
         NEW x \in Handlers \ {w}
  PROVE  TriesOK(x)'
<1>1. x \in Writers \ {w}
  BY HandlersAssumption
<1>2. /\ pc'[x] = pc[x] /\ request'[x] = request[x]
      /\ attempts'[x] = attempts[x] /\ ready'[x] = ready[x]
  BY <1>1, MoveFacts
<1>3. TriesOK(x) /\ attempts[x] \in Nat /\ Cardinality(OthersDone(x)) \in Nat
  BY <1>1, OthersDoneFacts DEF RetryInv
<1>4. UnderWay(x)' <=> UnderWay(x)
  BY <1>2 DEF UnderWay
<1>5. CASE Commits(w)
  <2>1. Cardinality(OthersDone(x))' = Cardinality(OthersDone(x)) + 1
    BY <1>1, <1>5, CommitExcuses DEF IInv
  <2> QED BY <1>2, <1>3, <1>4, <2>1 DEF TriesOK, Excused
<1>6. CASE UNCHANGED table /\ (pc[w] \in {"saved", "failed"} => pc'[w] = pc[w])
  <2>1. OthersDone(x) \subseteq OthersDone(x)' /\ OthersDone(x)' \subseteq Writers
    BY <1>6, MoveFacts DEF OthersDone
  <2>2. StillTrue(x)' <=> StillTrue(x)
    BY <1>2, <1>6 DEF StillTrue, read_last
  <2>3. IsFiniteSet(OthersDone(x)')
    BY <2>1, FS_Subset
  <2>4. Cardinality(OthersDone(x)') \in Nat /\ Cardinality(OthersDone(x)) <= Cardinality(OthersDone(x)')
    BY <2>1, <2>3, FS_Subset, FS_CardinalityType
  <2> QED BY <1>2, <1>3, <1>4, <2>2, <2>4 DEF TriesOK, Excused
<1> QED BY <1>5, <1>6, MoveFacts

LEMMA HandlerMoves ==
  ASSUME ReactsToWhatItReads, IsFiniteSet(Writers), IInv, RetryInv, TransactionTypeOK,
         NEW w \in Handlers, Moves(w)
  PROVE  TriesOK(w)'
<1>1. w \in Writers /\ TriesOK(w) /\ attempts[w] \in Nat /\ ready[w] \in BOOLEAN
  BY HandlersAssumption DEF RetryInv
<1>2. OthersDone(w)' = OthersDone(w) /\ Cardinality(OthersDone(w)) \in Nat
  BY <1>1, MoveFacts, OthersDoneFacts DEF OthersDone
<1>3. PICK p \in Position : request[w] = Reaction(p)
  BY <1>1 DEF TriesOK
<1> DEFINE n == Cardinality(OthersDone(w))
<1>4. n \in Nat /\ Cardinality(OthersDone(w))' = n
  BY <1>2
<1> HIDE DEF n
<1>a. TriesOK(w)' <=>
        /\ \E q \in Position : request'[w] = Reaction(q)
        /\ pc'[w] = "rejected" => attempts'[w] <= n
        /\ pc'[w] = "idle" /\ ~ready'[w] => attempts'[w] <= n
        /\ UnderWay(w)' => attempts'[w] <= n + 1 /\ (StillTrue(w)' \/ attempts'[w] <= n)
  BY <1>4 DEF TriesOK, Excused, n
<1>b. /\ pc[w] = "rejected" => attempts[w] <= n
      /\ pc[w] = "idle" /\ ~ready[w] => attempts[w] <= n
      /\ UnderWay(w) => attempts[w] <= n + 1 /\ (StillTrue(w) \/ attempts[w] <= n)
  BY <1>1 DEF TriesOK, Excused, n
<1>c. ASSUME UNCHANGED table, request'[w] = request[w] PROVE StillTrue(w)' <=> StillTrue(w)
  BY <1>c DEF StillTrue, read_last
<1> USE DEF IInv, TypeOK, RetryInv, InTransaction, UnderWay
<1>5. CASE Handle(w)
  <2>1. read_last(HandlerStream) \in Position
    BY ReadLastIsLast
  <2>2. /\ request'[w] = Reaction(read_last(HandlerStream)) /\ UNCHANGED table
        /\ pc[w] = "idle" /\ pc'[w] = "idle" /\ ~ready[w] /\ ready'[w]
        /\ attempts'[w] = attempts[w] + 1
    BY <1>1, <1>5 DEF Handle
  <2>3. StillTrue(w)'
    BY <2>1, <2>2 DEF StillTrue, read_last, ReactsToWhatItReads
  <2> QED BY <1>1, <1>4, <1>a, <1>b, <2>1, <2>2, <2>3
<1>6. CASE Retry(w)
  <2>1. /\ pc[w] = "rejected" /\ pc'[w] = "idle" /\ ~ready'[w]
        /\ UNCHANGED <<request, attempts>>
    BY <1>1, <1>6 DEF Retry, Retriable
  <2> QED BY <1>3, <1>a, <1>b, <2>1
<1>7. CASE Conclude(w)
  <2>1. UNCHANGED <<table, pc, request, attempts, ready>>
    BY <1>7 DEF Conclude, vars
  <2> QED BY <1>3, <1>a, <1>b, <1>c, <2>1
<1>8. CASE \/ PublishHandled(w)
           \/ (ObtainWriteLocks(w) \/ ReadLast(w) \/ Enforce(w) \/ InsertRow(w))
              /\ UNCHANGED transaction
  <2>1. UNCHANGED <<table, request, attempts, ready>> /\ UnderWay(w) /\ pc'[w] \in InTransaction
    <3>1. CASE PublishHandled(w)
      BY <1>1, <3>1 DEF PublishHandled, Save, transaction
    <3>2. CASE ObtainWriteLocks(w) /\ UNCHANGED transaction
      BY <1>1, <3>2, ObtainFacts DEF ObtainWriteLocks, transaction
    <3>3. CASE (ReadLast(w) \/ Enforce(w)) /\ UNCHANGED transaction
      BY <1>1, <3>3 DEF ReadLast, Enforce, transaction
    <3>4. CASE InsertRow(w) /\ UNCHANGED transaction
      BY <1>1, <3>4, InsertFacts DEF InsertRow, transaction
    <3> QED BY <1>8, <3>1, <3>2, <3>3, <3>4
  <2> QED BY <1>3, <1>a, <1>b, <1>c, <2>1
<1>9. CASE ConditionUnmet(w) /\ UNCHANGED transaction
  <2>1. /\ UNCHANGED <<request, attempts, ready>> /\ UnderWay(w) /\ pc'[w] = "rejected"
    BY <1>1, <1>9 DEF ConditionUnmet, Rollback, transaction
  <2>2. ~StillTrue(w)
    BY <1>1, <1>9, RejectedIsStale
  <2> QED BY <1>3, <1>a, <1>b, <2>1, <2>2
<1>10. CASE (InsertFails(w) \/ Fail(w) \/ Commits(w)) /\ UNCHANGED transaction
  <2>1. UNCHANGED <<request, attempts, ready>> /\ pc'[w] \in {"failed", "saved"}
    BY <1>1, <1>10 DEF InsertFails, Fail, Commits, CommitWith, Rollback, transaction
  <2> QED BY <1>3, <1>a, <2>1
<1>11. Commit(w) \/ CommitUnanswered(w) => Commits(w)
  BY <1>1, CommitKinds
<1> QED BY <1>5, <1>6, <1>7, <1>8, <1>9, <1>10, <1>11 DEF Moves, Transact, Step

LEMMA LastTryStep ==
  ASSUME IInv, AnswerInv, RetryInv, TransactionTypeOK, NEW w \in Writers, Moves(w)
  PROVE  LastTryInv'
<1> SUFFICES ASSUME NEW v \in Writers, Decorator[v] = "retry", result'[v] = "raised",
                    pc'[v] = "rejected"
             PROVE  Tries <= attempts'[v]
  BY DEF LastTryInv
<1>1. CASE v # w
  BY <1>1, MoveFacts DEF RetryInv, LastTryInv
<1>2. CASE v = w /\ Conclude(w)
  <2>1. UNCHANGED <<pc, attempts>> /\ ~Retriable(w)
    BY <1>2 DEF Conclude, vars
  <2> QED BY <1>2, <2>1, TriesAssumption DEF Retriable, RetryInv
<1>3. CASE v = w /\ ~Conclude(w)
  <2>1. result'[w] = result[w]
    BY <1>3 DEF Moves, Transact, Handle, Retry, PublishHandled, transaction
  <2>2. pc[w] \in {"rejected", "failed"}
    BY <1>3, <2>1 DEF AnswerInv
  <2>3. FALSE
    BY <1>3, <2>1, <2>2 DEF Moves, Transact, Handle, Retry, PublishHandled, Save, Step,
       ObtainWriteLocks, ReadLast, Enforce, ConditionUnmet, InsertRow, InsertFails, Commit,
       CommitUnanswered, CommitWith, Fail, InTransaction
  <2> QED BY <2>3
<1> QED BY <1>1, <1>2, <1>3

LEMMA RetryInvStep ==
  ASSUME ReactsToWhatItReads, IsFiniteSet(Writers), TransactionInv, RetryInv,
         [TransactionNext]_<<vars, transaction>>
  PROVE  RetryInv'
<1>1. CASE UNCHANGED <<vars, transaction>>
  <2>1. UNCHANGED <<table, pc, request, attempts, ready, result>>
    BY <1>1 DEF vars, transaction
  <2>2. \A w \in Handlers : TriesOK(w)' <=> TriesOK(w)
    BY <2>1 DEF TriesOK, Excused, OthersDone, UnderWay, StillTrue, read_last
  <2> QED BY <2>1, <2>2 DEF RetryInv, LastTryInv
<1>2. ASSUME NEW w \in Writers, Moves(w) PROVE RetryInv'
  <2>1. attempts' \in [Writers -> Nat] /\ ready' \in [Writers -> BOOLEAN]
    BY <1>2, MoveFacts DEF TransactionInv
  <2>2. LastTryInv'
    BY <1>2, LastTryStep DEF TransactionInv
  <2>3. \A x \in Handlers : TriesOK(x)'
    BY <1>2, OthersMove, HandlerMoves DEF TransactionInv
  <2> QED BY <2>1, <2>2, <2>3 DEF RetryInv
<1> QED BY <1>1, <1>2 DEF TransactionNext, Moves

LEMMA RetryInitHolds ==
  ASSUME IsFiniteSet(Writers), Init, TransactionInit PROVE RetryInv
<1>1. \A w \in Writers : pc[w] = "idle" /\ ~ready[w] /\ attempts[w] = 0 /\ result[w] = "pending"
  BY DEF Init, TransactionInit
<1>2. \A w \in Handlers : TriesOK(w)
  <2> TAKE w \in Handlers
  <2>1. w \in Writers /\ Cardinality(OthersDone(w)) \in Nat
    BY HandlersAssumption, OthersDoneFacts
  <2>2. NoPosition \in Position /\ request[w] = Reaction(NoPosition)
    BY <2>1 DEF Position, TransactionInit
  <2> QED BY <1>1, <2>1, <2>2 DEF TriesOK, Excused, UnderWay, InTransaction
<1> QED BY <1>1, <1>2 DEF RetryInv, LastTryInv, TransactionInit

\* As many tries as there are writers suffice, for any number of them: a
\* handler whose publish is conditional on what it has read, retried by
\* retry_on_error, never passes an unmet condition on to its caller.
THEOREM EnoughTries ==
  ASSUME ReactionsAreRequests, ReactsToWhatItReads, IsFiniteSet(Writers)
  PROVE  TransactionSpec => []RetriesSuffice
<1>1. Init /\ TransactionInit => RetryInv
  BY RetryInitHolds
<1>2. TransactionInv /\ RetryInv /\ [TransactionNext]_<<vars, transaction>> => RetryInv'
  BY RetryInvStep
<1>3. TransactionInv /\ RetryInv => RetriesSuffice
  <2> SUFFICES ASSUME TransactionInv, RetryInv, Tries >= Cardinality(Writers), NEW w \in Handlers,
                      Decorator[w] = "retry", result[w] = "raised", pc[w] # "failed"
               PROVE  FALSE
    BY DEF RetriesSuffice
  <2>1. w \in Writers /\ attempts[w] \in Nat
    BY HandlersAssumption DEF RetryInv
  <2>2. pc[w] = "rejected"
    BY <2>1 DEF TransactionInv, AnswerInv
  <2>3. Tries <= attempts[w] /\ attempts[w] <= Cardinality(OthersDone(w))
    BY <2>1, <2>2 DEF RetryInv, LastTryInv, TriesOK, Excused
  <2> QED BY <2>1, <2>3, OthersDoneFacts, TriesAssumption
<1> QED BY TransactionInvariant, <1>1, <1>2, <1>3, PTL DEF TransactionSpec

-----------------------------------------------------------------------------
(***************************************************************************)
(* PostgresEventReader: paged scans of the table beside any number of      *)
(* writers.                                                                *)
(***************************************************************************)

\* The target lies within the scope that the guarantee orders.  A wider scan,
\* such as one of a category under the stream guarantee, may miss events.
ReadWithinGuarantee ==
  /\ Guarantee = "category" => ReadTarget.kind \in {"category", "stream"}
  /\ Guarantee = "stream" => ReadTarget.kind = "stream"

-----------------------------------------------------------------------------
(***************************************************************************)
(* The invariant: sequence numbers tell rows apart, and a page continues   *)
(* what has been delivered without leaving a visible row out.              *)
(***************************************************************************)
AllRows == table \cup UNION {inserted[w] : w \in Writers}

NumbersInv ==
  /\ IsFiniteSet(table)
  /\ \A e, f \in AllRows : e.sequence_number = f.sequence_number => e = f

ReaderTypeOK ==
  /\ phase \in {"idle", "querying", "yielding"}
  /\ page \in Seq(table)
  /\ delivered \in Seq(table)

PageInv ==
  /\ \A i, j \in DOMAIN page : i < j => page[i].sequence_number < page[j].sequence_number
  /\ \A i \in DOMAIN page : InTarget(page[i]) /\ LastSeen < page[i].sequence_number
  /\ \A i \in DOMAIN page, e \in table :
       InTarget(e) /\ LastSeen < e.sequence_number /\ e.sequence_number <= page[i].sequence_number
         => \E j \in DOMAIN page : page[j] = e

ScanInv ==
  /\ phase # "idle" => after = LastSeen
  /\ \A i \in DOMAIN delivered : InTarget(delivered[i])
  /\ PageInv
  /\ DeliveredExactly

ReaderInv == TransactionInv /\ NumbersInv /\ ReaderTypeOK /\ ScanInv


-----------------------------------------------------------------------------
(***************************************************************************)
(* ORDER BY: the ranks of rows with different numbers are 1, 2, 3, ...     *)
(***************************************************************************)
UpTo(S, e) == {f \in S : f.sequence_number <= e.sequence_number}

LEMMA RanksDiffer ==
  ASSUME NEW S, IsFiniteSet(S), \A e \in S : e.sequence_number \in Nat,
         NEW e \in S, NEW f \in S, e.sequence_number < f.sequence_number
  PROVE  Cardinality(UpTo(S, e)) < Cardinality(UpTo(S, f))
<1>1. UpTo(S, f) \in SUBSET S /\ UpTo(S, e) \in SUBSET UpTo(S, f)
  BY DEF UpTo
<1>2. f \in UpTo(S, f) /\ f \notin UpTo(S, e)
  BY DEF UpTo
<1>3. IsFiniteSet(UpTo(S, f)) /\ IsFiniteSet(UpTo(S, e))
  BY <1>1, FS_Subset
<1>4. /\ Cardinality(UpTo(S, e)) <= Cardinality(UpTo(S, f))
      /\ Cardinality(UpTo(S, f)) = Cardinality(UpTo(S, e)) => UpTo(S, f) = UpTo(S, e)
  BY <1>1, <1>3, FS_Subset
<1>5. Cardinality(UpTo(S, e)) \in Nat /\ Cardinality(UpTo(S, f)) \in Nat
  BY <1>3, FS_CardinalityType
<1> QED BY <1>2, <1>4, <1>5

LEMMA OrderByFacts ==
  ASSUME NEW S, IsFiniteSet(S), \A e \in S : e.sequence_number \in Nat,
         \A e, f \in S : e.sequence_number = f.sequence_number => e = f
  PROVE  /\ OrderBy(S) \in [1 .. Cardinality(S) -> S]
         /\ \A i, j \in 1 .. Cardinality(S) :
              i < j => OrderBy(S)[i].sequence_number < OrderBy(S)[j].sequence_number
         /\ \A e \in S : \E i \in 1 .. Cardinality(S) : OrderBy(S)[i] = e
<1> DEFINE n    == Cardinality(S)
           rank == [e \in S |-> Cardinality(UpTo(S, e))]
           q    == OrderBy(S)
           Ranked(i) == CHOOSE e \in S : Cardinality(UpTo(S, e)) = i
<1>1. n \in Nat
  BY FS_CardinalityType
<1>2. rank \in [S -> 1 .. n]
  <2> SUFFICES ASSUME NEW e \in S PROVE Cardinality(UpTo(S, e)) \in 1 .. n
    OBVIOUS
  <2>1. UpTo(S, e) \in SUBSET S /\ e \in UpTo(S, e)
    BY DEF UpTo
  <2>2. IsFiniteSet(UpTo(S, e)) /\ Cardinality(UpTo(S, e)) <= n
    BY <2>1, FS_Subset
  <2>3. Cardinality(UpTo(S, e)) \in Nat /\ Cardinality(UpTo(S, e)) # 0
    BY <2>1, <2>2, FS_CardinalityType, FS_EmptySet
  <2> QED BY <1>1, <2>2, <2>3
<1>3. ASSUME NEW e \in S, NEW f \in S, e.sequence_number < f.sequence_number
      PROVE  rank[e] < rank[f]
  BY <1>3, RanksDiffer
<1>4. \A e, f \in S : rank[e] = rank[f] => e = f
  <2> TAKE e, f \in S
  <2>1. e.sequence_number \in Nat /\ f.sequence_number \in Nat
    OBVIOUS
  <2>2. rank[e] \in Nat /\ rank[f] \in Nat
    BY <1>1, <1>2
  <2> HIDE DEF rank
  <2>3. CASE e.sequence_number < f.sequence_number
    BY <1>3, <2>2, <2>3
  <2>4. CASE f.sequence_number < e.sequence_number
    BY <1>3, <2>2, <2>4
  <2> QED BY <2>1, <2>3, <2>4
<1>5. rank \in Surjection(S, 1 .. n)
  <2>1. rank \in Injection(S, 1 .. n)
    BY <1>2, <1>4 DEF Injection, IsInjective
  <2>2. IsFiniteSet(1 .. n) /\ Cardinality(1 .. n) = n
    BY <1>1, FS_Interval
  <2> QED BY <2>1, <2>2, FS_Injection
<1>q. q = [i \in 1 .. n |-> Ranked(i)]
  BY DEF OrderBy, UpTo
<1>6. \A i \in 1 .. n : Ranked(i) \in S /\ rank[Ranked(i)] = i
  <2> TAKE i \in 1 .. n
  <2>1. \E e \in S : Cardinality(UpTo(S, e)) = i
    BY <1>5 DEF Surjection
  <2>2. Ranked(i) \in S /\ Cardinality(UpTo(S, Ranked(i))) = i
    BY <2>1
  <2> QED BY <2>2
<1> HIDE DEF q, rank, Ranked
<1>7. \A i \in 1 .. n : q[i] \in S /\ rank[q[i]] = i
  BY <1>6, <1>q
<1>8. q \in [1 .. n -> S]
  BY <1>6, <1>q
<1>9. \A i, j \in 1 .. n : i < j => q[i].sequence_number < q[j].sequence_number
  <2> SUFFICES ASSUME NEW i \in 1 .. n, NEW j \in 1 .. n, i < j,
                      ~ (q[i].sequence_number < q[j].sequence_number)
               PROVE  FALSE
    OBVIOUS
  <2>1. q[i] \in S /\ q[j] \in S /\ rank[q[i]] = i /\ rank[q[j]] = j
    BY <1>7
  <2>2. q[i].sequence_number \in Nat /\ q[j].sequence_number \in Nat
    BY <2>1
  <2>3. CASE q[i].sequence_number = q[j].sequence_number
    BY <2>1, <2>3
  <2>4. CASE q[j].sequence_number < q[i].sequence_number
    BY <1>3, <2>1, <2>4
  <2> QED BY <2>2, <2>3, <2>4
<1>10. \A e \in S : \E i \in 1 .. n : q[i] = e
  <2> TAKE e \in S
  <2>1. rank[e] \in 1 .. n
    BY <1>2
  <2>2. q[rank[e]] \in S /\ rank[q[rank[e]]] = rank[e]
    BY <1>7, <2>1
  <2> QED BY <1>4, <2>1, <2>2
<1> QED BY <1>8, <1>9, <1>10 DEF q

\* The page that a query reads: the rows after n up to the last one on the page.
LEMMA ScanQueryFacts ==
  ASSUME IInv, NumbersInv, NEW n \in Nat
  PROVE  /\ scan_query(n) \in Seq(table)
         /\ \A i, j \in DOMAIN scan_query(n) :
              i < j => scan_query(n)[i].sequence_number < scan_query(n)[j].sequence_number
         /\ \A i \in DOMAIN scan_query(n) :
              InTarget(scan_query(n)[i]) /\ n < scan_query(n)[i].sequence_number
         /\ \A i \in DOMAIN scan_query(n), e \in RowsAfter(n) :
              e.sequence_number <= scan_query(n)[i].sequence_number
                => \E j \in DOMAIN scan_query(n) : scan_query(n)[j] = e
         /\ Len(scan_query(n)) # PageSize =>
              \A e \in RowsAfter(n) : \E j \in DOMAIN scan_query(n) : scan_query(n)[j] = e
<1> DEFINE R == RowsAfter(n)
           q == OrderBy(R)
           c == Cardinality(R)
           m == IF Len(q) < PageSize THEN Len(q) ELSE PageSize
           s == scan_query(n)
<1>1. /\ R \in SUBSET table /\ \A e \in R : InTarget(e) /\ n < e.sequence_number
      /\ \A e \in R : e.sequence_number \in Nat
  BY DEF RowsAfter, IInv, TypeOK, StoredEvent
<1>2. IsFiniteSet(R) /\ \A e, f \in R : e.sequence_number = f.sequence_number => e = f
  BY <1>1, FS_Subset DEF NumbersInv, AllRows
<1>3. c \in Nat
  BY <1>2, FS_CardinalityType
<1> HIDE DEF R
<1>4. /\ q \in [1 .. c -> R]
      /\ \A i, j \in 1 .. c : i < j => q[i].sequence_number < q[j].sequence_number
      /\ \A e \in R : \E i \in 1 .. c : q[i] = e
  BY <1>1, <1>2, OrderByFacts
<1> HIDE DEF q, c
<1>5. q \in Seq(R) /\ Len(q) = c
  BY <1>3, <1>4
<1>6. m \in Nat /\ m <= c /\ (m # PageSize => m = c)
  BY <1>3, <1>5, PageSizeAssumption
<1>7. s = SubSeq(q, 1, m)
  BY DEF scan_query, q, R
<1> HIDE DEF m, s
<1>8. \A i \in 1 .. m : q[i] \in R /\ q[i] \in table
  BY <1>1, <1>3, <1>4, <1>6
<1>9. /\ s \in Seq(table) /\ Len(s) = m /\ DOMAIN s = 1 .. m
      /\ \A i \in 1 .. m : s[i] = q[i]
  <2>1. /\ s \in Seq(table) /\ Len(s) = IF 1 <= m THEN m - 1 + 1 ELSE 0
        /\ \A i \in 1 .. m - 1 + 1 : s[i] = q[1 + i - 1]
    BY <1>6, <1>7, <1>8, SubSeqProperties
  <2>2. Len(s) = m
    BY <1>6, <2>1
  <2> QED BY <1>6, <2>1, <2>2, LenProperties
<1>10. ASSUME NEW i \in 1 .. m, NEW e \in R, e.sequence_number <= s[i].sequence_number
       PROVE  \E j \in 1 .. m : s[j] = e
  <2>1. PICK j \in 1 .. c : q[j] = e
    BY <1>4
  <2>2. i \in 1 .. c /\ s[i] = q[i] /\ q[i].sequence_number \in Nat /\ e.sequence_number \in Nat
    BY <1>1, <1>3, <1>6, <1>8, <1>9
  <2>3. ~ (i < j)
    BY <1>4, <1>10, <2>1, <2>2
  <2> QED BY <1>3, <1>6, <1>9, <2>1, <2>2, <2>3
<1>11. ASSUME m # PageSize, NEW e \in R PROVE \E j \in 1 .. m : s[j] = e
  BY <1>4, <1>6, <1>9, <1>11
<1>12. \A i, j \in 1 .. m : i < j => s[i].sequence_number < s[j].sequence_number
  BY <1>3, <1>4, <1>6, <1>9
<1>13. \A i \in 1 .. m : InTarget(s[i]) /\ n < s[i].sequence_number
  BY <1>1, <1>8, <1>9
<1> QED BY <1>9, <1>10, <1>11, <1>12, <1>13 DEF s, R

-----------------------------------------------------------------------------
(***************************************************************************)
(* Steps of the writers.                                                   *)
(***************************************************************************)
LEMMA NumbersStep ==
  ASSUME ReactionsAreRequests, IInv, NumbersInv, [TransactionNext]_<<vars, transaction>>
  PROVE  NumbersInv'
<1> USE DEF IInv, TypeOK
<1>1. ASSUME UNCHANGED table, \A v \in Writers : inserted'[v] \in {inserted[v], {}}
      PROVE  NumbersInv'
  <2>1. AllRows' \in SUBSET AllRows
    BY <1>1 DEF AllRows
  <2> QED BY <1>1, <2>1 DEF NumbersInv
<1>2. ASSUME NEW w \in Writers, InsertRow(w) PROVE NumbersInv'
  <2>1. PICK s \in DOMAIN request[w].streams :
          inserted' = [inserted EXCEPT ![w] = inserted[w] \cup {NewRow(w, s)}]
    BY <1>2, InsertFacts
  <2>2. UNCHANGED table
    BY <1>2 DEF InsertRow
  <2> DEFINE row == NewRow(w, s)
  <2>3. row.sequence_number = sequence
    BY NewRowType
  <2> HIDE DEF row
  <2>4. AllRows' \in SUBSET (AllRows \cup {row})
    BY <2>1, <2>2 DEF AllRows, row
  <2>5. \A e \in AllRows : e.sequence_number < sequence /\ e.sequence_number \in Nat
    BY DEF AllRows, SequenceInv, Numbered, StoredEvent
  <2>6. \A e \in AllRows : e.sequence_number # row.sequence_number
    BY <2>3, <2>5
  <2> QED BY <2>2, <2>4, <2>6 DEF NumbersInv
<1>3. ASSUME NEW w \in Writers, Commits(w) PROVE NumbersInv'
  <2>1. table' = table \cup inserted[w] /\ inserted' = [inserted EXCEPT ![w] = {}]
    BY <1>3 DEF Commits, CommitWith
  <2>2. AllRows' \in SUBSET AllRows
    BY <2>1 DEF AllRows
  <2>3. IsFiniteSet(table')
    BY <2>1, FS_Union DEF NumbersInv, RowsInv
  <2> QED BY <2>2, <2>3 DEF NumbersInv
<1>4. ASSUME NEW w \in Writers, Prepares(w) PROVE NumbersInv'
  BY <1>1, <1>4 DEF Prepares
<1>5. CASE UNCHANGED vars
  BY <1>1, <1>5 DEF vars
<1>6. ASSUME NEW w \in Writers, Conclude(w) PROVE NumbersInv'
  BY <1>5, <1>6 DEF Conclude
<1>7. ASSUME NEW w \in Writers,
             Save(w) \/ ObtainWriteLocks(w) \/ ReadLast(w) \/ Enforce(w) \/ Ends(w)
      PROVE  NumbersInv'
  BY <1>1, <1>7, QuietFacts
<1>8. CASE Next
  BY <1>2, <1>3, <1>7, <1>8, StepKinds
<1> QED BY <1>4, <1>5, <1>6, <1>8, TransactionKinds

\* The table only grows, and within the target only behind what is visible.
LEMMA TargetGrowsBehind ==
  ASSUME ReadWithinGuarantee, ReactionsAreRequests, IInv,
         [TransactionNext]_<<vars, transaction>>
  PROVE  /\ table \subseteq table'
         /\ \A e \in table' \ table, f \in table :
              InTarget(e) /\ InTarget(f) => f.sequence_number < e.sequence_number
<1>1. ASSUME NEW e, NEW f, InTarget(e), InTarget(f) PROVE SameScope(e, f)
  BY <1>1, GuaranteeAssumption DEF InTarget, ReadWithinGuarantee, SameScope
<1>2. CASE UNCHANGED table
  BY <1>2
<1>3. CASE [Next]_vars
  <2>1. table \subseteq table'
    <3>1. ASSUME NEW w \in Writers, Commits(w) PROVE table \subseteq table'
      BY <3>1 DEF Commits, CommitWith
    <3>2. ASSUME NEW w \in Writers,
                 Save(w) \/ ObtainWriteLocks(w) \/ ReadLast(w) \/ Enforce(w) \/ Ends(w)
          PROVE  table \subseteq table'
      BY <3>2, QuietFacts DEF IInv
    <3>3. ASSUME NEW w \in Writers, InsertRow(w) PROVE table \subseteq table'
      BY <3>3 DEF InsertRow
    <3> QED BY <1>3, <3>1, <3>2, <3>3, StepKinds DEF vars
  <2> QED BY <1>1, <1>3, <2>1, VisibleInOrder
<1>4. ASSUME NEW w \in Writers, Prepares(w) \/ Conclude(w) PROVE UNCHANGED table
  BY <1>4 DEF Prepares, Conclude, vars
<1> QED BY <1>2, <1>3, <1>4, TransactionKinds DEF vars

LEMMA LastSeenFacts ==
  ASSUME IInv, ReaderTypeOK
  PROVE  /\ LastSeen \in Nat
         /\ DOMAIN delivered = 1 .. Len(delivered) /\ Len(delivered) \in Nat
         /\ \A e \in table : e.sequence_number \in Nat /\ e.sequence_number > 0
         /\ delivered # <<>> =>
              /\ Len(delivered) \in DOMAIN delivered
              /\ delivered[Len(delivered)] \in table
              /\ LastSeen = delivered[Len(delivered)].sequence_number
<1>1. \A e \in table :
        /\ e.sequence_number \in Nat /\ e.position \in Nat /\ e.position < e.sequence_number
  BY DEF IInv, TypeOK, StoredEvent, SequenceInv, Numbered
<1>2. \A e \in table : e.sequence_number \in Nat /\ e.sequence_number > 0
  BY <1>1
<1>3. DOMAIN delivered = 1 .. Len(delivered) /\ Len(delivered) \in Nat
  BY LenProperties DEF ReaderTypeOK
<1>4. delivered # <<>> => Len(delivered) \in DOMAIN delivered /\ delivered[Len(delivered)] \in table
  BY <1>3, EmptySeq, ElementOfSeq DEF ReaderTypeOK
<1> QED BY <1>2, <1>3, <1>4 DEF LastSeen

\* Writers do not disturb the scan: what becomes visible lies behind what the
\* reader has seen and behind its page.
LEMMA WriterStep ==
  ASSUME ReadWithinGuarantee, ReactionsAreRequests, ReaderInv,
         [TransactionNext]_<<vars, transaction>>, UNCHANGED reader
  PROVE  ReaderTypeOK' /\ ScanInv'
<1> USE DEF ReaderInv, ScanInv, PageInv, DeliveredExactly
<1>1. /\ table \subseteq table'
      /\ \A e \in table' \ table, f \in table :
           InTarget(e) /\ InTarget(f) => f.sequence_number < e.sequence_number
  BY TargetGrowsBehind DEF TransactionInv
<1>2. UNCHANGED <<phase, page, after, delivered>>
  BY DEF reader
<1>3. page \in [1 .. Len(page) -> table] /\ DOMAIN page = 1 .. Len(page) /\ Len(page) \in Nat
  BY LenProperties DEF ReaderTypeOK
<1>4. ReaderTypeOK'
  BY <1>1, <1>2 DEF ReaderTypeOK
<1>5. LastSeen' = LastSeen
  BY <1>2 DEF LastSeen
<1>6. IInv' /\ IInv
  BY AdapterInvariantStep DEF TransactionInv
<1>7. \A e \in table' : e.sequence_number \in Nat /\ e.sequence_number > 0
  <2> TAKE e \in table'
  <2>1. e.sequence_number \in Nat /\ e.position \in Nat /\ e.position < e.sequence_number
    BY <1>6 DEF IInv, TypeOK, StoredEvent, SequenceInv, Numbered
  <2> QED BY <2>1
<1>8. \A e \in table' \ table : InTarget(e) => LastSeen < e.sequence_number
  <2> SUFFICES ASSUME NEW e \in table' \ table, InTarget(e) PROVE LastSeen < e.sequence_number
    OBVIOUS
  <2>1. CASE delivered = <<>>
    BY <1>7, <2>1 DEF LastSeen
  <2>2. CASE delivered # <<>>
    <3> DEFINE last == delivered[Len(delivered)]
    <3>1. last \in table /\ LastSeen = last.sequence_number /\ InTarget(last)
      BY <1>6, <2>2, LastSeenFacts
    <3> QED BY <1>1, <3>1
  <2> QED BY <2>1, <2>2
<1>9. LastSeen \in Nat /\ \A i \in DOMAIN page : page[i] \in table /\ page[i].sequence_number \in Nat
  BY <1>3, <1>6, LastSeenFacts
<1>10. NoSkippedEvent'
  <2> SUFFICES ASSUME NEW e \in table', InTarget(e), e.sequence_number <= LastSeen
               PROVE  Delivered(e)
    BY <1>2, <1>5 DEF NoSkippedEvent, Delivered, InTarget
  <2>1. e \in table
    BY <1>7, <1>8, <1>9
  <2> QED BY <2>1 DEF NoSkippedEvent
<1>11. DeliveredInOrder'
  BY <1>2 DEF DeliveredInOrder
<1>12. PageInv'
  <2>1. ASSUME NEW i \in DOMAIN page, NEW e \in table', InTarget(e),
               LastSeen < e.sequence_number, e.sequence_number <= page[i].sequence_number
        PROVE  \E j \in DOMAIN page : page[j] = e
    <3>1. page[i] \in table /\ InTarget(page[i])
      BY <1>9
    <3>2. ~ (page[i].sequence_number < e.sequence_number)
      BY <1>7, <1>9, <2>1
    <3>3. e \in table
      BY <1>1, <2>1, <3>1, <3>2
    <3> QED BY <2>1, <3>3
  <2> QED BY <1>2, <1>5, <2>1 DEF InTarget
<1> QED BY <1>2, <1>4, <1>5, <1>10, <1>11, <1>12 DEF InTarget

-----------------------------------------------------------------------------
(***************************************************************************)
(* Steps of the reader.                                                    *)
(***************************************************************************)
LEMMA QueryPageStep ==
  ASSUME ReaderInv, QueryPage, UNCHANGED vars
  PROVE  ReaderTypeOK' /\ ScanInv'
<1> USE DEF ReaderInv, ScanInv, DeliveredExactly, TransactionInv
<1>1. /\ UNCHANGED <<table, delivered>> /\ phase' = "yielding"
      /\ after' = ScanFrom /\ page' = scan_query(ScanFrom)
  BY DEF QueryPage, vars
<1>2. ScanFrom = LastSeen /\ LastSeen' = LastSeen /\ LastSeen \in Nat
  BY <1>1, LastSeenFacts DEF ScanFrom, LastSeen
<1>3. page' \in Seq(table)
  BY <1>1, <1>2, ScanQueryFacts
<1>4. PageInv'
  <2> DEFINE q == scan_query(LastSeen)
  <2>1. \A e \in table : InTarget(e) /\ LastSeen < e.sequence_number => e \in RowsAfter(LastSeen)
    BY <1>2, LastSeenFacts DEF RowsAfter
  <2>2. /\ \A i, j \in DOMAIN q : i < j => q[i].sequence_number < q[j].sequence_number
        /\ \A i \in DOMAIN q : InTarget(q[i]) /\ LastSeen < q[i].sequence_number
        /\ \A i \in DOMAIN q, e \in RowsAfter(LastSeen) :
             e.sequence_number <= q[i].sequence_number => \E j \in DOMAIN q : q[j] = e
    BY <1>2, ScanQueryFacts
  <2>3. page' = q
    BY <1>1, <1>2
  <2> HIDE DEF q
  <2> QED BY <1>1, <1>2, <2>1, <2>2, <2>3 DEF PageInv, InTarget
<1>5. NoSkippedEvent' /\ DeliveredInOrder'
  BY <1>1, <1>2 DEF NoSkippedEvent, DeliveredInOrder, Delivered, InTarget
<1> QED BY <1>1, <1>2, <1>3, <1>4, <1>5 DEF ReaderTypeOK, InTarget

LEMMA YieldStep ==
  ASSUME ReaderInv, Yield, UNCHANGED vars
  PROVE  ReaderTypeOK' /\ ScanInv'
<1> USE DEF ReaderInv, ScanInv, DeliveredExactly, TransactionInv
<1> DEFINE d == Len(delivered)
           k == Len(page)
           e0 == page[1]
<1>1. /\ UNCHANGED table /\ page # <<>> /\ page \in Seq(table) /\ delivered \in Seq(table)
      /\ delivered' = Append(delivered, Head(page)) /\ page' = Tail(page)
      /\ after' = Head(page).sequence_number /\ phase' \in {"querying", "yielding"}
  BY DEF Yield, vars, ReaderTypeOK
<1>2. /\ Head(page) = e0 /\ e0 \in table /\ k \in Nat \ {0} /\ DOMAIN page = 1 .. k
  BY <1>1, LenProperties, EmptySeq, ElementOfSeq
<1>3. /\ page' \in Seq(table) /\ DOMAIN page' = 1 .. k - 1
      /\ \A i \in 1 .. k - 1 : page'[i] = page[i + 1]
  <2>1. page' \in Seq(table) /\ Len(page') = k - 1 /\ \A i \in 1 .. Len(page') : page'[i] = page[i + 1]
    BY <1>1, HeadTailProperties
  <2> QED BY <2>1, LenProperties
<1>4. /\ delivered' \in Seq(table) /\ delivered' # <<>> /\ Len(delivered') = d + 1
      /\ DOMAIN delivered' = 1 .. d + 1
      /\ \A i \in 1 .. d : delivered'[i] = delivered[i]
      /\ delivered'[d + 1] = e0
  <2>1. /\ delivered' \in Seq(table) /\ delivered' # <<>> /\ Len(delivered') = d + 1
        /\ \A i \in 1 .. d : delivered'[i] = delivered[i]
        /\ delivered'[d + 1] = e0
    BY <1>1, <1>2, AppendProperties
  <2> QED BY <2>1, LenProperties
<1>5. /\ d \in Nat /\ DOMAIN delivered = 1 .. d /\ LastSeen \in Nat
      /\ \A e \in table : e.sequence_number \in Nat
  BY LastSeenFacts
<1>6. LastSeen' = e0.sequence_number /\ after' = e0.sequence_number
  BY <1>1, <1>2, <1>4 DEF LastSeen
<1>7. InTarget(e0) /\ LastSeen < e0.sequence_number
  BY <1>2 DEF PageInv
<1> HIDE DEF d, k, e0
<1>8. \A i \in 1 .. d : delivered[i] \in table /\ delivered[i].sequence_number <= LastSeen
  <2> TAKE i \in 1 .. d
  <2>1. /\ delivered # <<>> /\ delivered[i] \in table
        /\ LastSeen = delivered[d].sequence_number /\ delivered[d] \in table
    BY <1>1, <1>5, LastSeenFacts, ElementOfSeq DEF d
  <2>2. i < d => delivered[i].sequence_number < delivered[d].sequence_number
    BY <1>5 DEF DeliveredInOrder
  <2> QED BY <1>5, <2>1, <2>2
<1>9. DeliveredInOrder'
  <2> SUFFICES ASSUME NEW i \in 1 .. d + 1, NEW j \in 1 .. d + 1, i < j
               PROVE  delivered'[i].sequence_number < delivered'[j].sequence_number
    BY <1>4 DEF DeliveredInOrder
  <2>1. CASE j = d + 1
    <3>1. i \in 1 .. d /\ delivered'[i] = delivered[i] /\ delivered'[j] = e0
      BY <1>4, <1>5, <2>1
    <3> QED BY <1>2, <1>5, <1>7, <1>8, <3>1
  <2>2. CASE j # d + 1
    <3>1. i \in 1 .. d /\ j \in 1 .. d
      BY <1>5, <2>2
    <3> QED BY <1>4, <1>5, <3>1 DEF DeliveredInOrder
  <2> QED BY <2>1, <2>2
<1>10. NoSkippedEvent'
  <2> SUFFICES ASSUME NEW e \in table, InTarget(e), e.sequence_number <= e0.sequence_number
               PROVE  \E i \in 1 .. d + 1 : delivered'[i] = e
    BY <1>1, <1>4, <1>6 DEF NoSkippedEvent, Delivered, InTarget
  <2>1. CASE e.sequence_number <= LastSeen
    <3>1. PICK i \in 1 .. d : delivered[i] = e
      BY <1>5, <2>1 DEF NoSkippedEvent, Delivered
    <3> QED BY <1>4, <1>5, <3>1
  <2>2. CASE LastSeen < e.sequence_number
    <3>1. PICK j \in 1 .. k : page[j] = e
      BY <1>2, <2>2 DEF PageInv, e0
    <3>2. 1 < j => e0.sequence_number < e.sequence_number
      BY <1>2, <3>1 DEF PageInv, e0
    <3>3. j = 1
      BY <1>2, <1>5, <3>1, <3>2
    <3>4. e = e0
      BY <3>1, <3>3 DEF e0
    <3> QED BY <1>4, <1>5, <3>4
  <2> QED BY <1>5, <2>1, <2>2
<1>11. PageInv'
  <2>0. \A i \in 1 .. k - 1 : i + 1 \in 1 .. k /\ page'[i] = page[i + 1]
    BY <1>2, <1>3
  <2>1. \A i, j \in 1 .. k - 1 : i < j => page'[i].sequence_number < page'[j].sequence_number
    BY <1>2, <2>0 DEF PageInv
  <2>2. \A i \in 1 .. k - 1 : InTarget(page'[i]) /\ e0.sequence_number < page'[i].sequence_number
    <3> TAKE i \in 1 .. k - 1
    <3>1. InTarget(page[i + 1])
      BY <1>2, <2>0 DEF PageInv
    <3>2. 1 \in 1 .. k /\ 1 < i + 1
      BY <1>2
    <3>3. page[1].sequence_number < page[i + 1].sequence_number
      BY <1>2, <2>0, <3>2 DEF PageInv
    <3> QED BY <2>0, <3>1, <3>3 DEF e0
  <2>3. ASSUME NEW i \in 1 .. k - 1, NEW e \in table, InTarget(e),
               e0.sequence_number < e.sequence_number,
               e.sequence_number <= page'[i].sequence_number
        PROVE  \E j \in 1 .. k - 1 : page'[j] = e
    <3>1. LastSeen < e.sequence_number
      BY <1>2, <1>5, <1>7, <2>3
    <3>2. PICK j \in 1 .. k : page[j] = e
      BY <1>2, <2>0, <2>3, <3>1 DEF PageInv
    <3>3. j # 1
      BY <1>2, <1>5, <2>3, <3>2 DEF e0
    <3>4. j - 1 \in 1 .. k - 1 /\ (j - 1) + 1 = j
      BY <1>2, <3>3
    <3> QED BY <2>0, <3>2, <3>4
  <2>4. \A e : InTarget(e)' <=> InTarget(e)
    BY DEF InTarget
  <2> QED BY <1>1, <1>3, <1>6, <2>1, <2>2, <2>3, <2>4 DEF PageInv
<1>12. \A i \in 1 .. d + 1 : InTarget(delivered'[i])
  BY <1>4, <1>5, <1>7
<1>13. ReaderTypeOK'
  BY <1>1, <1>3, <1>4 DEF ReaderTypeOK
<1> QED BY <1>4, <1>6, <1>9, <1>10, <1>11, <1>12, <1>13 DEF InTarget

LEMMA EndScanStep ==
  ASSUME ReaderInv, EndScan, UNCHANGED vars
  PROVE  ReaderTypeOK' /\ ScanInv'
<1> USE DEF ReaderInv, ScanInv, DeliveredExactly
<1>1. UNCHANGED <<table, delivered>> /\ phase' = "idle" /\ page' = <<>>
  BY DEF EndScan, vars
<1>2. LastSeen' = LastSeen
  BY <1>1 DEF LastSeen
<1>3. NoSkippedEvent' /\ DeliveredInOrder'
  BY <1>1, <1>2 DEF NoSkippedEvent, DeliveredInOrder, Delivered, InTarget
<1>4. PageInv' /\ ReaderTypeOK'
  BY <1>1 DEF PageInv, ReaderTypeOK
<1> QED BY <1>1, <1>3, <1>4 DEF InTarget

LEMMA ReaderInvStep ==
  ASSUME ReadWithinGuarantee, ReactionsAreRequests, ReaderInv, [ReaderNext]_allvars
  PROVE  ReaderInv'
<1>1. [TransactionNext]_<<vars, transaction>>
  BY DEF ReaderNext, allvars
<1>2. TransactionInv' /\ NumbersInv'
  BY <1>1, TransactionInvStep, NumbersStep DEF ReaderInv, TransactionInv
<1>3. CASE UNCHANGED reader
  BY <1>1, <1>2, <1>3, WriterStep DEF ReaderInv
<1>4. CASE (QueryPage \/ Yield \/ EndScan) /\ UNCHANGED <<vars, transaction>>
  BY <1>2, <1>4, QueryPageStep, YieldStep, EndScanStep DEF ReaderInv
<1> QED BY <1>3, <1>4 DEF ReaderNext, allvars

LEMMA ReaderInitHolds == ASSUME ReaderInitAll PROVE ReaderInv
<1>1. TransactionInv
  BY TransactionInitHolds DEF ReaderInitAll
<1>2. table = {} /\ \A w \in Writers : inserted[w] = {}
  BY DEF ReaderInitAll, Init
<1>3. NumbersInv
  BY <1>2, FS_EmptySet DEF NumbersInv, AllRows
<1>4. phase = "idle" /\ page = <<>> /\ delivered = <<>>
  BY DEF ReaderInitAll, ReaderInit
<1>5. ReaderTypeOK /\ PageInv
  BY <1>4, EmptySeq DEF ReaderTypeOK, PageInv
<1>6. NoSkippedEvent /\ DeliveredInOrder
  BY <1>2, <1>4 DEF NoSkippedEvent, DeliveredInOrder
<1> QED BY <1>1, <1>3, <1>4, <1>5, <1>6 DEF ReaderInv, ScanInv, DeliveredExactly

\* The invariants of the adapter, of the decorators and of the scan hold in
\* every reachable state of writers and reader.
THEOREM ReaderInvariant ==
  ASSUME ReadWithinGuarantee, ReactionsAreRequests
  PROVE  ReaderSpec => []ReaderInv
<1>1. ReaderInitAll => ReaderInv
  BY ReaderInitHolds
<1>2. ReaderInv /\ [ReaderNext]_allvars => ReaderInv'
  BY ReaderInvStep
<1> QED BY <1>1, <1>2, PTL DEF ReaderSpec

\* A reader that resumes after the last event it has seen misses none and gets
\* none twice, although each page is read in a statement of its own and rows
\* become visible in between, as long as its target lies within the scope that
\* the serialisation guarantee orders.
THEOREM ReaderMissesNothing ==
  ASSUME ReadWithinGuarantee, ReactionsAreRequests
  PROVE  ReaderSpec => []DeliveredExactly
<1>1. ReaderInv => DeliveredExactly
  BY DEF ReaderInv, ScanInv
<1> QED BY ReaderInvariant, <1>1, PTL

\* A page that is not full ends the scan, and rightly: every row of the target
\* that is visible when it is read has been delivered or is on it.
THEOREM ScanEndsAtTheEnd ==
  ASSUME ReadWithinGuarantee, ReactionsAreRequests
  PROVE  ReaderSpec => LastPageIsTheEnd
<1> DEFINE Complete ==
      QueryPage /\ ~more' =>
        \A e \in table : InTarget(e) =>
          Delivered(e) \/ \E i \in DOMAIN page' : page'[i] = e
<1>1. ReaderInv => Complete
  <2> SUFFICES ASSUME ReaderInv, QueryPage, ~more', NEW e \in table, InTarget(e), ~Delivered(e)
               PROVE  \E i \in DOMAIN page' : page'[i] = e
    OBVIOUS
  <2>1. page' = scan_query(ScanFrom) /\ Len(page') # PageSize
    BY DEF QueryPage, KeepQuerying
  <2>2. ScanFrom = LastSeen /\ LastSeen \in Nat /\ e.sequence_number \in Nat
    BY LastSeenFacts DEF ReaderInv, ScanInv, TransactionInv, ScanFrom
  <2>3. e \in RowsAfter(LastSeen)
    BY <2>2 DEF RowsAfter, ReaderInv, ScanInv, DeliveredExactly, NoSkippedEvent
  <2> QED BY <2>1, <2>2, <2>3, ScanQueryFacts DEF ReaderInv, TransactionInv
<1>2. ReaderInv /\ [ReaderNext]_allvars => [Complete]_allvars
  BY <1>1
<1> HIDE DEF Complete
<1>3. ReaderSpec => [][Complete]_allvars
  BY ReaderInvariant, <1>2, PTL DEF ReaderSpec
<1> QED BY <1>3 DEF LastPageIsTheEnd, Complete
=============================================================================
