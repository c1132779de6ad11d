---------------------- MODULE InMemoryEventStorageProofs ----------------------
(***************************************************************************)
(* Proofs about InMemoryEventStorage for any number of writers, categories *)
(* and streams, any requests and conditions, and each guarantee; and about *)
(* EventReader, scans of the in-memory adapter beside the writers.         *)
(***************************************************************************)
EXTENDS EventReader, SequenceTheorems, WellFoundedInduction, TLAPS

-----------------------------------------------------------------------------
(***************************************************************************)
(* The inductive invariant.  The properties speak of the log only; they    *)
(* are not inductive, because a commit appends what a transaction has      *)
(* gathered.  The invariant says what each open transaction may contain,   *)
(* and why no commit of another task invalidates it: the locks.            *)
(***************************************************************************)

\* A task has acquired the locks that are no longer required; inside the
\* block it holds the lock of every stream of its request.
LockInv ==
  \A w \in Writers :
    /\ pc[w] = "acquiring" =>
         \A l \in RequiredLocks(request[w]) : l \notin required[w] => holder[l] = w
    /\ pc[w] \in Inside =>
         \A l \in RequiredLocks(request[w]) : holder[l] = w

\* The streams a task works on are streams of its request.
StreamInv ==
  \A w \in Writers :
    /\ pc[w] \in Inside => todo[w] \subseteq DOMAIN request[w].streams
    /\ pc[w] = "acquiring" => todo[w] = DOMAIN request[w].streams
    /\ pc[w] \in {"checking", "adding"} =>
         current[w] \in DOMAIN request[w].streams \ todo[w]

\* A transaction contains events of the request's streams that have been
\* read, and nothing before or after the block.
TransactionInv ==
  \A w \in Writers :
    /\ pc[w] \notin Inside => added[w] = <<>>
    /\ \A i \in DOMAIN added[w] :
         /\ added[w][i].category = request[w].category
         /\ added[w][i].stream \in DOMAIN request[w].streams \ todo[w]
         /\ pc[w] = "checking" => added[w][i].stream # current[w]

\* The sequence numbers given out so far, in the log and in transactions.
SequenceInv ==
  /\ \A i \in DOMAIN log : log[i].sequence_number < sequence
  /\ \A w \in Writers : \A i \in DOMAIN added[w] :
       /\ added[w][i].sequence_number < sequence
       /\ \A j \in DOMAIN added[w] :
            j < i => added[w][j].sequence_number < added[w][i].sequence_number
       /\ \A j \in DOMAIN log : log[j].sequence_number # added[w][i].sequence_number
       /\ \A v \in Writers \ {w} : \A j \in DOMAIN added[v] :
            added[v][j].sequence_number # added[w][i].sequence_number

\* Events whose streams share a lock are in the order of their sequence numbers.
LockOrderInv ==
  \A i, j \in DOMAIN log :
    i < j /\ lock_name(log[i]) = lock_name(log[j])
      => log[i].sequence_number < log[j].sequence_number

\* What a transaction will append comes after what the log has for its locks.
PendingOrderInv ==
  \A w \in Writers : \A i \in DOMAIN added[w], j \in DOMAIN log :
    lock_name(log[j]) = lock_name(added[w][i])
      => log[j].sequence_number < added[w][i].sequence_number

\* What a transaction will append continues the streams of the log.
PendingPositionInv ==
  \A w \in Writers : \A i \in DOMAIN added[w] :
    /\ \A j \in DOMAIN log :
         SameStream(log[j], added[w][i]) => log[j].position < added[w][i].position
    /\ \A j \in DOMAIN added[w] :
         j < i /\ SameStream(added[w][j], added[w][i])
           => added[w][j].position < added[w][i].position
    /\ added[w][i].position > 0 =>
         \/ \E j \in DOMAIN log :
              /\ SameStream(log[j], added[w][i])
              /\ log[j].position = added[w][i].position - 1
         \/ \E j \in DOMAIN added[w] :
              /\ j < i
              /\ SameStream(added[w][j], added[w][i])
              /\ added[w][j].position = added[w][i].position - 1

\* While a task adds the events of a stream, the last one it added is at
\* position last_position + count, and nothing of the stream lies beyond.
AddingInv ==
  \A w \in Writers :
    pc[w] = "adding" =>
      /\ count[w] > 0
      /\ \A j \in DOMAIN log :
           InStream(log[j], CurrentTarget(w)) => log[j].position <= last_position[w]
      /\ \A i \in DOMAIN added[w] :
           InStream(added[w][i], CurrentTarget(w))
             => added[w][i].position <= last_position[w] + count[w]
      /\ \E i \in DOMAIN added[w] :
           /\ InStream(added[w][i], CurrentTarget(w))
           /\ added[w][i].position = last_position[w] + count[w]

IInv ==
  /\ TypeOK
  /\ LockInv
  /\ StreamInv
  /\ TransactionInv
  /\ SequenceInv
  /\ PendingOrderInv
  /\ PendingPositionInv
  /\ AddingInv
  /\ StreamPositionsContiguous
  /\ LockOrderInv
  /\ NoEventOverwritten

-----------------------------------------------------------------------------
(***************************************************************************)
(* The last position of a stream.                                          *)
(***************************************************************************)

\* A non-empty set of indexes of a sequence has a greatest element, the one
\* that LastIndex chooses: the last entry of a stream's index.
LEMMA LastIndexProperties ==
  ASSUME NEW n \in Nat, NEW I \in SUBSET (1 .. n), I # {}
  PROVE  /\ LastIndex(I) \in I
         /\ \A j \in I : j <= LastIndex(I)
<1> DEFINE T == {n - i : i \in I}
<1>1. T \in SUBSET Nat /\ T # {}
  <2>1. \A i \in I : i \in 1 .. n
    OBVIOUS
  <2>2. \A i \in I : n - i \in Nat
    BY <2>1
  <2> QED BY <2>2
<1>2. PICK x \in T : \A y \in T : ~ (<<y, x>> \in OpToRel(<, Nat))
  <2> HIDE DEF T
  <2> QED BY <1>1, WFMin, NatLessThanWellFounded
<1>3. \A y \in T : ~ (y < x)
  <2> TAKE y \in T
  <2>1. x \in Nat /\ y \in Nat
    BY <1>1
  <2>2. ~ (<<y, x>> \in OpToRel(<, Nat))
    BY <1>2
  <2> QED BY <2>1, <2>2 DEF OpToRel
<1>4. PICK i \in I : x = n - i
  OBVIOUS
<1>5. \A j \in I : j <= i
  <2> TAKE j \in I
  <2>1. ~ (n - j < n - i)
    BY <1>3, <1>4
  <2>2. i \in 1 .. n /\ j \in 1 .. n
    OBVIOUS
  <2> QED BY <2>1, <2>2
<1> QED BY <1>5 DEF LastIndex

\* The last position of a stream is a position, or NoPosition.
LEMMA LastStreamPositionType ==
  ASSUME NEW L \in Seq(StoredEvent), NEW id
  PROVE  LastStreamPosition(L, id) \in Position
<1>1. CASE StreamIndex(L, id) = {}
  BY <1>1 DEF LastStreamPosition, Position, NoPosition
<1>2. CASE StreamIndex(L, id) # {}
  <2>1. StreamIndex(L, id) \in SUBSET (1 .. Len(L)) /\ Len(L) \in Nat
    BY DEF StreamIndex
  <2>2. LastIndex(StreamIndex(L, id)) \in 1 .. Len(L)
    BY <1>2, <2>1, LastIndexProperties
  <2>3. L[LastIndex(StreamIndex(L, id))] \in StoredEvent
    BY <2>2, ElementOfSeq
  <2> QED BY <1>2, <2>3 DEF LastStreamPosition, Position, StoredEvent
<1> QED BY <1>1, <1>2

-----------------------------------------------------------------------------
(***************************************************************************)
(* Types, streams and locks.                                               *)
(***************************************************************************)

\* The locks a request needs are locks of the adapter.
LEMMA RequestLocks ==
  ASSUME NEW r \in Requests
  PROVE  /\ RequiredLocks(r) \subseteq LockNames
         /\ \A s \in DOMAIN r.streams :
              /\ s \in Streams
              /\ Target(r, s) \in StreamIdentifier
              /\ lock_name(Target(r, s)) \in RequiredLocks(r)
         /\ r.category \in Categories
<1>1. \A s \in DOMAIN r.streams : Target(r, s) \in StreamIdentifier
  BY RequestsAssumption DEF Target, StreamIdentifier
<1>2. \A s \in DOMAIN r.streams : lock_name(Target(r, s)) \in RequiredLocks(r)
  BY DEF RequiredLocks, Targets
<1>3. RequiredLocks(r) \subseteq LockNames
  BY <1>1 DEF RequiredLocks, Targets, LockNames
<1> QED BY <1>1, <1>2, <1>3, RequestsAssumption

\* What a task builds is a stored event.
LEMMA NewStoredEventType ==
  ASSUME TypeOK, StreamInv, NEW w \in Writers, pc[w] \in {"checking", "adding"},
         NEW p \in Position, NEW i \in Nat
  PROVE  NewStoredEvent(w, p, i) \in StoredEvent
<1>1. current[w] \in DOMAIN request[w].streams /\ request[w] \in Requests
  BY DEF TypeOK, StreamInv
<1>2. current[w] \in Streams /\ request[w].category \in Categories
  BY <1>1, RequestLocks
<1>3. p + i + 1 \in Nat
  BY DEF Position, NoPosition
<1> QED BY <1>2, <1>3 DEF NewStoredEvent, StoredEvent, TypeOK

\* Every step leaves the state well typed.
LEMMA TypeStep ==
  ASSUME TypeOK, StreamInv, [Next]_vars
  PROVE  TypeOK'
<1> USE DEF TypeOK
<1>1. ASSUME NEW w \in Writers, Save(w) PROVE TypeOK'
  <2>1. request[w] \in Requests
    OBVIOUS
  <2>2. RequiredLocks(request[w]) \subseteq LockNames /\ DOMAIN request[w].streams \subseteq Streams
    BY <2>1, RequestLocks, RequestsAssumption
  <2> QED BY <1>1, <2>2 DEF Save
<1>2. ASSUME NEW w \in Writers, Acquire(w) PROVE TypeOK'
  <2>1. PICK s \in Streams :
          LET l == lock_name(Target(request[w], s)) IN
            /\ NextToLock(w, s)
            /\ holder[l] = None
            /\ holder' = [holder EXCEPT ![l] = w]
            /\ required' = [required EXCEPT ![w] = @ \ {l}]
            /\ pc' = [pc EXCEPT ![w] = IF required[w] = {l} THEN "reading" ELSE "acquiring"]
    BY <1>2 DEF Acquire
  <2> QED BY <1>2, <2>1 DEF Acquire, Inside
<1>3. ASSUME NEW w \in Writers, ReadLastStreamEvent(w) PROVE TypeOK'
  <2>1. PICK s \in Streams :
          /\ NextToRead(w, s)
          /\ current' = [current EXCEPT ![w] = s]
          /\ todo' = [todo EXCEPT ![w] = @ \ {s}]
          /\ latest' = [latest EXCEPT ![w] = LastStreamPosition(log, Target(request[w], s))]
    BY <1>3 DEF ReadLastStreamEvent
  <2>2. LastStreamPosition(log, Target(request[w], s)) \in Position
    BY LastStreamPositionType
  <2> QED BY <1>3, <2>1, <2>2 DEF ReadLastStreamEvent, Inside
<1>4. ASSUME NEW w \in Writers, ConditionMet(w) PROVE TypeOK'
  <2> DEFINE e == NewStoredEvent(w, last_position'[w], 0)
  <2>1. LastStreamPosition(log, CurrentTarget(w)) \in Position
    BY LastStreamPositionType
  <2>2. e \in StoredEvent
    <3>1. last_position'[w] \in Position
      BY <1>4, <2>1 DEF ConditionMet
    <3> QED BY <1>4, <3>1, NewStoredEventType DEF ConditionMet
  <2>3. Append(added[w], e) \in Seq(StoredEvent)
    BY <2>2, AppendProperties
  <2>4. \A n : AfterAdding(w, n) \in Inside
    BY DEF AfterAdding, Inside
  <2>5. last_position' \in [Writers -> Position]
    BY <1>4, <2>1 DEF ConditionMet
  <2>6. CASE Definition(w).events = 0
    <3>1. /\ count' = [count EXCEPT ![w] = 0]
          /\ pc' = [pc EXCEPT ![w] = AfterAdding(w, 0)]
          /\ UNCHANGED <<sequence, added>>
      BY <1>4, <2>6 DEF ConditionMet
    <3> QED BY <1>4, <2>4, <2>5, <3>1 DEF ConditionMet
  <2>7. CASE Definition(w).events > 0
    <3>1. /\ count' = [count EXCEPT ![w] = 1]
          /\ pc' = [pc EXCEPT ![w] = AfterAdding(w, 1)]
          /\ sequence' = sequence + 1
          /\ added' = [added EXCEPT ![w] = Append(added[w], e)]
      BY <1>4, <2>7 DEF ConditionMet
    <3> HIDE DEF e
    <3> QED BY <1>4, <2>3, <2>4, <2>5, <3>1 DEF ConditionMet
  <2> QED BY <1>4, <2>6, <2>7 DEF ConditionMet
<1>5. ASSUME NEW w \in Writers, ConditionUnmet(w) PROVE TypeOK'
  BY <1>5 DEF ConditionUnmet, Release, Ended
<1>6. ASSUME NEW w \in Writers, AddEvent(w) PROVE TypeOK'
  <2>1. NewStoredEvent(w, last_position[w], count[w]) \in StoredEvent
    BY <1>6, NewStoredEventType DEF AddEvent
  <2>2. Append(added[w], NewStoredEvent(w, last_position[w], count[w])) \in Seq(StoredEvent)
    BY <2>1, AppendProperties
  <2>3. \A n : AfterAdding(w, n) \in Inside
    BY DEF AfterAdding, Inside
  <2>4. pc' \in [Writers -> Ended \cup Inside \cup {"idle", "acquiring"}]
    BY <1>6, <2>3 DEF AddEvent
  <2> QED BY <1>6, <2>2, <2>4 DEF AddEvent
<1>7. ASSUME NEW w \in Writers, Commit(w) PROVE TypeOK'
  <2>1. log \o added[w] \in Seq(StoredEvent)
    BY ConcatProperties
  <2> QED BY <1>7, <2>1 DEF Commit, Release, Ended
<1>8. ASSUME NEW w \in Writers, Cancel(w) PROVE TypeOK'
  BY <1>8 DEF Cancel, Release, Ended
<1>9. CASE UNCHANGED vars
  BY <1>9 DEF vars
<1> QED BY <1>1, <1>2, <1>3, <1>4, <1>5, <1>6, <1>7, <1>8, <1>9 DEF Next, Step

\* What ConditionMet and AddEvent do to the control point.
LEMMA AfterAddingCases ==
  ASSUME NEW w \in Writers, NEW n
  PROVE  /\ AfterAdding(w, n) \in {"adding", "reading", "committing"}
         /\ AfterAdding(w, n) \in Inside
         /\ AfterAdding(w, n) = "adding" => n < Definition(w).events
BY DEF AfterAdding, Inside

\* The streams a task works on stay streams of its request.
LEMMA StreamStep ==
  ASSUME TypeOK, StreamInv, [Next]_vars
  PROVE  StreamInv'
<1> USE DEF TypeOK, StreamInv
<1>1. ASSUME NEW w \in Writers, Save(w) PROVE StreamInv'
  BY <1>1 DEF Save, Inside
<1>2. ASSUME NEW w \in Writers, Acquire(w) PROVE StreamInv'
  BY <1>2 DEF Acquire, Inside
<1>3. ASSUME NEW w \in Writers, ReadLastStreamEvent(w) PROVE StreamInv'
  BY <1>3 DEF ReadLastStreamEvent, NextToRead, Inside
<1>4. ASSUME NEW w \in Writers, ConditionMet(w) PROVE StreamInv'
  <2>1. PICK n : pc' = [pc EXCEPT ![w] = AfterAdding(w, n)]
    BY <1>4 DEF ConditionMet
  <2>2. AfterAdding(w, n) \in {"adding", "reading", "committing"}
    BY AfterAddingCases
  <2>3. UNCHANGED <<request, todo, current>> /\ pc[w] = "checking"
    BY <1>4 DEF ConditionMet
  <2> QED BY <2>1, <2>2, <2>3 DEF Inside
<1>5. ASSUME NEW w \in Writers, ConditionUnmet(w) PROVE StreamInv'
  BY <1>5 DEF ConditionUnmet, Inside
<1>6. ASSUME NEW w \in Writers, AddEvent(w) PROVE StreamInv'
  <2>1. AfterAdding(w, count[w] + 1) \in {"adding", "reading", "committing"}
    BY AfterAddingCases
  <2> QED BY <1>6, <2>1 DEF AddEvent, Inside
<1>7. ASSUME NEW w \in Writers, Commit(w) PROVE StreamInv'
  BY <1>7 DEF Commit, Inside
<1>8. ASSUME NEW w \in Writers, Cancel(w) PROVE StreamInv'
  BY <1>8 DEF Cancel, Inside
<1>9. CASE UNCHANGED vars
  BY <1>9 DEF vars
<1> QED BY <1>1, <1>2, <1>3, <1>4, <1>5, <1>6, <1>7, <1>8, <1>9 DEF Next, Step

\* A task keeps its locks until it leaves the block, and no task takes one
\* that is held.
LEMMA LockStep ==
  ASSUME TypeOK, LockInv, [Next]_vars
  PROVE  LockInv'
<1> USE DEF TypeOK, LockInv
<1>0. ASSUME NEW w \in Writers, NEW v \in Writers, v # w,
             holder' = Release(w), NEW l \in LockNames, holder[l] = v
      PROVE  holder'[l] = v
  BY <1>0 DEF Release
<1>1. ASSUME NEW w \in Writers, Save(w) PROVE LockInv'
  BY <1>1 DEF Save, Inside
<1>2. ASSUME NEW w \in Writers, Acquire(w) PROVE LockInv'
  <2>1. PICK s \in Streams :
          LET l == lock_name(Target(request[w], s)) IN
            /\ NextToLock(w, s)
            /\ holder[l] = None
            /\ holder' = [holder EXCEPT ![l] = w]
            /\ required' = [required EXCEPT ![w] = @ \ {l}]
            /\ pc' = [pc EXCEPT ![w] = IF required[w] = {l} THEN "reading" ELSE "acquiring"]
    BY <1>2 DEF Acquire
  <2> DEFINE k == lock_name(Target(request[w], s))
  <2>2. /\ holder[k] = None
        /\ holder' = [holder EXCEPT ![k] = w]
        /\ required' = [required EXCEPT ![w] = @ \ {k}]
        /\ pc' = [pc EXCEPT ![w] = IF required[w] = {k} THEN "reading" ELSE "acquiring"]
        /\ request' = request
        /\ pc[w] = "acquiring"
    BY <1>2, <2>1 DEF Acquire
  <2>3. k \in LockNames
    BY <2>1 DEF NextToLock
  <2> HIDE DEF k
  <2>4. \A v \in Writers : RequiredLocks(request[v]) \subseteq LockNames
    BY RequestLocks
  <2>5. ASSUME NEW v \in Writers \ {w}
        PROVE  /\ pc'[v] = "acquiring" =>
                    \A l \in RequiredLocks(request[v]) : l \notin required'[v] => holder'[l] = v
               /\ pc'[v] \in Inside =>
                    \A l \in RequiredLocks(request[v]) : holder'[l] = v
    BY <2>2, <2>3, <2>4, NoneAssumption
  <2>6. /\ pc'[w] = "acquiring" =>
              \A l \in RequiredLocks(request[w]) : l \notin required'[w] => holder'[l] = w
        /\ pc'[w] \in Inside =>
              \A l \in RequiredLocks(request[w]) : holder'[l] = w
    BY <2>2, <2>3, <2>4 DEF Inside
  <2> QED BY <2>2, <2>5, <2>6
<1>3. ASSUME NEW w \in Writers, ReadLastStreamEvent(w) PROVE LockInv'
  BY <1>3 DEF ReadLastStreamEvent, Inside
<1>4. ASSUME NEW w \in Writers, ConditionMet(w) PROVE LockInv'
  <2>1. PICK n : pc' = [pc EXCEPT ![w] = AfterAdding(w, n)]
    BY <1>4 DEF ConditionMet
  <2>2. AfterAdding(w, n) \in {"adding", "reading", "committing"}
    BY AfterAddingCases
  <2>3. UNCHANGED <<request, required, holder>> /\ pc[w] = "checking"
    BY <1>4 DEF ConditionMet
  <2> QED BY <2>1, <2>2, <2>3 DEF Inside
<1>5. ASSUME NEW w \in Writers, ConditionUnmet(w) PROVE LockInv'
  BY <1>0, <1>5, RequestLocks DEF ConditionUnmet, Inside
<1>6. ASSUME NEW w \in Writers, AddEvent(w) PROVE LockInv'
  <2>1. AfterAdding(w, count[w] + 1) \in {"adding", "reading", "committing"}
    BY AfterAddingCases
  <2> QED BY <1>6, <2>1 DEF AddEvent, Inside
<1>7. ASSUME NEW w \in Writers, Commit(w) PROVE LockInv'
  BY <1>0, <1>7, RequestLocks DEF Commit, Inside
<1>8. ASSUME NEW w \in Writers, Cancel(w) PROVE LockInv'
  BY <1>0, <1>8, RequestLocks DEF Cancel, Inside
<1>9. CASE UNCHANGED vars
  BY <1>9 DEF vars
<1> QED BY <1>1, <1>2, <1>3, <1>4, <1>5, <1>6, <1>7, <1>8, <1>9 DEF Next, Step

\* A transaction only ever gathers events of its own request.
LEMMA TransactionStep ==
  ASSUME TypeOK, StreamInv, TransactionInv, [Next]_vars
  PROVE  TransactionInv'
<1> USE DEF TypeOK, TransactionInv
<1>0. ASSUME NEW w \in Writers, pc[w] \in {"checking", "adding"},
             NEW n, pc' = [pc EXCEPT ![w] = AfterAdding(w, n)],
             NEW p \in Position, NEW i \in Nat,
             added' = [added EXCEPT ![w] = Append(added[w], NewStoredEvent(w, p, i))],
             UNCHANGED <<request, todo, current>>
      PROVE  TransactionInv'
  <2> DEFINE e == NewStoredEvent(w, p, i)
  <2>1. e \in StoredEvent
    BY <1>0, NewStoredEventType
  <2>2. /\ e.category = request[w].category
        /\ e.stream \in DOMAIN request[w].streams \ todo[w]
    BY <1>0 DEF NewStoredEvent, StreamInv
  <2>3. AfterAdding(w, n) \in {"adding", "reading", "committing"}
    BY AfterAddingCases
  <2>4. \A j \in DOMAIN Append(added[w], e) :
          \/ j \in DOMAIN added[w] /\ Append(added[w], e)[j] = added[w][j]
          \/ Append(added[w], e)[j] = e
    <3> HIDE DEF e
    <3> QED BY <2>1, AppendProperties
  <2> HIDE DEF e
  <2>5. added' = [added EXCEPT ![w] = Append(added[w], e)]
    BY <1>0 DEF e
  <2>6. ASSUME NEW v \in Writers \ {w}
        PROVE  added'[v] = added[v] /\ pc'[v] = pc[v]
    BY <1>0, <2>5
  <2>7. pc'[w] \in Inside /\ pc'[w] # "checking" /\ added'[w] = Append(added[w], e)
    BY <1>0, <2>3, <2>5 DEF Inside
  <2> QED BY <1>0, <2>2, <2>4, <2>6, <2>7
<1>1. ASSUME NEW w \in Writers, Save(w) PROVE TransactionInv'
  BY <1>1 DEF Save, Inside
<1>2. ASSUME NEW w \in Writers, Acquire(w) PROVE TransactionInv'
  BY <1>2 DEF Acquire, Inside
<1>3. ASSUME NEW w \in Writers, ReadLastStreamEvent(w) PROVE TransactionInv'
  BY <1>3 DEF ReadLastStreamEvent, NextToRead, Inside
<1>4. ASSUME NEW w \in Writers, ConditionMet(w) PROVE TransactionInv'
  <2>1. CASE Definition(w).events = 0
    <3>1. /\ pc' = [pc EXCEPT ![w] = AfterAdding(w, 0)]
          /\ UNCHANGED <<added, request, todo, current>>
      BY <1>4, <2>1 DEF ConditionMet
    <3>2. AfterAdding(w, 0) \in {"adding", "reading", "committing"}
      BY AfterAddingCases
    <3> QED BY <1>4, <3>1, <3>2 DEF ConditionMet, Inside
  <2>2. CASE Definition(w).events > 0
    <3>1. LastStreamPosition(log, CurrentTarget(w)) \in Position
      BY LastStreamPositionType
    <3>2. last_position'[w] \in Position
      BY <1>4, <3>1 DEF ConditionMet
    <3>3. /\ pc' = [pc EXCEPT ![w] = AfterAdding(w, 1)]
          /\ added' = [added EXCEPT ![w] = Append(added[w], NewStoredEvent(w, last_position'[w], 0))]
          /\ UNCHANGED <<request, todo, current>>
          /\ pc[w] = "checking"
      BY <1>4, <2>2 DEF ConditionMet
    <3> QED BY <1>0, <3>2, <3>3
  <2> QED BY <1>4, <2>1, <2>2 DEF ConditionMet
<1>5. ASSUME NEW w \in Writers, ConditionUnmet(w) PROVE TransactionInv'
  BY <1>5 DEF ConditionUnmet, Inside
<1>6. ASSUME NEW w \in Writers, AddEvent(w) PROVE TransactionInv'
  BY <1>0, <1>6 DEF AddEvent
<1>7. ASSUME NEW w \in Writers, Commit(w) PROVE TransactionInv'
  BY <1>7 DEF Commit, Inside
<1>8. ASSUME NEW w \in Writers, Cancel(w) PROVE TransactionInv'
  BY <1>8 DEF Cancel, Inside
<1>9. CASE UNCHANGED vars
  BY <1>9 DEF vars
<1> QED BY <1>1, <1>2, <1>3, <1>4, <1>5, <1>6, <1>7, <1>8, <1>9 DEF Next, Step

-----------------------------------------------------------------------------
(***************************************************************************)
(* The steps by what they do to the log, the sequence and transactions.    *)
(***************************************************************************)

Quiet == UNCHANGED <<log, sequence, added>>

Drops(w) ==
  /\ added' = [added EXCEPT ![w] = <<>>]
  /\ UNCHANGED <<log, sequence>>

Adds(w, e) ==
  /\ added' = [added EXCEPT ![w] = Append(added[w], e)]
  /\ sequence' = sequence + 1
  /\ log' = log
  /\ e \in StoredEvent
  /\ e.sequence_number = sequence
  /\ e = NewStoredEvent(w, last_position'[w], count'[w] - 1)

\* Every step is of one of four kinds.
LEMMA StepKinds ==
  ASSUME TypeOK, StreamInv, [Next]_vars
  PROVE  \/ Quiet
         \/ \E w \in Writers : Drops(w) \/ Commit(w) \/ \E e : Adds(w, e)
<1> USE DEF TypeOK
<1>1. ASSUME NEW w \in Writers, ConditionMet(w) PROVE Quiet \/ \E e : Adds(w, e)
  <2>1. CASE Definition(w).events = 0
    BY <1>1, <2>1 DEF ConditionMet, Quiet
  <2>2. CASE Definition(w).events > 0
    <3> DEFINE e == NewStoredEvent(w, last_position'[w], 0)
    <3>1. LastStreamPosition(log, CurrentTarget(w)) \in Position
      BY LastStreamPositionType
    <3>2. last_position'[w] \in Position
      BY <1>1, <3>1 DEF ConditionMet
    <3>3. e \in StoredEvent
      BY <1>1, <3>2, NewStoredEventType DEF ConditionMet
    <3>4. e.sequence_number = sequence
      BY DEF NewStoredEvent
    <3>5. /\ added' = [added EXCEPT ![w] = Append(added[w], e)]
          /\ sequence' = sequence + 1
          /\ log' = log
          /\ count'[w] = 1
      BY <1>1, <2>2 DEF ConditionMet
    <3>6. e = NewStoredEvent(w, last_position'[w], count'[w] - 1)
      BY <3>5
    <3> HIDE DEF e
    <3> QED BY <3>3, <3>4, <3>5, <3>6 DEF Adds
  <2> QED BY <1>1, <2>1, <2>2 DEF ConditionMet
<1>2. ASSUME NEW w \in Writers, AddEvent(w) PROVE \E e : Adds(w, e)
  <2> DEFINE e == NewStoredEvent(w, last_position[w], count[w])
  <2>1. e \in StoredEvent
    BY <1>2, NewStoredEventType DEF AddEvent
  <2>2. e.sequence_number = sequence
    BY DEF NewStoredEvent
  <2>3. /\ added' = [added EXCEPT ![w] = Append(added[w], e)]
        /\ sequence' = sequence + 1
        /\ log' = log
        /\ last_position'[w] = last_position[w]
        /\ count'[w] - 1 = count[w]
    BY <1>2 DEF AddEvent
  <2>4. e = NewStoredEvent(w, last_position'[w], count'[w] - 1)
    BY <2>3
  <2> HIDE DEF e
  <2> QED BY <2>1, <2>2, <2>3, <2>4 DEF Adds
<1>3. ASSUME NEW w \in Writers, Save(w) \/ Acquire(w) \/ ReadLastStreamEvent(w)
      PROVE  Quiet
  BY <1>3 DEF Save, Acquire, ReadLastStreamEvent, Quiet
<1>4. ASSUME NEW w \in Writers, ConditionUnmet(w) \/ Cancel(w) PROVE Drops(w)
  BY <1>4 DEF ConditionUnmet, Cancel, Drops
<1>5. CASE UNCHANGED vars
  BY <1>5 DEF vars, Quiet
<1> QED BY <1>1, <1>2, <1>3, <1>4, <1>5 DEF Next, Step

\* The contents of a transaction, and of the log, after each kind of step.
LEMMA AddsContents ==
  ASSUME TypeOK, NEW w \in Writers, NEW e, Adds(w, e)
  PROVE  /\ log' = log
         /\ \A v \in Writers \ {w} : added'[v] = added[v]
         /\ DOMAIN added'[w] = 1 .. (Len(added[w]) + 1)
         /\ DOMAIN added[w] = 1 .. Len(added[w])
         /\ Len(added[w]) \in Nat
         /\ \A i \in DOMAIN added[w] : added'[w][i] = added[w][i]
         /\ added'[w][Len(added[w]) + 1] = e
<1>1. added[w] \in Seq(StoredEvent) /\ e \in StoredEvent
  BY DEF TypeOK, Adds
<1>2. added'[w] = Append(added[w], e)
  BY DEF TypeOK, Adds
<1>3. \A v \in Writers \ {w} : added'[v] = added[v]
  BY DEF TypeOK, Adds
<1> QED BY <1>1, <1>2, <1>3, AppendProperties, LenProperties DEF Adds

\* A commit appends the transaction's events behind those of the log.
LEMMA CommitContents ==
  ASSUME TypeOK, NEW w \in Writers, Commit(w)
  PROVE  /\ added'[w] = <<>>
         /\ \A v \in Writers \ {w} : added'[v] = added[v]
         /\ DOMAIN log = 1 .. Len(log) /\ Len(log) \in Nat
         /\ DOMAIN added[w] = 1 .. Len(added[w]) /\ Len(added[w]) \in Nat
         /\ DOMAIN log' = 1 .. (Len(log) + Len(added[w]))
         /\ \A i \in DOMAIN log : log'[i] = log[i]
         /\ \A i \in DOMAIN log' :
              ~(i \in DOMAIN log) =>
                i - Len(log) \in DOMAIN added[w] /\ log'[i] = added[w][i - Len(log)]
<1>1. added[w] \in Seq(StoredEvent) /\ log \in Seq(StoredEvent)
  BY DEF TypeOK
<1>2. log' = log \o added[w] /\ added'[w] = <<>> /\ \A v \in Writers \ {w} : added'[v] = added[v]
  BY DEF TypeOK, Commit
<1> QED BY <1>1, <1>2, ConcatProperties, LenProperties

\* Two open transactions have no lock in common, hence no stream either.
LEMMA DisjointTransactions ==
  ASSUME TypeOK, LockInv, TransactionInv,
         NEW w \in Writers, NEW v \in Writers, v # w,
         NEW i \in DOMAIN added[w], NEW j \in DOMAIN added[v]
  PROVE  lock_name(added[w][i]) # lock_name(added[v][j])
<1>1. ASSUME NEW u \in Writers, NEW k \in DOMAIN added[u]
      PROVE  /\ lock_name(added[u][k]) \in RequiredLocks(request[u])
             /\ pc[u] \in Inside
  <2>1. /\ added[u][k].category = request[u].category
        /\ added[u][k].stream \in DOMAIN request[u].streams
    BY <1>1 DEF TransactionInv
  <2>2. lock_name(added[u][k]) = lock_name(Target(request[u], added[u][k].stream))
    BY <2>1 DEF lock_name, Target
  <2>3. request[u] \in Requests
    BY DEF TypeOK
  <2>4. pc[u] \in Inside
    <3>1. added[u] # <<>>
      BY <1>1
    <3> QED BY <3>1 DEF TransactionInv
  <2> QED BY <2>1, <2>2, <2>3, <2>4, RequestLocks
<1>2. holder[lock_name(added[w][i])] = w /\ holder[lock_name(added[v][j])] = v
  BY <1>1 DEF LockInv
<1> QED BY <1>2

\* Events of one stream share a lock, whatever the guarantee.
LEMMA SameStreamSameLock ==
  ASSUME NEW e, NEW f, SameStream(e, f)
  PROVE  lock_name(e) = lock_name(f)
BY DEF SameStream, lock_name

-----------------------------------------------------------------------------
(***************************************************************************)
(* Sequence numbers.                                                       *)
(***************************************************************************)

\* A new event gets a number above all others.
LEMMA SequenceStep ==
  ASSUME TypeOK, StreamInv, SequenceInv, [Next]_vars
  PROVE  SequenceInv'
<1> USE DEF SequenceInv
<1>0. /\ \A i \in DOMAIN log : log[i].sequence_number \in Nat
      /\ \A w \in Writers : \A i \in DOMAIN added[w] : added[w][i].sequence_number \in Nat
      /\ sequence \in Nat
  <2>1. \A i \in DOMAIN log : log[i] \in StoredEvent
    BY ElementOfSeq, LenProperties DEF TypeOK
  <2>2. \A w \in Writers : \A i \in DOMAIN added[w] : added[w][i] \in StoredEvent
    BY ElementOfSeq, LenProperties DEF TypeOK
  <2> QED BY <2>1, <2>2 DEF StoredEvent, TypeOK
<1>1. CASE Quiet
  BY <1>1 DEF Quiet
<1>2. ASSUME NEW w \in Writers, Drops(w) PROVE SequenceInv'
  BY <1>2 DEF Drops, TypeOK
<1>3. ASSUME NEW w \in Writers, Commit(w) PROVE SequenceInv'
  <2>1. sequence' = sequence
    BY <1>3 DEF Commit
  <2>2. \A i \in DOMAIN log' :
          \/ i \in DOMAIN log /\ log'[i] = log[i]
          \/ i - Len(log) \in DOMAIN added[w] /\ log'[i] = added[w][i - Len(log)]
    BY <1>3, CommitContents
  <2>3. /\ DOMAIN added'[w] = {}
        /\ \A v \in Writers \ {w} : added'[v] = added[v]
    BY <1>3, CommitContents
  <2> QED BY <1>0, <2>1, <2>2, <2>3
<1>4. ASSUME NEW w \in Writers, NEW e, Adds(w, e) PROVE SequenceInv'
  <2>1. /\ log' = log /\ sequence' = sequence + 1 /\ e.sequence_number = sequence
        /\ \A v \in Writers \ {w} : added'[v] = added[v]
    BY <1>4, AddsContents DEF Adds
  <2>2. \A i \in DOMAIN added'[w] :
          \/ i \in DOMAIN added[w] /\ added'[w][i] = added[w][i]
          \/ i = Len(added[w]) + 1 /\ added'[w][i] = e
    BY <1>4, AddsContents
  <2>3. \A i \in DOMAIN added[w] : i < Len(added[w]) + 1 /\ i \in Nat
    BY <1>4, AddsContents
  <2>4. Len(added[w]) \in Nat
    BY <1>4, AddsContents
  <2>5. \A i \in DOMAIN added'[w] :
          /\ added'[w][i].sequence_number < sequence'
          /\ \A j \in DOMAIN added'[w] :
               j < i => added'[w][j].sequence_number < added'[w][i].sequence_number
          /\ \A j \in DOMAIN log : log[j].sequence_number # added'[w][i].sequence_number
          /\ \A v \in Writers \ {w} : \A j \in DOMAIN added[v] :
               added[v][j].sequence_number # added'[w][i].sequence_number
    BY <1>0, <2>1, <2>2, <2>3, <2>4
  <2> QED BY <1>0, <2>1, <2>5
<1> QED BY <1>1, <1>2, <1>3, <1>4, StepKinds

\* Commits of one lock come in the order of their sequence numbers.
LEMMA OrderStep ==
  ASSUME TypeOK, LockInv, StreamInv, TransactionInv, SequenceInv, PendingOrderInv,
         LockOrderInv, NoEventOverwritten, [Next]_vars
  PROVE  PendingOrderInv' /\ LockOrderInv' /\ NoEventOverwritten'
<1> USE DEF PendingOrderInv, LockOrderInv, NoEventOverwritten
<1>1. CASE Quiet
  BY <1>1 DEF Quiet, lock_name
<1>2. ASSUME NEW w \in Writers, Drops(w)
      PROVE  PendingOrderInv' /\ LockOrderInv' /\ NoEventOverwritten'
  BY <1>2 DEF Drops, TypeOK, lock_name
<1>3. ASSUME NEW w \in Writers, Commit(w)
      PROVE  PendingOrderInv' /\ LockOrderInv' /\ NoEventOverwritten'
  <2>1. \A i \in DOMAIN log' :
          \/ i \in DOMAIN log /\ log'[i] = log[i]
          \/ i \notin DOMAIN log /\ i - Len(log) \in DOMAIN added[w] /\ log'[i] = added[w][i - Len(log)]
    BY <1>3, CommitContents
  <2>2. /\ DOMAIN added'[w] = {}
        /\ \A v \in Writers \ {w} : added'[v] = added[v]
    BY <1>3, CommitContents
  <2>3. /\ DOMAIN log = 1 .. Len(log) /\ Len(log) \in Nat
        /\ DOMAIN log' = 1 .. (Len(log) + Len(added[w])) /\ Len(added[w]) \in Nat
    BY <1>3, CommitContents
  <2>4. PendingOrderInv'
    <3> SUFFICES ASSUME NEW v \in Writers \ {w}, NEW i \in DOMAIN added[v], NEW j \in DOMAIN log',
                        lock_name(log'[j]) = lock_name(added[v][i])
                 PROVE  log'[j].sequence_number < added[v][i].sequence_number
      BY <2>2
    <3> QED BY <2>1, DisjointTransactions
  <2>5. LockOrderInv'
    <3> SUFFICES ASSUME NEW i \in DOMAIN log', NEW j \in DOMAIN log', i < j,
                        lock_name(log'[i]) = lock_name(log'[j])
                 PROVE  log'[i].sequence_number < log'[j].sequence_number
      OBVIOUS
    <3>1. CASE i \in DOMAIN log /\ j \in DOMAIN log
      BY <2>1, <3>1
    <3>2. CASE i \in DOMAIN log /\ j \notin DOMAIN log
      BY <2>1, <3>2
    <3>3. CASE i \notin DOMAIN log
      <4>1. j \notin DOMAIN log /\ i - Len(log) < j - Len(log)
        BY <2>3, <3>3
      <4> QED BY <2>1, <3>3, <4>1 DEF SequenceInv
    <3> QED BY <3>1, <3>2, <3>3
  <2>6. NoEventOverwritten'
    <3>1. \A i \in DOMAIN log : log[i] \in StoredEvent
      BY ElementOfSeq, LenProperties DEF TypeOK
    <3>2. \A i \in DOMAIN added[w] : added[w][i] \in StoredEvent
      BY ElementOfSeq, LenProperties DEF TypeOK
    <3> SUFFICES ASSUME NEW i \in DOMAIN log', NEW j \in DOMAIN log', i < j
                 PROVE  log'[i].sequence_number # log'[j].sequence_number
      BY <2>3
    <3>3. CASE i \in DOMAIN log /\ j \in DOMAIN log
      BY <2>1, <2>3, <3>3
    <3>4. CASE i \in DOMAIN log /\ j \notin DOMAIN log
      BY <2>1, <3>4 DEF SequenceInv
    <3>5. CASE i \notin DOMAIN log
      <4>1. j \notin DOMAIN log /\ i - Len(log) < j - Len(log)
        BY <2>3, <3>5
      <4>2. log'[i].sequence_number < log'[j].sequence_number
        BY <2>1, <3>5, <4>1 DEF SequenceInv
      <4>3. log'[i].sequence_number \in Nat
        BY <2>1, <3>2, <3>5 DEF StoredEvent
      <4> QED BY <4>2, <4>3
    <3> QED BY <3>3, <3>4, <3>5
  <2> QED BY <2>4, <2>5, <2>6
<1>4. ASSUME NEW w \in Writers, NEW e, Adds(w, e)
      PROVE  PendingOrderInv' /\ LockOrderInv' /\ NoEventOverwritten'
  <2>1. /\ log' = log /\ e.sequence_number = sequence
        /\ \A v \in Writers \ {w} : added'[v] = added[v]
    BY <1>4, AddsContents DEF Adds
  <2>2. \A i \in DOMAIN added'[w] :
          \/ i \in DOMAIN added[w] /\ added'[w][i] = added[w][i]
          \/ added'[w][i] = e
    BY <1>4, AddsContents
  <2>3. PendingOrderInv'
    BY <2>1, <2>2 DEF SequenceInv
  <2> QED BY <2>1, <2>3 DEF lock_name
<1> QED BY <1>1, <1>2, <1>3, <1>4, StepKinds

-----------------------------------------------------------------------------
(***************************************************************************)
(* Positions.                                                              *)
(***************************************************************************)

\* last_stream_event is at the greatest position of its stream, because the
\* positions of a stream grow along the log.
LEMMA LastStreamPositionBound ==
  ASSUME TypeOK, StreamPositionsContiguous, NEW id
  PROVE  /\ \A j \in DOMAIN log :
              InStream(log[j], id) => log[j].position <= LastStreamPosition(log, id)
         /\ LastStreamPosition(log, id) >= 0 =>
              \E j \in DOMAIN log :
                InStream(log[j], id) /\ log[j].position = LastStreamPosition(log, id)
<1>1. CASE StreamIndex(log, id) = {}
  <2>1. LastStreamPosition(log, id) = -1
    BY <1>1 DEF LastStreamPosition, NoPosition
  <2> QED BY <1>1, <2>1 DEF StreamIndex
<1>2. CASE StreamIndex(log, id) # {}
  <2> DEFINE m == LastIndex(StreamIndex(log, id))
  <2>1. StreamIndex(log, id) \in SUBSET (1 .. Len(log)) /\ Len(log) \in Nat
    BY LenProperties DEF StreamIndex, TypeOK
  <2>2. m \in StreamIndex(log, id) /\ \A j \in StreamIndex(log, id) : j <= m
    BY <1>2, <2>1, LastIndexProperties
  <2>3. LastStreamPosition(log, id) = log[m].position
    BY <1>2 DEF LastStreamPosition
  <2> HIDE DEF m
  <2>4. \A i \in DOMAIN log : log[i].position \in Nat /\ i \in Nat
    <3>1. \A i \in DOMAIN log : log[i] \in StoredEvent /\ i \in Nat
      BY ElementOfSeq, LenProperties DEF TypeOK
    <3> QED BY <3>1 DEF StoredEvent
  <2>5. m \in DOMAIN log /\ InStream(log[m], id)
    BY <2>2 DEF StreamIndex
  <2>6. ASSUME NEW j \in DOMAIN log, InStream(log[j], id)
        PROVE  log[j].position <= log[m].position
    <3>1. j <= m
      BY <2>2, <2>6 DEF StreamIndex
    <3>2. CASE j = m
      BY <2>4, <2>5, <3>2
    <3>3. CASE j < m
      <4>1. SameStream(log[m], log[j])
        BY <2>5, <2>6 DEF SameStream, InStream
      <4>2. log[j].position < log[m].position
        BY <2>5, <3>3, <4>1 DEF StreamPositionsContiguous
      <4> QED BY <2>4, <2>5, <4>2
    <3> QED BY <2>4, <2>5, <3>1, <3>2, <3>3
  <2> QED BY <2>3, <2>5, <2>6
<1> QED BY <1>1, <1>2

\* The event e follows what the log and the transaction of w have of its
\* stream.
Follows(w, e) ==
  /\ \A j \in DOMAIN log : SameStream(log[j], e) => log[j].position < e.position
  /\ \A i \in DOMAIN added[w] :
       SameStream(added[w][i], e) => added[w][i].position < e.position
  /\ e.position > 0 =>
       \/ \E j \in DOMAIN log :
            SameStream(log[j], e) /\ log[j].position = e.position - 1
       \/ \E i \in DOMAIN added[w] :
            SameStream(added[w][i], e) /\ added[w][i].position = e.position - 1

\* The first event of a stream follows what was read under the lock.
LEMMA ConditionMetFollows ==
  ASSUME TypeOK, StreamInv, TransactionInv, StreamPositionsContiguous,
         NEW w \in Writers, ConditionMet(w), NEW e,
         e = NewStoredEvent(w, last_position'[w], 0)
  PROVE  Follows(w, e)
<1> DEFINE p == LastStreamPosition(log, CurrentTarget(w))
<1>1. p \in Position
  BY LastStreamPositionType DEF TypeOK
<1>2. /\ \A j \in DOMAIN log : InStream(log[j], CurrentTarget(w)) => log[j].position <= p
      /\ p >= 0 => \E j \in DOMAIN log :
                     InStream(log[j], CurrentTarget(w)) /\ log[j].position = p
  BY LastStreamPositionBound
<1>3. last_position'[w] = p
  BY DEF ConditionMet, TypeOK
<1> HIDE DEF p
<1>4. e.position = p + 1
  BY <1>1, <1>3 DEF NewStoredEvent, Position, NoPosition
<1>5. \A f : SameStream(f, e) <=> InStream(f, CurrentTarget(w))
  BY DEF SameStream, InStream, CurrentTarget, Target, NewStoredEvent
<1>6. \A i \in DOMAIN added[w] : ~SameStream(added[w][i], e)
  BY DEF TransactionInv, ConditionMet, SameStream, NewStoredEvent
<1>7. \A j \in DOMAIN log : log[j].position \in Nat
  <2>1. \A j \in DOMAIN log : log[j] \in StoredEvent
    BY ElementOfSeq, LenProperties DEF TypeOK
  <2> QED BY <2>1 DEF StoredEvent
<1> QED BY <1>1, <1>2, <1>4, <1>5, <1>6, <1>7 DEF Follows, Position, NoPosition

\* Each further event follows the one added before it.
LEMMA AddEventFollows ==
  ASSUME TypeOK, AddingInv, NEW w \in Writers, AddEvent(w), NEW e,
         e = NewStoredEvent(w, last_position[w], count[w])
  PROVE  Follows(w, e)
<1>1. last_position[w] \in Position /\ count[w] \in Nat
  BY DEF TypeOK
<1>2. e.position = last_position[w] + count[w] + 1
  BY DEF NewStoredEvent
<1>3. \A f : SameStream(f, e) <=> InStream(f, CurrentTarget(w))
  BY DEF SameStream, InStream, CurrentTarget, Target, NewStoredEvent
<1>4. /\ count[w] > 0
      /\ \A j \in DOMAIN log :
           InStream(log[j], CurrentTarget(w)) => log[j].position <= last_position[w]
      /\ \A i \in DOMAIN added[w] :
           InStream(added[w][i], CurrentTarget(w))
             => added[w][i].position <= last_position[w] + count[w]
      /\ \E i \in DOMAIN added[w] :
           /\ InStream(added[w][i], CurrentTarget(w))
           /\ added[w][i].position = last_position[w] + count[w]
  BY DEF AddingInv, AddEvent
<1>5. \A j \in DOMAIN log : log[j].position \in Nat
  <2>1. \A j \in DOMAIN log : log[j] \in StoredEvent
    BY ElementOfSeq, LenProperties DEF TypeOK
  <2> QED BY <2>1 DEF StoredEvent
<1>6. \A i \in DOMAIN added[w] : added[w][i].position \in Nat
  <2>1. \A i \in DOMAIN added[w] : added[w][i] \in StoredEvent
    BY ElementOfSeq, LenProperties DEF TypeOK
  <2> QED BY <2>1 DEF StoredEvent
<1> QED BY <1>1, <1>2, <1>3, <1>4, <1>5, <1>6 DEF Follows, Position, NoPosition

\* Adding an event that follows keeps the transaction a continuation of the
\* log.
LEMMA FollowsStep ==
  ASSUME TypeOK, PendingPositionInv, NEW w \in Writers, NEW e, Adds(w, e), Follows(w, e)
  PROVE  PendingPositionInv'
<1>1. /\ log' = log
      /\ \A v \in Writers \ {w} : added'[v] = added[v]
  BY AddsContents
<1>2. /\ DOMAIN added[w] = 1 .. Len(added[w]) /\ Len(added[w]) \in Nat
      /\ DOMAIN added'[w] = 1 .. (Len(added[w]) + 1)
      /\ \A i \in DOMAIN added[w] : added'[w][i] = added[w][i]
      /\ added'[w][Len(added[w]) + 1] = e
  BY AddsContents
<1>3. ASSUME NEW i \in DOMAIN added'[w]
      PROVE  /\ \A j \in DOMAIN log :
                  SameStream(log[j], added'[w][i]) => log[j].position < added'[w][i].position
             /\ \A j \in DOMAIN added'[w] :
                  j < i /\ SameStream(added'[w][j], added'[w][i])
                    => added'[w][j].position < added'[w][i].position
             /\ added'[w][i].position > 0 =>
                  \/ \E j \in DOMAIN log :
                       /\ SameStream(log[j], added'[w][i])
                       /\ log[j].position = added'[w][i].position - 1
                  \/ \E j \in DOMAIN added'[w] :
                       /\ j < i
                       /\ SameStream(added'[w][j], added'[w][i])
                       /\ added'[w][j].position = added'[w][i].position - 1
  <2>1. CASE i \in DOMAIN added[w]
    <3>1. \A j \in DOMAIN added'[w] : j < i => j \in DOMAIN added[w] /\ added'[w][j] = added[w][j]
      BY <1>2, <2>1
    <3>2. added'[w][i] = added[w][i] /\ DOMAIN added[w] \subseteq DOMAIN added'[w]
      BY <1>2, <2>1
    <3>3. \A j \in DOMAIN added[w] : added'[w][j] = added[w][j]
      BY <1>2
    <3> QED BY <2>1, <3>1, <3>2, <3>3 DEF PendingPositionInv
  <2>2. CASE i = Len(added[w]) + 1
    <3>1. \A j \in DOMAIN added'[w] : j < i => j \in DOMAIN added[w] /\ added'[w][j] = added[w][j]
      BY <1>2, <2>2
    <3>2. added'[w][i] = e
      BY <1>2, <2>2
    <3>3. \A j \in DOMAIN added[w] : j \in DOMAIN added'[w] /\ j < i /\ added'[w][j] = added[w][j]
      BY <1>2, <2>2
    <3> QED BY <3>1, <3>2, <3>3 DEF Follows
  <2> QED BY <1>2, <2>1, <2>2
<1> HIDE DEF SameStream
<1>4. \A v \in Writers : v = w \/ added'[v] = added[v]
  BY <1>1
<1> QED BY <1>1, <1>3, <1>4 DEF PendingPositionInv, SameStream

\* What AddingInv says of one task.
AddingOK(w) ==
  pc[w] = "adding" =>
    /\ count[w] > 0
    /\ \A j \in DOMAIN log :
         InStream(log[j], CurrentTarget(w)) => log[j].position <= last_position[w]
    /\ \A i \in DOMAIN added[w] :
         InStream(added[w][i], CurrentTarget(w))
           => added[w][i].position <= last_position[w] + count[w]
    /\ \E i \in DOMAIN added[w] :
         /\ InStream(added[w][i], CurrentTarget(w))
         /\ added[w][i].position = last_position[w] + count[w]

\* A step that touches neither the log nor the fields of a task keeps its
\* AddingOK.
LEMMA AddingUntouched ==
  ASSUME NEW v \in Writers, AddingOK(v), log' = log,
         pc'[v] = pc[v], count'[v] = count[v], last_position'[v] = last_position[v],
         added'[v] = added[v], current'[v] = current[v], request'[v] = request[v]
  PROVE  AddingOK(v)'
BY DEF AddingOK, CurrentTarget, Target, InStream

\* Nobody else commits to a stream while a task adds events to it.
LEMMA AddingCommit ==
  ASSUME TypeOK, LockInv, StreamInv, TransactionInv,
         NEW w \in Writers, Commit(w), NEW v \in Writers \ {w}, AddingOK(v)
  PROVE  AddingOK(v)'
<1>1. /\ pc'[v] = pc[v] /\ UNCHANGED <<count, last_position, current, request>>
      /\ added'[v] = added[v]
  BY DEF Commit, TypeOK
<1>2. SUFFICES ASSUME pc[v] = "adding" PROVE AddingOK(v)'
  BY <1>1 DEF AddingOK
<1>3. CurrentTarget(v)' = CurrentTarget(v)
  BY <1>1 DEF CurrentTarget, Target
<1>4. holder[lock_name(CurrentTarget(v))] = v
  <2>1. current[v] \in DOMAIN request[v].streams /\ request[v] \in Requests
    BY <1>2 DEF StreamInv, TypeOK
  <2>2. lock_name(CurrentTarget(v)) \in RequiredLocks(request[v])
    BY <2>1, RequestLocks DEF CurrentTarget
  <2> QED BY <1>2, <2>2 DEF LockInv, Inside
<1>5. \A i \in DOMAIN added[w] : ~InStream(added[w][i], CurrentTarget(v))
  <2> SUFFICES ASSUME NEW i \in DOMAIN added[w], InStream(added[w][i], CurrentTarget(v))
               PROVE  FALSE
    OBVIOUS
  <2>1. lock_name(added[w][i]) = lock_name(CurrentTarget(v))
    BY DEF InStream, lock_name
  <2>2. /\ added[w][i].category = request[w].category
        /\ added[w][i].stream \in DOMAIN request[w].streams
    BY DEF TransactionInv
  <2>3. lock_name(added[w][i]) = lock_name(Target(request[w], added[w][i].stream))
    BY <2>2 DEF lock_name, Target
  <2>4. request[w] \in Requests /\ pc[w] \in Inside
    BY DEF TypeOK, Commit, Inside
  <2>5. lock_name(added[w][i]) \in RequiredLocks(request[w])
    BY <2>2, <2>3, <2>4, RequestLocks
  <2>6. holder[lock_name(added[w][i])] = w
    BY <2>4, <2>5 DEF LockInv
  <2> QED BY <1>4, <2>1, <2>6
<1>6. \A j \in DOMAIN log' :
        \/ j \in DOMAIN log /\ log'[j] = log[j]
        \/ j - Len(log) \in DOMAIN added[w] /\ log'[j] = added[w][j - Len(log)]
  BY CommitContents
<1>7. \A j \in DOMAIN log' :
        InStream(log'[j], CurrentTarget(v)) => log'[j].position <= last_position[v]
  BY <1>2, <1>5, <1>6 DEF AddingOK
<1> QED BY <1>1, <1>2, <1>3, <1>7 DEF AddingOK, InStream

\* The task that adds an event knows its position.
LEMMA AddingAdds ==
  ASSUME TypeOK, NEW w \in Writers, NEW e, Adds(w, e), Follows(w, e),
         UNCHANGED <<request, current>>,
         last_position'[w] \in Position, count'[w] \in Nat, count'[w] > 0,
         \A j \in DOMAIN log :
           InStream(log[j], CurrentTarget(w)) => log[j].position <= last_position'[w]
  PROVE  AddingOK(w)'
<1>1. e.position = last_position'[w] + count'[w]
  BY DEF Adds, NewStoredEvent, Position, NoPosition
<1>2. \A f : SameStream(f, e) <=> InStream(f, CurrentTarget(w))
  BY DEF SameStream, InStream, CurrentTarget, Target, NewStoredEvent, Adds
<1>3. CurrentTarget(w)' = CurrentTarget(w)
  BY DEF CurrentTarget, Target
<1>4. /\ DOMAIN added[w] = 1 .. Len(added[w]) /\ Len(added[w]) \in Nat
      /\ DOMAIN added'[w] = 1 .. (Len(added[w]) + 1)
      /\ \A i \in DOMAIN added[w] : added'[w][i] = added[w][i]
      /\ added'[w][Len(added[w]) + 1] = e
      /\ log' = log
  BY AddsContents
<1>5. \A i \in DOMAIN added[w] : added[w][i].position \in Nat
  <2>1. \A i \in DOMAIN added[w] : added[w][i] \in StoredEvent
    BY ElementOfSeq, LenProperties DEF TypeOK
  <2> QED BY <2>1 DEF StoredEvent
<1>6. \A i \in DOMAIN added'[w] :
        InStream(added'[w][i], CurrentTarget(w))
          => added'[w][i].position <= last_position'[w] + count'[w]
  <2> TAKE i \in DOMAIN added'[w]
  <2>1. CASE i \in DOMAIN added[w]
    <3>1. added'[w][i] = added[w][i] /\ added[w][i].position \in Nat
      BY <1>4, <1>5, <2>1
    <3>2. InStream(added[w][i], CurrentTarget(w)) => added[w][i].position < e.position
      BY <1>2, <2>1 DEF Follows
    <3>3. e.position \in Int
      BY <1>1 DEF Position, NoPosition
    <3> QED BY <1>1, <3>1, <3>2, <3>3
  <2>2. CASE i = Len(added[w]) + 1
    BY <1>1, <1>4, <2>2 DEF Position, NoPosition
  <2> QED BY <1>4, <2>1, <2>2
<1>7. InStream(e, CurrentTarget(w))
  BY <1>2 DEF SameStream
<1>8. Len(added[w]) + 1 \in DOMAIN added'[w]
  BY <1>4
<1> QED BY <1>1, <1>3, <1>4, <1>6, <1>7, <1>8 DEF AddingOK, InStream

\* AddingInv is preserved.
LEMMA AddingStep ==
  ASSUME TypeOK, LockInv, StreamInv, TransactionInv, StreamPositionsContiguous,
         AddingInv, [Next]_vars
  PROVE  AddingInv'
<1>0. \A v \in Writers : AddingOK(v)
  BY DEF AddingInv, AddingOK
<1> SUFFICES ASSUME NEW v \in Writers PROVE AddingOK(v)'
  BY DEF AddingInv, AddingOK
<1> USE <1>0 DEF TypeOK
<1>1. ASSUME NEW w \in Writers, Save(w) \/ Acquire(w) \/ ReadLastStreamEvent(w)
                                 \/ ConditionUnmet(w) \/ Cancel(w)
      PROVE  AddingOK(v)'
  <2>1. CASE v = w
    <3>1. pc'[w] # "adding"
      BY <1>1 DEF Save, Acquire, ReadLastStreamEvent, ConditionUnmet, Cancel
    <3> QED BY <2>1, <3>1 DEF AddingOK
  <2>2. CASE v # w
    <3>1. /\ log' = log
          /\ pc'[v] = pc[v] /\ count'[v] = count[v] /\ last_position'[v] = last_position[v]
          /\ added'[v] = added[v] /\ current'[v] = current[v] /\ request'[v] = request[v]
      BY <1>1, <2>2 DEF Save, Acquire, ReadLastStreamEvent, ConditionUnmet, Cancel
    <3> QED BY <3>1, AddingUntouched
  <2> QED BY <2>1, <2>2
<1>2. ASSUME NEW w \in Writers, ConditionMet(w) PROVE AddingOK(v)'
  <2>1. CASE v # w
    <3>1. /\ log' = log
          /\ pc'[v] = pc[v] /\ count'[v] = count[v] /\ last_position'[v] = last_position[v]
          /\ added'[v] = added[v] /\ current'[v] = current[v] /\ request'[v] = request[v]
      BY <1>2, <2>1 DEF ConditionMet
    <3> QED BY <3>1, AddingUntouched
  <2>2. CASE v = w /\ Definition(w).events = 0
    <3>1. pc'[w] = AfterAdding(w, 0)
      BY <1>2, <2>2 DEF ConditionMet
    <3>2. pc'[w] # "adding"
      BY <2>2, <3>1, AfterAddingCases
    <3> QED BY <2>2, <3>2 DEF AddingOK
  <2>3. CASE v = w /\ Definition(w).events > 0
    <3> DEFINE e == NewStoredEvent(w, last_position'[w], 0)
    <3>1. LastStreamPosition(log, CurrentTarget(w)) \in Position
      BY LastStreamPositionType
    <3>2. /\ last_position'[w] \in Position
          /\ last_position'[w] = LastStreamPosition(log, CurrentTarget(w))
      BY <1>2, <3>1 DEF ConditionMet
    <3>3. e \in StoredEvent
      BY <1>2, <3>2, NewStoredEventType DEF ConditionMet
    <3>4. /\ added' = [added EXCEPT ![w] = Append(added[w], e)]
          /\ sequence' = sequence + 1
          /\ log' = log
          /\ count'[w] = 1
          /\ UNCHANGED <<request, current>>
      BY <1>2, <2>3 DEF ConditionMet
    <3>5. Adds(w, e)
      <4>1. e.sequence_number = sequence
        BY DEF NewStoredEvent
      <4>2. e = NewStoredEvent(w, last_position'[w], count'[w] - 1)
        BY <3>4
      <4> HIDE DEF e
      <4> QED BY <3>3, <3>4, <4>1, <4>2 DEF Adds
    <3>6. Follows(w, e)
      BY <1>2, ConditionMetFollows
    <3>7. \A j \in DOMAIN log :
            InStream(log[j], CurrentTarget(w)) => log[j].position <= last_position'[w]
      BY <3>2, LastStreamPositionBound
    <3>8. count'[w] \in Nat /\ count'[w] > 0
      BY <3>4
    <3> HIDE DEF e
    <3> QED BY <2>3, <3>2, <3>4, <3>5, <3>6, <3>7, <3>8, AddingAdds
  <2> QED BY <1>2, <2>1, <2>2, <2>3 DEF ConditionMet
<1>3. ASSUME NEW w \in Writers, AddEvent(w) PROVE AddingOK(v)'
  <2>1. CASE v # w
    <3>1. /\ log' = log
          /\ pc'[v] = pc[v] /\ count'[v] = count[v] /\ last_position'[v] = last_position[v]
          /\ added'[v] = added[v] /\ current'[v] = current[v] /\ request'[v] = request[v]
      BY <1>3, <2>1 DEF AddEvent
    <3> QED BY <3>1, AddingUntouched
  <2>2. CASE v = w
    <3> DEFINE e == NewStoredEvent(w, last_position[w], count[w])
    <3>1. /\ added' = [added EXCEPT ![w] = Append(added[w], e)]
          /\ sequence' = sequence + 1
          /\ log' = log
          /\ count'[w] = count[w] + 1
          /\ last_position'[w] = last_position[w]
          /\ UNCHANGED <<request, current>>
          /\ pc[w] = "adding"
      BY <1>3 DEF AddEvent
    <3>2. Adds(w, e)
      <4>1. e \in StoredEvent
        BY <1>3, NewStoredEventType DEF AddEvent
      <4>2. e.sequence_number = sequence
        BY DEF NewStoredEvent
      <4>3. count'[w] - 1 = count[w]
        BY <3>1
      <4>4. e = NewStoredEvent(w, last_position'[w], count'[w] - 1)
        BY <3>1, <4>3
      <4> HIDE DEF e
      <4> QED BY <3>1, <4>1, <4>2, <4>4 DEF Adds
    <3>3. Follows(w, e)
      BY <1>3, AddEventFollows
    <3>4. \A j \in DOMAIN log :
            InStream(log[j], CurrentTarget(w)) => log[j].position <= last_position'[w]
      BY <3>1 DEF AddingInv
    <3>5. last_position'[w] \in Position /\ count'[w] \in Nat /\ count'[w] > 0
      BY <3>1
    <3> HIDE DEF e
    <3> QED BY <2>2, <3>1, <3>2, <3>3, <3>4, <3>5, AddingAdds
  <2> QED BY <2>1, <2>2
<1>4. ASSUME NEW w \in Writers, Commit(w) PROVE AddingOK(v)'
  <2>1. CASE v = w
    BY <1>4, <2>1 DEF Commit, AddingOK
  <2>2. CASE v # w
    BY <1>4, <2>2, AddingCommit
  <2> QED BY <2>1, <2>2
<1>5. CASE UNCHANGED vars
  BY <1>5, AddingUntouched DEF vars
<1> QED BY <1>1, <1>2, <1>3, <1>4, <1>5 DEF Next, Step

\* Pending events keep following the log, and what is committed keeps the
\* positions of every stream contiguous.
LEMMA PositionStep ==
  ASSUME TypeOK, LockInv, StreamInv, TransactionInv, AddingInv,
         PendingPositionInv, StreamPositionsContiguous, [Next]_vars
  PROVE  PendingPositionInv' /\ StreamPositionsContiguous'
<1>1. CASE Quiet
  BY <1>1 DEF Quiet, PendingPositionInv, StreamPositionsContiguous, SameStream
<1>2. ASSUME NEW w \in Writers, Drops(w)
      PROVE  PendingPositionInv' /\ StreamPositionsContiguous'
  <2>1. /\ log' = log
        /\ \A v \in Writers : added'[v] = added[v] \/ DOMAIN added'[v] = {}
    BY <1>2 DEF Drops, TypeOK
  <2> QED BY <2>1 DEF PendingPositionInv, StreamPositionsContiguous, SameStream
<1>3. ASSUME NEW w \in Writers, Commit(w)
      PROVE  PendingPositionInv' /\ StreamPositionsContiguous'
  <2>1. \A i \in DOMAIN log' :
          \/ i \in DOMAIN log /\ log'[i] = log[i]
          \/ i \notin DOMAIN log /\ i - Len(log) \in DOMAIN added[w] /\ log'[i] = added[w][i - Len(log)]
    BY <1>3, CommitContents
  <2>2. /\ DOMAIN added'[w] = {}
        /\ \A v \in Writers \ {w} : added'[v] = added[v]
    BY <1>3, CommitContents
  <2>3. /\ DOMAIN log = 1 .. Len(log) /\ Len(log) \in Nat
        /\ DOMAIN added[w] = 1 .. Len(added[w]) /\ Len(added[w]) \in Nat
        /\ DOMAIN log' = 1 .. (Len(log) + Len(added[w]))
        /\ \A i \in DOMAIN log : log'[i] = log[i]
    BY <1>3, CommitContents
  <2>4. \A j \in DOMAIN added[w] : Len(log) + j \in DOMAIN log' /\ log'[Len(log) + j] = added[w][j]
    <3> TAKE j \in DOMAIN added[w]
    <3>1. Len(log) + j \in DOMAIN log' /\ Len(log) + j \notin DOMAIN log
      BY <2>3
    <3>2. (Len(log) + j) - Len(log) = j
      BY <2>3
    <3> QED BY <2>1, <3>1, <3>2
  <2>5. PendingPositionInv'
    <3>1. ASSUME NEW v \in Writers \ {w}, NEW i \in DOMAIN added[v], NEW j \in DOMAIN log',
                 SameStream(log'[j], added[v][i])
          PROVE  log'[j].position < added[v][i].position
      <4>1. CASE j \in DOMAIN log
        BY <2>1, <3>1, <4>1 DEF PendingPositionInv
      <4>2. CASE j \notin DOMAIN log
        <5>1. SameStream(added[w][j - Len(log)], added[v][i]) /\ j - Len(log) \in DOMAIN added[w]
          BY <2>1, <3>1, <4>2
        <5> QED BY <5>1, SameStreamSameLock, DisjointTransactions
      <4> QED BY <4>1, <4>2
    <3>2. ASSUME NEW v \in Writers \ {w}, NEW i \in DOMAIN added[v], added[v][i].position > 0
          PROVE  \/ \E j \in DOMAIN log' :
                      /\ SameStream(log'[j], added[v][i])
                      /\ log'[j].position = added[v][i].position - 1
                 \/ \E j \in DOMAIN added[v] :
                      /\ j < i
                      /\ SameStream(added[v][j], added[v][i])
                      /\ added[v][j].position = added[v][i].position - 1
      <4>1. \A j \in DOMAIN log : j \in DOMAIN log' /\ log'[j] = log[j]
        BY <2>3
      <4> QED BY <3>2, <4>1 DEF PendingPositionInv
    <3>3. \A v \in Writers : v = w \/ added'[v] = added[v]
      BY <2>2
    <3> QED BY <2>2, <3>1, <3>2, <3>3 DEF PendingPositionInv, SameStream
  <2>6. StreamPositionsContiguous'
    <3>1. ASSUME NEW i \in DOMAIN log', NEW j \in DOMAIN log', j < i, SameStream(log'[i], log'[j])
          PROVE  log'[j].position < log'[i].position
      <4>1. CASE i \in DOMAIN log
        <5>1. j \in DOMAIN log
          BY <2>3, <3>1, <4>1
        <5> QED BY <2>3, <3>1, <4>1, <5>1 DEF StreamPositionsContiguous
      <4>2. CASE i \notin DOMAIN log /\ j \in DOMAIN log
        <5>1. log'[i] = added[w][i - Len(log)] /\ log'[j] = log[j] /\ i - Len(log) \in DOMAIN added[w]
          BY <2>1, <4>2
        <5>2. SameStream(log[j], added[w][i - Len(log)])
          BY <3>1, <5>1 DEF SameStream
        <5> QED BY <4>2, <5>1, <5>2 DEF PendingPositionInv
      <4>3. CASE i \notin DOMAIN log /\ j \notin DOMAIN log
        <5>1. /\ log'[i] = added[w][i - Len(log)] /\ i - Len(log) \in DOMAIN added[w]
              /\ log'[j] = added[w][j - Len(log)] /\ j - Len(log) \in DOMAIN added[w]
          BY <2>1, <4>3
        <5>2. SameStream(added[w][j - Len(log)], added[w][i - Len(log)])
          BY <3>1, <5>1 DEF SameStream
        <5>3. j - Len(log) < i - Len(log)
          BY <2>3, <3>1
        <5> QED BY <5>1, <5>2, <5>3 DEF PendingPositionInv
      <4> QED BY <4>1, <4>2, <4>3
    <3>2. ASSUME NEW i \in DOMAIN log', log'[i].position > 0
          PROVE  \E j \in DOMAIN log' :
                   /\ j < i
                   /\ SameStream(log'[i], log'[j])
                   /\ log'[j].position = log'[i].position - 1
      <4>1. CASE i \in DOMAIN log
        <5>1. log'[i] = log[i]
          BY <2>3, <4>1
        <5>2. PICK j \in DOMAIN log :
                /\ j < i
                /\ SameStream(log[i], log[j])
                /\ log[j].position = log[i].position - 1
          BY <3>2, <4>1, <5>1 DEF StreamPositionsContiguous
        <5>3. j \in DOMAIN log' /\ log'[j] = log[j]
          BY <2>3
        <5> QED BY <5>1, <5>2, <5>3
      <4>2. CASE i \notin DOMAIN log
        <5>1. log'[i] = added[w][i - Len(log)] /\ i - Len(log) \in DOMAIN added[w]
          BY <2>1, <4>2
        <5>2. CASE \E j \in DOMAIN log :
                     /\ SameStream(log[j], log'[i])
                     /\ log[j].position = log'[i].position - 1
          <6>1. PICK j \in DOMAIN log :
                     /\ SameStream(log[j], log'[i])
                     /\ log[j].position = log'[i].position - 1
            BY <5>2
          <6>2. j \in DOMAIN log' /\ log'[j] = log[j] /\ j < i
            BY <2>3, <4>2
          <6> QED BY <6>1, <6>2 DEF SameStream
        <5>3. CASE \E k \in DOMAIN added[w] :
                     /\ k < i - Len(log)
                     /\ SameStream(added[w][k], log'[i])
                     /\ added[w][k].position = log'[i].position - 1
          <6>1. PICK k \in DOMAIN added[w] :
                     /\ k < i - Len(log)
                     /\ SameStream(added[w][k], log'[i])
                     /\ added[w][k].position = log'[i].position - 1
            BY <5>3
          <6>2. Len(log) + k \in DOMAIN log' /\ log'[Len(log) + k] = added[w][k]
            BY <2>4
          <6>3. Len(log) + k < i
            BY <2>3, <6>1
          <6> QED BY <6>1, <6>2, <6>3 DEF SameStream
        <5> QED BY <3>2, <5>1, <5>2, <5>3 DEF PendingPositionInv
      <4> QED BY <4>1, <4>2
    <3> QED BY <3>1, <3>2 DEF StreamPositionsContiguous, SameStream
  <2> QED BY <2>5, <2>6
<1>4. ASSUME NEW w \in Writers, ConditionMet(w), Definition(w).events > 0
      PROVE  PendingPositionInv' /\ StreamPositionsContiguous'
  <2> DEFINE e == NewStoredEvent(w, last_position'[w], 0)
  <2>1. LastStreamPosition(log, CurrentTarget(w)) \in Position
    BY LastStreamPositionType DEF TypeOK
  <2>2. last_position'[w] \in Position
    BY <1>4, <2>1 DEF ConditionMet, TypeOK
  <2>3. e \in StoredEvent
    BY <1>4, <2>2, NewStoredEventType DEF ConditionMet
  <2>4. /\ added' = [added EXCEPT ![w] = Append(added[w], e)]
        /\ sequence' = sequence + 1
        /\ log' = log
        /\ count'[w] = 1
    BY <1>4 DEF ConditionMet, TypeOK
  <2>5. e.sequence_number = sequence /\ e = NewStoredEvent(w, last_position'[w], count'[w] - 1)
    BY <2>4 DEF NewStoredEvent
  <2>6. Follows(w, e)
    BY <1>4, ConditionMetFollows
  <2> HIDE DEF e
  <2>7. Adds(w, e)
    BY <2>3, <2>4, <2>5 DEF Adds
  <2>8. PendingPositionInv'
    BY <2>6, <2>7, FollowsStep
  <2> QED BY <2>4, <2>8 DEF StreamPositionsContiguous, SameStream
<1>5. ASSUME NEW w \in Writers, AddEvent(w)
      PROVE  PendingPositionInv' /\ StreamPositionsContiguous'
  <2> DEFINE e == NewStoredEvent(w, last_position[w], count[w])
  <2>1. e \in StoredEvent
    BY <1>5, NewStoredEventType DEF AddEvent, TypeOK
  <2>2. /\ added' = [added EXCEPT ![w] = Append(added[w], e)]
        /\ sequence' = sequence + 1
        /\ log' = log
        /\ count'[w] - 1 = count[w]
        /\ last_position'[w] = last_position[w]
    BY <1>5 DEF AddEvent, TypeOK
  <2>3. e.sequence_number = sequence /\ e = NewStoredEvent(w, last_position'[w], count'[w] - 1)
    BY <2>2 DEF NewStoredEvent
  <2>4. Follows(w, e)
    BY <1>5, AddEventFollows
  <2> HIDE DEF e
  <2>5. Adds(w, e)
    BY <2>1, <2>2, <2>3 DEF Adds
  <2>6. PendingPositionInv'
    BY <2>4, <2>5, FollowsStep
  <2> QED BY <2>2, <2>6 DEF StreamPositionsContiguous, SameStream
<1>6. ASSUME NEW w \in Writers, ConditionMet(w), Definition(w).events = 0 PROVE Quiet
  BY <1>6 DEF ConditionMet, Quiet
<1>7. ASSUME NEW w \in Writers, ConditionMet(w)
      PROVE  Definition(w).events = 0 \/ Definition(w).events > 0
  BY <1>7 DEF ConditionMet
<1>8. ASSUME NEW w \in Writers, Save(w) \/ Acquire(w) \/ ReadLastStreamEvent(w)
      PROVE  Quiet
  BY <1>8 DEF Save, Acquire, ReadLastStreamEvent, Quiet
<1>9. ASSUME NEW w \in Writers, ConditionUnmet(w) \/ Cancel(w) PROVE Drops(w)
  BY <1>9 DEF ConditionUnmet, Cancel, Drops
<1>10. CASE UNCHANGED vars
  BY <1>1, <1>10 DEF vars, Quiet
<1> QED BY <1>1, <1>2, <1>3, <1>4, <1>5, <1>6, <1>7, <1>8, <1>9, <1>10 DEF Next, Step

-----------------------------------------------------------------------------
(***************************************************************************)
(* The theorems.                                                           *)
(***************************************************************************)

\* With an empty log and no task running, every part of IInv holds.
LEMMA InitIInv == Init => IInv
<1> SUFFICES ASSUME Init PROVE IInv
  OBVIOUS
<1>1. /\ DOMAIN log = {} /\ log \in Seq(StoredEvent)
      /\ \A w \in Writers : DOMAIN added[w] = {}
      /\ added \in [Writers -> Seq(StoredEvent)]
  BY EmptySeq DEF Init
<1>2. TypeOK
  BY <1>1 DEF Init, TypeOK, Position, NoPosition
<1>3. LockInv /\ StreamInv /\ AddingInv
  BY DEF Init, LockInv, StreamInv, AddingInv, Inside
<1>4. TransactionInv
  BY <1>1 DEF Init, TransactionInv
<1>5. SequenceInv /\ PendingOrderInv /\ PendingPositionInv
  BY <1>1 DEF SequenceInv, PendingOrderInv, PendingPositionInv
<1>6. StreamPositionsContiguous /\ LockOrderInv /\ NoEventOverwritten
  BY <1>1 DEF StreamPositionsContiguous, LockOrderInv, NoEventOverwritten
<1> QED BY <1>2, <1>3, <1>4, <1>5, <1>6 DEF IInv

LEMMA InvariantStep ==
  ASSUME IInv, [Next]_vars
  PROVE  IInv'
<1> USE DEF IInv
<1>1. TypeOK' /\ StreamInv' /\ LockInv' /\ TransactionInv'
  BY TypeStep, StreamStep, LockStep, TransactionStep
<1>2. SequenceInv' /\ PendingOrderInv' /\ LockOrderInv' /\ NoEventOverwritten'
  BY SequenceStep, OrderStep
<1>3. PendingPositionInv' /\ StreamPositionsContiguous'
  BY PositionStep
<1>4. AddingInv'
  BY AddingStep
<1> QED BY <1>1, <1>2, <1>3, <1>4

\* IInv is an invariant of the specification.
THEOREM Invariant == Spec => []IInv
<1>1. Init => IInv
  BY InitIInv
<1>2. IInv /\ [Next]_vars => IInv'
  BY InvariantStep
<1> QED BY <1>1, <1>2, PTL DEF Spec

\* The state stays well typed.
THEOREM TypeCorrect == Spec => []TypeOK
<1>1. IInv => TypeOK
  BY DEF IInv
<1> QED BY <1>1, Invariant, PTL

\* Concurrent saves give every stream the positions 0, 1, 2, ... in the order
\* in which its events become visible.
THEOREM PositionsContiguous == Spec => []StreamPositionsContiguous
<1>1. IInv => StreamPositionsContiguous
  BY DEF IInv
<1> QED BY <1>1, Invariant, PTL

\* The lock of a guarantee covers its scope.
LEMMA SameScopeSameLock ==
  ASSUME NEW e, NEW f, SameScope(e, f)
  PROVE  lock_name(e) = lock_name(f)
BY GuaranteeAssumption DEF SameScope, lock_name

\* Under each serialisation guarantee, the events of one scope become visible in
\* the order of their sequence numbers.
THEOREM CommitsSerialised == Spec => []SerialisedOrder
<1>1. IInv => SerialisedOrder
  BY SameScopeSameLock DEF IInv, LockOrderInv, SerialisedOrder
<1> QED BY <1>1, Invariant, PTL

\* No commit overwrites an event of another one.
THEOREM SequenceNumbersUnique == Spec => []NoEventOverwritten
<1>1. IInv => NoEventOverwritten
  BY DEF IInv
<1> QED BY <1>1, Invariant, PTL
-----------------------------------------------------------------------------
(***************************************************************************)
(* Refinement of AtomicEventStore.  It needs to know what a transaction    *)
(* has done with each stream, in terms of the log as it is now: no other   *)
(* commit has moved the stream's last position since it was read.          *)
(***************************************************************************)
LastPosition(w, s) == LastStreamPosition(log, Target(request[w], s))

\* The streams whose condition has been found to hold.
Handled(w) ==
  DOMAIN request[w].streams \ (todo[w] \cup (IF pc[w] = "checking" THEN {current[w]} ELSE {}))

\* The number of events the transaction has for a handled stream.
AddedTo(w, s) ==
  IF pc[w] = "adding" /\ s = current[w] THEN count[w] ELSE request[w].streams[s].events

AddedPositions(w, s) ==
  {added[w][i].position : i \in {j \in DOMAIN added[w] : added[w][j].stream = s}}

\* The condition of a handled stream holds of the log as it is now, and the
\* transaction has the events that follow.
HandledOK(w) ==
  \A s \in Handled(w) :
    /\ Satisfied(request[w].streams[s].condition, LastPosition(w, s))
    /\ AddedPositions(w, s) = (LastPosition(w, s) + 1) .. (LastPosition(w, s) + AddedTo(w, s))

\* What has been read is still the case; every stream is handled before the
\* commit.
ReadOK(w) ==
  /\ pc[w] = "checking" => latest[w] = LastPosition(w, current[w])
  /\ pc[w] = "adding" =>
       last_position[w] = LastPosition(w, current[w]) /\ count[w] < Definition(w).events
  /\ pc[w] = "committing" => todo[w] = {}
  /\ \A i \in DOMAIN added[w] : added[w][i].payload = w

ContentInv == \A w \in Writers : pc[w] \in Inside => ReadOK(w) /\ HandledOK(w)

LEMMA LastPositionType ==
  ASSUME TypeOK, NEW w, NEW s
  PROVE  LastPosition(w, s) \in Position
BY LastStreamPositionType DEF TypeOK, LastPosition

\* A commit does not move the last position of a stream another task has locked.
LEMMA LastPositionKept ==
  ASSUME TypeOK, LockInv, TransactionInv, NEW w \in Writers, Commit(w),
         NEW v \in Writers \ {w}, pc[v] \in Inside, NEW s \in DOMAIN request[v].streams
  PROVE  LastPosition(v, s)' = LastPosition(v, s)
<1> DEFINE id == Target(request[v], s)
<1>1. holder[lock_name(id)] = v
  <2>1. lock_name(id) \in RequiredLocks(request[v])
    BY RequestLocks DEF TypeOK
  <2> QED BY <2>1 DEF LockInv
<1>2. \A i \in DOMAIN added[w] : ~InStream(added[w][i], id)
  <2> SUFFICES ASSUME NEW i \in DOMAIN added[w], InStream(added[w][i], id) PROVE FALSE
    OBVIOUS
  <2>1. added[w][i].category = request[w].category /\ added[w][i].stream \in DOMAIN request[w].streams
    BY DEF TransactionInv
  <2>2. /\ lock_name(id) = lock_name(added[w][i])
        /\ lock_name(added[w][i]) = lock_name(Target(request[w], added[w][i].stream))
    BY <2>1 DEF lock_name, InStream, Target
  <2>3. lock_name(id) \in RequiredLocks(request[w]) /\ pc[w] \in Inside
    BY <2>1, <2>2, RequestLocks DEF TypeOK, Commit, Inside
  <2>4. holder[lock_name(id)] = w
    BY <2>3 DEF LockInv
  <2> QED BY <1>1, <2>4
<1> HIDE DEF id
<1>3. /\ \A i \in DOMAIN log : i \in DOMAIN log' /\ log'[i] = log[i]
      /\ \A i \in DOMAIN log' : i \notin DOMAIN log =>
           i - Len(log) \in DOMAIN added[w] /\ log'[i] = added[w][i - Len(log)]
  <2>1. /\ DOMAIN log = 1 .. Len(log) /\ Len(log) \in Nat /\ Len(added[w]) \in Nat
        /\ DOMAIN log' = 1 .. (Len(log) + Len(added[w]))
    BY CommitContents
  <2>2. \A i \in DOMAIN log : i \in DOMAIN log'
    BY <2>1
  <2> QED BY <2>2, CommitContents
<1>4. StreamIndex(log', id) = StreamIndex(log, id)
  BY <1>2, <1>3 DEF StreamIndex, InStream
<1>5. LastStreamPosition(log', id) = LastStreamPosition(log, id)
  <2>1. CASE StreamIndex(log, id) = {}
    BY <1>4, <2>1 DEF LastStreamPosition
  <2>2. CASE StreamIndex(log, id) # {}
    <3>1. StreamIndex(log, id) \in SUBSET (1 .. Len(log)) /\ Len(log) \in Nat
      BY CommitContents DEF StreamIndex
    <3>2. LastIndex(StreamIndex(log, id)) \in DOMAIN log
      BY <2>2, <3>1, LastIndexProperties DEF StreamIndex
    <3>3. log'[LastIndex(StreamIndex(log, id))] = log[LastIndex(StreamIndex(log, id))]
      BY <1>3, <3>2
    <3> QED BY <1>4, <2>2, <3>3 DEF LastStreamPosition
  <2> QED BY <2>1, <2>2
<1>6. request' = request
  BY DEF Commit
<1> QED BY <1>5, <1>6 DEF LastPosition, Target, id

\* A step that leaves a task's fields and the last positions of its streams
\* alone keeps what is known of its transaction.
LEMMA ContentUntouched ==
  ASSUME StreamInv, NEW v \in Writers, pc[v] \in Inside, ReadOK(v), HandledOK(v),
         \A s \in DOMAIN request[v].streams : LastPosition(v, s)' = LastPosition(v, s),
         pc'[v] = pc[v], count'[v] = count[v], latest'[v] = latest[v],
         last_position'[v] = last_position[v], todo'[v] = todo[v],
         added'[v] = added[v], current'[v] = current[v], request'[v] = request[v]
  PROVE  ReadOK(v)' /\ HandledOK(v)'
<1>1. pc[v] \in {"checking", "adding"} =>
        /\ current[v] \in DOMAIN request[v].streams
        /\ LastPosition(v, current[v])' = LastPosition(v, current[v])
  BY DEF StreamInv
<1>2. ReadOK(v)'
  BY <1>1 DEF ReadOK, Definition
<1>3. /\ Handled(v)' = Handled(v) /\ Handled(v) \subseteq DOMAIN request[v].streams
      /\ \A s : AddedTo(v, s)' = AddedTo(v, s) /\ AddedPositions(v, s)' = AddedPositions(v, s)
  BY DEF Handled, AddedTo, AddedPositions
<1>4. HandledOK(v)'
  BY <1>3 DEF HandledOK
<1> QED BY <1>2, <1>4

\* A new event extends the positions of its own stream.
LEMMA AddsPositions ==
  ASSUME TypeOK, NEW w \in Writers, NEW e, Adds(w, e)
  PROVE  /\ \A s : AddedPositions(w, s)' =
              IF s = e.stream THEN AddedPositions(w, s) \cup {e.position} ELSE AddedPositions(w, s)
         /\ \A i \in DOMAIN added'[w] :
              (i \in DOMAIN added[w] /\ added'[w][i] = added[w][i]) \/ added'[w][i] = e
<1>1. /\ DOMAIN added[w] \subseteq DOMAIN added'[w]
      /\ \A i \in DOMAIN added[w] : added'[w][i] = added[w][i]
      /\ \A i \in DOMAIN added'[w] : i \in DOMAIN added[w] \/ i = Len(added[w]) + 1
      /\ added'[w][Len(added[w]) + 1] = e /\ Len(added[w]) + 1 \in DOMAIN added'[w]
  BY AddsContents
<1>2. \A i \in DOMAIN added'[w] :
        (i \in DOMAIN added[w] /\ added'[w][i] = added[w][i]) \/ added'[w][i] = e
  BY <1>1
<1>3. ASSUME NEW s PROVE AddedPositions(w, s)' =
        IF s = e.stream THEN AddedPositions(w, s) \cup {e.position} ELSE AddedPositions(w, s)
  <2>1. \A p : p \in AddedPositions(w, s) <=>
               \E i \in DOMAIN added[w] : added[w][i].stream = s /\ p = added[w][i].position
    BY DEF AddedPositions
  <2>2. \A p : p \in AddedPositions(w, s)' <=>
               \E i \in DOMAIN added'[w] : added'[w][i].stream = s /\ p = added'[w][i].position
    BY DEF AddedPositions
  <2>3. \A p : p \in AddedPositions(w, s)' <=>
               p \in AddedPositions(w, s) \/ (s = e.stream /\ p = e.position)
    BY <1>1, <1>2, <2>1, <2>2
  <2> QED BY <2>3
<1> QED BY <1>2, <1>3

\* A task that has got its last lock has done nothing yet.
LEMMA ContentAcquire ==
  ASSUME TypeOK, StreamInv, TransactionInv, NEW w \in Writers, Acquire(w), pc'[w] \in Inside
  PROVE  ReadOK(w)' /\ HandledOK(w)'
<1>1. pc'[w] = "reading" /\ pc[w] = "acquiring" /\ UNCHANGED <<todo, request, added>>
  BY DEF Acquire, TypeOK, Inside
<1>2. todo[w] = DOMAIN request[w].streams /\ DOMAIN added[w] = {}
  BY <1>1 DEF StreamInv, TransactionInv, Inside
<1>3. Handled(w)' = {}
  BY <1>1, <1>2 DEF Handled
<1>4. ReadOK(w)'
  BY <1>1, <1>2 DEF ReadOK
<1> QED BY <1>3, <1>4 DEF HandledOK

LEMMA ContentRead ==
  ASSUME TypeOK, StreamInv, NEW w \in Writers, ReadLastStreamEvent(w), ReadOK(w), HandledOK(w)
  PROVE  ReadOK(w)' /\ HandledOK(w)'
<1>1. PICK s \in Streams :
        /\ s \in todo[w] /\ current'[w] = s /\ todo'[w] = todo[w] \ {s}
        /\ latest'[w] = LastPosition(w, s)
  BY DEF ReadLastStreamEvent, NextToRead, TypeOK, LastPosition
<1>2. pc[w] = "reading" /\ pc'[w] = "checking" /\ UNCHANGED <<log, request, added>>
  BY DEF ReadLastStreamEvent, TypeOK
<1>3. \A u : LastPosition(w, u)' = LastPosition(w, u) /\ AddedPositions(w, u)' = AddedPositions(w, u)
  BY <1>2 DEF LastPosition, AddedPositions, Target
<1>4. ReadOK(w)'
  BY <1>1, <1>2, <1>3 DEF ReadOK
<1>5. Handled(w)' = Handled(w)
  BY <1>1, <1>2 DEF Handled
<1>6. \A u : AddedTo(w, u)' = AddedTo(w, u)
  BY <1>2 DEF AddedTo
<1>7. HandledOK(w)'
  BY <1>2, <1>3, <1>5, <1>6 DEF HandledOK
<1> QED BY <1>4, <1>7

\* The condition is checked on what was read, which is still the case.
LEMMA ContentConditionMet ==
  ASSUME TypeOK, StreamInv, TransactionInv, NEW w \in Writers, ConditionMet(w), ReadOK(w), HandledOK(w)
  PROVE  ReadOK(w)' /\ HandledOK(w)'
<1>0. PICK c, p : c = current[w] /\ p = LastPosition(w, c)
  OBVIOUS
<1> DEFINE n == IF Definition(w).events = 0 THEN 0 ELSE 1
<1>1. pc[w] = "checking" /\ UNCHANGED <<log, request, todo, current>>
  BY <1>0 DEF ConditionMet
<1>2. c \in DOMAIN request[w].streams \ todo[w] /\ Definition(w).events \in Nat /\ p \in Position
  BY <1>0, <1>1, RequestsAssumption, LastPositionType DEF StreamInv, TypeOK, Definition
<1>3. Satisfied(request[w].streams[c].condition, p) /\ last_position'[w] = p
  BY <1>0, <1>1 DEF ConditionMet, ReadOK, Definition, LastPosition, CurrentTarget, TypeOK
<1>4. count'[w] = n /\ pc'[w] = AfterAdding(w, n)
  BY <1>0, <1>2 DEF ConditionMet, TypeOK
<1>5. /\ AddedPositions(w, c)' = (p + 1) .. (p + n)
      /\ \A u : u # c => AddedPositions(w, u)' = AddedPositions(w, u)
      /\ \A i \in DOMAIN added'[w] : added'[w][i].payload = w
  <2>1. AddedPositions(w, c) = {}
    BY <1>0, <1>1 DEF AddedPositions, TransactionInv
  <2>2. CASE Definition(w).events = 0
    <3>1. added' = added
      BY <1>0, <2>2 DEF ConditionMet
    <3>2. (p + 1) .. (p + n) = {}
      BY <1>0, <1>2, <2>2 DEF Position, NoPosition
    <3> QED BY <2>1, <3>1, <3>2 DEF AddedPositions, ReadOK
  <2>3. CASE Definition(w).events > 0
    <3> DEFINE e == NewStoredEvent(w, last_position'[w], 0)
    <3>1. e \in StoredEvent
      BY <1>0, <1>1, <1>2, <1>3, NewStoredEventType
    <3>2. /\ added' = [added EXCEPT ![w] = Append(added[w], e)]
          /\ sequence' = sequence + 1
      BY <1>0, <2>3 DEF ConditionMet
    <3>3. e.sequence_number = sequence /\ e.stream = c /\ e.payload = w /\ e.position = p + 1
      BY <1>0, <1>2, <1>3 DEF NewStoredEvent, Position, NoPosition
    <3>4. e = NewStoredEvent(w, last_position'[w], count'[w] - 1)
      BY <1>0, <1>4, <2>3
    <3> HIDE DEF e
    <3>5. Adds(w, e)
      BY <1>0, <1>1, <3>1, <3>2, <3>3, <3>4 DEF Adds
    <3>6. (p + 1) .. (p + n) = {p + 1}
      BY <1>0, <1>2, <2>3 DEF Position, NoPosition
    <3>7. /\ \A u : AddedPositions(w, u)' =
               IF u = c THEN AddedPositions(w, u) \cup {p + 1} ELSE AddedPositions(w, u)
          /\ \A i \in DOMAIN added'[w] :
               (i \in DOMAIN added[w] /\ added'[w][i] = added[w][i]) \/ added'[w][i] = e
      BY <3>3, <3>5, AddsPositions
    <3>8. \A i \in DOMAIN added'[w] : added'[w][i].payload = w
      BY <3>3, <3>7 DEF ReadOK
    <3>9. AddedPositions(w, c)' = (p + 1) .. (p + n)
      BY <2>1, <3>6, <3>7
    <3> QED BY <3>7, <3>8, <3>9
  <2> QED BY <1>2, <2>2, <2>3
<1>6. \A u : LastPosition(w, u)' = LastPosition(w, u)
  BY <1>0, <1>1 DEF LastPosition, Target
<1>7. /\ pc'[w] \in {"adding", "reading", "committing"}
      /\ pc'[w] = "adding" => n < Definition(w).events
      /\ pc'[w] # "adding" => n = Definition(w).events
      /\ pc'[w] = "committing" => todo[w] = {}
  BY <1>0, <1>2, <1>4 DEF AfterAdding
<1>8. ReadOK(w)'
  BY <1>0, <1>1, <1>3, <1>4, <1>5, <1>6, <1>7 DEF ReadOK, Definition
<1>9. Handled(w)' = Handled(w) \cup {c} /\ c \notin Handled(w)
  BY <1>0, <1>1, <1>2, <1>7 DEF Handled
<1>10. AddedTo(w, c)' = n /\ \A u : u # c => AddedTo(w, u)' = AddedTo(w, u)
  BY <1>0, <1>1, <1>4, <1>7 DEF AddedTo, Definition
<1> HIDE DEF n
<1>11. HandledOK(w)'
  BY <1>0, <1>1, <1>3, <1>5, <1>6, <1>9, <1>10 DEF HandledOK
<1> QED BY <1>8, <1>11

LEMMA OneMorePosition ==
  ASSUME NEW p \in Position, NEW n \in Nat
  PROVE  ((p + 1) .. (p + n)) \cup {p + n + 1} = (p + 1) .. (p + (n + 1))
<1>1. p \in Int
  BY DEF Position, NoPosition
<1> QED BY <1>1

LEMMA ContentAddEvent ==
  ASSUME TypeOK, StreamInv, NEW w \in Writers, AddEvent(w), ReadOK(w), HandledOK(w)
  PROVE  ReadOK(w)' /\ HandledOK(w)'
<1>0. PICK c, p : c = current[w] /\ p = LastPosition(w, c)
  OBVIOUS
<1> DEFINE e == NewStoredEvent(w, last_position[w], count[w])
<1>1. /\ pc[w] = "adding" /\ pc'[w] = AfterAdding(w, count[w] + 1)
      /\ count'[w] = count[w] + 1 /\ last_position'[w] = last_position[w]
      /\ UNCHANGED <<log, request, todo, current>>
  BY <1>0 DEF AddEvent, TypeOK
<1>2. /\ c \in DOMAIN request[w].streams \ todo[w] /\ Definition(w).events \in Nat
      /\ p \in Position /\ count[w] \in Nat
  BY <1>0, <1>1, RequestsAssumption, LastPositionType DEF StreamInv, TypeOK, Definition
<1>3. last_position[w] = p /\ count[w] < Definition(w).events
  BY <1>0, <1>1 DEF ReadOK
<1>4. e \in StoredEvent
  BY <1>0, <1>1, <1>2, <1>3, NewStoredEventType
<1>5. e.sequence_number = sequence /\ e.stream = c /\ e.payload = w /\ e.position = p + count[w] + 1
  BY <1>0, <1>3 DEF NewStoredEvent
<1>6. Adds(w, e)
  <2>1. /\ added' = [added EXCEPT ![w] = Append(added[w], e)]
        /\ sequence' = sequence + 1
    BY <1>0 DEF AddEvent
  <2>2. count'[w] - 1 = count[w]
    BY <1>0, <1>1, <1>2
  <2>3. e = NewStoredEvent(w, last_position'[w], count'[w] - 1)
    BY <1>0, <1>1, <2>2
  <2> HIDE DEF e
  <2> QED BY <1>1, <1>4, <1>5, <2>1, <2>3 DEF Adds
<1> HIDE DEF e
<1>7. /\ pc'[w] \in {"adding", "reading", "committing"}
      /\ pc'[w] = "adding" => count[w] + 1 < Definition(w).events
      /\ pc'[w] # "adding" => count[w] + 1 = Definition(w).events
      /\ pc'[w] = "committing" => todo[w] = {}
  BY <1>0, <1>1, <1>2, <1>3 DEF AfterAdding
<1>8. \A u : LastPosition(w, u)' = LastPosition(w, u)
  BY <1>0, <1>1 DEF LastPosition, Target
<1>9. ReadOK(w)'
  <2>1. \A i \in DOMAIN added'[w] : added'[w][i].payload = w
    BY <1>0, <1>5, <1>6, AddsPositions DEF ReadOK
  <2> QED BY <1>1, <1>3, <1>7, <1>8, <2>1 DEF ReadOK, Definition
<1>10. Handled(w)' = Handled(w) /\ c \in Handled(w)
  BY <1>0, <1>1, <1>2, <1>7 DEF Handled
<1>11. /\ AddedTo(w, c) = count[w] /\ AddedTo(w, c)' = count[w] + 1
       /\ \A u : u # c => AddedTo(w, u)' = AddedTo(w, u)
  BY <1>0, <1>1, <1>7 DEF AddedTo, Definition
<1>12. /\ AddedPositions(w, c)' = AddedPositions(w, c) \cup {p + count[w] + 1}
       /\ \A u : u # c => AddedPositions(w, u)' = AddedPositions(w, u)
  BY <1>0, <1>5, <1>6, AddsPositions
<1>13. AddedPositions(w, c) = (p + 1) .. (p + count[w])
  BY <1>0, <1>10, <1>11 DEF HandledOK
<1>14. AddedPositions(w, c)' = (p + 1) .. (p + (count[w] + 1))
  BY <1>2, <1>12, <1>13, OneMorePosition
<1>15. HandledOK(w)'
  BY <1>0, <1>1, <1>8, <1>10, <1>11, <1>12, <1>14 DEF HandledOK
<1> QED BY <1>9, <1>15

\* What is known of the transactions is preserved.
LEMMA ContentStep ==
  ASSUME IInv, ContentInv, [Next]_vars
  PROVE  ContentInv'
<1> USE DEF IInv
<1> SUFFICES ASSUME NEW v \in Writers, pc'[v] \in Inside PROVE ReadOK(v)' /\ HandledOK(v)'
  BY DEF ContentInv
<1>0. pc[v] \in Inside => ReadOK(v) /\ HandledOK(v)
  BY DEF ContentInv
<1>a. ASSUME log' = log, UNCHANGED <<pc[v], count[v], latest[v], last_position[v], todo[v],
                                     added[v], current[v], request[v]>>
      PROVE  ReadOK(v)' /\ HandledOK(v)'
  <2>1. \A s \in DOMAIN request[v].streams : LastPosition(v, s)' = LastPosition(v, s)
    BY <1>a DEF LastPosition, Target
  <2> QED BY <1>0, <1>a, <2>1, ContentUntouched
<1>1. ASSUME NEW w \in Writers \ {v}, Save(w) \/ Acquire(w) \/ ReadLastStreamEvent(w) \/ ConditionMet(w)
                                       \/ ConditionUnmet(w) \/ AddEvent(w) \/ Cancel(w)
      PROVE  ReadOK(v)' /\ HandledOK(v)'
  <2>1. log' = log /\ UNCHANGED <<pc[v], count[v], latest[v], last_position[v], todo[v],
                                  added[v], current[v], request[v]>>
    BY <1>1 DEF Save, Acquire, ReadLastStreamEvent, ConditionMet, ConditionUnmet, AddEvent, Cancel, TypeOK
  <2> QED BY <1>a, <2>1
<1>2. ASSUME NEW w \in Writers \ {v}, Commit(w) PROVE ReadOK(v)' /\ HandledOK(v)'
  <2>1. UNCHANGED <<pc[v], count[v], latest[v], last_position[v], todo[v],
                    added[v], current[v], request[v]>>
    BY <1>2 DEF Commit, TypeOK
  <2>2. \A s \in DOMAIN request[v].streams : LastPosition(v, s)' = LastPosition(v, s)
    BY <1>2, <2>1, LastPositionKept
  <2> QED BY <1>0, <2>1, <2>2, ContentUntouched
<1>3. ASSUME Save(v) \/ ConditionUnmet(v) \/ Commit(v) \/ Cancel(v) PROVE FALSE
  BY <1>3 DEF Save, ConditionUnmet, Commit, Cancel, TypeOK, Inside
<1>4. CASE Acquire(v)
  BY <1>4, ContentAcquire
<1>5. CASE ReadLastStreamEvent(v)
  BY <1>0, <1>5, ContentRead DEF ReadLastStreamEvent, Inside
<1>6. CASE ConditionMet(v)
  BY <1>0, <1>6, ContentConditionMet DEF ConditionMet, Inside
<1>7. CASE AddEvent(v)
  BY <1>0, <1>7, ContentAddEvent DEF AddEvent, Inside
<1>8. CASE UNCHANGED vars
  BY <1>8, <1>a DEF vars
<1> QED BY <1>1, <1>2, <1>3, <1>4, <1>5, <1>6, <1>7, <1>8 DEF Next, Step

\* What is known of the transactions holds in every reachable state.
THEOREM TransactionContents == Spec => []ContentInv
<1>1. Init => ContentInv
  BY DEF Init, ContentInv, Inside
<1>2. IInv /\ ContentInv /\ [Next]_vars => ContentInv'
  BY ContentStep
<1> QED BY Invariant, <1>1, <1>2, PTL DEF Spec

-----------------------------------------------------------------------------
\* The last position of a stream of the log is what the abstract store takes
\* for it.
LEMMA LatestVisible ==
  ASSUME TypeOK, StreamPositionsContiguous, NEW id
  PROVE  Atomic!LatestPosition(Visible(log), id) = LastStreamPosition(log, id)
<1> DEFINE P == Atomic!PositionsOf(Visible(log), id)
<1>0. P = {x.position : x \in {f \in Visible(log) : f.category = id.category /\ f.stream = id.stream}}
  BY DEF Atomic!PositionsOf, Atomic!InStream
<1>1. P = {log[i].position : i \in StreamIndex(log, id)}
  <2>1. ASSUME NEW q \in P PROVE \E i \in StreamIndex(log, id) : q = log[i].position
    <3>1. PICK x \in Visible(log) : x.category = id.category /\ x.stream = id.stream /\ q = x.position
      BY <1>0, <2>1
    <3>2. PICK i \in DOMAIN log :
            x = [category |-> log[i].category, stream |-> log[i].stream,
                 position |-> log[i].position, payload |-> log[i].payload]
      BY DEF Visible
    <3> QED BY <3>1, <3>2 DEF StreamIndex, InStream
  <2>2. ASSUME NEW i \in StreamIndex(log, id) PROVE log[i].position \in P
    <3> DEFINE x == [category |-> log[i].category, stream |-> log[i].stream,
                     position |-> log[i].position, payload |-> log[i].payload]
    <3>1. x \in Visible(log) /\ x.category = id.category /\ x.stream = id.stream
      BY DEF Visible, StreamIndex, InStream
    <3> QED BY <1>0, <3>1
  <2> HIDE DEF P
  <2> QED BY <2>1, <2>2
<1>2. \A i \in StreamIndex(log, id) : log[i].position \in Nat
  <2>1. \A i \in DOMAIN log : log[i] \in StoredEvent
    BY ElementOfSeq, LenProperties DEF TypeOK
  <2> QED BY <2>1 DEF StoredEvent, StreamIndex
<1>3. CASE StreamIndex(log, id) = {}
  <2>1. P = {}
    BY <1>1, <1>3
  <2> QED BY <1>3, <2>1 DEF Atomic!LatestPosition, LastStreamPosition, NoPosition, Atomic!NoPosition
<1>4. CASE StreamIndex(log, id) # {}
  <2> DEFINE p == LastStreamPosition(log, id)
  <2>1. \A q \in P : q \in Nat /\ q <= p
    BY <1>1, <1>2, LastStreamPositionBound DEF StreamIndex
  <2>2. p \in P
    <3>1. PICK q \in P : TRUE
      BY <1>1, <1>4
    <3>2. p \in Position
      BY LastStreamPositionType DEF TypeOK
    <3>3. p >= 0
      BY <2>1, <3>2 DEF Position, NoPosition
    <3> QED BY <1>1, <3>3, LastStreamPositionBound DEF StreamIndex
  <2> HIDE DEF P, p
  <2>3. \A q \in P : (\A r \in P : r <= q) => q = p
    BY <2>1, <2>2
  <2>4. Atomic!LastIndex(P) = p
    BY <2>1, <2>2, <2>3 DEF Atomic!LastIndex
  <2> QED BY <2>2, <2>4 DEF Atomic!LatestPosition, P, p
<1> QED BY <1>3, <1>4

LEMMA AcceptsVisible ==
  ASSUME IInv, NEW w \in Writers, NEW s \in DOMAIN request[w].streams
  PROVE  /\ Atomic!LatestPosition(Visible(log), Atomic!Target(request[w], s)) = LastPosition(w, s)
         /\ Atomic!Accepts(Visible(log), request[w], s)
              <=> Satisfied(request[w].streams[s].condition, LastPosition(w, s))
BY LatestVisible DEF IInv, LastPosition, Atomic!Accepts, Target, Atomic!Target

\* A commit publishes exactly what the abstract store publishes.
LEMMA CommitPublishes ==
  ASSUME IInv, ContentInv, NEW w \in Writers, Commit(w)
  PROVE  Visible(log)' = Visible(log) \cup Atomic!NewEvents(Visible(log), w, request[w])
<1> DEFINE Show(e) == [category |-> e.category, stream |-> e.stream,
                       position |-> e.position, payload |-> e.payload]
           r == request[w]
           New == Atomic!NewEvents(Visible(log), w, r)
<1>0. pc[w] = "committing" /\ ReadOK(w) /\ HandledOK(w) /\ todo[w] = {}
  BY DEF Commit, ContentInv, Inside, ReadOK
<1>1. Visible(log)' = Visible(log) \cup {Show(added[w][i]) : i \in DOMAIN added[w]}
  <2>1. /\ DOMAIN log = 1 .. Len(log) /\ Len(log) \in Nat
        /\ DOMAIN added[w] = 1 .. Len(added[w]) /\ Len(added[w]) \in Nat
        /\ DOMAIN log' = 1 .. (Len(log) + Len(added[w]))
        /\ \A i \in DOMAIN log : log'[i] = log[i]
        /\ \A i \in DOMAIN log' : ~(i \in DOMAIN log) =>
             i - Len(log) \in DOMAIN added[w] /\ log'[i] = added[w][i - Len(log)]
    BY CommitContents DEF IInv
  <2>2. \A i \in DOMAIN log : i \in DOMAIN log'
    BY <2>1
  <2>3. ASSUME NEW j \in DOMAIN added[w]
        PROVE  Len(log) + j \in DOMAIN log' /\ log'[Len(log) + j] = added[w][j]
    <3>1. /\ Len(log) + j \in DOMAIN log' /\ Len(log) + j \notin DOMAIN log
          /\ (Len(log) + j) - Len(log) = j
      BY <2>1
    <3> QED BY <2>1, <3>1
  <2>4. Visible(log) = {Show(log[i]) : i \in DOMAIN log} /\ Visible(log)' = {Show(log'[i]) : i \in DOMAIN log'}
    BY DEF Visible
  <2>5. ASSUME NEW x \in Visible(log)'
        PROVE  x \in Visible(log) \cup {Show(added[w][i]) : i \in DOMAIN added[w]}
    <3> HIDE DEF Show
    <3>1. PICK i \in DOMAIN log' : x = Show(log'[i])
      BY <2>4, <2>5
    <3> QED BY <2>1, <2>4, <3>1
  <2>6. ASSUME NEW x \in Visible(log) \cup {Show(added[w][i]) : i \in DOMAIN added[w]}
        PROVE  x \in Visible(log)'
    <3> HIDE DEF Show
    <3>1. CASE x \in Visible(log)
      <4>1. PICK i \in DOMAIN log : x = Show(log[i])
        BY <2>4, <3>1
      <4>2. i \in DOMAIN log' /\ log'[i] = log[i]
        BY <2>1, <2>2
      <4> QED BY <2>4, <4>1, <4>2
    <3>2. CASE x \in {Show(added[w][i]) : i \in DOMAIN added[w]}
      <4>1. PICK i \in DOMAIN added[w] : x = Show(added[w][i])
        BY <3>2
      <4> QED BY <2>3, <2>4, <4>1
    <3> QED BY <2>6, <3>1, <3>2
  <2> HIDE DEF Show
  <2> QED BY <2>5, <2>6
<1>2. New = UNION { { [category |-> r.category, stream |-> s, position |-> p, payload |-> w] :
                        p \in (LastPosition(w, s) + 1) .. (LastPosition(w, s) + r.streams[s].events) } :
                    s \in DOMAIN r.streams }
  <2>1. \A s \in DOMAIN r.streams :
          Atomic!LatestPosition(Visible(log), Atomic!Target(r, s)) = LastPosition(w, s)
    BY AcceptsVisible
  <2> QED BY <2>1 DEF Atomic!NewEvents
<1>3. ASSUME NEW s \in DOMAIN r.streams
      PROVE  AddedPositions(w, s)
               = (LastPosition(w, s) + 1) .. (LastPosition(w, s) + r.streams[s].events)
  BY <1>0 DEF HandledOK, Handled, AddedTo
<1>4. ASSUME NEW i \in DOMAIN added[w] PROVE Show(added[w][i]) \in New
  <2>1. /\ added[w][i].stream \in DOMAIN r.streams /\ added[w][i].category = r.category
        /\ added[w][i].payload = w
    BY <1>0 DEF IInv, TransactionInv, ReadOK
  <2>2. added[w][i].position \in AddedPositions(w, added[w][i].stream)
    BY DEF AddedPositions
  <2>3. added[w][i].position \in (LastPosition(w, added[w][i].stream) + 1)
                   .. (LastPosition(w, added[w][i].stream) + r.streams[added[w][i].stream].events)
    BY <1>3, <2>1, <2>2
  <2>4. Show(added[w][i]) = [category |-> r.category, stream |-> added[w][i].stream,
                             position |-> added[w][i].position, payload |-> w]
    BY <2>1
  <2> HIDE DEF Show
  <2> QED BY <1>2, <2>1, <2>3, <2>4
<1>5. ASSUME NEW x \in New PROVE \E i \in DOMAIN added[w] : x = Show(added[w][i])
  <2>0. PICK s \in DOMAIN r.streams :
          \E p \in (LastPosition(w, s) + 1) .. (LastPosition(w, s) + r.streams[s].events) :
            x = [category |-> r.category, stream |-> s, position |-> p, payload |-> w]
    BY <1>2, <1>5
  <2>1. PICK p \in AddedPositions(w, s) :
          x = [category |-> r.category, stream |-> s, position |-> p, payload |-> w]
    BY <1>3, <2>0
  <2>2. PICK i \in DOMAIN added[w] : added[w][i].stream = s /\ added[w][i].position = p
    BY DEF AddedPositions
  <2>3. added[w][i].category = r.category /\ added[w][i].payload = w
    BY <1>0 DEF IInv, TransactionInv, ReadOK
  <2> QED BY <2>1, <2>2, <2>3
<1> HIDE DEF New
<1>6. New = {Show(added[w][i]) : i \in DOMAIN added[w]}
  BY <1>4, <1>5
<1> QED BY <1>1, <1>6 DEF New

LEMMA RefinementStep ==
  ASSUME IInv, ContentInv, [Next]_vars
  PROVE  [Atomic!Next]_(Atomic!vars)
<1> USE DEF IInv, TypeOK, Inside, Ended
<1>a. ASSUME log' = log PROVE Visible(log)' = Visible(log)
  BY <1>a DEF Visible
<1>b. ASSUME NEW w \in Writers, NEW to, pc' = [pc EXCEPT ![w] = to]
      PROVE  Outcome' = [Outcome EXCEPT ![w] =
                           IF to \in Inside \cup {"acquiring"} THEN "pending" ELSE to]
  BY <1>b DEF Outcome
<1>c. ASSUME NEW w \in Writers, NEW to \in Inside \cup {"acquiring"}, pc[w] \in Inside \cup {"acquiring"},
             pc' = [pc EXCEPT ![w] = to], UNCHANGED <<log, request>>
      PROVE  UNCHANGED Atomic!vars
  BY <1>a, <1>b, <1>c DEF Outcome, Atomic!vars
<1>1. ASSUME NEW w \in Writers, Save(w) PROVE Atomic!Call(w)
  BY <1>1, <1>a, <1>b DEF Save, Atomic!Call, Outcome
<1>2. ASSUME NEW w \in Writers, Acquire(w) PROVE UNCHANGED Atomic!vars
  BY <1>2, <1>c DEF Acquire
<1>3. ASSUME NEW w \in Writers, ReadLastStreamEvent(w) PROVE UNCHANGED Atomic!vars
  BY <1>3, <1>c DEF ReadLastStreamEvent
<1>4. ASSUME NEW w \in Writers, ConditionMet(w) \/ AddEvent(w) PROVE UNCHANGED Atomic!vars
  <2>1. PICK n : pc' = [pc EXCEPT ![w] = AfterAdding(w, n)]
    BY <1>4 DEF ConditionMet, AddEvent
  <2>2. AfterAdding(w, n) \in Inside
    BY AfterAddingCases
  <2> QED BY <1>4, <2>1, <2>2, <1>c DEF ConditionMet, AddEvent
<1>5. ASSUME NEW w \in Writers, Commit(w) PROVE Atomic!Publish(w)
  <2>1. pc[w] = "committing" /\ pc' = [pc EXCEPT ![w] = "saved"] /\ request' = request
    BY <1>5 DEF Commit
  <2>2. \A s \in DOMAIN request[w].streams : Atomic!Accepts(Visible(log), request[w], s)
    BY <2>1, AcceptsVisible DEF ContentInv, ReadOK, HandledOK, Handled
  <2>3. Visible(log)' = Visible(log) \cup Atomic!NewEvents(Visible(log), w, request[w])
    BY <1>5, CommitPublishes
  <2>4. Outcome[w] = "pending" /\ Outcome' = [Outcome EXCEPT ![w] = "saved"]
    BY <2>1, <1>b DEF Outcome
  <2> QED BY <2>1, <2>2, <2>3, <2>4 DEF Atomic!Publish, Atomic!PublishWith
<1>6. ASSUME NEW w \in Writers, ConditionUnmet(w) PROVE Atomic!Reject(w)
  <2>1. pc[w] = "checking" /\ pc' = [pc EXCEPT ![w] = "rejected"] /\ UNCHANGED <<log, request>>
    BY <1>6 DEF ConditionUnmet
  <2>2. current[w] \in DOMAIN request[w].streams /\ latest[w] = LastPosition(w, current[w])
    BY <2>1 DEF StreamInv, ContentInv, ReadOK
  <2>3. \E s \in DOMAIN request[w].streams : ~Atomic!Accepts(Visible(log), request[w], s)
    BY <1>6, <2>2, AcceptsVisible DEF ConditionUnmet, Definition
  <2>4. Outcome[w] = "pending" /\ Outcome' = [Outcome EXCEPT ![w] = "rejected"]
    BY <2>1, <1>b DEF Outcome
  <2> QED BY <2>1, <2>3, <2>4, <1>a DEF Atomic!Reject
<1>7. ASSUME NEW w \in Writers, Cancel(w) PROVE Atomic!Abandon(w)
  <2>1. pc[w] \in Inside \cup {"acquiring"} /\ pc' = [pc EXCEPT ![w] = "cancelled"] /\ UNCHANGED <<log, request>>
    BY <1>7 DEF Cancel
  <2>2. Outcome[w] = "pending" /\ Outcome' = [Outcome EXCEPT ![w] = "cancelled"]
    BY <2>1, <1>b DEF Outcome
  <2> QED BY <2>1, <2>2, <1>a DEF Atomic!Abandon
<1>8. CASE UNCHANGED vars
  BY <1>8, <1>a DEF vars, Atomic!vars, Outcome
<1> QED BY <1>1, <1>2, <1>3, <1>4, <1>5, <1>6, <1>7, <1>8 DEF Next, Step, Atomic!Next

LEMMA RefinementInit == ASSUME Init PROVE Atomic!Init
<1>1. Visible(log) = {}
  BY DEF Init, Visible
<1> QED BY <1>1 DEF Init, Atomic!Init, Outcome, Inside

\* save is atomic: although it yields between its locks, its reads, its checks
\* and its commit, and can be cancelled at each of these points, it acts as one
\* step of the abstract store, its write conditions true of the streams as they
\* are in that very step.
THEOREM SaveIsAtomic == Spec => AtomicSpec
<1>1. Init => Atomic!Init
  BY RefinementInit
<1>2. IInv /\ ContentInv /\ [Next]_vars => [Atomic!Next]_(Atomic!vars)
  BY RefinementStep
<1> QED BY Invariant, TransactionContents, <1>1, <1>2, PTL DEF Spec, AtomicSpec, Atomic!Spec

-----------------------------------------------------------------------------
(***************************************************************************)
(* EventReader: scans of the in-memory adapter beside any number of        *)
(* writers.                                                                *)
(***************************************************************************)

\* The target lies within the scope that the guarantee orders.  A wider scan,
\* such as one of a category under the stream guarantee, may miss events.
ReadWithinGuarantee ==
  /\ Guarantee = "category" => ReadTarget.kind \in {"category", "stream"}
  /\ Guarantee = "stream" => ReadTarget.kind = "stream"

-----------------------------------------------------------------------------
(***************************************************************************)
(* The invariant.  What has been delivered is in the log; the snapshot is  *)
(* what the log was; before the cursor the snapshot has nothing the reader *)
(* has not seen, and behind it nothing that it has seen in this scan.      *)
(***************************************************************************)
DeliveredInv ==
  \A i \in DOMAIN delivered :
    InTarget(delivered[i]) /\ \E k \in DOMAIN log : log[k] = delivered[i]

SnapshotInv ==
  \A i \in DOMAIN snapshot : i \in DOMAIN log /\ snapshot[i] = log[i]

CursorInv ==
  reading =>
    /\ after <= LastSeen
    /\ \A i \in DOMAIN snapshot :
         InTarget(snapshot[i]) =>
           IF i < next THEN snapshot[i].sequence_number <= LastSeen
           ELSE snapshot[i].sequence_number > LastSeen \/ snapshot[i].sequence_number <= after

ReaderInv ==
  IInv /\ ReaderTypeOK /\ DeliveredInv /\ SnapshotInv /\ CursorInv /\ DeliveredExactly

-----------------------------------------------------------------------------
(***************************************************************************)
(* The log and the reader's position in it.                                *)
(***************************************************************************)
LEMMA EventsFacts ==
  ASSUME NEW L \in Seq(StoredEvent)
  PROVE  /\ DOMAIN L = 1 .. Len(L) /\ Len(L) \in Nat
         /\ \A i \in DOMAIN L : L[i] \in StoredEvent /\ L[i].sequence_number \in Nat
<1>1. DOMAIN L = 1 .. Len(L) /\ Len(L) \in Nat /\ \A i \in DOMAIN L : L[i] \in StoredEvent
  BY ElementOfSeq, LenProperties
<1> QED BY <1>1 DEF StoredEvent

LEMMA LogFacts ==
  ASSUME IInv
  PROVE  /\ DOMAIN log = 1 .. Len(log) /\ Len(log) \in Nat
         /\ \A i \in DOMAIN log : log[i] \in StoredEvent /\ log[i].sequence_number \in Nat
BY EventsFacts DEF IInv, TypeOK

\* Within the target the log is ordered by sequence number.
LEMMA TargetInOrder ==
  ASSUME ReadWithinGuarantee, IInv, NEW i \in DOMAIN log, NEW j \in DOMAIN log, i < j,
         InTarget(log[i]), InTarget(log[j])
  PROVE  log[i].sequence_number < log[j].sequence_number
<1>1. SameScope(log[i], log[j])
  BY GuaranteeAssumption DEF InTarget, ReadWithinGuarantee, SameScope
<1> QED BY <1>1, SameScopeSameLock DEF IInv, LockOrderInv

LEMMA TargetInOrderAfter ==
  ASSUME ReadWithinGuarantee, IInv', NEW i \in DOMAIN log', NEW j \in DOMAIN log', i < j,
         InTarget(log'[i]), InTarget(log'[j])
  PROVE  log'[i].sequence_number < log'[j].sequence_number
<1>1. SameScope(log'[i], log'[j])
  BY GuaranteeAssumption DEF InTarget, ReadWithinGuarantee, SameScope
<1>2. lock_name(log'[i]) = lock_name(log'[j])
  BY <1>1, SameScopeSameLock
<1> QED BY <1>2 DEF IInv, LockOrderInv, lock_name

\* A step of a writer appends to the log or leaves it alone.
LEMMA LogGrows ==
  ASSUME IInv, [Next]_vars
  PROVE  \A i \in DOMAIN log : i \in DOMAIN log' /\ log'[i] = log[i]
<1>1. ASSUME NEW w \in Writers, Commit(w)
      PROVE  \A i \in DOMAIN log : i \in DOMAIN log' /\ log'[i] = log[i]
  <2>1. /\ DOMAIN log = 1 .. Len(log) /\ Len(log) \in Nat /\ Len(added[w]) \in Nat
        /\ DOMAIN log' = 1 .. (Len(log) + Len(added[w]))
        /\ \A i \in DOMAIN log : log'[i] = log[i]
    BY <1>1, CommitContents DEF IInv
  <2> QED BY <2>1
<1> QED BY <1>1, StepKinds DEF IInv, Quiet, Drops, Adds

\* The reader has seen the sequence numbers up to that of the last event
\* delivered.
LEMMA LastSeenFacts ==
  ASSUME IInv, ReaderTypeOK, DeliveredInv, DeliveredInOrder
  PROVE  /\ LastSeen \in Nat \cup {-1}
         /\ DOMAIN delivered = 1 .. Len(delivered) /\ Len(delivered) \in Nat
         /\ \A i \in DOMAIN delivered :
              delivered[i].sequence_number \in Nat /\ delivered[i].sequence_number <= LastSeen
         /\ LastSeen # -1 => \E k \in DOMAIN log :
              InTarget(log[k]) /\ log[k].sequence_number = LastSeen
<1> DEFINE d == Len(delivered)
<1>1. DOMAIN delivered = 1 .. d /\ d \in Nat /\ (delivered = <<>> <=> d = 0)
  BY LenProperties, EmptySeq DEF ReaderTypeOK
<1>2. \A i \in DOMAIN delivered : delivered[i].sequence_number \in Nat
  BY LogFacts DEF DeliveredInv
<1>3. CASE delivered = <<>>
  BY <1>1, <1>3 DEF LastSeen
<1>4. CASE delivered # <<>>
  <2>1. d \in DOMAIN delivered /\ LastSeen = delivered[d].sequence_number
    BY <1>1, <1>4 DEF LastSeen
  <2> HIDE DEF d
  <2>2. \A i \in DOMAIN delivered : i = d \/ i < d
    BY <1>1
  <2>3. \A i \in DOMAIN delivered : delivered[i].sequence_number <= LastSeen
    BY <1>2, <2>1, <2>2 DEF DeliveredInOrder
  <2> QED BY <1>1, <1>2, <2>1, <2>3 DEF DeliveredInv, d
<1> QED BY <1>3, <1>4

-----------------------------------------------------------------------------
(***************************************************************************)
(* Steps.                                                                  *)
(***************************************************************************)

\* Writers do not disturb the scan: within the target, what they append comes
\* after everything the reader has seen.
LEMMA WriterStep ==
  ASSUME ReadWithinGuarantee, ReaderInv, [Next]_vars, UNCHANGED reader
  PROVE  ReaderInv'
<1> USE DEF ReaderInv, DeliveredExactly
<1>1. IInv'
  BY InvariantStep
<1>2. \A i \in DOMAIN log : i \in DOMAIN log' /\ log'[i] = log[i]
  BY LogGrows
<1>3. UNCHANGED <<reading, snapshot, next, after, delivered>> /\ LastSeen' = LastSeen
  BY DEF reader, LastSeen
<1>4. ReaderTypeOK' /\ DeliveredInv' /\ SnapshotInv' /\ CursorInv' /\ DeliveredInOrder'
  BY <1>2, <1>3 DEF ReaderTypeOK, DeliveredInv, SnapshotInv, CursorInv, DeliveredInOrder, InTarget
<1>5. NoSkippedEvent'
  <2> SUFFICES ASSUME NEW i \in DOMAIN log', InTarget(log'[i]), log'[i].sequence_number <= LastSeen
               PROVE  \E j \in DOMAIN delivered : delivered[j] = log'[i]
    BY <1>3 DEF NoSkippedEvent, InTarget
  <2>1. CASE i \in DOMAIN log
    BY <1>2, <2>1 DEF NoSkippedEvent
  <2>2. CASE i \notin DOMAIN log
    <3>1. /\ log'[i].sequence_number \in Nat
          /\ DOMAIN log' = 1 .. Len(log') /\ Len(log') \in Nat
      BY <1>1, EventsFacts DEF IInv, TypeOK
    <3>2. LastSeen \in Nat \cup {-1} /\ LastSeen # -1
      BY <3>1, LastSeenFacts
    <3>3. PICK k \in DOMAIN log : InTarget(log[k]) /\ log[k].sequence_number = LastSeen
      BY <3>2, LastSeenFacts
    <3>4. k \in DOMAIN log' /\ log'[k] = log[k] /\ k < i
      <4>1. DOMAIN log = 1 .. Len(log) /\ Len(log) \in Nat
        BY LogFacts
      <4> QED BY <1>2, <2>2, <3>1, <4>1
    <3>5. log'[k].sequence_number < log'[i].sequence_number
      BY <1>1, <3>3, <3>4, TargetInOrderAfter
    <3> QED BY <3>1, <3>2, <3>3, <3>4, <3>5
  <2> QED BY <2>1, <2>2
<1> QED BY <1>1, <1>4, <1>5

\* A scan starts from the last event seen.
LEMMA StartScanStep ==
  ASSUME ReaderInv, StartScan, UNCHANGED vars
  PROVE  ReaderInv'
<1> USE DEF ReaderInv, DeliveredExactly
<1>1. IInv'
  BY InvariantStep
<1>2. /\ UNCHANGED <<log, delivered>> /\ reading' = TRUE /\ snapshot' = log /\ next' = 1
      /\ after' = LastSeen /\ LastSeen' = LastSeen
  BY DEF StartScan, vars, LastSeen
<1>3. LastSeen \in Nat \cup {-1}
  BY LastSeenFacts
<1>4. log \in Seq(StoredEvent) /\ Len(log) \in Nat /\ \A i \in DOMAIN log : log[i].sequence_number \in Nat
  BY LogFacts DEF IInv, TypeOK
<1>5. ReaderTypeOK'
  BY <1>2, <1>3, <1>4 DEF ReaderTypeOK
<1>6. SnapshotInv' /\ DeliveredInv' /\ NoSkippedEvent' /\ DeliveredInOrder'
  BY <1>2 DEF SnapshotInv, DeliveredInv, NoSkippedEvent, DeliveredInOrder, InTarget
<1>7. CursorInv'
  <2>1. \A i \in DOMAIN log : i \in Nat /\ ~(i < 1)
    BY LogFacts
  <2> QED BY <1>2, <1>3, <1>4, <2>1 DEF CursorInv
<1> QED BY <1>1, <1>5, <1>6, <1>7

\* The event yielded is the next of the target that the reader has not seen.
LEMMA YieldStep ==
  ASSUME ReadWithinGuarantee, ReaderInv, Yield, UNCHANGED vars
  PROVE  ReaderInv'
<1> USE DEF ReaderInv, DeliveredExactly
<1>1. IInv'
  BY InvariantStep
<1>2. reading = TRUE /\ UNCHANGED <<log, reading, snapshot, after>>
  BY DEF Yield, vars, ReaderTypeOK
<1>3. PICK i \in next .. Len(snapshot) :
        /\ InTarget(snapshot[i]) /\ snapshot[i].sequence_number > after
        /\ \A j \in next .. (i - 1) : ~(InTarget(snapshot[j]) /\ snapshot[j].sequence_number > after)
        /\ next' = i + 1
        /\ delivered' = Append(delivered, snapshot[i])
  BY DEF Yield, SequenceNumberAfter
<1>4. /\ DOMAIN snapshot = 1 .. Len(snapshot) /\ Len(snapshot) \in Nat /\ next \in 1 .. (Len(snapshot) + 1)
      /\ after \in Nat \cup {-1}
  BY LenProperties DEF ReaderTypeOK
<1>5. i \in DOMAIN snapshot /\ i \in Nat /\ next \in Nat /\ next <= i
  BY <1>4
<1> DEFINE e == log[i]
           d == Len(delivered)
<1>6. i \in DOMAIN log /\ snapshot[i] = e
  BY <1>5 DEF SnapshotInv
<1>7. e \in StoredEvent /\ e.sequence_number \in Nat /\ InTarget(e) /\ e.sequence_number > after
  BY <1>3, <1>6, LogFacts
<1>8. /\ LastSeen \in Nat \cup {-1} /\ DOMAIN delivered = 1 .. d /\ d \in Nat
      /\ \A j \in DOMAIN delivered :
           delivered[j].sequence_number \in Nat /\ delivered[j].sequence_number <= LastSeen
  BY LastSeenFacts
<1>9. e.sequence_number > LastSeen
  <2>1. ~(i < next)
    BY <1>5
  <2>2. snapshot[i].sequence_number > LastSeen \/ snapshot[i].sequence_number <= after
    BY <1>2, <1>3, <1>5, <2>1 DEF CursorInv
  <2> QED BY <1>4, <1>6, <1>7, <2>2
<1>10. /\ delivered' \in Seq(StoredEvent) /\ delivered' # <<>>
       /\ Len(delivered') = d + 1 /\ DOMAIN delivered' = 1 .. (d + 1)
       /\ \A j \in 1 .. d : delivered'[j] = delivered[j]
       /\ delivered'[d + 1] = e
  <2>1. delivered' = Append(delivered, e) /\ delivered \in Seq(StoredEvent)
    BY <1>3, <1>6 DEF ReaderTypeOK
  <2> HIDE DEF e
  <2> QED BY <1>7, <2>1, AppendProperties, LenProperties
<1>11. LastSeen' = e.sequence_number
  BY <1>10 DEF LastSeen
<1> HIDE DEF e, d
<1>12. ReaderTypeOK'
  <2>1. i + 1 \in 1 .. (Len(snapshot) + 1)
    BY <1>4, <1>5
  <2> QED BY <1>2, <1>3, <1>10, <2>1 DEF ReaderTypeOK
<1>13. DeliveredInv'
  <2> SUFFICES ASSUME NEW j \in 1 .. (d + 1)
               PROVE  InTarget(delivered'[j]) /\ \E k \in DOMAIN log : log[k] = delivered'[j]
    BY <1>2, <1>10 DEF DeliveredInv, InTarget
  <2>1. CASE j = d + 1
    BY <1>6, <1>7, <1>10, <2>1 DEF e
  <2>2. CASE j # d + 1
    <3>1. j \in 1 .. d
      BY <1>8, <2>2
    <3> QED BY <1>8, <1>10, <3>1 DEF DeliveredInv
  <2> QED BY <2>1, <2>2
<1>14. SnapshotInv'
  BY <1>2 DEF SnapshotInv
\* Where an event of the snapshot lies, seen from the one that is yielded.
<1>15. ASSUME NEW j \in DOMAIN snapshot, InTarget(snapshot[j])
       PROVE  /\ j < i => snapshot[j].sequence_number < e.sequence_number
              /\ i < j => e.sequence_number < snapshot[j].sequence_number
              /\ snapshot[j].sequence_number \in Nat /\ j \in Nat
  <2>1. j \in DOMAIN log /\ snapshot[j] = log[j] /\ j \in Nat
    BY <1>4 DEF SnapshotInv
  <2>2. InTarget(log[j]) /\ InTarget(log[i])
    BY <1>7, <1>15, <2>1 DEF e
  <2> QED BY <1>6, <2>1, <2>2, TargetInOrder, LogFacts DEF e
<1>16. CursorInv'
  <2>1. after <= e.sequence_number
    BY <1>4, <1>7
  <2>2. ASSUME NEW j \in DOMAIN snapshot, InTarget(snapshot[j])
        PROVE  IF j < i + 1 THEN snapshot[j].sequence_number <= e.sequence_number
               ELSE snapshot[j].sequence_number > e.sequence_number
    BY <1>5, <1>6, <1>7, <1>15, <2>2
  <2> QED BY <1>2, <1>3, <1>11, <2>1, <2>2 DEF CursorInv, InTarget
<1>17. DeliveredInOrder'
  <2> SUFFICES ASSUME NEW j \in 1 .. (d + 1), NEW k \in 1 .. (d + 1), j < k
               PROVE  delivered'[j].sequence_number < delivered'[k].sequence_number
    BY <1>10 DEF DeliveredInOrder
  <2>1. j \in 1 .. d
    BY <1>8
  <2>2. CASE k = d + 1
    BY <1>7, <1>8, <1>9, <1>10, <2>1, <2>2
  <2>3. CASE k # d + 1
    <3>1. k \in 1 .. d
      BY <1>8, <2>3
    <3> QED BY <1>8, <1>10, <2>1, <3>1 DEF DeliveredInOrder
  <2> QED BY <2>2, <2>3
<1>18. NoSkippedEvent'
  <2> SUFFICES ASSUME NEW k \in DOMAIN log, InTarget(log[k]), log[k].sequence_number <= e.sequence_number
               PROVE  \E j \in 1 .. (d + 1) : delivered'[j] = log[k]
    BY <1>2, <1>10, <1>11 DEF NoSkippedEvent, InTarget
  <2>0. log[k].sequence_number \in Nat /\ k \in Nat
    BY LogFacts
  <2>1. CASE log[k].sequence_number <= LastSeen
    <3>1. PICK j \in 1 .. d : delivered[j] = log[k]
      BY <1>8, <2>1 DEF NoSkippedEvent
    <3> QED BY <1>8, <1>10, <3>1
  <2>2. CASE LastSeen < log[k].sequence_number
    <3>1. k <= i
      BY <1>5, <1>6, <1>7, <2>0, TargetInOrder DEF e
    <3>2. k \in DOMAIN snapshot /\ snapshot[k] = log[k]
      <4>1. k \in 1 .. Len(snapshot)
        BY <1>4, <1>5, <2>0, <3>1, LogFacts
      <4> QED BY <1>4, <4>1 DEF SnapshotInv
    <3>3. ~(k < next)
      BY <1>2, <1>8, <2>0, <2>2, <3>2 DEF CursorInv
    <3>4. log[k].sequence_number > after
      BY <1>2, <1>4, <1>8, <2>0, <2>2 DEF CursorInv
    <3>5. k = i
      BY <1>3, <1>5, <2>0, <3>1, <3>2, <3>3, <3>4
    <3> QED BY <1>8, <1>10, <3>5 DEF e
  <2> QED BY <1>8, <2>0, <2>1, <2>2
<1> QED BY <1>1, <1>12, <1>13, <1>14, <1>16, <1>17, <1>18

LEMMA EndScanStep ==
  ASSUME ReaderInv, EndScan, UNCHANGED vars
  PROVE  ReaderInv'
<1> USE DEF ReaderInv, DeliveredExactly
<1>1. IInv'
  BY InvariantStep
<1>2. UNCHANGED <<log, after, delivered>> /\ reading' = FALSE /\ snapshot' = <<>> /\ next' = 1
  BY DEF EndScan, vars
<1>3. LastSeen' = LastSeen
  BY <1>2 DEF LastSeen
<1>4. ReaderTypeOK' /\ SnapshotInv'
  <2>1. snapshot' \in Seq(StoredEvent) /\ Len(snapshot') = 0 /\ DOMAIN snapshot' = {}
    BY <1>2, EmptySeq
  <2>2. reading' \in BOOLEAN
    BY <1>2
  <2>3. next' \in 1 .. (Len(snapshot') + 1) /\ after' \in Nat \cup {-1}
    BY <1>2, <2>1 DEF ReaderTypeOK
  <2>4. delivered' \in Seq(StoredEvent)
    BY <1>2 DEF ReaderTypeOK
  <2> QED BY <2>1, <2>2, <2>3, <2>4 DEF ReaderTypeOK, SnapshotInv
<1>5. CursorInv'
  BY <1>2 DEF CursorInv
<1>6. DeliveredInv' /\ NoSkippedEvent' /\ DeliveredInOrder'
  BY <1>2, <1>3 DEF DeliveredInv, NoSkippedEvent, DeliveredInOrder, InTarget
<1> QED BY <1>1, <1>4, <1>5, <1>6

LEMMA ReaderInitHolds == ASSUME ReaderInitAll PROVE ReaderInv
<1>1. IInv
  BY InitIInv DEF ReaderInitAll
<1>2. log = <<>> /\ reading = FALSE /\ snapshot = <<>> /\ next = 1 /\ after = -1 /\ delivered = <<>>
  BY DEF ReaderInitAll, ReaderInit, Init
<1>3. ReaderTypeOK /\ DeliveredInv /\ SnapshotInv
  <2>1. snapshot \in Seq(StoredEvent) /\ Len(snapshot) = 0 /\ DOMAIN snapshot = {}
    BY <1>2, EmptySeq
  <2>2. delivered \in Seq(StoredEvent) /\ DOMAIN delivered = {}
    BY <1>2, EmptySeq
  <2>3. reading \in BOOLEAN
    BY <1>2
  <2>4. next \in 1 .. (Len(snapshot) + 1) /\ after \in Nat \cup {-1}
    BY <1>2, <2>1
  <2> QED BY <2>1, <2>2, <2>3, <2>4 DEF ReaderTypeOK, DeliveredInv, SnapshotInv
<1>4. CursorInv
  BY <1>2 DEF CursorInv
<1>5. DeliveredExactly
  BY <1>2 DEF DeliveredExactly, NoSkippedEvent, DeliveredInOrder
<1> QED BY <1>1, <1>3, <1>4, <1>5 DEF ReaderInv

-----------------------------------------------------------------------------
\* The invariants of the adapter and of the scan hold in every reachable state
\* of writers and reader.
THEOREM ReaderInvariant ==
  ASSUME ReadWithinGuarantee
  PROVE  ReaderSpec => []ReaderInv
<1>1. ReaderInitAll => ReaderInv
  BY ReaderInitHolds
<1>2. ReaderInv /\ [ReaderNext]_<<vars, reader>> => ReaderInv'
  <2> SUFFICES ASSUME ReaderInv, [ReaderNext]_<<vars, reader>> PROVE ReaderInv'
    OBVIOUS
  <2>1. CASE [Next]_vars /\ UNCHANGED reader
    BY <2>1, WriterStep
  <2>2. CASE (StartScan \/ Yield \/ EndScan) /\ UNCHANGED vars
    BY <2>2, StartScanStep, YieldStep, EndScanStep
  <2> QED BY <2>1, <2>2 DEF ReaderNext
<1> QED BY <1>1, <1>2, PTL DEF ReaderSpec

\* A reader that resumes after the last event it has seen misses none and gets
\* none twice, although writers commit while it scans and it abandons scans
\* half way, as long as its target lies within the scope that the serialisation
\* guarantee orders.
THEOREM ReaderMissesNothing ==
  ASSUME ReadWithinGuarantee
  PROVE  ReaderSpec => []DeliveredExactly
<1>1. ReaderInv => DeliveredExactly
  BY DEF ReaderInv
<1> QED BY ReaderInvariant, <1>1, PTL
=============================================================================
