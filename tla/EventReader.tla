----------------------------- MODULE EventReader -----------------------------
(***************************************************************************)
(* The read side of the in-memory adapter composed with its writers: a     *)
(* reader that repeatedly scans one target for the events after the last   *)
(* sequence number it has seen, as an event consumer does, while writers   *)
(* publish.  scan takes a snapshot of the database and yields its events   *)
(* one at a time.                                                          *)
(***************************************************************************)
EXTENDS InMemoryEventStorage

CONSTANT ReadTarget   \* the log, a category or a stream identifier

VARIABLES
  reading,     \* whether a scan is in progress
  snapshot,    \* the log of the snapshot the scan iterates over
  next,        \* the index in the snapshot of the next event to look at
  after,       \* the scan's SequenceNumberAfterConstraint
  delivered    \* the events yielded to the caller, over all scans

reader == <<reading, snapshot, next, after, delivered>>

\* _select_index: the events of the log, of a category or of a stream.
InTarget(e) ==
  /\ ReadTarget.kind \in {"category", "stream"} => e.category = ReadTarget.category
  /\ ReadTarget.kind = "stream" => e.stream = ReadTarget.stream

SequenceNumberAfter(e, n) == e.sequence_number > n

LastSeen ==
  IF delivered = <<>> THEN -1 ELSE delivered[Len(delivered)].sequence_number

ReaderInit ==
  /\ reading = FALSE
  /\ snapshot = <<>>
  /\ next = 1
  /\ after = -1
  /\ delivered = <<>>

\* Slip: only a reader that has seen nothing yet starts a scan.
StartFirstScan ==
  /\ ~reading
  /\ delivered = <<>>
  /\ reading' = TRUE
  /\ snapshot' = log
  /\ next' = 1
  /\ after' = LastSeen
  /\ UNCHANGED delivered

\* A scan takes its snapshot, with the last sequence number seen as constraint.
StartScan ==
  /\ ~reading
  /\ reading' = TRUE
  /\ snapshot' = log
  /\ next' = 1
  /\ after' = LastSeen
  /\ UNCHANGED delivered

\* The next event of the snapshot that is in the target and meets the
\* constraint.
Yield ==
  /\ reading
  /\ \E i \in next .. Len(snapshot) :
       LET Wanted(j) == InTarget(snapshot[j]) /\ SequenceNumberAfter(snapshot[j], after)
       IN  /\ Wanted(i)
           /\ \A j \in next .. (i - 1) : ~Wanted(j)
           /\ next' = i + 1
           /\ delivered' = Append(delivered, snapshot[i])
  /\ UNCHANGED <<reading, snapshot, after>>

\* The scan is exhausted, or its caller stops iterating half way.
EndScan ==
  /\ reading
  /\ reading' = FALSE
  /\ snapshot' = <<>>
  /\ next' = 1
  /\ UNCHANGED <<after, delivered>>

ReaderInitAll == Init /\ ReaderInit

ReaderNext ==
  \/ Next /\ UNCHANGED reader
  \/ (StartScan \/ Yield \/ EndScan) /\ UNCHANGED vars

\* The reader keeps scanning, and keeps iterating while a scan has events.
ReaderFairness ==
  /\ WF_<<vars, reader>>(StartScan /\ UNCHANGED vars)
  /\ SF_<<vars, reader>>(Yield /\ UNCHANGED vars)
  /\ WF_<<vars, reader>>(EndScan /\ UNCHANGED vars)

ReaderSpec ==
  ReaderInitAll /\ [][ReaderNext]_<<vars, reader>> /\ Fairness /\ ReaderFairness

-----------------------------------------------------------------------------
ReaderTypeOK ==
  /\ reading \in BOOLEAN
  /\ snapshot \in Seq(StoredEvent)
  /\ next \in 1 .. (Len(snapshot) + 1)
  /\ after \in Nat \cup {-1}
  /\ delivered \in Seq(StoredEvent)

\* A reader at the level of the serialisation guarantee never skips an event
\* that a concurrent writer is about to make visible: whatever lies at or
\* before the last sequence number it has seen has been delivered.
NoSkippedEvent ==
  \A i \in DOMAIN log :
    InTarget(log[i]) /\ log[i].sequence_number <= LastSeen
      => \E j \in DOMAIN delivered : delivered[j] = log[i]

\* Events are delivered in the order of their sequence numbers, each at most
\* once, although scans are abandoned and restarted.
DeliveredInOrder ==
  \A i, j \in DOMAIN delivered :
    i < j => delivered[i].sequence_number < delivered[j].sequence_number

\* Over all its scans the reader gets what lies at or before the last sequence
\* number it has seen: all of it, in order, each event once.
DeliveredExactly == NoSkippedEvent /\ DeliveredInOrder

\* Every event that a save has stored in the target is delivered.
EveryEventDelivered ==
  \A w \in Writers :
    pc[w] = "saved" ~>
      \A i \in DOMAIN log :
        log[i].payload = w /\ InTarget(log[i]) =>
          \E j \in DOMAIN delivered : delivered[j] = log[i]
=============================================================================
