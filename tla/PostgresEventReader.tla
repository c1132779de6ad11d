------------------------- MODULE PostgresEventReader -------------------------
(***************************************************************************)
(* The scan of PostgresEventStorageAdapter composed with the transactions  *)
(* of its writers.  A scan reads page after page, each in a statement that *)
(* sees what is committed when it begins, and yields the rows one by one;  *)
(* writers commit in between.  Like a consumer, the reader scans again and *)
(* again for the events after the last one it has seen.                    *)
(***************************************************************************)
EXTENDS EventStoreTransactions

CONSTANTS
  ReadTarget,   \* the log, a category or a stream identifier
  PageSize      \* scan_query_page_size

ASSUME PageSizeAssumption == PageSize \in Nat \ {0}

VARIABLES
  phase,        \* of the scan: idle, querying or yielding
  page,         \* the rows of the current page that are still to be yielded
  after,        \* the scan's SequenceNumberAfterConstraint
  more,         \* keep_querying
  delivered     \* the events yielded, over all scans

reader == <<phase, page, after, more, delivered>>

InTarget(e) ==
  /\ ReadTarget.kind \in {"category", "stream"} => e.category = ReadTarget.category
  /\ ReadTarget.kind = "stream" => e.stream = ReadTarget.stream

LastSeen == IF delivered = <<>> THEN 0 ELSE delivered[Len(delivered)].sequence_number

ReaderInit ==
  /\ phase = "idle"
  /\ page = <<>>
  /\ after = 0
  /\ more = FALSE
  /\ delivered = <<>>

\* Slip: descending.
OrderByDescending(rows) ==
  [i \in 1 .. Cardinality(rows) |->
     CHOOSE e \in rows : Cardinality({f \in rows : f.sequence_number >= e.sequence_number}) = i]

\* ORDER BY sequence_number: the i-th row has i rows up to itself.
OrderBy(rows) ==
  [i \in 1 .. Cardinality(rows) |->
     CHOOSE e \in rows : Cardinality({f \in rows : f.sequence_number <= e.sequence_number}) = i]

RowsAfter(n) == {e \in table : InTarget(e) /\ e.sequence_number > n}

\* The rows of the target after sequence number n, ordered and limited.
scan_query(n) ==
  LET ordered == OrderBy(RowsAfter(n))
  IN  SubSeq(ordered, 1, IF Len(ordered) < PageSize THEN Len(ordered) ELSE PageSize)

\* Slip: a page is the last one unless it overflows.
KeepQueryingOnOverflow(rows) == Len(rows) > PageSize

\* keep_querying: a page that is full is not taken for the last one.
KeepQuerying(rows) == Len(rows) = PageSize

\* The first page starts from the caller's constraint, the last event it has
\* seen; a later one from the last event of the page before.
ScanFrom == IF phase = "idle" THEN LastSeen ELSE after

QueryPage ==
  /\ phase \in {"idle", "querying"}
  /\ after' = ScanFrom
  /\ page' = scan_query(ScanFrom)
  /\ more' = KeepQuerying(page')
  /\ phase' = "yielding"
  /\ UNCHANGED delivered

\* A row is yielded; after the last one of a full page the next page is read,
\* for the rows after the one yielded last.
Yield ==
  /\ phase = "yielding"
  /\ page # <<>>
  /\ delivered' = Append(delivered, Head(page))
  /\ after' = Head(page).sequence_number
  /\ page' = Tail(page)
  /\ phase' = IF page' = <<>> /\ more THEN "querying" ELSE "yielding"
  /\ UNCHANGED more

\* The scan is exhausted, or its caller stops iterating.
EndScan ==
  /\ phase # "idle"
  /\ phase' = "idle"
  /\ page' = <<>>
  /\ more' = FALSE
  /\ UNCHANGED <<after, delivered>>

allvars == <<vars, transaction, reader>>

ReaderInitAll == Init /\ TransactionInit /\ ReaderInit

ReaderNext ==
  \/ TransactionNext /\ UNCHANGED reader
  \/ (QueryPage \/ Yield \/ EndScan) /\ UNCHANGED <<vars, transaction>>

\* Sessions go on as long as they can: a lock is granted to one that waits for
\* it, and handlers come to their publish.  The reader may stop anywhere.
Fairness == \A w \in Writers : WF_allvars(Transact(w) /\ UNCHANGED reader)

ReaderSpec == ReaderInitAll /\ [][ReaderNext]_allvars /\ Fairness

-----------------------------------------------------------------------------
Delivered(e) == \E i \in DOMAIN delivered : delivered[i] = e

\* What lies at or before the last sequence number the reader has seen has been
\* delivered: no row becomes visible behind the reader's back, between two
\* scans or between two pages of one.
NoSkippedEvent ==
  \A e \in table : InTarget(e) /\ e.sequence_number <= LastSeen => Delivered(e)

\* Events are delivered in the order of their sequence numbers, each once,
\* across pages and across scans that were abandoned.
DeliveredInOrder ==
  \A i, j \in DOMAIN delivered :
    i < j => delivered[i].sequence_number < delivered[j].sequence_number

\* Over all its scans the reader gets what lies at or before the last sequence
\* number it has seen: all of it, in order, each event once.
DeliveredExactly == NoSkippedEvent /\ DeliveredInOrder

\* A scan does not end before the end: when a page makes it stop, everything
\* visible at that moment has been delivered or is on that page.
LastPageIsTheEnd ==
  [][QueryPage /\ ~more' =>
       \A e \in table : InTarget(e) =>
         Delivered(e) \/ \E i \in DOMAIN page' : page'[i] = e]_allvars
=============================================================================
