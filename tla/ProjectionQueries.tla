-------------------------- MODULE ProjectionQueries --------------------------
(***************************************************************************)
(* The queries of the projection stores: filter, sort, key set paging and  *)
(* offset paging, as the in-memory converters compute them on the list of  *)
(* projections and as the SQL that the postgres converters build computes  *)
(* them on the table.  A client walks over the pages of one query while    *)
(* projections are saved.                                                  *)
(*                                                                         *)
(* A projection is a record with an id, unique within the store, and the   *)
(* values of the fields that queries name; no value is null.  A field is a *)
(* column of the table, such as name or metadata, or a path inside one,    *)
(* such as a value of the state.  What a SQL statement computes is the     *)
(* database's affair and is external.                                      *)
(***************************************************************************)
EXTENDS Integers, Sequences, FiniteSets, SequencesExt

CONSTANTS
  Ids,          \* ids of projections
  Fields,       \* the fields that queries name, besides the id
  Paths,        \* those of them that are paths inside a column
  Kept,         \* those that a save of an existing projection leaves: name, source
  Values,       \* of the fields
  Tables,       \* what may have been saved before the walk
  Queries,      \* the searches: filters and a sort
  PageSize,     \* item_count
  MaxSaves      \* bound on the saves during a walk

ASSUME IdsAssumption == Ids \subseteq Nat
ASSUME ValuesAssumption == Values \subseteq Nat
ASSUME FieldsAssumption == Paths \subseteq Fields /\ Kept \subseteq Fields
ASSUME QueriesAssumption ==
  \A q \in Queries : q.sort \in Seq([field : Fields \cup {"id"}, order : {"asc", "desc"}])
ASSUME PageSizeAssumption == PageSize \in Nat \ {0}
ASSUME TablesAssumption ==
  \A t \in Tables :
    /\ t \in Seq([id : Ids, state : [Fields -> Values]])
    /\ \A i, j \in DOMAIN t : t[i].id = t[j].id => i = j
ASSUME MaxSavesAssumption == MaxSaves \in Nat

VARIABLES
  projections,  \* in the order in which they were first saved
  adapter,      \* memory or postgres
  query,        \* the client's search
  paging,       \* its kind of paging: keyset or offset
  phase,        \* of the walk: idle, walking, done or failed
  number,       \* pages received
  page,         \* the last page received
  seen,         \* the ids received, over all pages
  expected,     \* ids present when the walk began, not saved since
  steady,       \* FALSE once a save has moved what the walk rests on
  saves         \* during the walk

vars == <<projections, adapter, query, paging, phase, number, page, seen,
          expected, steady, saves>>

Projection == [id : Ids, state : [Fields -> Values]]

Value(r, field) == IF field = "id" THEN r.id ELSE r.state[field]

Compare(x, operator, y) ==
  CASE operator = "equal"                 -> x = y
    [] operator = "not_equal"             -> x # y
    [] operator = "greater_than"          -> x > y
    [] operator = "greater_than_or_equal" -> x >= y
    [] operator = "less_than"             -> x < y
    [] operator = "less_than_or_equal"    -> x <= y
    [] operator = "in"                    -> x \in y

\* All filters of a search have to match.
Matches(filters, r) ==
  \A f \in filters : Compare(Value(r, f.field), f.operator, f.value)

SortBy(field, order) == [field |-> field, order |-> order]

\* The operator by which a record comes later in a sort of that order.
Later(order) == IF order = "asc" THEN "greater_than" ELSE "less_than"

SameOn(r, last, sort, I) == \A i \in I : Value(r, sort[i].field) = Value(last, sort[i].field)

\* r comes after last, in a sort by several fields.
After(r, last, sort) ==
  \E i \in DOMAIN sort :
    /\ SameOn(r, last, sort, 1 .. (i - 1))
    /\ Compare(Value(r, sort[i].field), Later(sort[i].order), Value(last, sort[i].field))

\* The k-th element is the one that k - 1 others come before.  Records that
\* the sort leaves equal stay as they are.
StableSort(s, sort) ==
  LET earlier(i, j) == After(s[j], s[i], sort) \/ (~After(s[i], s[j], sort) /\ i < j)
      place(i)      == Cardinality({j \in DOMAIN s : earlier(j, i)}) + 1
  IN  [k \in DOMAIN s |-> s[CHOOSE i \in DOMAIN s : place(i) = k]]

Limit(s, n) == SubSeq(s, 1, IF Len(s) < n THEN Len(s) ELSE n)

-----------------------------------------------------------------------------
(***************************************************************************)
(* The in-memory converters: each clause transforms the list of results.   *)
(***************************************************************************)
FilteredResults ==
  LET kept[i \in 0 .. Len(projections)] ==
        IF i = 0 THEN <<>>
        ELSE IF Matches(query.filters, projections[i]) THEN Append(kept[i - 1], projections[i])
        ELSE kept[i - 1]
  IN  kept[Len(projections)]

\* Slip: sorted by the first field first.
SortedResultsForwards ==
  LET sorted[k \in 0 .. Len(query.sort)] ==
        IF k = 0 THEN FilteredResults ELSE StableSort(sorted[k - 1], <<query.sort[k]>>)
  IN  sorted[Len(query.sort)]

\* One stable sort per field, the last field first.
SortedResults ==
  LET n == Len(query.sort)
      sorted[k \in 0 .. n] ==
        IF k = 0 THEN FilteredResults ELSE StableSort(sorted[k - 1], <<query.sort[n - k + 1]>>)
  IN  sorted[n]

\* No page when the last record is not, or no longer, among the results.
PageOfResults(id, forwards) ==
  LET results == SortedResults
      last    == CHOOSE i \in DOMAIN results : results[i].id = id
  IN  IF ~\E i \in DOMAIN results : results[i].id = id THEN <<>>
      ELSE IF forwards THEN Limit(SubSeq(results, last + 1, Len(results)), PageSize)
      ELSE SubSeq(results, IF last > PageSize THEN last - PageSize ELSE 1, last - 1)

FirstPageOfResults == Limit(SortedResults, PageSize)

OffsetPageOfResults(n) ==
  Limit(SubSeq(SortedResults, (n - 1) * PageSize + 1, Len(SortedResults)), PageSize)

-----------------------------------------------------------------------------
(***************************************************************************)
(* The SQL of the postgres converters.  where, order_by and limit are the  *)
(* parts of a statement on the rows that match the filters.                *)
(***************************************************************************)
Rows == {r \in ToSet(projections) : Matches(query.filters, r)}

Select(rows, order_by) == Limit(StableSort(SetToSeq(rows), order_by), PageSize)

AllOrders(order) == \A i \in DOMAIN query.sort : query.sort[i].order = order

\* The record a page follows, as it is now, whether it matches the filters or not.
record_query(id) == CHOOSE r \in ToSet(projections) : r.id = id

\* Slip: the sort of the search is used as it is.
paged_sortPartial(order) == query.sort

\* The sort of the search, made total by the id.
paged_sort(order) == Append(query.sort, SortBy("id", order))

reverse(sort) ==
  [i \in DOMAIN sort |-> SortBy(sort[i].field, IF sort[i].order = "asc" THEN "desc" ELSE "asc")]

all_as(sort, order) == [i \in DOMAIN sort |-> SortBy(sort[i].field, order)]

\* Comparison of rows: the first column in which they differ decides.
row_comparison_condition(r, sort, operator, last) ==
  \E i \in DOMAIN sort :
    /\ SameOn(r, last, sort, 1 .. (i - 1))
    /\ Compare(Value(r, sort[i].field), operator, Value(last, sort[i].field))

first_page_no_sort_query == Select(Rows, <<SortBy("id", "asc")>>)

first_page_existing_sort_query(order) == Select(Rows, paged_sort(order))

subsequent_page_no_sort_row_selection_query(id, forwards) ==
  IF forwards
  THEN Select({r \in Rows : r.id > id}, <<SortBy("id", "asc")>>)
  ELSE Select({r \in Rows : r.id < id}, <<SortBy("id", "desc")>>)

subsequent_page_no_sort_paging_forwards_query(id) ==
  subsequent_page_no_sort_row_selection_query(id, TRUE)

subsequent_page_no_sort_paging_backwards_query(id) ==
  Select(ToSet(subsequent_page_no_sort_row_selection_query(id, FALSE)), <<SortBy("id", "asc")>>)

RowsBeyond(id, sort, operator) ==
  {r \in Rows : row_comparison_condition(r, sort, operator, record_query(id))}

subsequent_page_existing_sort_all_asc_forwards_query(id) ==
  LET sort == paged_sort("asc")
  IN  Select(RowsBeyond(id, sort, "greater_than"), sort)

\* Slip: the rows before the last one are limited in the sort of the page.
subsequent_page_existing_sort_all_asc_backwards_queryFirst(id) ==
  LET sort == paged_sort("asc")
  IN  Select(ToSet(Select(RowsBeyond(id, sort, "less_than"), sort)), sort)

subsequent_page_existing_sort_all_asc_backwards_query(id) ==
  LET sort == paged_sort("asc")
  IN  Select(ToSet(Select(RowsBeyond(id, sort, "less_than"), all_as(sort, "desc"))), sort)

subsequent_page_existing_sort_all_desc_forwards_query(id) ==
  LET sort == paged_sort("desc")
  IN  Select(RowsBeyond(id, sort, "less_than"), sort)

subsequent_page_existing_sort_all_desc_backwards_query(id) ==
  LET sort == paged_sort("desc")
  IN  Select(ToSet(Select(RowsBeyond(id, sort, "greater_than"), all_as(sort, "asc"))), sort)

\* A dictionary from column to operator: of a repeated column the last entry stays.
sort_operators(sort) ==
  [c \in {sort[i].field : i \in DOMAIN sort} |->
     LET last == CHOOSE i \in DOMAIN sort :
                   sort[i].field = c /\ \A j \in DOMAIN sort : sort[j].field = c => j <= i
     IN  Later(sort[last].order)]

\* The conditions of the i-th select of a union: equal in the columns before the
\* i-th, beyond in the i-th.
ordering_columns(r, last, sort, i) ==
  /\ SameOn(r, last, sort, 1 .. (i - 1))
  /\ Compare(Value(r, sort[i].field), sort_operators(sort)[sort[i].field], Value(last, sort[i].field))

\* UNION ALL of one limited select for each column.
UnionOfSelects(last, sort) ==
  UNION {ToSet(Select({r \in Rows : ordering_columns(r, last, sort, i)}, sort)) : i \in DOMAIN sort}

subsequent_page_existing_sort_mixed_forwards_query(id) ==
  LET sort == paged_sort("asc")
  IN  Select(UnionOfSelects(record_query(id), sort), sort)

subsequent_page_existing_sort_mixed_backwards_query(id) ==
  LET sort == paged_sort("asc")
  IN  Select(ToSet(Select(UnionOfSelects(record_query(id), reverse(sort)), reverse(sort))), sort)

\* The dictionary refuses an expression that applies a function, as one for a
\* path does: it holds a list and cannot be hashed.
HasUnhashable(sort) == \E i \in DOMAIN sort : sort[i].field \in Paths

\* The database refuses to select by name a column that "last" has twice.
HasAmbiguous(sort) == \E i, j \in DOMAIN sort : i # j /\ sort[i].field = sort[j].field

\* The statement for the next or the previous page cannot be built or run: it
\* would be a union over the columns of a sort with both orders.
PageRaises ==
  /\ query.sort # <<>> /\ ~AllOrders("asc") /\ ~AllOrders("desc")
  /\ HasUnhashable(paged_sort("asc")) \/ HasAmbiguous(paged_sort("asc"))

FirstPageOfRows ==
  IF query.sort = <<>> THEN first_page_no_sort_query
  ELSE first_page_existing_sort_query(IF AllOrders("desc") THEN "desc" ELSE "asc")

PageOfRows(id, forwards) ==
  IF query.sort = <<>>
  THEN IF forwards THEN subsequent_page_no_sort_paging_forwards_query(id)
       ELSE subsequent_page_no_sort_paging_backwards_query(id)
  ELSE IF AllOrders("asc")
  THEN IF forwards THEN subsequent_page_existing_sort_all_asc_forwards_query(id)
       ELSE subsequent_page_existing_sort_all_asc_backwards_query(id)
  ELSE IF AllOrders("desc")
  THEN IF forwards THEN subsequent_page_existing_sort_all_desc_forwards_query(id)
       ELSE subsequent_page_existing_sort_all_desc_backwards_query(id)
  ELSE IF forwards THEN subsequent_page_existing_sort_mixed_forwards_query(id)
       ELSE subsequent_page_existing_sort_mixed_backwards_query(id)

\* Offset paging does not make the sort total: the database may return rows
\* that the sort leaves equal in any order, another one for each statement.
OffsetPagesOfRows(n) ==
  { Limit(SubSeq(StableSort(s, query.sort), (n - 1) * PageSize + 1, Len(s)), PageSize) :
      s \in {t \in [1 .. Cardinality(Rows) -> Rows] : \A r \in Rows : \E i \in DOMAIN t : t[i] = r} }

-----------------------------------------------------------------------------
Init ==
  /\ projections \in Tables
  /\ adapter \in {"memory", "postgres"}
  /\ query \in Queries
  /\ paging \in {"keyset", "offset"}
  /\ phase = "idle"
  /\ number = 0
  /\ page = <<>>
  /\ seen = <<>>
  /\ expected = {}
  /\ steady = TRUE
  /\ saves = 0

IdsOf(R) == {r.id : r \in R}

\* What the client may be answered; the first page, and the one after it has
\* received some.
FirstPages ==
  IF paging = "keyset" THEN {IF adapter = "memory" THEN FirstPageOfResults ELSE FirstPageOfRows}
  ELSE IF adapter = "memory" THEN {OffsetPageOfResults(1)} ELSE OffsetPagesOfRows(1)

NextPages ==
  LET last == Last(page).id IN
  IF paging = "keyset"
  THEN {IF adapter = "memory" THEN PageOfResults(last, TRUE) ELSE PageOfRows(last, TRUE)}
  ELSE IF adapter = "memory" THEN {OffsetPageOfResults(number + 1)} ELSE OffsetPagesOfRows(number + 1)

Receive(pages) ==
  /\ page' \in pages
  /\ number' = number + 1
  /\ seen' = seen \o [i \in DOMAIN page' |-> page'[i].id]
  /\ phase' = IF page' = <<>> THEN "done" ELSE "walking"
  /\ UNCHANGED <<projections, adapter, query, paging, steady, saves>>

SearchFirst ==
  /\ phase = "idle"
  /\ Receive(FirstPages)
  /\ expected' = IdsOf(Rows)

SearchFails == paging = "keyset" /\ adapter = "postgres" /\ PageRaises

\* The client asks for the page after the last record it has, until one is empty.
SearchNext ==
  /\ phase = "walking" /\ ~SearchFails
  /\ Receive(NextPages)
  /\ UNCHANGED expected

\* The search raises, and the walk is over.
SearchRaises ==
  /\ phase = "walking" /\ SearchFails
  /\ phase' = "failed"
  /\ UNCHANGED <<projections, adapter, query, paging, number, page, seen, expected, steady, saves>>

\* An existing projection keeps its id, name and source.  (It is found by name
\* and id; ids being unique, a save under its id is one under its name.)
Updated(p, r) == [id |-> p.id, state |-> [f \in Fields |-> IF f \in Kept THEN p.state[f] ELSE r.state[f]]]

\* save: the existing projection is updated where it is.
Put(r) ==
  IF r.id \in IdsOf(ToSet(projections))
  THEN [i \in DOMAIN projections |->
          IF projections[i].id = r.id THEN Updated(projections[i], r) ELSE projections[i]]
  ELSE Append(projections, r)

\* A projection is created or updated during the walk.  A walk by keys rests on
\* the record it stands on.  One by offset rests on all: it promises nothing
\* once anything is saved, and is not followed here.
Save(r) ==
  /\ phase = "walking" /\ paging = "keyset"
  /\ saves < MaxSaves
  /\ saves' = saves + 1
  /\ projections' = Put(r)
  /\ expected' = expected \ {r.id}
  /\ steady' = (steady /\ Last(page).id # r.id)
  /\ UNCHANGED <<adapter, query, paging, phase, number, page, seen>>

Done == phase \in {"done", "failed"} /\ UNCHANGED vars

Next == SearchFirst \/ SearchNext \/ SearchRaises \/ (\E r \in Projection : Save(r)) \/ Done

Spec == Init /\ [][Next]_vars

-----------------------------------------------------------------------------
TypeOK ==
  /\ projections \in Seq(Projection)
  /\ \A i, j \in DOMAIN projections : projections[i].id = projections[j].id => i = j
  /\ adapter \in {"memory", "postgres"} /\ paging \in {"keyset", "offset"}
  /\ query \in Queries
  /\ phase \in {"idle", "walking", "done", "failed"}
  /\ phase = "walking" => page # <<>>
  /\ number \in Nat /\ saves \in 0 .. MaxSaves
  /\ page \in Seq(Projection) /\ seen \in Seq(Ids)
  /\ expected \subseteq Ids
  /\ steady \in BOOLEAN

\* No two rows are equal in all the fields of the sort.
NoTies == \A r, s \in Rows : r # s => After(r, s, query.sort) \/ After(s, r, query.sort)

\* How many matching records come before r: by the sort, then by the adapter's
\* tie break, the order of insertion or the id.
Index(r) == CHOOSE i \in DOMAIN projections : projections[i].id = r.id

ComesBefore(r, s) ==
  \/ After(s, r, query.sort)
  \/ /\ ~After(r, s, query.sort)
     /\ IF adapter = "memory" THEN Index(r) < Index(s)
        ELSE IF query.sort # <<>> /\ AllOrders("desc") THEN r.id > s.id
        ELSE r.id < s.id

Rank(r) == Cardinality({s \in Rows : ComesBefore(s, r)})

\* A page is the stretch of that total order next to the record it follows or
\* precedes, whichever of the statements or transformers has produced it: pages
\* backwards undo pages forwards.  Excepted are the pages for which the postgres
\* adapter raises: of a sort with both orders that names a path, or the id, or
\* a column twice.
PageIsSlice ==
  ~(adapter = "postgres" /\ PageRaises) =>
  \A r \in Rows : \A forwards \in BOOLEAN :
    LET got == IF adapter = "memory" THEN PageOfResults(r.id, forwards) ELSE PageOfRows(r.id, forwards)
        low == IF forwards THEN Rank(r) + 1 ELSE Rank(r) - PageSize
    IN  /\ ToSet(got) = {s \in Rows : Rank(s) \in low .. (low + PageSize - 1)}
        /\ \A i, j \in DOMAIN got : i < j => Rank(got[i]) < Rank(got[j])

\* A walk that has ended has shown each record that was there from the start
\* and was not saved meanwhile exactly once, whatever was saved around it;
\* unless the record the walk stood on was changed, or the database was free to
\* order rows that the sort leaves equal.  A walk that a search ended by raising
\* has shown what came before.
WalkSeesEachOnce ==
  phase = "done" /\ steady /\ (paging = "offset" /\ adapter = "postgres" => NoTies) =>
    \A id \in expected : Cardinality({i \in DOMAIN seen : seen[i] = id}) = 1

\* Where the sort decides, the adapters can be exchanged for each other: in all
\* searches that raise in neither.
AdaptersAgree ==
  NoTies =>
    /\ FirstPageOfResults = FirstPageOfRows
    /\ OffsetPagesOfRows(number + 1) = {OffsetPageOfResults(number + 1)}
    /\ PageRaises \/ \A r \in Rows, forwards \in BOOLEAN : PageOfResults(r.id, forwards) = PageOfRows(r.id, forwards)
=============================================================================
