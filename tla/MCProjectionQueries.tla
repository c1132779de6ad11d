------------------------- MODULE MCProjectionQueries -------------------------
(***************************************************************************)
(* Projections with a name, a metadata column and a path inside the state, *)
(* searched with each kind of sort and with filters that saves can make a  *)
(* record enter or leave.                                                  *)
(***************************************************************************)
EXTENDS ProjectionQueries, TLC

Filter(operator, field, value) == [operator |-> operator, field |-> field, value |-> value]

Search(filters, sort) == [filters |-> filters, sort |-> sort]

State(x, y, z) == [name |-> x, metadata |-> y, total |-> z]

\* One of the records is the same in all tables, one is of two.
AllTables ==
  { [i \in 1 .. 4 |-> [id |-> <<3, 1, 5, 2>>[i], state |-> f[i]]] :
      f \in {g \in [1 .. 4 -> {State(0, 0, 1), State(0, 1, 0), State(1, 0, 0), State(1, 1, 1)}] :
               g[1] = State(1, 0, 0) /\ g[4].total # g[4].metadata /\ g[4].name = 0} }

AllQueries ==
  { Search({}, <<>>),
    Search({Filter("greater_than_or_equal", "id", 2)}, <<SortBy("total", "asc")>>),
    Search({Filter("equal", "metadata", 1)}, <<SortBy("total", "desc"), SortBy("id", "desc")>>),
    Search({Filter("in", "metadata", {0, 1}), Filter("less_than_or_equal", "name", 1)},
           <<SortBy("name", "desc"), SortBy("metadata", "asc")>>),
    Search({Filter("not_equal", "id", 3)}, <<SortBy("metadata", "asc"), SortBy("name", "desc")>>),
    Search({}, <<SortBy("total", "desc"), SortBy("name", "asc")>>),
    Search({}, <<SortBy("name", "asc"), SortBy("id", "desc")>>) }
=============================================================================
