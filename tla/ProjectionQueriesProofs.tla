----------------------- MODULE ProjectionQueriesProofs -----------------------
(***************************************************************************)
(* The pages of the projection stores, for any number of projections and   *)
(* fields, any sort, any filters and any size of page.                     *)
(***************************************************************************)
EXTENDS ProjectionQueries, FiniteSetTheorems, SequenceTheorems, TLAPS

SortType == [field : Fields \cup {"id"}, order : {"asc", "desc"}]

\* What a clause of a sort compares: the larger key comes later.
Key(r, c) == IF c.order = "asc" THEN Value(r, c.field) ELSE -Value(r, c.field)

\* After, by the clauses of the sort from the m-th on.
AfterFrom(a, b, sort, m) ==
  \E i \in m .. Len(sort) :
    /\ \A j \in m .. (i - 1) : Key(a, sort[j]) = Key(b, sort[j])
    /\ Key(a, sort[i]) > Key(b, sort[i])

SameFrom(a, b, sort, m) == \A j \in m .. Len(sort) : Key(a, sort[j]) = Key(b, sort[j])

-----------------------------------------------------------------------------
(***************************************************************************)
(* Induction over the steps of a loop, by its least counterexample.        *)
(***************************************************************************)

\* A set of natural numbers that is not empty has a least element.
LEMMA LeastNumber ==
  ASSUME NEW T \in SUBSET Nat, T # {}
  PROVE  \E x \in T : \A y \in T : x <= y
<1>1. PICK x \in T : \A y \in T : ~ (<<y, x>> \in OpToRel(<, Nat))
  BY WFMin, NatLessThanWellFounded
<1>2. ASSUME NEW y \in T PROVE x <= y
  <2>1. ~(y < x)
    BY <1>1 DEF OpToRel
  <2> QED BY <2>1
<1> QED BY <1>2

\* A set of numbers that has 0 and, with each number below a bound, the next
\* one, has all numbers up to the bound.
LEMMA BoundedInduction ==
  ASSUME NEW N \in Nat, NEW P \in SUBSET Nat,
         0 \in P, \A n \in P : n < N => n + 1 \in P
  PROVE  0 .. N \subseteq P
<1> DEFINE T == (0 .. N) \ P
<1>1. SUFFICES ASSUME T # {} PROVE FALSE
  OBVIOUS
<1>2. T \in SUBSET Nat
  OBVIOUS
<1>3. PICK x \in T : \A y \in T : x <= y
  <2> HIDE DEF T
  <2> QED BY <1>1, <1>2, LeastNumber
<1>4. x \in 1 .. N /\ x - 1 \in 0 .. N /\ ~(x <= x - 1)
  OBVIOUS
<1>5. x - 1 \in P /\ x - 1 < N
  BY <1>3, <1>4
<1>6. x \in P
  <2>1. (x - 1) + 1 = x
    BY <1>4
  <2> QED BY <1>5, <2>1
<1> QED BY <1>6

-----------------------------------------------------------------------------
(***************************************************************************)
(* A sort by several fields orders the records by their keys, the first    *)
(* key that differs deciding.                                              *)
(***************************************************************************)

LEMMA KeyFacts ==
  ASSUME NEW a \in Projection, NEW b \in Projection, NEW c \in SortType
  PROVE  /\ Key(a, c) \in Int /\ Key(b, c) \in Int
         /\ Value(a, c.field) = Value(b, c.field) <=> Key(a, c) = Key(b, c)
         /\ Compare(Value(a, c.field), Later(c.order), Value(b, c.field)) <=> Key(a, c) > Key(b, c)
<1>1. c.field \in Fields \cup {"id"} /\ c.order \in {"asc", "desc"}
  BY DEF SortType
<1>2. a.id \in Nat /\ b.id \in Nat /\ a.state \in [Fields -> Nat] /\ b.state \in [Fields -> Nat]
  BY IdsAssumption, ValuesAssumption DEF Projection
<1>3. Value(a, c.field) \in Nat /\ Value(b, c.field) \in Nat
  BY <1>1, <1>2 DEF Value
<1>4. CASE c.order = "asc"
  BY <1>3, <1>4 DEF Key, Compare, Later
<1>5. CASE c.order = "desc"
  BY <1>3, <1>5 DEF Key, Compare, Later
<1> QED BY <1>1, <1>4, <1>5

LEMMA AfterByKeys ==
  ASSUME NEW a \in Projection, NEW b \in Projection, NEW sort \in Seq(SortType)
  PROVE  After(a, b, sort) <=> AfterFrom(a, b, sort, 1)
<1>1. DOMAIN sort = 1 .. Len(sort) /\ Len(sort) \in Nat /\ \A i \in 1 .. Len(sort) : sort[i] \in SortType
  BY LenProperties, ElementOfSeq
<1>2. ASSUME NEW i \in 1 .. Len(sort)
      PROVE  /\ Value(a, sort[i].field) = Value(b, sort[i].field) <=> Key(a, sort[i]) = Key(b, sort[i])
             /\ Compare(Value(a, sort[i].field), Later(sort[i].order), Value(b, sort[i].field))
                  <=> Key(a, sort[i]) > Key(b, sort[i])
  BY <1>1, KeyFacts
<1>3. ASSUME NEW i \in 1 .. Len(sort)
      PROVE  SameOn(a, b, sort, 1 .. (i - 1)) <=> \A j \in 1 .. (i - 1) : Key(a, sort[j]) = Key(b, sort[j])
  <2>1. \A j \in 1 .. (i - 1) : j \in 1 .. Len(sort)
    BY <1>1
  <2> QED BY <1>2, <2>1 DEF SameOn
<1> QED BY <1>1, <1>2, <1>3 DEF After, AfterFrom

LEMMA FromKeys ==
  ASSUME NEW a \in Projection, NEW sort \in Seq(SortType), NEW m \in Nat \ {0}
  PROVE  Len(sort) \in Nat /\ \A j \in m .. Len(sort) : Key(a, sort[j]) \in Int
<1>1. Len(sort) \in Nat /\ \A j \in 1 .. Len(sort) : sort[j] \in SortType
  BY LenProperties, ElementOfSeq
<1>2. \A j \in m .. Len(sort) : j \in 1 .. Len(sort)
  BY <1>1
<1> QED BY <1>1, <1>2, KeyFacts

LEMMA FromAsymmetric ==
  ASSUME NEW a \in Projection, NEW b \in Projection, NEW sort \in Seq(SortType), NEW m \in Nat \ {0},
         AfterFrom(a, b, sort, m)
  PROVE  ~AfterFrom(b, a, sort, m) /\ ~SameFrom(a, b, sort, m)
<1>1. PICK i \in m .. Len(sort) :
        /\ \A j \in m .. (i - 1) : Key(a, sort[j]) = Key(b, sort[j])
        /\ Key(a, sort[i]) > Key(b, sort[i])
  BY DEF AfterFrom
<1>2. /\ Len(sort) \in Nat
      /\ \A j \in m .. Len(sort) : Key(a, sort[j]) \in Int /\ Key(b, sort[j]) \in Int
  BY FromKeys
<1>3. SUFFICES ASSUME AfterFrom(b, a, sort, m) PROVE FALSE
  BY <1>1, <1>2 DEF SameFrom
<1>4. PICK k \in m .. Len(sort) :
        /\ \A j \in m .. (k - 1) : Key(b, sort[j]) = Key(a, sort[j])
        /\ Key(b, sort[k]) > Key(a, sort[k])
  BY <1>3 DEF AfterFrom
<1>5. k < i => k \in m .. (i - 1)
  BY <1>2
<1>6. i < k => i \in m .. (k - 1)
  BY <1>2
<1>7. CASE k < i
  BY <1>1, <1>2, <1>4, <1>5, <1>7
<1>8. CASE i < k
  BY <1>1, <1>2, <1>4, <1>6, <1>8
<1>9. CASE i = k
  BY <1>1, <1>2, <1>4, <1>9
<1> QED BY <1>2, <1>7, <1>8, <1>9

LEMMA FromTotal ==
  ASSUME NEW a \in Projection, NEW b \in Projection, NEW sort \in Seq(SortType), NEW m \in Nat \ {0}
  PROVE  AfterFrom(a, b, sort, m) \/ AfterFrom(b, a, sort, m) \/ SameFrom(a, b, sort, m)
<1> DEFINE T == {j \in m .. Len(sort) : Key(a, sort[j]) # Key(b, sort[j])}
<1>1. /\ Len(sort) \in Nat
      /\ \A j \in m .. Len(sort) : Key(a, sort[j]) \in Int /\ Key(b, sort[j]) \in Int
  BY FromKeys
<1>2. CASE T = {}
  BY <1>2 DEF SameFrom
<1>3. CASE T # {}
  <2>1. T \in SUBSET Nat
    BY <1>1
  <2>2. PICK i \in T : \A j \in T : i <= j
    <3> HIDE DEF T
    <3> QED BY <1>3, <2>1, LeastNumber
  <2>3. i \in m .. Len(sort) /\ Key(a, sort[i]) # Key(b, sort[i])
    OBVIOUS
  <2>4. ASSUME NEW j \in m .. (i - 1) PROVE Key(a, sort[j]) = Key(b, sort[j])
    <3>1. j \in m .. Len(sort) /\ ~(i <= j)
      BY <1>1, <2>3
    <3> QED BY <2>2, <3>1
  <2>5. Key(a, sort[i]) > Key(b, sort[i]) \/ Key(b, sort[i]) > Key(a, sort[i])
    BY <1>1, <2>3
  <2> QED BY <2>3, <2>4, <2>5 DEF AfterFrom
<1> QED BY <1>2, <1>3

LEMMA FromBetween ==
  ASSUME NEW a \in Projection, NEW b \in Projection, NEW c \in Projection,
         NEW sort \in Seq(SortType), NEW m \in Nat \ {0},
         AfterFrom(a, c, sort, m)
  PROVE  AfterFrom(a, b, sort, m) \/ AfterFrom(b, c, sort, m)
<1>1. PICK i \in m .. Len(sort) :
        /\ \A j \in m .. (i - 1) : Key(a, sort[j]) = Key(c, sort[j])
        /\ Key(a, sort[i]) > Key(c, sort[i])
  BY DEF AfterFrom
<1>2. /\ Len(sort) \in Nat
      /\ \A j \in m .. Len(sort) : Key(a, sort[j]) \in Int /\ Key(b, sort[j]) \in Int /\ Key(c, sort[j]) \in Int
  BY FromKeys
<1>3. \A j \in m .. (i - 1) : j \in m .. Len(sort)
  BY <1>2
<1>4. CASE SameFrom(a, b, sort, m)
  BY <1>1, <1>3, <1>4 DEF SameFrom, AfterFrom
<1>5. CASE AfterFrom(b, a, sort, m)
  <2>1. PICK k \in m .. Len(sort) :
          /\ \A j \in m .. (k - 1) : Key(b, sort[j]) = Key(a, sort[j])
          /\ Key(b, sort[k]) > Key(a, sort[k])
    BY <1>5 DEF AfterFrom
  <2>2. CASE k < i
    <3>1. k \in m .. (i - 1) /\ \A j \in m .. (k - 1) : j \in m .. (i - 1)
      BY <1>2, <2>2
    <3>2. \A j \in m .. (k - 1) : Key(b, sort[j]) = Key(c, sort[j])
      BY <1>1, <2>1, <3>1
    <3>3. Key(b, sort[k]) > Key(c, sort[k])
      BY <1>1, <1>2, <2>1, <3>1
    <3> QED BY <3>2, <3>3 DEF AfterFrom
  <2>3. CASE k >= i
    <3>1. \A j \in m .. (i - 1) : j \in m .. (k - 1)
      BY <1>2, <2>3
    <3>2. \A j \in m .. (i - 1) : Key(b, sort[j]) = Key(c, sort[j])
      BY <1>1, <2>1, <3>1
    <3>3. Key(b, sort[i]) >= Key(a, sort[i])
      <4>1. CASE k = i
        BY <1>2, <2>1, <4>1
      <4>2. CASE k # i
        <5>1. i \in m .. (k - 1)
          BY <1>2, <2>3, <4>2
        <5> QED BY <1>2, <2>1, <5>1
      <4> QED BY <4>1, <4>2
    <3>4. Key(b, sort[i]) > Key(c, sort[i])
      BY <1>1, <1>2, <3>3
    <3> QED BY <3>2, <3>4 DEF AfterFrom
  <2> QED BY <1>2, <2>2, <2>3
<1> QED BY <1>4, <1>5, FromTotal

\* The records are ordered as by one clause, and where it leaves them equal by
\* the clauses after it.
LEMMA FromFirst ==
  ASSUME NEW a \in Projection, NEW b \in Projection, NEW sort \in Seq(SortType),
         NEW m \in 1 .. Len(sort)
  PROVE  AfterFrom(a, b, sort, m) <=>
           \/ Key(a, sort[m]) > Key(b, sort[m])
           \/ Key(a, sort[m]) = Key(b, sort[m]) /\ AfterFrom(a, b, sort, m + 1)
<1>1. /\ Len(sort) \in Nat /\ m \in Nat \ {0}
  BY LenProperties
<1>2. \A j \in m .. Len(sort) : Key(a, sort[j]) \in Int /\ Key(b, sort[j]) \in Int
  BY <1>1, FromKeys
<1>3. ASSUME AfterFrom(a, b, sort, m)
      PROVE  \/ Key(a, sort[m]) > Key(b, sort[m])
             \/ Key(a, sort[m]) = Key(b, sort[m]) /\ AfterFrom(a, b, sort, m + 1)
  <2>1. PICK i \in m .. Len(sort) :
          /\ \A j \in m .. (i - 1) : Key(a, sort[j]) = Key(b, sort[j])
          /\ Key(a, sort[i]) > Key(b, sort[i])
    BY <1>3 DEF AfterFrom
  <2>2. CASE i = m
    BY <2>1, <2>2
  <2>3. CASE i # m
    <3>1. m \in m .. (i - 1) /\ i \in (m + 1) .. Len(sort) /\ \A j \in (m + 1) .. (i - 1) : j \in m .. (i - 1)
      BY <1>1, <2>3
    <3> QED BY <2>1, <3>1 DEF AfterFrom
  <2> QED BY <2>2, <2>3
<1>4. ASSUME Key(a, sort[m]) > Key(b, sort[m]) PROVE AfterFrom(a, b, sort, m)
  <2>1. m \in m .. Len(sort) /\ m .. (m - 1) = {}
    BY <1>1
  <2> QED BY <1>4, <2>1 DEF AfterFrom
<1>5. ASSUME Key(a, sort[m]) = Key(b, sort[m]), AfterFrom(a, b, sort, m + 1) PROVE AfterFrom(a, b, sort, m)
  <2>1. PICK i \in (m + 1) .. Len(sort) :
          /\ \A j \in (m + 1) .. (i - 1) : Key(a, sort[j]) = Key(b, sort[j])
          /\ Key(a, sort[i]) > Key(b, sort[i])
    BY <1>5 DEF AfterFrom
  <2>2. i \in m .. Len(sort) /\ \A j \in m .. (i - 1) : j = m \/ j \in (m + 1) .. (i - 1)
    BY <1>1
  <2> QED BY <1>5, <2>1, <2>2 DEF AfterFrom
<1> QED BY <1>3, <1>4, <1>5

\* The order of a sort: what is equal in it is not after each other, and what
\* lies between can be told from one of the two.
LEMMA AfterFacts ==
  ASSUME NEW a \in Projection, NEW b \in Projection, NEW c \in Projection, NEW sort \in Seq(SortType)
  PROVE  /\ ~After(a, a, sort)
         /\ After(a, b, sort) => ~After(b, a, sort)
         /\ After(a, c, sort) => After(a, b, sort) \/ After(b, c, sort)
<1>1. After(a, a, sort) <=> AfterFrom(a, a, sort, 1)
  BY AfterByKeys
<1>2. /\ After(a, b, sort) <=> AfterFrom(a, b, sort, 1)
      /\ After(b, a, sort) <=> AfterFrom(b, a, sort, 1)
  BY AfterByKeys
<1>3. /\ After(a, c, sort) <=> AfterFrom(a, c, sort, 1)
      /\ After(b, c, sort) <=> AfterFrom(b, c, sort, 1)
  BY AfterByKeys
<1>4. AfterFrom(a, a, sort, 1) => ~AfterFrom(a, a, sort, 1)
  BY FromAsymmetric
<1>5. AfterFrom(a, b, sort, 1) => ~AfterFrom(b, a, sort, 1)
  BY FromAsymmetric
<1>6. AfterFrom(a, c, sort, 1) => AfterFrom(a, b, sort, 1) \/ AfterFrom(b, c, sort, 1)
  BY FromBetween
<1> QED BY <1>1, <1>2, <1>3, <1>4, <1>5, <1>6

\* A sort by one clause.
LEMMA AfterOne ==
  ASSUME NEW a \in Projection, NEW b \in Projection, NEW c \in SortType
  PROVE  After(a, b, <<c>>) <=> Key(a, c) > Key(b, c)
<1> DEFINE sort == <<c>>
<1>1. sort \in Seq(SortType) /\ Len(sort) = 1 /\ sort[1] = c
  OBVIOUS
<1> HIDE DEF sort
<1>2. ~AfterFrom(a, b, sort, 2)
  BY <1>1 DEF AfterFrom
<1>3. 1 \in 1 .. Len(sort) /\ 1 + 1 = 2
  BY <1>1
<1>4. AfterFrom(a, b, sort, 1) <=>
        Key(a, sort[1]) > Key(b, sort[1]) \/ (Key(a, sort[1]) = Key(b, sort[1]) /\ AfterFrom(a, b, sort, 1 + 1))
  BY <1>1, <1>3, FromFirst
<1>5. After(a, b, sort) <=> AfterFrom(a, b, sort, 1)
  BY <1>1, AfterByKeys
<1> QED BY <1>1, <1>2, <1>3, <1>4, <1>5 DEF sort

\* A clause added to a sort decides where the sort leaves records equal.
LEMMA AfterAppend ==
  ASSUME NEW a \in Projection, NEW b \in Projection, NEW sort \in Seq(SortType), NEW c \in SortType
  PROVE  /\ Append(sort, c) \in Seq(SortType)
         /\ After(a, b, Append(sort, c)) <=>
              After(a, b, sort) \/ (~After(b, a, sort) /\ Key(a, c) > Key(b, c))
<1> DEFINE all == Append(sort, c)
           n   == Len(sort)
<1>1. /\ all \in Seq(SortType) /\ n \in Nat /\ Len(all) = n + 1
      /\ all[n + 1] = c /\ \A i \in 1 .. n : all[i] = sort[i]
  BY AppendProperties, LenProperties
<1> HIDE DEF all
<1>2. After(a, b, all) <=> AfterFrom(a, b, all, 1)
  BY <1>1, AfterByKeys
<1>3. /\ After(a, b, sort) <=> AfterFrom(a, b, sort, 1)
      /\ After(b, a, sort) <=> AfterFrom(b, a, sort, 1)
  BY AfterByKeys
<1>4. ASSUME AfterFrom(a, b, sort, 1) PROVE AfterFrom(a, b, all, 1)
  <2>1. PICK i \in 1 .. n :
          /\ \A j \in 1 .. (i - 1) : Key(a, sort[j]) = Key(b, sort[j])
          /\ Key(a, sort[i]) > Key(b, sort[i])
    BY <1>4 DEF AfterFrom
  <2>2. i \in 1 .. Len(all) /\ \A j \in 1 .. (i - 1) : j \in 1 .. n
    BY <1>1
  <2> QED BY <1>1, <2>1, <2>2 DEF AfterFrom
<1>5. ASSUME SameFrom(a, b, sort, 1), Key(a, c) > Key(b, c) PROVE AfterFrom(a, b, all, 1)
  <2>1. n + 1 \in 1 .. Len(all) /\ (n + 1) - 1 = n
    BY <1>1
  <2> QED BY <1>1, <1>5, <2>1 DEF AfterFrom, SameFrom
<1>6. ASSUME AfterFrom(a, b, all, 1)
      PROVE  AfterFrom(a, b, sort, 1) \/ (SameFrom(a, b, sort, 1) /\ Key(a, c) > Key(b, c))
  <2>1. PICK i \in 1 .. Len(all) :
          /\ \A j \in 1 .. (i - 1) : Key(a, all[j]) = Key(b, all[j])
          /\ Key(a, all[i]) > Key(b, all[i])
    BY <1>6 DEF AfterFrom
  <2>2. CASE i = n + 1
    <3>1. \A j \in 1 .. n : j \in 1 .. (i - 1)
      BY <1>1, <2>2
    <3> QED BY <1>1, <2>1, <2>2, <3>1 DEF SameFrom
  <2>3. CASE i # n + 1
    <3>1. i \in 1 .. n /\ \A j \in 1 .. (i - 1) : j \in 1 .. n
      BY <1>1, <2>3
    <3> QED BY <1>1, <2>1, <3>1 DEF AfterFrom
  <2> QED BY <2>2, <2>3
<1>7. SameFrom(a, b, sort, 1) => SameFrom(b, a, sort, 1)
  BY DEF SameFrom
<1>8. AfterFrom(b, a, sort, 1) => ~SameFrom(b, a, sort, 1)
  BY FromAsymmetric
<1>9. AfterFrom(a, b, sort, 1) \/ AfterFrom(b, a, sort, 1) \/ SameFrom(a, b, sort, 1)
  BY FromTotal
<1> QED BY <1>1, <1>2, <1>3, <1>4, <1>5, <1>6, <1>7, <1>8, <1>9 DEF all

Opposite(order) == IF order = "asc" THEN "desc" ELSE "asc"

\* A sort with each order turned round turns the order of the records round.
LEMMA AfterReversed ==
  ASSUME NEW a \in Projection, NEW b \in Projection, NEW sort \in Seq(SortType), NEW turned \in Seq(SortType),
         Len(turned) = Len(sort),
         \A i \in 1 .. Len(sort) :
           turned[i].field = sort[i].field /\ turned[i].order = Opposite(sort[i].order)
  PROVE  After(a, b, turned) <=> After(b, a, sort)
<1>1. /\ Len(sort) \in Nat
      /\ \A i \in 1 .. Len(sort) : sort[i] \in SortType /\ turned[i] \in SortType
  BY LenProperties, ElementOfSeq
<1>2. ASSUME NEW i \in 1 .. Len(sort)
      PROVE  /\ Key(a, turned[i]) = Key(b, turned[i]) <=> Key(b, sort[i]) = Key(a, sort[i])
             /\ Key(a, turned[i]) > Key(b, turned[i]) <=> Key(b, sort[i]) > Key(a, sort[i])
  <2>1. sort[i].order \in {"asc", "desc"}
    BY <1>1 DEF SortType
  <2>2. turned[i].field = sort[i].field /\ turned[i].order = Opposite(sort[i].order)
    OBVIOUS
  <2>3. /\ Key(a, sort[i]) \in Int /\ Key(b, sort[i]) \in Int
        /\ Key(a, turned[i]) \in Int /\ Key(b, turned[i]) \in Int
    BY <1>1, KeyFacts
  <2>4. CASE sort[i].order = "asc"
    <3>1. turned[i].order = "desc"
      BY <2>2, <2>4 DEF Opposite
    <3>2. Key(a, turned[i]) = -Key(a, sort[i]) /\ Key(b, turned[i]) = -Key(b, sort[i])
      BY <2>2, <2>4, <3>1 DEF Key
    <3> QED BY <2>3, <3>2
  <2>5. CASE sort[i].order = "desc"
    <3>1. turned[i].order = "asc"
      BY <2>2, <2>5 DEF Opposite
    <3>2. Key(a, sort[i]) = -Key(a, turned[i]) /\ Key(b, sort[i]) = -Key(b, turned[i])
      BY <2>2, <2>5, <3>1 DEF Key
    <3> QED BY <2>3, <3>2
  <2> QED BY <2>1, <2>4, <2>5
<1>3. \A i \in 1 .. Len(sort) : \A j \in 1 .. (i - 1) : j \in 1 .. Len(sort)
  BY <1>1
<1>4. AfterFrom(a, b, turned, 1) <=> AfterFrom(b, a, sort, 1)
  BY <1>2, <1>3 DEF AfterFrom
<1>5. After(a, b, turned) <=> AfterFrom(a, b, turned, 1)
  BY AfterByKeys
<1>6. After(b, a, sort) <=> AfterFrom(b, a, sort, 1)
  BY AfterByKeys
<1> QED BY <1>4, <1>5, <1>6

-----------------------------------------------------------------------------
(***************************************************************************)
(* Counting.                                                               *)
(***************************************************************************)

\* An order of a finite set: each element is told apart by how many others
\* come before it, and each such number is taken.
RankIn(S, E) == [x \in S |-> Cardinality({y \in S : <<y, x>> \in E})]

LEMMA OrderRanks ==
  ASSUME NEW S, IsFiniteSet(S), NEW E \in SUBSET (S \X S),
         \A x \in S : <<x, x>> \notin E,
         \A x, y \in S : x = y \/ <<x, y>> \in E \/ <<y, x>> \in E,
         \A x, y, z \in S : <<x, y>> \in E /\ <<y, z>> \in E => <<x, z>> \in E,
         NEW rank, rank = RankIn(S, E)
  PROVE  /\ Cardinality(S) \in Nat
         /\ rank \in [S -> 0 .. (Cardinality(S) - 1)]
         /\ \A x, y \in S : rank[x] < rank[y] <=> <<x, y>> \in E
         /\ \A x, y \in S : rank[x] = rank[y] => x = y
         /\ \A k \in 0 .. (Cardinality(S) - 1) : \E x \in S : rank[x] = k
<1> DEFINE Before(x) == {y \in S : <<y, x>> \in E}
           n        == Cardinality(S)
<1>1. n \in Nat
  BY FS_CardinalityType
<1>2. ASSUME NEW x \in S
      PROVE  /\ Before(x) \in SUBSET S /\ IsFiniteSet(Before(x))
             /\ rank[x] = Cardinality(Before(x)) /\ rank[x] \in Nat /\ rank[x] \in 0 .. (n - 1)
  <2>1. Before(x) \in SUBSET S /\ x \notin Before(x)
    OBVIOUS
  <2>2. rank[x] = Cardinality(Before(x))
    BY DEF RankIn
  <2> HIDE DEF Before
  <2>3. /\ IsFiniteSet(Before(x)) /\ Cardinality(Before(x)) <= n
        /\ n = Cardinality(Before(x)) => S = Before(x)
    BY <2>1, FS_Subset
  <2>4. Cardinality(Before(x)) \in Nat
    BY <2>3, FS_CardinalityType
  <2>5. n # Cardinality(Before(x))
    BY <2>1, <2>3
  <2> QED BY <1>1, <2>1, <2>2, <2>3, <2>4, <2>5
<1>3. ASSUME NEW x \in S, NEW y \in S, <<x, y>> \in E
      PROVE  rank[x] < rank[y]
  <2>1. Before(x) \in SUBSET Before(y) /\ x \in Before(y) /\ x \notin Before(x)
    BY <1>3
  <2>2. /\ IsFiniteSet(Before(y)) /\ rank[x] = Cardinality(Before(x)) /\ rank[y] = Cardinality(Before(y))
        /\ rank[x] \in Nat /\ rank[y] \in Nat
    <3> HIDE DEF Before, n
    <3> QED BY <1>2
  <2> HIDE DEF Before
  <2>3. /\ Cardinality(Before(x)) <= Cardinality(Before(y))
        /\ Cardinality(Before(y)) = Cardinality(Before(x)) => Before(y) = Before(x)
    BY <2>1, <2>2, FS_Subset
  <2> QED BY <2>1, <2>2, <2>3
<1>4. rank \in [S -> 0 .. (n - 1)]
  <2>1. rank = [x \in S |-> rank[x]]
    BY DEF RankIn
  <2> HIDE DEF Before, n
  <2> QED BY <1>2, <2>1
<1>5. ASSUME NEW x \in S, NEW y \in S
      PROVE  /\ rank[x] < rank[y] <=> <<x, y>> \in E
             /\ rank[x] = rank[y] => x = y
  <2>1. rank[x] \in Nat /\ rank[y] \in Nat
    <3> HIDE DEF Before, n
    <3> QED BY <1>2
  <2>2. x = y \/ <<x, y>> \in E \/ <<y, x>> \in E
    OBVIOUS
  <2>3. (<<x, y>> \in E => rank[x] < rank[y]) /\ (<<y, x>> \in E => rank[y] < rank[x])
    BY <1>3
  <2>4. <<x, x>> \notin E
    OBVIOUS
  <2> QED BY <2>1, <2>2, <2>3, <2>4
<1>6. ASSUME NEW k \in 0 .. (n - 1) PROVE \E x \in S : rank[x] = k
  <2>1. rank \in Injection(S, 0 .. (n - 1))
    BY <1>4, <1>5 DEF Injection, IsInjective
  <2>2. IsFiniteSet(0 .. (n - 1)) /\ Cardinality(0 .. (n - 1)) = n
    <3>1. 0 \in Int /\ n - 1 \in Int
      BY <1>1
    <3>2. /\ IsFiniteSet(0 .. (n - 1))
          /\ Cardinality(0 .. (n - 1)) = IF 0 > n - 1 THEN 0 ELSE (n - 1) - 0 + 1
      BY <3>1, FS_Interval
    <3> QED BY <1>1, <3>2
  <2>3. rank \in Surjection(S, 0 .. (n - 1))
    BY <2>1, <2>2, FS_Injection
  <2> QED BY <2>3 DEF Surjection
<1> QED BY <1>1, <1>4, <1>5, <1>6

\* The sequence ascends in a measure of its elements.
Ascending(t, m) == \A i, j \in DOMAIN t : i < j => m[t[i]] < m[t[j]]

Below(X, m, v) == {x \in X : m[x] < v}

\* In a sequence that ascends, k - 1 elements are below the k-th.
LEMMA AscendingCounts ==
  ASSUME NEW X, NEW t \in Seq(X), ToSet(t) = X, NEW m, \A x \in X : m[x] \in Int, Ascending(t, m),
         NEW k \in 1 .. Len(t)
  PROVE  Cardinality(Below(X, m, m[t[k]])) = k - 1
<1> DEFINE B == {x \in X : m[x] < m[t[k]]}
           f == [i \in 1 .. (k - 1) |-> t[i]]
<1>1. DOMAIN t = 1 .. Len(t) /\ Len(t) \in Nat /\ \A i \in 1 .. Len(t) : t[i] \in X
  BY LenProperties, ElementOfSeq
<1>2. \A i \in 1 .. Len(t) : m[t[i]] \in Int
  BY <1>1
<1>3. ASSUME NEW i \in 1 .. Len(t)
      PROVE  t[i] \in B <=> i < k
  <2>1. (i < k => m[t[i]] < m[t[k]]) /\ (k < i => m[t[k]] < m[t[i]])
    BY <1>1 DEF Ascending
  <2> QED BY <1>1, <1>2, <2>1
<1>4. \A i \in 1 .. (k - 1) : i \in 1 .. Len(t) /\ i < k
  BY <1>1
<1>5. f \in [1 .. (k - 1) -> B]
  BY <1>3, <1>4
<1>6. ASSUME NEW i \in 1 .. (k - 1), NEW j \in 1 .. (k - 1), f[i] = f[j] PROVE i = j
  <2>1. t[i] = t[j] /\ i \in 1 .. Len(t) /\ j \in 1 .. Len(t)
    BY <1>4, <1>6
  <2>2. (i < j => m[t[i]] < m[t[j]]) /\ (j < i => m[t[j]] < m[t[i]])
    BY <1>1, <2>1 DEF Ascending
  <2> QED BY <1>2, <2>1, <2>2
<1>7. ASSUME NEW x \in B PROVE \E i \in 1 .. (k - 1) : f[i] = x
  <2>1. PICK i \in 1 .. Len(t) : t[i] = x
    BY <1>1 DEF ToSet
  <2>2. i < k
    BY <1>3, <2>1
  <2>3. i \in 1 .. (k - 1)
    BY <1>1, <2>2
  <2> QED BY <2>1, <2>3
<1>8. f \in Bijection(1 .. (k - 1), B)
  <2> HIDE DEF f, B
  <2>1. DOMAIN f = 1 .. (k - 1)
    BY <1>5
  <2> QED BY <1>5, <1>6, <1>7, <2>1 DEF Bijection, Injection, Surjection, IsInjective
<1> HIDE DEF B, f
<1>9. ExistsBijection(1 .. (k - 1), B) /\ k - 1 \in Nat
  BY <1>1, <1>8 DEF ExistsBijection
<1>10. Cardinality(B) = k - 1
  BY <1>9, FS_CountingElements
<1> QED BY <1>10 DEF B, Below

\* A set has one sequence that ascends.
LEMMA AscendingUnique ==
  ASSUME NEW X, NEW t \in Seq(X), NEW u \in Seq(X), ToSet(t) = X, ToSet(u) = X,
         NEW m, \A x \in X : m[x] \in Int, Ascending(t, m), Ascending(u, m)
  PROVE  t = u
<1>1. /\ DOMAIN t = 1 .. Len(t) /\ Len(t) \in Nat /\ \A i \in 1 .. Len(t) : t[i] \in X
      /\ DOMAIN u = 1 .. Len(u) /\ Len(u) \in Nat /\ \A i \in 1 .. Len(u) : u[i] \in X
  BY LenProperties, ElementOfSeq
<1>2. ASSUME NEW k \in 1 .. Len(t), NEW l \in 1 .. Len(u), t[k] = u[l]
      PROVE  k = l
  <2>1. Cardinality(Below(X, m, m[t[k]])) = k - 1
    BY AscendingCounts
  <2>2. Cardinality(Below(X, m, m[u[l]])) = l - 1
    BY AscendingCounts
  <2>3. k - 1 = l - 1
    BY <1>2, <2>1, <2>2
  <2> QED BY <1>1, <2>3
<1>3. ASSUME NEW k \in 1 .. Len(t) PROVE k \in 1 .. Len(u) /\ t[k] = u[k]
  <2>1. PICK l \in 1 .. Len(u) : t[k] = u[l]
    BY <1>1 DEF ToSet
  <2> QED BY <1>2, <2>1
<1>4. ASSUME NEW k \in 1 .. Len(u) PROVE k \in 1 .. Len(t)
  <2>1. PICK l \in 1 .. Len(t) : t[l] = u[k]
    BY <1>1 DEF ToSet
  <2> QED BY <1>2, <2>1
<1>5. Len(t) = Len(u)
  <2>1. Len(t) > 0 => Len(t) \in 1 .. Len(u)
    BY <1>1, <1>3
  <2>2. Len(u) > 0 => Len(u) \in 1 .. Len(t)
    BY <1>1, <1>4
  <2>3. Len(t) \in Nat /\ Len(u) \in Nat
    BY <1>1
  <2> QED BY <2>1, <2>2, <2>3
<1> QED BY <1>3, <1>5, SeqEqual

-----------------------------------------------------------------------------
(***************************************************************************)
(* The stable sort.                                                        *)
(***************************************************************************)

\* The sort of the list: the element at i comes before the one at j.
Earlier(s, sort, i, j) == After(s[j], s[i], sort) \/ (~After(s[i], s[j], sort) /\ i < j)

\* The sort rearranges the list; what comes first comes before by the fields, or
\* is equal in them and was first.
LEMMA StableSortFacts ==
  ASSUME NEW s \in Seq(Projection), NEW sort \in Seq(SortType)
  PROVE  /\ StableSort(s, sort) \in Seq(Projection)
         /\ Len(StableSort(s, sort)) = Len(s)
         /\ \E o \in [1 .. Len(s) -> 1 .. Len(s)] :
              /\ \A k \in 1 .. Len(s) : StableSort(s, sort)[k] = s[o[k]]
              /\ \A k, l \in 1 .. Len(s) : k < l => o[k] # o[l] /\ Earlier(s, sort, o[k], o[l])
              /\ \A i \in 1 .. Len(s) : \E k \in 1 .. Len(s) : o[k] = i
<1> DEFINE n    == Len(s)
           D    == 1 .. n
           E    == {p \in D \X D : Earlier(s, sort, p[1], p[2])}
           rank == RankIn(D, E)
<1>1. DOMAIN s = D /\ n \in Nat /\ \A i \in D : s[i] \in Projection
  BY LenProperties, ElementOfSeq
<1>2. IsFiniteSet(D) /\ Cardinality(D) = n
  <2>1. 1 \in Int /\ n \in Int
    BY <1>1
  <2> HIDE DEF n
  <2>2. /\ IsFiniteSet(1 .. n) /\ Cardinality(1 .. n) = IF 1 > n THEN 0 ELSE n - 1 + 1
    BY <2>1, FS_Interval
  <2> QED BY <1>1, <2>2
<1>3. ASSUME NEW x \in D, NEW y \in D PROVE <<x, y>> \in E <=> Earlier(s, sort, x, y)
  OBVIOUS
<1>4. E \in SUBSET (D \X D)
  OBVIOUS
<1>5. \A x \in D : ~Earlier(s, sort, x, x)
  BY <1>1, AfterFacts DEF Earlier
<1>6. \A x, y \in D : x = y \/ Earlier(s, sort, x, y) \/ Earlier(s, sort, y, x)
  BY <1>1, AfterFacts DEF Earlier
<1>7. ASSUME NEW x \in D, NEW y \in D, NEW z \in D, Earlier(s, sort, x, y), Earlier(s, sort, y, z)
      PROVE  Earlier(s, sort, x, z)
  <2>1. s[x] \in Projection /\ s[y] \in Projection /\ s[z] \in Projection
    BY <1>1
  <2>2. /\ After(s[y], s[x], sort) => After(s[y], s[z], sort) \/ After(s[z], s[x], sort)
        /\ After(s[z], s[y], sort) => After(s[z], s[x], sort) \/ After(s[x], s[y], sort)
        /\ After(s[x], s[z], sort) => After(s[x], s[y], sort) \/ After(s[y], s[z], sort)
    BY <2>1, AfterFacts
  <2>3. /\ After(s[y], s[x], sort) => ~After(s[x], s[y], sort)
        /\ After(s[z], s[y], sort) => ~After(s[y], s[z], sort)
    BY <2>1, AfterFacts
  <2>4. x < y /\ y < z => x < z
    BY <1>1
  <2> QED BY <1>7, <2>2, <2>3, <2>4 DEF Earlier
<1>8. /\ \A x, y \in D : rank[x] < rank[y] <=> <<x, y>> \in E
      /\ \A x, y \in D : rank[x] = rank[y] => x = y
      /\ \A k \in 0 .. (n - 1) : \E x \in D : rank[x] = k
      /\ rank \in [D -> 0 .. (n - 1)]
  <2>1. \A x \in D : <<x, x>> \notin E
    BY <1>3, <1>5
  <2>2. \A x, y \in D : x = y \/ <<x, y>> \in E \/ <<y, x>> \in E
    BY <1>3, <1>6
  <2>3. \A x, y, z \in D : <<x, y>> \in E /\ <<y, z>> \in E => <<x, z>> \in E
    <3> HIDE DEF E, D
    <3> QED BY <1>3, <1>7
  <2>4. rank = RankIn(D, E)
    OBVIOUS
  <2> HIDE DEF rank, E, D, n
  <2>5. /\ rank \in [D -> 0 .. (Cardinality(D) - 1)]
        /\ \A x, y \in D : rank[x] < rank[y] <=> <<x, y>> \in E
        /\ \A x, y \in D : rank[x] = rank[y] => x = y
        /\ \A k \in 0 .. (Cardinality(D) - 1) : \E x \in D : rank[x] = k
    BY <1>2, <1>4, <2>1, <2>2, <2>3, <2>4, OrderRanks
  <2> QED BY <1>2, <2>5
<1> DEFINE At(k) == CHOOSE i \in D : rank[i] + 1 = k
           o     == [k \in D |-> At(k)]
<1>9. StableSort(s, sort) = [k \in D |-> s[o[k]]]
  <2> DEFINE place(i) == Cardinality({j \in DOMAIN s : Earlier(s, sort, j, i)}) + 1
  <2>1. StableSort(s, sort) = [k \in DOMAIN s |-> s[CHOOSE i \in DOMAIN s : place(i) = k]]
    BY DEF StableSort, Earlier
  <2>2. ASSUME NEW i \in D PROVE rank[i] + 1 = place(i)
    <3>1. {y \in D : <<y, i>> \in E} = {j \in DOMAIN s : Earlier(s, sort, j, i)}
      <4> HIDE DEF E
      <4> QED BY <1>1, <1>3
    <3> QED BY <3>1 DEF RankIn
  <2> HIDE DEF place, rank, D
  <2>3. ASSUME NEW k \in D PROVE (CHOOSE i \in DOMAIN s : place(i) = k) = At(k)
    BY <1>1, <2>2
  <2> QED BY <1>1, <2>1, <2>3
<1> HIDE DEF rank
<1>10. ASSUME NEW k \in D PROVE o[k] \in D /\ rank[o[k]] + 1 = k
  <2>1. k - 1 \in 0 .. (n - 1)
    BY <1>1
  <2>2. PICK x \in D : rank[x] = k - 1
    BY <1>8, <2>1
  <2>3. rank[x] + 1 = k
    BY <1>1, <2>2
  <2>4. At(k) \in D /\ rank[At(k)] + 1 = k
    <3> HIDE DEF D
    <3> QED BY <2>3
  <2> QED BY <2>4
<1> HIDE DEF o
<1>11. o \in [D -> D]
  BY <1>10 DEF o
<1>12. \A k \in D : rank[o[k]] = k - 1
  BY <1>1, <1>8, <1>10
<1>13. ASSUME NEW k \in D, NEW l \in D, k < l
       PROVE  o[k] # o[l] /\ Earlier(s, sort, o[k], o[l])
  <2>1. o[k] \in D /\ o[l] \in D /\ rank[o[k]] < rank[o[l]]
    BY <1>1, <1>10, <1>12, <1>13
  <2>2. <<o[k], o[l]>> \in E
    BY <1>8, <2>1
  <2>3. rank[o[k]] # rank[o[l]]
    BY <1>1, <1>12, <1>13
  <2> QED BY <1>3, <2>1, <2>2, <2>3
<1>14. ASSUME NEW i \in D PROVE \E k \in D : o[k] = i
  <2>1. rank[i] \in 0 .. (n - 1)
    BY <1>8
  <2>2. rank[i] + 1 \in D /\ rank[i] = (rank[i] + 1) - 1
    BY <1>1, <2>1
  <2>3. rank[o[rank[i] + 1]] = rank[i] /\ o[rank[i] + 1] \in D
    BY <1>10, <1>12, <2>2
  <2> QED BY <1>8, <2>2, <2>3
<1>15. StableSort(s, sort) \in Seq(Projection) /\ Len(StableSort(s, sort)) = n
  <2>1. StableSort(s, sort) \in [1 .. n -> Projection]
    BY <1>1, <1>9, <1>10
  <2> QED BY <1>1, <2>1, SeqDef, LenProperties
<1>16. \A k \in D : StableSort(s, sort)[k] = s[o[k]]
  BY <1>9
<1> QED BY <1>11, <1>13, <1>14, <1>15, <1>16

\* The sequence has each element of the set once.
Lists(s, X) ==
  /\ s \in Seq(X) /\ ToSet(s) = X
  /\ \A i, j \in DOMAIN s : s[i] = s[j] => i = j

\* The measure ranks the records as the sort does.
Follows(m, X, sort) ==
  /\ \A a \in X : m[a] \in Int
  /\ \A a, b \in X : m[a] = m[b] => a = b
  /\ \A a, b \in X : m[a] < m[b] => After(b, a, sort)

LEMMA SetToSeqFacts ==
  ASSUME NEW X, IsFiniteSet(X)
  PROVE  Lists(SetToSeq(X), X)
<1> DEFINE n == Cardinality(X)
           s == SetToSeq(X)
<1>1. n \in Nat /\ ExistsBijection(1 .. n, X)
  BY FS_CardinalityType
<1>2. PICK f \in [1 .. n -> X] : IsInjective(f)
  BY <1>1 DEF ExistsBijection, Bijection, Injection
<1>3. s \in [1 .. n -> X] /\ IsInjective(s)
  BY <1>2 DEF SetToSeq
<1> HIDE DEF s
<1>4. s \in Seq(X) /\ DOMAIN s = 1 .. n
  BY <1>1, <1>3, SeqDef
<1>5. s \in Injection(1 .. n, X)
  BY <1>3 DEF Injection
<1>6. IsFiniteSet(1 .. n) /\ Cardinality(1 .. n) = n
  <2>1. 1 \in Int /\ n \in Int
    BY <1>1
  <2> HIDE DEF n
  <2>2. IsFiniteSet(1 .. n) /\ Cardinality(1 .. n) = IF 1 > n THEN 0 ELSE n - 1 + 1
    BY <2>1, FS_Interval
  <2> QED BY <1>1, <2>2
<1>7. s \in Surjection(1 .. n, X)
  BY <1>5, <1>6, FS_Injection
<1>8. ToSet(s) = X
  BY <1>3, <1>4, <1>7 DEF Surjection, ToSet
<1>9. \A i, j \in DOMAIN s : s[i] = s[j] => i = j
  BY <1>3 DEF IsInjective
<1> QED BY <1>4, <1>8, <1>9 DEF Lists, s

\* Where the sort decides, the sorted list ascends, whatever it was before.
LEMMA SortAscends ==
  ASSUME NEW X \in SUBSET Projection, NEW s, Lists(s, X), NEW sort \in Seq(SortType),
         NEW m, Follows(m, X, sort)
  PROVE  /\ StableSort(s, sort) \in Seq(X)
         /\ Len(StableSort(s, sort)) = Len(s)
         /\ ToSet(StableSort(s, sort)) = X
         /\ Ascending(StableSort(s, sort), m)
<1> DEFINE t == StableSort(s, sort)
           n == Len(s)
<1>1. s \in Seq(X) /\ s \in Seq(Projection) /\ n \in Nat /\ DOMAIN s = 1 .. n /\ \A i \in 1 .. n : s[i] \in X
  BY LenProperties, ElementOfSeq, SeqMonotonic DEF Lists
<1>2. t \in Seq(Projection) /\ Len(t) = n
  BY <1>1, StableSortFacts
<1>3. PICK o \in [1 .. n -> 1 .. n] :
        /\ \A k \in 1 .. n : t[k] = s[o[k]]
        /\ \A k, l \in 1 .. n : k < l => o[k] # o[l] /\ Earlier(s, sort, o[k], o[l])
        /\ \A i \in 1 .. n : \E k \in 1 .. n : o[k] = i
  BY <1>1, StableSortFacts
<1> HIDE DEF t, n
<1>4. DOMAIN t = 1 .. n /\ \A k \in 1 .. n : t[k] \in X
  <2>1. DOMAIN t = 1 .. n
    BY <1>2, LenProperties
  <2> QED BY <1>1, <1>3, <2>1
<1>5. t \in Seq(X)
  <2>1. t \in [1 .. n -> X]
    BY <1>2, <1>4, LenProperties
  <2> QED BY <1>1, <2>1, SeqDef
<1>6. ToSet(t) = X
  <2>1. ASSUME NEW x \in X PROVE \E k \in 1 .. n : t[k] = x
    <3>1. PICK i \in 1 .. n : s[i] = x
      BY <1>1 DEF Lists, ToSet
    <3>2. PICK k \in 1 .. n : o[k] = i
      BY <1>3
    <3>3. t[k] = x
      BY <1>3, <3>1, <3>2
    <3> QED BY <3>3
  <2> QED BY <1>4, <2>1 DEF ToSet
<1>7. ASSUME NEW k \in 1 .. n, NEW l \in 1 .. n, k < l
      PROVE  m[t[k]] < m[t[l]]
  <2>1. /\ o[k] \in 1 .. n /\ o[l] \in 1 .. n /\ o[k] # o[l] /\ Earlier(s, sort, o[k], o[l])
        /\ t[k] = s[o[k]] /\ t[l] = s[o[l]]
    BY <1>3, <1>7
  <2>2. t[k] # t[l]
    BY <1>1, <2>1 DEF Lists
  <2>3. t[k] \in X /\ t[l] \in X /\ t[k] \in Projection /\ t[l] \in Projection
    BY <1>4
  <2>4. After(t[l], t[k], sort) \/ ~After(t[k], t[l], sort)
    BY <2>1 DEF Earlier
  <2>5. ~After(t[k], t[l], sort)
    BY <2>3, <2>4, AfterFacts
  <2>6. m[t[k]] \in Int /\ m[t[l]] \in Int /\ m[t[k]] # m[t[l]] /\ ~(m[t[l]] < m[t[k]])
    BY <2>2, <2>3, <2>5 DEF Follows
  <2> QED BY <2>6
<1>8. Ascending(t, m)
  BY <1>4, <1>7 DEF Ascending
<1> QED BY <1>2, <1>5, <1>6, <1>8 DEF t, n

\* The first n elements of a sequence.
LEMMA LimitFacts ==
  ASSUME NEW X, NEW s \in Seq(X), NEW n \in Nat
  PROVE  /\ Limit(s, n) \in Seq(X)
         /\ Len(Limit(s, n)) = IF Len(s) < n THEN Len(s) ELSE n
         /\ \A i \in 1 .. Len(Limit(s, n)) : i \in 1 .. Len(s) /\ Limit(s, n)[i] = s[i]
<1> DEFINE k == IF Len(s) < n THEN Len(s) ELSE n
<1>1. Len(s) \in Nat /\ \A i \in 1 .. Len(s) : s[i] \in X
  BY LenProperties, ElementOfSeq
<1>2. k \in Nat /\ k <= Len(s)
  BY <1>1
<1>3. Limit(s, n) = SubSeq(s, 1, k)
  BY DEF Limit
<1> HIDE DEF k
<1>4. 1 \in Int /\ k \in Int /\ \A i \in 1 .. k : s[i] \in X
  BY <1>1, <1>2
<1>5. /\ SubSeq(s, 1, k) \in Seq(X)
      /\ Len(SubSeq(s, 1, k)) = IF 1 <= k THEN k - 1 + 1 ELSE 0
      /\ \A i \in 1 .. k - 1 + 1 : SubSeq(s, 1, k)[i] = s[1 + i - 1]
  BY <1>4, SubSeqProperties
<1>6. Len(SubSeq(s, 1, k)) = k
  BY <1>2, <1>5
<1>7. \A i \in 1 .. k : i \in 1 .. k - 1 + 1 /\ 1 + i - 1 = i /\ i \in 1 .. Len(s)
  BY <1>1, <1>2
<1> QED BY <1>3, <1>5, <1>6, <1>7 DEF k

\* A select returns those of the rows that fewer than a page are before.
LEMMA SelectFacts ==
  ASSUME NEW X \in SUBSET Projection, IsFiniteSet(X), NEW sort \in Seq(SortType),
         NEW m, Follows(m, X, sort)
  PROVE  /\ Select(X, sort) \in Seq(X)
         /\ Ascending(Select(X, sort), m)
         /\ ToSet(Select(X, sort)) = {x \in X : Cardinality(Below(X, m, m[x])) < PageSize}
<1> DEFINE t == StableSort(SetToSeq(X), sort)
           g == Limit(t, PageSize)
<1>1. t \in Seq(X) /\ ToSet(t) = X /\ Ascending(t, m)
  BY SetToSeqFacts, SortAscends
<1>2. Select(X, sort) = g
  BY DEF Select
<1> HIDE DEF t
<1>3. Len(t) \in Nat /\ DOMAIN t = 1 .. Len(t) /\ \A i \in 1 .. Len(t) : t[i] \in X
  BY <1>1, LenProperties, ElementOfSeq
<1>4. PageSize \in Nat
  BY PageSizeAssumption
<1>5. /\ g \in Seq(X)
      /\ Len(g) = IF Len(t) < PageSize THEN Len(t) ELSE PageSize
      /\ \A i \in 1 .. Len(g) : i \in 1 .. Len(t) /\ g[i] = t[i]
  BY <1>1, <1>4, LimitFacts
<1> HIDE DEF g
<1>6. DOMAIN g = 1 .. Len(g)
  BY <1>5, LenProperties
<1>7. Ascending(g, m)
  BY <1>1, <1>3, <1>5, <1>6 DEF Ascending
<1>8. \A i \in 1 .. Len(t) : Cardinality(Below(X, m, m[t[i]])) = i - 1
  <2>1. \A x \in X : m[x] \in Int
    BY DEF Follows
  <2> QED BY <1>1, <2>1, AscendingCounts
<1>9. ASSUME NEW x \in ToSet(g) PROVE x \in X /\ Cardinality(Below(X, m, m[x])) < PageSize
  <2>1. PICK i \in 1 .. Len(g) : x = g[i]
    BY <1>6 DEF ToSet
  <2>2. i \in 1 .. Len(t) /\ x = t[i] /\ i - 1 < PageSize
    BY <1>3, <1>4, <1>5, <2>1
  <2> QED BY <1>3, <1>8, <2>2
<1>10. ASSUME NEW x \in X, Cardinality(Below(X, m, m[x])) < PageSize PROVE x \in ToSet(g)
  <2>1. PICK i \in 1 .. Len(t) : x = t[i]
    BY <1>1, <1>3 DEF ToSet
  <2>2. i - 1 < PageSize
    BY <1>8, <1>10, <2>1
  <2>3. i \in 1 .. Len(g)
    BY <1>3, <1>4, <1>5, <2>2
  <2> QED BY <1>5, <1>6, <2>1, <2>3 DEF ToSet
<1>11. ToSet(g) = {x \in X : Cardinality(Below(X, m, m[x])) < PageSize}
  BY <1>9, <1>10
<1> QED BY <1>2, <1>5, <1>7, <1>11

LEMMA IntervalSize ==
  ASSUME NEW a \in Int, NEW b \in Int, a <= b
  PROVE  IsFiniteSet(a .. (b - 1)) /\ Cardinality(a .. (b - 1)) = b - a
<1>1. b - 1 \in Int
  OBVIOUS
<1>2. /\ IsFiniteSet(a .. (b - 1))
      /\ Cardinality(a .. (b - 1)) = IF a > b - 1 THEN 0 ELSE (b - 1) - a + 1
  BY <1>1, FS_Interval
<1> QED BY <1>2

\* No more elements have measures within an interval than it has numbers.
LEMMA WithinInterval ==
  ASSUME NEW Y, NEW m, \A x, y \in Y : m[x] = m[y] => x = y,
         NEW a \in Int, NEW b \in Int, a <= b, \A y \in Y : m[y] \in a .. (b - 1)
  PROVE  Cardinality(Y) <= b - a
<1> DEFINE f == [y \in Y |-> m[y]]
<1>1. f \in Injection(Y, a .. (b - 1))
  BY DEF Injection, IsInjective
<1>2. IsFiniteSet(a .. (b - 1)) /\ Cardinality(a .. (b - 1)) = b - a
  BY IntervalSize
<1> HIDE DEF f
<1>3. Cardinality(Y) <= Cardinality(a .. (b - 1))
  BY <1>1, <1>2, FS_Injection
<1> QED BY <1>2, <1>3

\* No fewer elements than an interval has numbers have them as measures.
LEMMA CoversInterval ==
  ASSUME NEW Y, IsFiniteSet(Y), NEW m,
         NEW a \in Int, NEW b \in Int, a <= b, \A v \in a .. (b - 1) : \E y \in Y : m[y] = v
  PROVE  b - a <= Cardinality(Y)
<1> DEFINE Z == {y \in Y : m[y] \in a .. (b - 1)}
           f == [y \in Z |-> m[y]]
<1>1. f \in Surjection(Z, a .. (b - 1))
  BY DEF Surjection
<1>2. Cardinality(a .. (b - 1)) = b - a
  BY IntervalSize
<1>3. Z \in SUBSET Y
  OBVIOUS
<1> HIDE DEF f, Z
<1>4. IsFiniteSet(Z) /\ Cardinality(Z) <= Cardinality(Y)
  BY <1>3, FS_Subset
<1>5. Cardinality(a .. (b - 1)) <= Cardinality(Z)
  BY <1>1, <1>4, FS_Surjection
<1>6. Cardinality(Z) \in Nat /\ Cardinality(Y) \in Nat
  BY <1>4, FS_CardinalityType
<1> QED BY <1>2, <1>4, <1>5, <1>6

\* A select from rows whose measures leave no gap returns an interval of them.
LEMMA SelectInterval ==
  ASSUME NEW X \in SUBSET Projection, IsFiniteSet(X), NEW sort \in Seq(SortType),
         NEW m, Follows(m, X, sort), NEW a \in Int, \A x \in X : a <= m[x],
         \A x \in X : \A v \in a .. m[x] : v < a + PageSize => \E y \in X : m[y] = v
  PROVE  /\ Select(X, sort) \in Seq(X)
         /\ Ascending(Select(X, sort), m)
         /\ ToSet(Select(X, sort)) = {x \in X : m[x] < a + PageSize}
<1>1. /\ Select(X, sort) \in Seq(X)
      /\ Ascending(Select(X, sort), m)
      /\ ToSet(Select(X, sort)) = {x \in X : Cardinality(Below(X, m, m[x])) < PageSize}
  BY SelectFacts
<1>2. PageSize \in Nat \ {0}
  BY PageSizeAssumption
<1>3. \A x \in X : m[x] \in Int
  BY DEF Follows
<1>4. ASSUME NEW x \in X PROVE Cardinality(Below(X, m, m[x])) < PageSize <=> m[x] < a + PageSize
  <2> DEFINE Y == Below(X, m, m[x])
  <2>1. m[x] \in Int /\ a <= m[x]
    BY <1>3
  <2>2. Y \in SUBSET X /\ \A y \in Y : m[y] < m[x]
    BY DEF Below
  <2>3. ASSUME NEW y \in X, m[y] < m[x] PROVE y \in Y
    BY <2>3 DEF Below
  <2> HIDE DEF Y
  <2>4. IsFiniteSet(Y) /\ Cardinality(Y) \in Nat
    BY <2>2, FS_Subset, FS_CardinalityType
  <2>5. CASE m[x] < a + PageSize
    <3>1. \A y, z \in Y : m[y] = m[z] => y = z
      BY <2>2 DEF Follows
    <3>2. ASSUME NEW y \in Y PROVE m[y] \in a .. (m[x] - 1)
      <4>1. m[y] \in Int /\ a <= m[y] /\ m[y] < m[x]
        BY <1>3, <2>2
      <4> QED BY <2>1, <4>1
    <3>3. Cardinality(Y) <= m[x] - a
      BY <2>1, <3>1, <3>2, WithinInterval
    <3>4. m[x] - a < PageSize
      BY <1>2, <2>1, <2>5
    <3>5. Cardinality(Y) < PageSize
      BY <1>2, <2>1, <2>4, <3>3, <3>4
    <3> QED BY <2>5, <3>5 DEF Y
  <2>6. CASE ~(m[x] < a + PageSize)
    <3>1. ASSUME NEW v \in a .. ((a + PageSize) - 1) PROVE \E y \in Y : m[y] = v
      <4>1. v \in a .. m[x] /\ v < a + PageSize /\ v < m[x]
        BY <1>2, <2>1, <2>6
      <4>2. PICK y \in X : m[y] = v
        BY <4>1
      <4> QED BY <2>3, <4>1, <4>2
    <3>2. a + PageSize \in Int /\ a <= a + PageSize
      BY <1>2
    <3>3. (a + PageSize) - a <= Cardinality(Y)
      BY <2>4, <3>1, <3>2, CoversInterval
    <3>4. ~(Cardinality(Y) < PageSize)
      BY <1>2, <2>4, <3>3
    <3> QED BY <2>6, <3>4 DEF Y
  <2> QED BY <2>5, <2>6
<1> QED BY <1>1, <1>4

-----------------------------------------------------------------------------
(***************************************************************************)
(* The projections and the rows that match.                                *)
(***************************************************************************)

LEMMA TableFacts ==
  ASSUME TypeOK
  PROVE  /\ Len(projections) \in Nat /\ DOMAIN projections = 1 .. Len(projections)
         /\ \A i \in DOMAIN projections : projections[i] \in Projection
         /\ ToSet(projections) \in SUBSET Projection /\ IsFiniteSet(ToSet(projections))
         /\ \A r, s \in ToSet(projections) : r.id = s.id => r = s
         /\ query.sort \in Seq(SortType) /\ PageSize \in Nat \ {0}
<1>1. projections \in Seq(Projection)
  BY DEF TypeOK
<1>2. /\ Len(projections) \in Nat /\ DOMAIN projections = 1 .. Len(projections)
      /\ \A i \in DOMAIN projections : projections[i] \in Projection
  BY <1>1, LenProperties, ElementOfSeq
<1>3. ToSet(projections) \in SUBSET Projection
  BY <1>2 DEF ToSet
<1>4. \A r, s \in ToSet(projections) : r.id = s.id => r = s
  BY DEF ToSet, TypeOK
<1>5. IsFiniteSet(ToSet(projections))
  <2>1. projections \in Surjection(1 .. Len(projections), ToSet(projections))
    <3>1. projections \in [1 .. Len(projections) -> ToSet(projections)]
      <4>1. projections \in [1 .. Len(projections) -> Projection]
        BY <1>1, LenProperties
      <4> QED BY <1>2, <4>1 DEF ToSet
    <3> QED BY <1>2, <3>1 DEF Surjection, ToSet
  <2>2. IsFiniteSet(1 .. Len(projections))
    <3>1. 1 \in Int /\ Len(projections) \in Int
      BY <1>2
    <3> QED BY <3>1, FS_Interval
  <2> QED BY <2>1, <2>2, FS_Surjection
<1>6. query.sort \in Seq(SortType)
  BY QueriesAssumption DEF TypeOK, SortType
<1> QED BY <1>2, <1>3, <1>4, <1>5, <1>6, PageSizeAssumption

LEMMA RowsFacts ==
  ASSUME TypeOK
  PROVE  /\ Rows \in SUBSET ToSet(projections) /\ Rows \in SUBSET Projection
         /\ IsFiniteSet(Rows) /\ Cardinality(Rows) \in Nat
         /\ \A r, s \in Rows : r.id = s.id => r = s
         /\ \A r \in Rows : r.id \in Nat /\ record_query(r.id) = r
<1>1. /\ ToSet(projections) \in SUBSET Projection /\ IsFiniteSet(ToSet(projections))
      /\ \A r, s \in ToSet(projections) : r.id = s.id => r = s
  BY TableFacts
<1>2. Rows \in SUBSET ToSet(projections)
  BY DEF Rows
<1>3. IsFiniteSet(Rows)
  BY <1>1, <1>2, FS_Subset
<1>4. Cardinality(Rows) \in Nat
  BY <1>3, FS_CardinalityType
<1>5. \A r \in Projection : r.id \in Nat
  BY IdsAssumption DEF Projection
<1>6. ASSUME NEW r \in ToSet(projections) PROVE record_query(r.id) = r
  <2>1. record_query(r.id) \in ToSet(projections) /\ record_query(r.id).id = r.id
    BY DEF record_query
  <2> QED BY <1>1, <2>1
<1> QED BY <1>1, <1>2, <1>3, <1>4, <1>5, <1>6

\* The sort of the postgres statements that page by keys.
TotalSort ==
  IF query.sort = <<>> THEN <<SortBy("id", "asc")>>
  ELSE paged_sort(IF AllOrders("desc") THEN "desc" ELSE "asc")

\* The measure numbers the rows in the order of the sort.
Ranks(m, sort) ==
  /\ m \in [Rows -> 0 .. (Cardinality(Rows) - 1)]
  /\ \A a, b \in Rows : m[a] = m[b] => a = b
  /\ \A a, b \in Rows : m[a] < m[b] <=> After(b, a, sort)
  /\ \A k \in 0 .. (Cardinality(Rows) - 1) : \E r \in Rows : m[r] = k

\* The page holds the rows numbered from low on, as many as fit, in order.
SliceOf(got, m, low) ==
  /\ got \in Seq(Rows)
  /\ ToSet(got) = {s \in Rows : m[s] \in low .. (low + PageSize - 1)}
  /\ Ascending(got, m)

LEMMA TotalSortType ==
  ASSUME TypeOK
  PROVE  /\ TotalSort \in Seq(SortType)
         /\ SortBy("id", "asc") \in SortType /\ SortBy("id", "desc") \in SortType
<1>1. SortBy("id", "asc") \in SortType /\ SortBy("id", "desc") \in SortType
  BY DEF SortBy, SortType
<1>2. query.sort \in Seq(SortType)
  BY TableFacts
<1>3. <<SortBy("id", "asc")>> \in Seq(SortType)
  BY <1>1
<1>4. paged_sort("asc") \in Seq(SortType) /\ paged_sort("desc") \in Seq(SortType)
  BY <1>1, <1>2, AppendProperties DEF paged_sort
<1> QED BY <1>1, <1>3, <1>4 DEF TotalSort

\* A sort that ends with the id breaks its ties by the id.
LEMMA TotalSortFacts ==
  ASSUME TypeOK, NEW a \in Rows, NEW b \in Rows
  PROVE  After(a, b, TotalSort) <=>
           \/ After(a, b, query.sort)
           \/ /\ ~After(b, a, query.sort)
              /\ IF query.sort # <<>> /\ AllOrders("desc") THEN b.id > a.id ELSE b.id < a.id
<1>1. /\ a \in Projection /\ b \in Projection /\ a.id \in Nat /\ b.id \in Nat
      /\ query.sort \in Seq(SortType)
  BY RowsFacts, TableFacts
<1>2. SortBy("id", "asc") \in SortType /\ SortBy("id", "desc") \in SortType
  BY TotalSortType
<1>3. Key(a, SortBy("id", "asc")) > Key(b, SortBy("id", "asc")) <=> b.id < a.id
  BY <1>1 DEF Key, SortBy, Value
<1>4. Key(a, SortBy("id", "desc")) > Key(b, SortBy("id", "desc")) <=> b.id > a.id
  BY <1>1 DEF Key, SortBy, Value
<1>5. CASE query.sort = <<>>
  <2>1. ~After(a, b, query.sort) /\ ~After(b, a, query.sort)
    BY <1>5 DEF After
  <2>2. After(a, b, <<SortBy("id", "asc")>>) <=> Key(a, SortBy("id", "asc")) > Key(b, SortBy("id", "asc"))
    BY <1>1, <1>2, AfterOne
  <2> QED BY <1>3, <1>5, <2>1, <2>2 DEF TotalSort
<1>6. CASE query.sort # <<>> /\ AllOrders("desc")
  BY <1>1, <1>2, <1>4, <1>6, AfterAppend DEF TotalSort, paged_sort
<1>7. CASE query.sort # <<>> /\ ~AllOrders("desc")
  BY <1>1, <1>2, <1>3, <1>7, AfterAppend DEF TotalSort, paged_sort
<1> QED BY <1>5, <1>6, <1>7

\* Forwards: the page is an interval of the ranks, as long as what was selected
\* from has all rows of the page and none before it.
LEMMA PageForwards ==
  ASSUME TypeOK, NEW sort \in Seq(SortType), NEW m, Ranks(m, sort), NEW low \in Nat,
         NEW U \in SUBSET Rows, \A u \in U : low <= m[u],
         \A s \in Rows : m[s] \in low .. (low + PageSize - 1) => s \in U
  PROVE  SliceOf(Select(U, sort), m, low)
<1>1. /\ Rows \in SUBSET Projection /\ IsFiniteSet(Rows) /\ Cardinality(Rows) \in Nat
      /\ PageSize \in Nat \ {0}
  BY RowsFacts, TableFacts
<1>2. U \in SUBSET Projection /\ IsFiniteSet(U)
  BY <1>1, FS_Subset
<1>3. \A r \in Rows : m[r] \in 0 .. (Cardinality(Rows) - 1) /\ m[r] \in Int
  BY <1>1 DEF Ranks
<1>4. Follows(m, U, sort)
  BY <1>3 DEF Follows, Ranks
<1>5. ASSUME NEW x \in U, NEW v \in low .. m[x], v < low + PageSize
      PROVE  \E y \in U : m[y] = v
  <2>1. m[x] \in 0 .. (Cardinality(Rows) - 1)
    BY <1>3
  <2>2. v \in 0 .. (Cardinality(Rows) - 1) /\ v \in low .. (low + PageSize - 1)
    BY <1>1, <1>5, <2>1
  <2>3. PICK y \in Rows : m[y] = v
    BY <2>2 DEF Ranks
  <2> QED BY <2>2, <2>3
<1>6. /\ Select(U, sort) \in Seq(U)
      /\ Ascending(Select(U, sort), m)
      /\ ToSet(Select(U, sort)) = {x \in U : m[x] < low + PageSize}
  <2>1. low \in Int
    OBVIOUS
  <2> QED BY <1>2, <1>4, <1>5, <2>1, SelectInterval
<1>7. Select(U, sort) \in Seq(Rows)
  BY <1>6, SeqMonotonic
<1>8. ASSUME NEW s \in Rows
      PROVE  s \in U /\ m[s] < low + PageSize <=> m[s] \in low .. (low + PageSize - 1)
  <2>1. m[s] \in Int
    BY <1>3
  <2>2. s \in U => low <= m[s]
    OBVIOUS
  <2>3. m[s] \in low .. (low + PageSize - 1) <=> low <= m[s] /\ m[s] < low + PageSize
    BY <1>1, <2>1
  <2> QED BY <2>2, <2>3
<1>9. {x \in U : m[x] < low + PageSize} = {s \in Rows : m[s] \in low .. (low + PageSize - 1)}
  BY <1>8
<1> QED BY <1>6, <1>7, <1>9 DEF SliceOf

\* Backwards: the rows before are limited in the opposite order, and the result
\* put into the order of the page.
LEMMA PageBackwards ==
  ASSUME TypeOK, NEW sort \in Seq(SortType), NEW turned \in Seq(SortType),
         \A a, b \in Rows : After(a, b, turned) <=> After(b, a, sort),
         NEW m, Ranks(m, sort), NEW r \in Rows,
         NEW U \in SUBSET Rows, \A u \in U : m[u] < m[r],
         \A s \in Rows : m[s] \in (m[r] - PageSize) .. (m[r] - 1) => s \in U
  PROVE  SliceOf(Select(ToSet(Select(U, turned)), sort), m, m[r] - PageSize)
<1> DEFINE neg == [x \in Rows |-> -m[x]]
           a   == 1 - m[r]
           Y   == {s \in Rows : m[s] \in (m[r] - PageSize) .. (m[r] - 1)}
           low == IF m[r] >= PageSize THEN m[r] - PageSize ELSE 0
<1>1. /\ Rows \in SUBSET Projection /\ IsFiniteSet(Rows) /\ Cardinality(Rows) \in Nat
      /\ PageSize \in Nat \ {0}
  BY RowsFacts, TableFacts
<1>2. U \in SUBSET Projection /\ IsFiniteSet(U)
  BY <1>1, FS_Subset
<1>3. \A x \in Rows : m[x] \in 0 .. (Cardinality(Rows) - 1) /\ m[x] \in Int /\ neg[x] = -m[x] /\ neg[x] \in Int
  BY <1>1 DEF Ranks
<1>4. m[r] \in Int /\ a \in Int
  BY <1>3
<1> HIDE DEF neg
<1>5. Follows(neg, U, turned)
  <2>1. ASSUME NEW x \in U, NEW y \in U, neg[x] = neg[y] PROVE x = y
    <3>1. m[x] = m[y]
      BY <1>3, <2>1
    <3> QED BY <3>1 DEF Ranks
  <2>2. ASSUME NEW x \in U, NEW y \in U, neg[x] < neg[y] PROVE After(y, x, turned)
    <3>1. m[y] < m[x]
      BY <1>3, <2>2
    <3> QED BY <3>1 DEF Ranks
  <2> QED BY <1>3, <2>1, <2>2 DEF Follows
<1>6. \A u \in U : a <= neg[u]
  BY <1>3
<1>7. ASSUME NEW x \in U, NEW v \in a .. neg[x], v < a + PageSize
      PROVE  \E y \in U : neg[y] = v
  <2>1. m[x] \in 0 .. (Cardinality(Rows) - 1) /\ neg[x] = -m[x] /\ m[r] \in 0 .. (Cardinality(Rows) - 1)
    BY <1>3
  <2>2. -v \in 0 .. (Cardinality(Rows) - 1) /\ -v \in (m[r] - PageSize) .. (m[r] - 1)
    <3>1. v \in Int /\ 1 - m[r] <= v /\ v <= -m[x] /\ v < (1 - m[r]) + PageSize
      BY <1>3, <1>4, <1>7, <2>1
    <3>2. -v \in Int /\ m[x] <= -v /\ -v <= m[r] - 1 /\ m[r] - PageSize <= -v
      <4>1. PageSize \in Int /\ m[r] \in Int /\ m[x] \in Int /\ v \in Int
        BY <1>1, <1>3, <1>4, <3>1
      <4>2. -v \in Int /\ m[x] <= -v
        BY <3>1, <4>1
      <4>3. -v <= m[r] - 1
        BY <3>1, <4>1
      <4>4. m[r] - PageSize <= -v
        BY <3>1, <4>1
      <4> QED BY <4>2, <4>3, <4>4
    <3>3. -v \in (m[r] - PageSize) .. (m[r] - 1)
      BY <1>1, <1>4, <3>2
    <3>4. 0 <= m[x] /\ m[r] - 1 <= Cardinality(Rows) - 1 /\ m[x] \in Int
      BY <1>1, <2>1
    <3>5. -v \in 0 .. (Cardinality(Rows) - 1)
      BY <1>1, <1>4, <3>2, <3>4
    <3> QED BY <3>3, <3>5
  <2>3. PICK y \in Rows : m[y] = -v
    BY <2>2 DEF Ranks
  <2>4. y \in U
    BY <2>2, <2>3
  <2>5. neg[y] = v
    BY <1>3, <1>4, <2>3
  <2> QED BY <2>4, <2>5
<1> HIDE DEF a
<1>8. ToSet(Select(U, turned)) = {x \in U : neg[x] < a + PageSize}
  BY <1>2, <1>4, <1>5, <1>6, <1>7, SelectInterval
<1>9. ToSet(Select(U, turned)) = Y
  <2>1. ASSUME NEW s \in Rows
        PROVE  s \in U /\ neg[s] < a + PageSize <=> m[s] \in (m[r] - PageSize) .. (m[r] - 1)
    <3>1. m[s] \in Int /\ neg[s] = -m[s]
      BY <1>3
    <3>2. neg[s] < a + PageSize <=> m[r] - PageSize <= m[s]
      <4>1. neg[s] < a + PageSize <=> -m[s] < (1 - m[r]) + PageSize
        BY <3>1 DEF a
      <4>2. PageSize \in Int /\ m[r] \in Int /\ m[s] \in Int
        BY <1>1, <1>4, <3>1
      <4>3. -m[s] < (1 - m[r]) + PageSize <=> m[r] - PageSize <= m[s]
        BY <4>2
      <4> QED BY <4>1, <4>3
    <3>3. m[s] \in (m[r] - PageSize) .. (m[r] - 1) <=> m[r] - PageSize <= m[s] /\ m[s] < m[r]
      BY <1>1, <1>4, <3>1
    <3>4. s \in U => m[s] < m[r]
      OBVIOUS
    <3> QED BY <3>2, <3>3, <3>4
  <2> QED BY <1>8, <2>1
<1>10. low \in Int /\ low >= 0 /\ m[r] <= low + PageSize /\ m[r] - PageSize <= low /\ (low = 0 \/ low = m[r] - PageSize)
  <2>1. m[r] \in 0 .. (Cardinality(Rows) - 1)
    BY <1>3
  <2> QED BY <1>1, <1>4, <2>1
<1> HIDE DEF low
<1>11. Y \in SUBSET Rows /\ Y \in SUBSET Projection /\ IsFiniteSet(Y)
  <2>1. Y \in SUBSET Rows
    OBVIOUS
  <2> QED BY <1>1, <2>1, FS_Subset
<1>12. Follows(m, Y, sort)
  BY <1>3, <1>11 DEF Follows, Ranks
<1>13. ASSUME NEW y \in Y PROVE low <= m[y] /\ m[y] < low + PageSize
  <2>1. m[y] \in 0 .. (Cardinality(Rows) - 1) /\ m[y] \in (m[r] - PageSize) .. (m[r] - 1)
    BY <1>3
  <2> QED BY <1>1, <1>4, <1>10, <2>1
<1>14. ASSUME NEW x \in Y, NEW v \in low .. m[x], v < low + PageSize
       PROVE  \E y \in Y : m[y] = v
  <2>1. m[x] \in 0 .. (Cardinality(Rows) - 1) /\ m[x] \in (m[r] - PageSize) .. (m[r] - 1)
    BY <1>3
  <2>2. v \in 0 .. (Cardinality(Rows) - 1) /\ v \in (m[r] - PageSize) .. (m[r] - 1)
    <3>1. v \in Int /\ low <= v /\ v <= m[x] /\ m[x] \in Int
      BY <1>3, <1>10
    <3>2. v \in 0 .. (Cardinality(Rows) - 1)
      BY <1>1, <1>10, <2>1, <3>1
    <3>3. v \in (m[r] - PageSize) .. (m[r] - 1)
      BY <1>1, <1>4, <1>10, <2>1, <3>1
    <3> QED BY <3>2, <3>3
  <2>3. PICK y \in Rows : m[y] = v
    BY <2>2 DEF Ranks
  <2> QED BY <2>2, <2>3
<1> HIDE DEF Y
<1>15. /\ Select(Y, sort) \in Seq(Y)
       /\ Ascending(Select(Y, sort), m)
       /\ ToSet(Select(Y, sort)) = {x \in Y : m[x] < low + PageSize}
  BY <1>10, <1>11, <1>12, <1>13, <1>14, SelectInterval
<1>16. Select(Y, sort) \in Seq(Rows) /\ ToSet(Select(Y, sort)) = Y
  BY <1>11, <1>13, <1>15, SeqMonotonic
<1>17. Y = {s \in Rows : m[s] \in (m[r] - PageSize) .. (m[r] - PageSize + PageSize - 1)}
  <2>1. m[r] - PageSize + PageSize - 1 = m[r] - 1
    BY <1>1, <1>4
  <2> QED BY <2>1 DEF Y
<1> QED BY <1>9, <1>15, <1>16, <1>17 DEF SliceOf

-----------------------------------------------------------------------------
(***************************************************************************)
(* The pages of the postgres adapter, statement by statement.              *)
(***************************************************************************)

\* The comparison of rows is the order of a sort whose clauses have one order.
LEMMA RowComparison ==
  ASSUME NEW a \in Projection, NEW b \in Projection, NEW sort \in Seq(SortType),
         NEW order \in {"asc", "desc"}, \A i \in DOMAIN sort : sort[i].order = order
  PROVE  /\ row_comparison_condition(a, sort, Later(order), b) <=> After(a, b, sort)
         /\ row_comparison_condition(a, sort, Later(Opposite(order)), b) <=> After(b, a, sort)
<1>1. row_comparison_condition(a, sort, Later(order), b) <=> After(a, b, sort)
  BY DEF row_comparison_condition, After
<1>2. \A i \in DOMAIN sort : sort[i] \in SortType
  BY LenProperties, ElementOfSeq
<1>3. ASSUME NEW i \in DOMAIN sort
      PROVE  Compare(Value(a, sort[i].field), Later(Opposite(order)), Value(b, sort[i].field)) <=>
             Compare(Value(b, sort[i].field), Later(order), Value(a, sort[i].field))
  <2>1. sort[i].field \in Fields \cup {"id"}
    BY <1>2 DEF SortType
  <2>2. a.id \in Nat /\ b.id \in Nat /\ a.state \in [Fields -> Nat] /\ b.state \in [Fields -> Nat]
    BY IdsAssumption, ValuesAssumption DEF Projection
  <2>3. Value(a, sort[i].field) \in Nat /\ Value(b, sort[i].field) \in Nat
    BY <2>1, <2>2 DEF Value
  <2>4. CASE order = "asc"
    BY <2>3, <2>4 DEF Compare, Later, Opposite
  <2>5. CASE order = "desc"
    BY <2>3, <2>5 DEF Compare, Later, Opposite
  <2> QED BY <2>4, <2>5
<1>4. \A I : SameOn(a, b, sort, I) <=> SameOn(b, a, sort, I)
  BY DEF SameOn
<1>5. \A i \in DOMAIN sort : Later(sort[i].order) = Later(order)
  OBVIOUS
<1>6. row_comparison_condition(a, sort, Later(Opposite(order)), b) <=> After(b, a, sort)
  BY <1>3, <1>4, <1>5 DEF row_comparison_condition, After
<1> QED BY <1>1, <1>6

\* The rows of a condition that says what follows r, or what precedes it.
LEMMA RowsAfter ==
  ASSUME TypeOK, NEW sort, NEW m, Ranks(m, sort), NEW r \in Rows,
         NEW U, U = {x \in Rows : After(x, r, sort)}
  PROVE  /\ U \in SUBSET Rows /\ m[r] + 1 \in Nat /\ \A u \in U : m[r] + 1 <= m[u]
         /\ \A s \in Rows : m[s] \in (m[r] + 1) .. (m[r] + 1 + PageSize - 1) => s \in U
<1>1. Cardinality(Rows) \in Nat /\ PageSize \in Nat \ {0}
  BY RowsFacts, TableFacts
<1>2. \A x \in Rows : m[x] \in Nat
  BY <1>1 DEF Ranks
<1>3. ASSUME NEW u \in U PROVE m[r] + 1 <= m[u]
  <2>1. m[r] < m[u]
    BY DEF Ranks
  <2> QED BY <1>2, <2>1
<1>4. ASSUME NEW s \in Rows, m[s] \in (m[r] + 1) .. (m[r] + 1 + PageSize - 1) PROVE s \in U
  <2>1. m[r] < m[s]
    BY <1>1, <1>2, <1>4
  <2> QED BY <2>1 DEF Ranks
<1> QED BY <1>2, <1>3, <1>4

LEMMA RowsBefore ==
  ASSUME TypeOK, NEW sort, NEW m, Ranks(m, sort), NEW r \in Rows,
         NEW U, U = {x \in Rows : After(r, x, sort)}
  PROVE  /\ U \in SUBSET Rows /\ \A u \in U : m[u] < m[r]
         /\ \A s \in Rows : m[s] \in (m[r] - PageSize) .. (m[r] - 1) => s \in U
<1>1. Cardinality(Rows) \in Nat /\ PageSize \in Nat \ {0}
  BY RowsFacts, TableFacts
<1>2. \A x \in Rows : m[x] \in Nat
  BY <1>1 DEF Ranks
<1>3. \A u \in U : m[u] < m[r]
  BY DEF Ranks
<1>4. ASSUME NEW s \in Rows, m[s] \in (m[r] - PageSize) .. (m[r] - 1) PROVE s \in U
  <2>1. m[s] < m[r]
    BY <1>1, <1>2, <1>4
  <2> QED BY <2>1 DEF Ranks
<1> QED BY <1>3, <1>4

LEMMA SelectForwards ==
  ASSUME TypeOK, NEW sort \in Seq(SortType), NEW m, Ranks(m, sort), NEW r \in Rows,
         NEW U, U = {x \in Rows : After(x, r, sort)}
  PROVE  SliceOf(Select(U, sort), m, m[r] + 1)
<1>1. /\ U \in SUBSET Rows /\ m[r] + 1 \in Nat /\ \A u \in U : m[r] + 1 <= m[u]
      /\ \A s \in Rows : m[s] \in (m[r] + 1) .. (m[r] + 1 + PageSize - 1) => s \in U
  BY RowsAfter
<1> QED BY <1>1, PageForwards

LEMMA SelectBackwards ==
  ASSUME TypeOK, NEW sort \in Seq(SortType), NEW turned \in Seq(SortType),
         \A a, b \in Rows : After(a, b, turned) <=> After(b, a, sort),
         NEW m, Ranks(m, sort), NEW r \in Rows,
         NEW U, U = {x \in Rows : After(r, x, sort)}
  PROVE  SliceOf(Select(ToSet(Select(U, turned)), sort), m, m[r] - PageSize)
<1>1. /\ U \in SUBSET Rows /\ \A u \in U : m[u] < m[r]
      /\ \A s \in Rows : m[s] \in (m[r] - PageSize) .. (m[r] - 1) => s \in U
  BY RowsBefore
<1> QED BY <1>1, PageBackwards

\* Without a sort: by the id.
LEMMA NoSortPages ==
  ASSUME TypeOK, query.sort = <<>>, NEW m, Ranks(m, TotalSort), NEW r \in Rows
  PROVE  /\ SliceOf(PageOfRows(r.id, TRUE), m, m[r] + 1)
         /\ SliceOf(PageOfRows(r.id, FALSE), m, m[r] - PageSize)
<1> DEFINE asc  == SortBy("id", "asc")
           desc == SortBy("id", "desc")
<1>1. TotalSort = <<asc>> /\ asc \in SortType /\ desc \in SortType
  BY TotalSortType DEF TotalSort
<1>2. <<asc>> \in Seq(SortType) /\ <<desc>> \in Seq(SortType)
  BY <1>1
<1>3. \A a, b \in Rows : After(a, b, TotalSort) <=> b.id < a.id
  <2>1. \A a, b \in Rows : ~After(a, b, query.sort)
    BY DEF After
  <2> QED BY <2>1, TotalSortFacts
<1>4. \A a \in Rows : a \in Projection /\ a.id \in Nat
  BY RowsFacts
<1>5. ASSUME NEW a \in Rows, NEW b \in Rows PROVE After(a, b, <<desc>>) <=> After(b, a, <<asc>>)
  <2>1. Len(<<asc>>) = 1 /\ Len(<<desc>>) = 1 /\ <<asc>>[1] = asc /\ <<desc>>[1] = desc
    OBVIOUS
  <2>2. desc.field = asc.field /\ desc.order = Opposite(asc.order)
    BY DEF SortBy, Opposite
  <2>3. \A i \in 1 .. Len(<<asc>>) :
          <<desc>>[i].field = <<asc>>[i].field /\ <<desc>>[i].order = Opposite(<<asc>>[i].order)
    <3> HIDE DEF asc, desc
    <3> QED BY <2>1, <2>2
  <2> HIDE DEF asc, desc
  <2> QED BY <1>2, <1>4, <2>1, <2>3, AfterReversed
<1>6. SliceOf(PageOfRows(r.id, TRUE), m, m[r] + 1)
  <2> DEFINE U == {x \in Rows : x.id > r.id}
  <2>1. U = {x \in Rows : After(x, r, TotalSort)}
    BY <1>3, <1>4
  <2>2. PageOfRows(r.id, TRUE) = Select(U, TotalSort)
    BY <1>1 DEF PageOfRows, subsequent_page_no_sort_paging_forwards_query, subsequent_page_no_sort_row_selection_query
  <2> HIDE DEF U, asc
  <2> QED BY <1>1, <1>2, <2>1, <2>2, SelectForwards
<1>7. SliceOf(PageOfRows(r.id, FALSE), m, m[r] - PageSize)
  <2> DEFINE U == {x \in Rows : x.id < r.id}
  <2>1. U = {x \in Rows : After(r, x, TotalSort)}
    BY <1>3, <1>4
  <2>2. PageOfRows(r.id, FALSE) = Select(ToSet(Select(U, <<desc>>)), TotalSort)
    BY <1>1 DEF PageOfRows, subsequent_page_no_sort_paging_backwards_query, subsequent_page_no_sort_row_selection_query
  <2> HIDE DEF U, asc, desc
  <2> QED BY <1>1, <1>2, <1>5, <2>1, <2>2, SelectBackwards
<1> QED BY <1>6, <1>7

LEMMA AllAsFacts ==
  ASSUME NEW sort \in Seq(SortType), NEW order \in {"asc", "desc"},
         \A i \in DOMAIN sort : sort[i].order = order
  PROVE  /\ all_as(sort, Opposite(order)) \in Seq(SortType)
         /\ \A a, b \in Projection : After(a, b, all_as(sort, Opposite(order))) <=> After(b, a, sort)
<1> DEFINE t == all_as(sort, Opposite(order))
<1>1. Len(sort) \in Nat /\ DOMAIN sort = 1 .. Len(sort) /\ \A i \in 1 .. Len(sort) : sort[i] \in SortType
  BY LenProperties, ElementOfSeq
<1>2. t = [i \in 1 .. Len(sort) |-> SortBy(sort[i].field, Opposite(order))]
  BY <1>1 DEF all_as
<1>3. \A i \in 1 .. Len(sort) : SortBy(sort[i].field, Opposite(order)) \in SortType
  BY <1>1 DEF SortBy, SortType, Opposite
<1> HIDE DEF t
<1>4. t \in [1 .. Len(sort) -> SortType]
  BY <1>2, <1>3
<1>5. t \in Seq(SortType) /\ Len(t) = Len(sort)
  BY <1>1, <1>4, SeqDef
<1>6. \A i \in 1 .. Len(sort) : t[i].field = sort[i].field /\ t[i].order = Opposite(sort[i].order)
  BY <1>1, <1>2 DEF SortBy
<1>7. \A a, b \in Projection : After(a, b, t) <=> After(b, a, sort)
  BY <1>5, <1>6, AfterReversed
<1> QED BY <1>5, <1>7 DEF t

LEMMA ReverseFacts ==
  ASSUME NEW sort \in Seq(SortType)
  PROVE  /\ reverse(sort) \in Seq(SortType)
         /\ \A a, b \in Projection : After(a, b, reverse(sort)) <=> After(b, a, sort)
<1> DEFINE t == reverse(sort)
<1>1. Len(sort) \in Nat /\ DOMAIN sort = 1 .. Len(sort) /\ \A i \in 1 .. Len(sort) : sort[i] \in SortType
  BY LenProperties, ElementOfSeq
<1>2. t = [i \in 1 .. Len(sort) |-> SortBy(sort[i].field, Opposite(sort[i].order))]
  BY <1>1 DEF reverse, Opposite
<1>3. \A i \in 1 .. Len(sort) : SortBy(sort[i].field, Opposite(sort[i].order)) \in SortType
  BY <1>1 DEF SortBy, SortType, Opposite
<1> HIDE DEF t
<1>4. t \in [1 .. Len(sort) -> SortType]
  BY <1>2, <1>3
<1>5. t \in Seq(SortType) /\ Len(t) = Len(sort)
  BY <1>1, <1>4, SeqDef
<1>6. \A i \in 1 .. Len(sort) : t[i].field = sort[i].field /\ t[i].order = Opposite(sort[i].order)
  BY <1>1, <1>2 DEF SortBy
<1>7. \A a, b \in Projection : After(a, b, t) <=> After(b, a, sort)
  BY <1>5, <1>6, AfterReversed
<1> QED BY <1>5, <1>7 DEF t

\* With a sort of one order.
LEMMA OneOrderPages ==
  ASSUME TypeOK, query.sort # <<>>, NEW order \in {"asc", "desc"}, AllOrders(order),
         NEW m, Ranks(m, TotalSort), NEW r \in Rows
  PROVE  /\ SliceOf(PageOfRows(r.id, TRUE), m, m[r] + 1)
         /\ SliceOf(PageOfRows(r.id, FALSE), m, m[r] - PageSize)
<1> DEFINE T      == TotalSort
           turned == all_as(T, Opposite(order))
           U      == {x \in Rows : After(x, r, T)}
           V      == {x \in Rows : After(r, x, T)}
<1>1. query.sort \in Seq(SortType) /\ Len(query.sort) \in Nat /\ DOMAIN query.sort = 1 .. Len(query.sort)
  BY TableFacts, LenProperties
<1>2. 1 \in DOMAIN query.sort
  <2>1. Len(query.sort) # 0
    BY <1>1, EmptySeq
  <2> QED BY <1>1, <2>1
<1>3. (order = "asc" => ~AllOrders("desc")) /\ (order = "desc" => ~AllOrders("asc"))
  BY <1>2 DEF AllOrders
<1>4. T = paged_sort(order)
  BY <1>3 DEF TotalSort
<1>5. T \in Seq(SortType) /\ SortBy("id", order) \in SortType
  BY TotalSortType
<1>6. \A i \in DOMAIN T : T[i].order = order
  <2>1. /\ Len(T) = Len(query.sort) + 1 /\ T[Len(query.sort) + 1] = SortBy("id", order)
        /\ \A i \in 1 .. Len(query.sort) : T[i] = query.sort[i]
    BY <1>1, <1>4, <1>5, AppendProperties DEF paged_sort
  <2>2. DOMAIN T = 1 .. (Len(query.sort) + 1)
    BY <1>5, <2>1, LenProperties
  <2>3. SortBy("id", order).order = order
    BY DEF SortBy
  <2>4. \A i \in 1 .. (Len(query.sort) + 1) : i \in 1 .. Len(query.sort) \/ i = Len(query.sort) + 1
    BY <1>1
  <2> QED BY <1>1, <2>1, <2>2, <2>3, <2>4 DEF AllOrders
<1>7. \A x \in Rows : x \in Projection
  BY RowsFacts
<1>8. record_query(r.id) = r
  BY RowsFacts
<1>9. turned \in Seq(SortType) /\ \A a, b \in Rows : After(a, b, turned) <=> After(b, a, T)
  <2> HIDE DEF T
  <2> QED BY <1>5, <1>6, <1>7, AllAsFacts
<1>10. RowsBeyond(r.id, T, Later(order)) = U
  <2> HIDE DEF T
  <2>1. \A x \in Rows : row_comparison_condition(x, T, Later(order), r) <=> After(x, r, T)
    BY <1>5, <1>6, <1>7, RowComparison
  <2> QED BY <1>8, <2>1 DEF RowsBeyond
<1>11. RowsBeyond(r.id, T, Later(Opposite(order))) = V
  <2> HIDE DEF T
  <2>1. \A x \in Rows : row_comparison_condition(x, T, Later(Opposite(order)), r) <=> After(r, x, T)
    BY <1>5, <1>6, <1>7, RowComparison
  <2> QED BY <1>8, <2>1 DEF RowsBeyond
<1>12. PageOfRows(r.id, TRUE) = Select(U, T)
  <2> HIDE DEF T, U
  <2>1. CASE order = "asc"
    BY <1>4, <1>10, <2>1 DEF PageOfRows, subsequent_page_existing_sort_all_asc_forwards_query, Later
  <2>2. CASE order = "desc"
    BY <1>3, <1>4, <1>10, <2>2 DEF PageOfRows, subsequent_page_existing_sort_all_desc_forwards_query, Later
  <2> QED BY <2>1, <2>2
<1>13. PageOfRows(r.id, FALSE) = Select(ToSet(Select(V, turned)), T)
  <2> HIDE DEF T, V
  <2>1. CASE order = "asc"
    BY <1>4, <1>11, <2>1 DEF PageOfRows, subsequent_page_existing_sort_all_asc_backwards_query, Later, Opposite
  <2>2. CASE order = "desc"
    BY <1>3, <1>4, <1>11, <2>2 DEF PageOfRows, subsequent_page_existing_sort_all_desc_backwards_query, Later, Opposite
  <2> QED BY <2>1, <2>2
<1>14. Ranks(m, T) /\ U = {x \in Rows : After(x, r, T)} /\ V = {x \in Rows : After(r, x, T)}
  OBVIOUS
<1> HIDE DEF T, U, V, turned
<1>15. SliceOf(Select(U, T), m, m[r] + 1)
  BY <1>5, <1>14, SelectForwards
<1>16. SliceOf(Select(ToSet(Select(V, turned)), T), m, m[r] - PageSize)
  BY <1>5, <1>9, <1>14, SelectBackwards
<1> QED BY <1>12, <1>13, <1>15, <1>16

\* The dictionary has each column's own operator when no column is repeated.
LEMMA OwnOperators ==
  ASSUME NEW sort \in Seq(SortType), ~HasAmbiguous(sort), NEW i \in DOMAIN sort
  PROVE  sort_operators(sort)[sort[i].field] = Later(sort[i].order)
<1> DEFINE Latest(c, l) == sort[l].field = c /\ \A j \in DOMAIN sort : sort[j].field = c => j <= l
           last(c)      == CHOOSE l \in DOMAIN sort : Latest(c, l)
           c0           == sort[i].field
<1>1. sort_operators(sort) = [c \in {sort[l].field : l \in DOMAIN sort} |-> Later(sort[last(c)].order)]
  BY DEF sort_operators
<1>2. \A j \in DOMAIN sort : sort[j].field = c0 => j = i
  BY DEF HasAmbiguous
<1>3. \A l \in DOMAIN sort : Latest(c0, l) => l = i
  BY <1>2
<1>4. Latest(c0, i)
  <2>1. i <= i
    BY LenProperties
  <2> QED BY <1>2, <2>1
<1> HIDE DEF Latest
<1>5. last(c0) = i
  BY <1>3, <1>4
<1> HIDE DEF last
<1>6. c0 \in {sort[l].field : l \in DOMAIN sort}
  OBVIOUS
<1>7. sort_operators(sort)[c0] = Later(sort[last(c0)].order)
  BY <1>1, <1>6
<1> QED BY <1>5, <1>7

\* One limited select per clause: each has what it has of the page.
LEMMA UnionFacts ==
  ASSUME TypeOK, NEW sort \in Seq(SortType), ~HasAmbiguous(sort), NEW k, Follows(k, Rows, sort), NEW r \in Rows,
         \A x \in Rows : After(x, r, sort) => k[r] < k[x]
  PROVE  /\ UnionOfSelects(r, sort) \in SUBSET Rows
         /\ \A u \in UnionOfSelects(r, sort) : k[r] < k[u]
         /\ \A s \in Rows : k[s] \in (k[r] + 1) .. (k[r] + PageSize) => s \in UnionOfSelects(r, sort)
<1> DEFINE X(i) == {x \in Rows : ordering_columns(x, r, sort, i)}
           U    == UnionOfSelects(r, sort)
<1>1. Rows \in SUBSET Projection /\ IsFiniteSet(Rows) /\ PageSize \in Nat \ {0}
  BY RowsFacts, TableFacts
<1>2. U = UNION {ToSet(Select(X(i), sort)) : i \in DOMAIN sort}
  BY DEF UnionOfSelects
<1>3. ASSUME NEW x \in Rows
      PROVE  After(x, r, sort) <=> \E i \in DOMAIN sort : x \in X(i)
  <2>1. \A i \in DOMAIN sort : sort_operators(sort)[sort[i].field] = Later(sort[i].order)
    BY OwnOperators
  <2> QED BY <2>1 DEF After, ordering_columns
<1>4. ASSUME NEW i
      PROVE  /\ X(i) \in SUBSET Rows
             /\ ToSet(Select(X(i), sort)) = {x \in X(i) : Cardinality(Below(X(i), k, k[x])) < PageSize}
  <2>1. X(i) \in SUBSET Rows
    OBVIOUS
  <2> HIDE DEF X
  <2>2. X(i) \in SUBSET Projection /\ IsFiniteSet(X(i))
    BY <1>1, <2>1, FS_Subset
  <2>3. Follows(k, X(i), sort)
    BY <2>1 DEF Follows
  <2> QED BY <2>1, <2>2, <2>3, SelectFacts
<1> HIDE DEF X, U
<1>5. U \in SUBSET Rows
  BY <1>2, <1>4
<1>6. ASSUME NEW u \in U PROVE k[r] < k[u]
  <2>1. \E i \in DOMAIN sort : u \in X(i)
    BY <1>2, <1>4
  <2> QED BY <1>3, <1>5, <2>1
<1>7. ASSUME NEW s \in Rows, k[s] \in (k[r] + 1) .. (k[r] + PageSize) PROVE s \in U
  <2>1. k[r] \in Int /\ k[s] \in Int
    BY DEF Follows
  <2>2. k[r] < k[s] /\ k[r] + 1 <= k[s] /\ k[s] - (k[r] + 1) < PageSize
    BY <1>1, <1>7, <2>1
  <2>3. PICK i \in DOMAIN sort : s \in X(i)
    BY <1>3, <2>2 DEF Follows
  <2>4. Cardinality(Below(X(i), k, k[s])) < PageSize
    <3> DEFINE Y == Below(X(i), k, k[s])
    <3>1. Y \in SUBSET X(i) /\ \A y \in Y : k[y] < k[s]
      BY DEF Below
    <3> HIDE DEF Y
    <3>2. Y \in SUBSET Rows
      BY <1>4, <3>1
    <3>3. \A y, z \in Y : k[y] = k[z] => y = z
      BY <3>2 DEF Follows
    <3>4. ASSUME NEW y \in Y PROVE k[y] \in (k[r] + 1) .. (k[s] - 1)
      <4>1. k[y] \in Int /\ k[y] < k[s]
        BY <3>1, <3>2 DEF Follows
      <4>2. k[r] < k[y]
        BY <1>3, <3>1, <3>2
      <4> QED BY <2>1, <4>1, <4>2
    <3>5. k[r] + 1 \in Int
      BY <2>1
    <3>6. Cardinality(Y) <= k[s] - (k[r] + 1)
      BY <2>1, <2>2, <3>3, <3>4, <3>5, WithinInterval
    <3>7. IsFiniteSet(Y) /\ Cardinality(Y) \in Nat
      BY <1>1, <3>2, FS_Subset, FS_CardinalityType
    <3>8. Cardinality(Y) < PageSize
      BY <1>1, <2>1, <2>2, <3>6, <3>7
    <3> QED BY <3>8 DEF Y
  <2>5. s \in ToSet(Select(X(i), sort))
    BY <1>4, <2>3, <2>4
  <2> QED BY <1>2, <2>5
<1> QED BY <1>5, <1>6, <1>7 DEF U

\* With a sort of mixed orders.
LEMMA MixedPages ==
  ASSUME TypeOK, query.sort # <<>>, ~AllOrders("asc"), ~AllOrders("desc"), ~PageRaises,
         NEW m, Ranks(m, TotalSort), NEW r \in Rows
  PROVE  /\ SliceOf(PageOfRows(r.id, TRUE), m, m[r] + 1)
         /\ SliceOf(PageOfRows(r.id, FALSE), m, m[r] - PageSize)
<1> DEFINE T      == TotalSort
           turned == reverse(T)
           neg    == [x \in Rows |-> -m[x]]
           U      == UnionOfSelects(r, T)
           V      == UnionOfSelects(r, turned)
<1>1. T \in Seq(SortType) /\ T = paged_sort("asc")
  BY TotalSortType DEF TotalSort
<1>2. /\ PageOfRows(r.id, TRUE) = Select(U, T)
      /\ PageOfRows(r.id, FALSE) = Select(ToSet(Select(V, turned)), T)
  <2>1. record_query(r.id) = r
    BY RowsFacts
  <2> HIDE DEF T
  <2> QED BY <1>1, <2>1 DEF PageOfRows, subsequent_page_existing_sort_mixed_forwards_query,
                              subsequent_page_existing_sort_mixed_backwards_query
<1>3. Ranks(m, T)
  OBVIOUS
<1> HIDE DEF T
<1>4. turned \in Seq(SortType) /\ \A a, b \in Rows : After(a, b, turned) <=> After(b, a, T)
  <2>1. \A x \in Rows : x \in Projection
    BY RowsFacts
  <2> QED BY <1>1, <2>1, ReverseFacts
<1>11. ~HasAmbiguous(T) /\ ~HasAmbiguous(turned)
  <2>1. ~HasAmbiguous(T)
    BY <1>1 DEF PageRaises
  <2>2. DOMAIN turned = DOMAIN T /\ \A i \in DOMAIN T : turned[i].field = T[i].field
    BY DEF reverse, SortBy
  <2> HIDE DEF turned
  <2> QED BY <2>1, <2>2 DEF HasAmbiguous
<1> HIDE DEF turned
<1>5. Cardinality(Rows) \in Nat /\ PageSize \in Nat \ {0}
  BY RowsFacts, TableFacts
<1>6. \A x \in Rows : m[x] \in Nat /\ neg[x] = -m[x] /\ neg[x] \in Int
  BY <1>3, <1>5 DEF Ranks
<1> HIDE DEF neg
<1>7. Follows(m, Rows, T) /\ \A x \in Rows : After(x, r, T) => m[r] < m[x]
  BY <1>3, <1>6 DEF Follows, Ranks
<1>8. Follows(neg, Rows, turned) /\ \A x \in Rows : After(x, r, turned) => neg[r] < neg[x]
  <2>1. ASSUME NEW x \in Rows, NEW y \in Rows
        PROVE  (neg[x] = neg[y] <=> m[x] = m[y]) /\ (neg[x] < neg[y] <=> m[y] < m[x])
    BY <1>6
  <2>2. ASSUME NEW x \in Rows, NEW y \in Rows
        PROVE  neg[x] < neg[y] <=> After(y, x, turned)
    BY <1>3, <1>4, <2>1 DEF Ranks
  <2> QED BY <1>3, <1>6, <2>1, <2>2 DEF Follows, Ranks
<1>9. SliceOf(Select(U, T), m, m[r] + 1)
  <2>1. /\ U \in SUBSET Rows /\ \A u \in U : m[r] < m[u]
        /\ \A s \in Rows : m[s] \in (m[r] + 1) .. (m[r] + PageSize) => s \in U
    BY <1>1, <1>7, <1>11, UnionFacts
  <2> HIDE DEF U
  <2>2. m[r] + 1 \in Nat /\ m[r] + 1 + PageSize - 1 = m[r] + PageSize
    BY <1>5, <1>6
  <2>3. \A u \in U : m[r] + 1 <= m[u]
    BY <1>6, <2>1
  <2> QED BY <1>1, <1>3, <2>1, <2>2, <2>3, PageForwards
<1>10. SliceOf(Select(ToSet(Select(V, turned)), T), m, m[r] - PageSize)
  <2>1. /\ V \in SUBSET Rows /\ \A u \in V : neg[r] < neg[u]
        /\ \A s \in Rows : neg[s] \in (neg[r] + 1) .. (neg[r] + PageSize) => s \in V
    BY <1>4, <1>8, <1>11, UnionFacts
  <2> HIDE DEF V
  <2>2. \A u \in V : m[u] < m[r]
    BY <1>6, <2>1
  <2>3. ASSUME NEW s \in Rows, m[s] \in (m[r] - PageSize) .. (m[r] - 1) PROVE s \in V
    <3>1. m[s] \in Nat /\ neg[s] = -m[s] /\ m[r] \in Nat /\ neg[r] = -m[r]
      BY <1>6
    <3>2. neg[s] \in (neg[r] + 1) .. (neg[r] + PageSize)
      BY <1>5, <2>3, <3>1
    <3> QED BY <2>1, <3>2
  <2> QED BY <1>1, <1>3, <1>4, <2>1, <2>2, <2>3, PageBackwards
<1> QED BY <1>2, <1>9, <1>10

\* Each page of rows is a slice of the order of the total sort, but where the
\* statement for it fails.
LEMMA PagesOfRowsAreSlices ==
  ASSUME TypeOK, NEW m, Ranks(m, TotalSort)
  PROVE  /\ SliceOf(FirstPageOfRows, m, 0)
         /\ ~PageRaises =>
              \A r \in Rows : /\ SliceOf(PageOfRows(r.id, TRUE), m, m[r] + 1)
                              /\ SliceOf(PageOfRows(r.id, FALSE), m, m[r] - PageSize)
<1>1. FirstPageOfRows = Select(Rows, TotalSort)
  BY DEF FirstPageOfRows, TotalSort, first_page_no_sort_query, first_page_existing_sort_query
<1>2. Cardinality(Rows) \in Nat
  BY RowsFacts
<1>3. \A u \in Rows : 0 <= m[u]
  BY <1>2 DEF Ranks
<1>4. TotalSort \in Seq(SortType)
  BY TotalSortType
<1>5. SliceOf(FirstPageOfRows, m, 0)
  BY <1>1, <1>3, <1>4, PageForwards
<1>6. "asc" \in {"asc", "desc"} /\ "desc" \in {"asc", "desc"}
  OBVIOUS
<1> QED BY <1>5, <1>6, NoSortPages, OneOrderPages, MixedPages

-----------------------------------------------------------------------------
(***************************************************************************)
(* The lists of the in-memory converters.                                  *)
(***************************************************************************)

\* The states of a loop that starts with x, over k of the steps F.
IsRun(g, k, X, x, F) ==
  g \in [0 .. k -> X] /\ g[0] = x /\ \A n \in 1 .. k : g[n] = F[n][g[n - 1]]

\* There is a run of a loop with given steps.
LEMMA LoopExists ==
  ASSUME NEW X, NEW x \in X, NEW N \in Nat, NEW F \in [1 .. N -> [X -> X]]
  PROVE  \E g : IsRun(g, N, X, x, F)
<1> DEFINE P == {k \in Nat : k <= N => \E g : IsRun(g, k, X, x, F)}
<1>1. 0 \in P
  <2> DEFINE g == [n \in 0 .. 0 |-> x]
  <2>1. IsRun(g, 0, X, x, F)
    BY DEF IsRun
  <2> QED BY <2>1
<1>2. ASSUME NEW k \in P, k < N PROVE k + 1 \in P
  <2>1. k \in Nat /\ k + 1 \in 1 .. N /\ k <= N
    BY <1>2
  <2>2. PICK g : IsRun(g, k, X, x, F)
    BY <2>1
  <2> DEFINE h == [n \in 0 .. (k + 1) |-> IF n <= k THEN g[n] ELSE F[k + 1][g[k]]]
  <2>3. g[k] \in X /\ \A n \in 0 .. k : g[n] \in X
    BY <2>1, <2>2 DEF IsRun
  <2>4. F[k + 1][g[k]] \in X
    BY <2>1, <2>3
  <2>5. h \in [0 .. (k + 1) -> X] /\ h[0] = x
    BY <2>1, <2>2, <2>3, <2>4 DEF IsRun
  <2>6. ASSUME NEW n \in 1 .. (k + 1) PROVE h[n] = F[n][h[n - 1]]
    <3>1. n - 1 \in 0 .. k /\ n \in 0 .. (k + 1) /\ n - 1 \in 0 .. (k + 1)
      BY <2>1
    <3>2. h[n - 1] = g[n - 1]
      BY <3>1
    <3>3. CASE n <= k
      <4>1. h[n] = g[n] /\ n \in 1 .. k
        BY <2>1, <3>1, <3>3
      <4> QED BY <2>2, <3>2, <4>1 DEF IsRun
    <3>4. CASE ~(n <= k)
      <4>1. n = k + 1 /\ n - 1 = k
        BY <2>1, <3>4
      <4> QED BY <3>1, <3>2, <3>4, <4>1
    <3> QED BY <3>3, <3>4
  <2>7. IsRun(h, k + 1, X, x, F)
    <3> HIDE DEF h
    <3> QED BY <2>5, <2>6 DEF IsRun
  <2> QED BY <2>1, <2>7
<1> HIDE DEF P
<1>3. P \in SUBSET Nat
  BY DEF P
<1>4. 0 .. N \subseteq P
  BY <1>1, <1>2, <1>3, BoundedInduction
<1>5. N \in P
  BY <1>4
<1> QED BY <1>5 DEF P

\* Where a record stands in the list of projections.
LEMMA IndexFacts ==
  ASSUME TypeOK
  PROVE  /\ \A i \in DOMAIN projections : Index(projections[i]) = i
         /\ \A r \in ToSet(projections) : Index(r) \in DOMAIN projections /\ projections[Index(r)] = r
<1>1. ASSUME NEW i \in DOMAIN projections PROVE Index(projections[i]) = i
  <2>1. Index(projections[i]) \in DOMAIN projections /\ projections[Index(projections[i])].id = projections[i].id
    BY DEF Index
  <2> QED BY <2>1 DEF TypeOK
<1>2. ASSUME NEW r \in ToSet(projections) PROVE Index(r) \in DOMAIN projections /\ projections[Index(r)] = r
  <2>1. PICK i \in DOMAIN projections : r = projections[i]
    BY DEF ToSet
  <2> QED BY <1>1, <2>1
<1> QED BY <1>1, <1>2

\* The filters keep the rows, in the order of the projections.
LEMMA FilteredFacts ==
  ASSUME TypeOK
  PROVE  /\ FilteredResults \in Seq(Rows)
         /\ ToSet(FilteredResults) = Rows
         /\ \A i, j \in DOMAIN FilteredResults :
              i < j => Index(FilteredResults[i]) < Index(FilteredResults[j])
<1> DEFINE N       == Len(projections)
           M(i)    == Matches(query.filters, projections[i])
           Step(f) == [i \in 0 .. N |-> IF i = 0 THEN <<>>
                                        ELSE IF M(i) THEN Append(f[i - 1], projections[i])
                                        ELSE f[i - 1]]
           kept    == CHOOSE f : f = Step(f)
           F       == [i \in 1 .. N |-> [x \in Seq(Rows) |-> IF M(i) THEN Append(x, projections[i]) ELSE x]]
<1>1. N \in Nat /\ DOMAIN projections = 1 .. N
  BY TableFacts
<1>2. FilteredResults = kept[N]
  BY DEF FilteredResults
<1>3. ASSUME NEW i \in 1 .. N, M(i) PROVE projections[i] \in Rows
  BY <1>1, <1>3 DEF Rows, ToSet
<1>4. Rows \in SUBSET ToSet(projections)
  BY RowsFacts
<1>5. ASSUME NEW r \in Rows PROVE \E i \in 1 .. N : r = projections[i] /\ M(i)
  BY <1>1 DEF Rows, ToSet
<1> HIDE DEF N, M
<1>6. F \in [1 .. N -> [Seq(Rows) -> Seq(Rows)]]
  <2>1. ASSUME NEW i \in 1 .. N, NEW x \in Seq(Rows)
        PROVE  (IF M(i) THEN Append(x, projections[i]) ELSE x) \in Seq(Rows)
    BY <1>3, AppendProperties
  <2> QED BY <2>1
<1>7. <<>> \in Seq(Rows)
  OBVIOUS
<1>8. PICK g : g \in [0 .. N -> Seq(Rows)] /\ g[0] = <<>> /\ \A n \in 1 .. N : g[n] = F[n][g[n - 1]]
  <2> HIDE DEF F
  <2>1. \E g : IsRun(g, N, Seq(Rows), <<>>, F)
    BY <1>1, <1>6, <1>7, LoopExists
  <2> QED BY <2>1 DEF IsRun
<1>9. g = Step(g)
  <2>1. ASSUME NEW i \in 0 .. N
        PROVE  g[i] = IF i = 0 THEN <<>> ELSE IF M(i) THEN Append(g[i - 1], projections[i]) ELSE g[i - 1]
    <3>1. CASE i = 0
      BY <1>8, <3>1
    <3>2. CASE i # 0
      <4>1. i \in 1 .. N /\ i - 1 \in 0 .. N
        BY <1>1, <3>2
      <4>2. g[i - 1] \in Seq(Rows) /\ g[i] = F[i][g[i - 1]]
        BY <1>8, <4>1
      <4> QED BY <3>2, <4>1, <4>2
    <3> QED BY <3>1, <3>2
  <2>2. g = [i \in 0 .. N |-> g[i]]
    BY <1>8
  <2> QED BY <2>1, <2>2
<1>10. kept = Step(kept)
  <2> HIDE DEF Step
  <2> QED BY <1>9
<1> HIDE DEF kept, F
<1>11. /\ kept[0] = <<>>
       /\ \A i \in 1 .. N : kept[i] = IF M(i) THEN Append(kept[i - 1], projections[i]) ELSE kept[i - 1]
  <2>1. 0 \in 0 .. N /\ \A i \in 1 .. N : i \in 0 .. N /\ i # 0
    BY <1>1
  <2> QED BY <1>10, <2>1
<1> HIDE DEF Step
<1> DEFINE Good(n, x) ==
             /\ x \in Seq(Rows)
             /\ \A k \in DOMAIN x : Index(x[k]) <= n
             /\ \A k, l \in DOMAIN x : k < l => Index(x[k]) < Index(x[l])
             /\ \A i \in 1 .. n : M(i) => \E k \in DOMAIN x : x[k] = projections[i]
           P == {n \in 0 .. N : Good(n, kept[n])}
<1>12. 0 \in P
  <2>1. Good(0, <<>>)
    BY <1>7
  <2> HIDE DEF Good
  <2> QED BY <1>1, <1>11, <2>1
<1>13. ASSUME NEW n \in P, n < N PROVE n + 1 \in P
  <2>1. n \in Nat /\ n + 1 \in 1 .. N /\ n + 1 \in 0 .. N /\ (n + 1) - 1 = n
    BY <1>1, <1>13
  <2> DEFINE x == kept[n]
             p == projections[n + 1]
  <2>2. Good(n, x)
    OBVIOUS
  <2>3. kept[n + 1] = IF M(n + 1) THEN Append(x, p) ELSE x
    BY <1>11, <2>1
  <2> HIDE DEF x
  <2>4. Len(x) \in Nat /\ DOMAIN x = 1 .. Len(x) /\ \A k \in 1 .. Len(x) : x[k] \in Rows
    BY <2>2, LenProperties, ElementOfSeq
  <2>5. \A k \in DOMAIN x : Index(x[k]) \in Nat
    BY <1>1, <1>4, <2>4, IndexFacts
  <2>6. CASE ~M(n + 1)
    <3>1. \A k \in DOMAIN x : Index(x[k]) <= n + 1
      BY <2>1, <2>2, <2>5
    <3>2. \A i \in 1 .. (n + 1) : i \in 1 .. n \/ i = n + 1
      BY <2>1
    <3>3. Good(n + 1, x)
      BY <2>2, <2>6, <3>1, <3>2
    <3> QED BY <2>1, <2>3, <2>6, <3>3
  <2>7. CASE M(n + 1)
    <3> DEFINE y == Append(x, p)
    <3>1. p \in Rows /\ Index(p) = n + 1
      BY <1>1, <1>3, <2>1, <2>7, IndexFacts
    <3>2. /\ y \in Seq(Rows) /\ Len(y) = Len(x) + 1 /\ y[Len(x) + 1] = p
          /\ \A k \in 1 .. Len(x) : y[k] = x[k]
      BY <2>2, <3>1, AppendProperties
    <3> HIDE DEF y
    <3>3. DOMAIN y = 1 .. (Len(x) + 1)
      BY <3>2, LenProperties
    <3>4. \A k \in 1 .. (Len(x) + 1) : k \in 1 .. Len(x) \/ k = Len(x) + 1
      BY <2>4
    <3>5. ASSUME NEW k \in DOMAIN y PROVE Index(y[k]) <= n + 1 /\ (k \in 1 .. Len(x) => Index(y[k]) <= n)
      <4>1. CASE k \in 1 .. Len(x)
        <5>1. y[k] = x[k] /\ Index(x[k]) \in Nat /\ Index(x[k]) <= n
          BY <2>2, <2>4, <2>5, <3>2, <4>1
        <5> QED BY <2>1, <5>1
      <4>2. CASE k = Len(x) + 1
        <5>1. y[k] = p /\ k \notin 1 .. Len(x)
          BY <2>4, <3>2, <4>2
        <5> QED BY <2>1, <3>1, <5>1
      <4> QED BY <3>3, <3>4, <4>1, <4>2
    <3>6. ASSUME NEW k \in DOMAIN y, NEW l \in DOMAIN y, k < l PROVE Index(y[k]) < Index(y[l])
      <4>1. k \in 1 .. Len(x)
        BY <2>4, <3>3, <3>6
      <4>2. CASE l \in 1 .. Len(x)
        BY <2>2, <2>4, <3>2, <3>6, <4>1, <4>2
      <4>3. CASE l = Len(x) + 1
        <5>1. y[l] = p /\ Index(y[k]) <= n /\ y[k] = x[k] /\ Index(x[k]) \in Nat
          BY <2>4, <2>5, <3>2, <3>5, <4>1, <4>3
        <5> QED BY <2>1, <3>1, <5>1
      <4> QED BY <3>3, <3>4, <4>2, <4>3
    <3>7. ASSUME NEW i \in 1 .. (n + 1), M(i) PROVE \E k \in DOMAIN y : y[k] = projections[i]
      <4>1. CASE i \in 1 .. n
        <5>1. PICK k \in DOMAIN x : x[k] = projections[i]
          BY <2>2, <3>7, <4>1
        <5>2. k \in DOMAIN y /\ y[k] = x[k]
          BY <2>4, <3>2, <3>3
        <5> QED BY <5>1, <5>2
      <4>2. CASE i = n + 1
        <5>1. Len(x) + 1 \in DOMAIN y
          BY <2>4, <3>3
        <5> QED BY <3>2, <4>2, <5>1
      <4> QED BY <2>1, <4>1, <4>2
    <3>8. Good(n + 1, y)
      BY <3>2, <3>5, <3>6, <3>7
    <3> QED BY <2>1, <2>3, <2>7, <3>8 DEF y
  <2> QED BY <2>6, <2>7
<1> HIDE DEF P
<1>14. P \in SUBSET Nat
  BY DEF P
<1>15. N \in P
  <2>1. 0 .. N \subseteq P
    BY <1>1, <1>12, <1>13, <1>14, BoundedInduction
  <2> QED BY <1>1, <2>1
<1>16. Good(N, kept[N])
  BY <1>15 DEF P
<1>17. ToSet(kept[N]) = Rows
  <2>1. \A k \in DOMAIN kept[N] : kept[N][k] \in Rows
    BY <1>16, LenProperties, ElementOfSeq
  <2>2. ASSUME NEW r \in Rows PROVE \E k \in DOMAIN kept[N] : kept[N][k] = r
    <3>1. PICK i \in 1 .. N : r = projections[i] /\ M(i)
      BY <1>5
    <3> QED BY <1>16, <3>1
  <2> QED BY <2>1, <2>2 DEF ToSet
<1> QED BY <1>2, <1>16, <1>17

\* The order that the sorts of the clauses from the m-th on leave behind: the
\* list stood in the order of the projections before.
BeforeFrom(a, b, m) ==
  \/ AfterFrom(b, a, query.sort, m)
  \/ ~AfterFrom(a, b, query.sort, m) /\ Index(a) < Index(b)

ListedFrom(t, m) ==
  /\ t \in Seq(Projection) /\ ToSet(t) = Rows
  /\ \A i, j \in DOMAIN t : i < j => BeforeFrom(t[i], t[j], m)

\* A stable sort by one more clause, in front of those before.
LEMMA SortByOneMore ==
  ASSUME TypeOK, NEW m \in 1 .. Len(query.sort), NEW t, ListedFrom(t, m + 1)
  PROVE  ListedFrom(StableSort(t, <<query.sort[m]>>), m)
<1> DEFINE c == query.sort[m]
           u == StableSort(t, <<c>>)
           n == Len(t)
<1>1. query.sort \in Seq(SortType) /\ c \in SortType
  BY TableFacts, LenProperties, ElementOfSeq
<1>2. <<c>> \in Seq(SortType)
  BY <1>1
<1>3. t \in Seq(Projection) /\ n \in Nat /\ DOMAIN t = 1 .. n /\ \A i \in 1 .. n : t[i] \in Projection
  BY LenProperties, ElementOfSeq DEF ListedFrom
<1> HIDE DEF c
<1>4. u \in Seq(Projection) /\ Len(u) = n
  BY <1>2, <1>3, StableSortFacts
<1>5. PICK o \in [1 .. n -> 1 .. n] :
        /\ \A k \in 1 .. n : u[k] = t[o[k]]
        /\ \A k, l \in 1 .. n : k < l => o[k] # o[l] /\ Earlier(t, <<c>>, o[k], o[l])
        /\ \A i \in 1 .. n : \E k \in 1 .. n : o[k] = i
  BY <1>2, <1>3, StableSortFacts
<1> HIDE DEF u, n
<1>6. DOMAIN u = 1 .. n
  BY <1>4, LenProperties
<1>7. ToSet(u) = Rows
  <2>1. ASSUME NEW k \in 1 .. n PROVE u[k] \in Rows
    <3>1. u[k] = t[o[k]] /\ o[k] \in DOMAIN t
      BY <1>3, <1>5
    <3>2. t[o[k]] \in ToSet(t)
      BY <3>1 DEF ToSet
    <3> QED BY <3>1, <3>2 DEF ListedFrom
  <2>2. ASSUME NEW r \in Rows PROVE \E k \in 1 .. n : u[k] = r
    <3>1. PICK i \in 1 .. n : t[i] = r
      BY <1>3 DEF ListedFrom, ToSet
    <3> QED BY <1>5, <3>1
  <2> QED BY <1>6, <2>1, <2>2 DEF ToSet
<1>8. ASSUME NEW k \in 1 .. n, NEW l \in 1 .. n, k < l
      PROVE  BeforeFrom(u[k], u[l], m)
  <2> DEFINE a == u[k]
             b == u[l]
  <2>1. /\ o[k] \in 1 .. n /\ o[l] \in 1 .. n /\ o[k] # o[l] /\ Earlier(t, <<c>>, o[k], o[l])
        /\ a = t[o[k]] /\ b = t[o[l]]
    BY <1>5, <1>8
  <2>2. a \in Projection /\ b \in Projection
    BY <1>3, <2>1
  <2>3. o[k] < o[l] => BeforeFrom(a, b, m + 1)
    BY <1>3, <2>1 DEF ListedFrom
  <2>4. After(b, a, <<c>>) \/ (~After(a, b, <<c>>) /\ o[k] < o[l])
    BY <2>1 DEF Earlier
  <2> HIDE DEF a, b
  <2>5. /\ After(b, a, <<c>>) <=> Key(b, c) > Key(a, c)
        /\ After(a, b, <<c>>) <=> Key(a, c) > Key(b, c)
    BY <1>1, <2>2, AfterOne
  <2>6. Key(a, c) \in Int /\ Key(b, c) \in Int
    BY <1>1, <2>2, KeyFacts
  <2>7. /\ AfterFrom(a, b, query.sort, m) <=>
             Key(a, c) > Key(b, c) \/ (Key(a, c) = Key(b, c) /\ AfterFrom(a, b, query.sort, m + 1))
        /\ AfterFrom(b, a, query.sort, m) <=>
             Key(b, c) > Key(a, c) \/ (Key(b, c) = Key(a, c) /\ AfterFrom(b, a, query.sort, m + 1))
    BY <1>1, <2>2, FromFirst DEF c
  <2>8. CASE Key(b, c) > Key(a, c)
    <3>1. BeforeFrom(a, b, m)
      BY <2>7, <2>8 DEF BeforeFrom
    <3> QED BY <3>1 DEF a, b
  <2>9. CASE ~(Key(b, c) > Key(a, c))
    <3>1. Key(a, c) = Key(b, c) /\ BeforeFrom(a, b, m + 1)
      BY <2>3, <2>4, <2>5, <2>6, <2>9
    <3>2. BeforeFrom(a, b, m)
      BY <2>6, <2>7, <3>1 DEF BeforeFrom
    <3> QED BY <3>2 DEF a, b
  <2> QED BY <2>8, <2>9
<1>9. ListedFrom(u, m)
  BY <1>4, <1>6, <1>7, <1>8 DEF ListedFrom
<1> QED BY <1>9 DEF u, c

\* How the memory adapter orders two records.
MemoryBefore(a, b) ==
  After(b, a, query.sort) \/ (~After(a, b, query.sort) /\ Index(a) < Index(b))

\* One stable sort per field, the last field first, sorts by the first field
\* and on by the others.
LEMMA SortedFacts ==
  ASSUME TypeOK
  PROVE  /\ SortedResults \in Seq(Rows)
         /\ ToSet(SortedResults) = Rows
         /\ \A i, j \in DOMAIN SortedResults :
              i < j => MemoryBefore(SortedResults[i], SortedResults[j])
<1> DEFINE n       == Len(query.sort)
           At(k)   == query.sort[n - k + 1]
           Step(f) == [k \in 0 .. n |-> IF k = 0 THEN FilteredResults ELSE StableSort(f[k - 1], <<At(k)>>)]
           sorted  == CHOOSE f : f = Step(f)
           F       == [k \in 1 .. n |-> [x \in Seq(Projection) |-> StableSort(x, <<At(k)>>)]]
<1>1. query.sort \in Seq(SortType) /\ n \in Nat /\ \A i \in 1 .. n : query.sort[i] \in SortType
  BY TableFacts, LenProperties, ElementOfSeq
<1>2. SortedResults = sorted[n]
  BY DEF SortedResults
<1>3. FilteredResults \in Seq(Projection) /\ FilteredResults \in Seq(Rows) /\ ToSet(FilteredResults) = Rows
  BY FilteredFacts, RowsFacts, SeqMonotonic
<1>4. ASSUME NEW k \in 1 .. n PROVE n - k + 1 \in 1 .. n /\ At(k) \in SortType
  BY <1>1
<1> HIDE DEF n
<1>5. F \in [1 .. n -> [Seq(Projection) -> Seq(Projection)]]
  <2>1. ASSUME NEW k \in 1 .. n, NEW x \in Seq(Projection)
        PROVE  StableSort(x, <<At(k)>>) \in Seq(Projection)
    <3>1. <<At(k)>> \in Seq(SortType)
      <4> HIDE DEF At
      <4> QED BY <1>4
    <3> QED BY <3>1, StableSortFacts
  <2> HIDE DEF At
  <2> QED BY <2>1
<1> HIDE DEF At
<1>6. PICK g : g \in [0 .. n -> Seq(Projection)] /\ g[0] = FilteredResults /\ \A k \in 1 .. n : g[k] = F[k][g[k - 1]]
  <2> HIDE DEF F
  <2>1. \E g : IsRun(g, n, Seq(Projection), FilteredResults, F)
    BY <1>1, <1>3, <1>5, LoopExists
  <2> QED BY <2>1 DEF IsRun
<1>7. g = Step(g)
  <2>1. ASSUME NEW k \in 0 .. n
        PROVE  g[k] = IF k = 0 THEN FilteredResults ELSE StableSort(g[k - 1], <<At(k)>>)
    <3>1. CASE k = 0
      BY <1>6, <3>1
    <3>2. CASE k # 0
      <4>1. k \in 1 .. n /\ k - 1 \in 0 .. n
        BY <1>1, <3>2
      <4>2. g[k - 1] \in Seq(Projection) /\ g[k] = F[k][g[k - 1]]
        BY <1>6, <4>1
      <4> QED BY <3>2, <4>1, <4>2
    <3> QED BY <3>1, <3>2
  <2>2. g = [k \in 0 .. n |-> g[k]]
    BY <1>6
  <2> QED BY <2>1, <2>2
<1>8. sorted = Step(sorted)
  <2> HIDE DEF Step
  <2> QED BY <1>7
<1> HIDE DEF sorted, F
<1>9. sorted[0] = FilteredResults /\ \A k \in 1 .. n : sorted[k] = StableSort(sorted[k - 1], <<At(k)>>)
  <2>1. 0 \in 0 .. n /\ \A k \in 1 .. n : k \in 0 .. n /\ k # 0
    BY <1>1
  <2> QED BY <1>8, <2>1
<1> HIDE DEF Step
<1> DEFINE P == {k \in 0 .. n : ListedFrom(sorted[k], n - k + 1)}
<1>10. 0 \in P
  <2>1. \A a, b : ~AfterFrom(a, b, query.sort, n - 0 + 1)
    <3>1. (n - 0 + 1) .. Len(query.sort) = {}
      BY <1>1 DEF n
    <3> QED BY <3>1 DEF AfterFrom
  <2>2. ListedFrom(FilteredResults, n - 0 + 1)
    BY <1>3, <2>1, FilteredFacts DEF ListedFrom, BeforeFrom
  <2> QED BY <1>1, <1>9, <2>2
<1>11. ASSUME NEW k \in P, k < n PROVE k + 1 \in P
  <2>1. k \in Nat /\ k + 1 \in 1 .. n /\ k + 1 \in 0 .. n /\ (k + 1) - 1 = k /\ n - (k + 1) + 1 = n - k
    BY <1>1, <1>11
  <2>2. ListedFrom(sorted[k], (n - k) + 1)
    OBVIOUS
  <2>3. n - k \in 1 .. Len(query.sort)
    BY <1>1, <2>1 DEF n
  <2>4. sorted[k + 1] = StableSort(sorted[k], <<query.sort[n - k]>>)
    BY <1>9, <2>1 DEF At
  <2>5. ListedFrom(sorted[k + 1], n - k)
    BY <2>2, <2>3, <2>4, SortByOneMore
  <2> QED BY <2>1, <2>5
<1> HIDE DEF P
<1>12. P \in SUBSET Nat
  BY DEF P
<1>13. n \in P
  <2>1. 0 .. n \subseteq P
    BY <1>1, <1>10, <1>11, <1>12, BoundedInduction
  <2> QED BY <1>1, <2>1
<1>14. ListedFrom(sorted[n], 1)
  <2>1. n - n + 1 = 1
    BY <1>1
  <2> QED BY <1>13, <2>1 DEF P
<1> DEFINE t == sorted[n]
<1>15. t \in Seq(Projection) /\ ToSet(t) = Rows
  BY <1>14 DEF ListedFrom
<1>16. t \in Seq(Rows) /\ \A i \in DOMAIN t : t[i] \in Rows /\ t[i] \in Projection
  <2> HIDE DEF t
  <2>1. Len(t) \in Nat /\ DOMAIN t = 1 .. Len(t) /\ t \in [1 .. Len(t) -> Projection]
    BY <1>15, LenProperties
  <2>2. \A i \in DOMAIN t : t[i] \in Rows /\ t[i] \in Projection
    BY <1>15, <2>1 DEF ToSet
  <2>3. t \in [1 .. Len(t) -> Rows]
    BY <2>1, <2>2
  <2> QED BY <2>1, <2>2, <2>3, SeqDef
<1>17. ASSUME NEW i \in DOMAIN t, NEW j \in DOMAIN t, i < j PROVE MemoryBefore(t[i], t[j])
  <2>1. BeforeFrom(t[i], t[j], 1)
    BY <1>14, <1>17 DEF ListedFrom
  <2>2. t[i] \in Projection /\ t[j] \in Projection
    BY <1>16
  <2> HIDE DEF t
  <2>3. /\ After(t[j], t[i], query.sort) <=> AfterFrom(t[j], t[i], query.sort, 1)
        /\ After(t[i], t[j], query.sort) <=> AfterFrom(t[i], t[j], query.sort, 1)
    BY <1>1, <2>2, AfterByKeys
  <2> QED BY <2>1, <2>3 DEF BeforeFrom, MemoryBefore
<1> QED BY <1>2, <1>15, <1>16, <1>17

-----------------------------------------------------------------------------
(***************************************************************************)
(* The order in which the adapter shows the records.                       *)
(***************************************************************************)

\* What breaks the ties of the sort, as a number.
TieBreak ==
  [r \in Rows |-> IF adapter = "memory" THEN Index(r)
                  ELSE IF query.sort # <<>> /\ AllOrders("desc") THEN -r.id
                  ELSE r.id]

Place == [r \in Rows |-> Rank(r)]

LEMMA TieBreakFacts ==
  ASSUME TypeOK
  PROVE  /\ \A a \in Rows : TieBreak[a] \in Int
         /\ \A a, b \in Rows : TieBreak[a] = TieBreak[b] => a = b
         /\ \A a, b \in Rows : ComesBefore(a, b) <=>
              After(b, a, query.sort) \/ (~After(a, b, query.sort) /\ TieBreak[a] < TieBreak[b])
<1>1. \A a \in Rows : a \in ToSet(projections) /\ a.id \in Nat
  BY RowsFacts
<1>2. \A a, b \in Rows : a.id = b.id => a = b
  BY RowsFacts
<1>3. \A a \in Rows : Index(a) \in Nat /\ projections[Index(a)] = a
  BY <1>1, IndexFacts, TableFacts
<1>4. ASSUME NEW a \in Rows, NEW b \in Rows
      PROVE  /\ TieBreak[a] \in Int
             /\ TieBreak[a] = TieBreak[b] => a = b
             /\ ComesBefore(a, b) <=>
                  After(b, a, query.sort) \/ (~After(a, b, query.sort) /\ TieBreak[a] < TieBreak[b])
  <2>1. a.id \in Nat /\ b.id \in Nat /\ Index(a) \in Nat /\ Index(b) \in Nat
    BY <1>1, <1>3
  <2>2. CASE adapter = "memory"
    <3>1. TieBreak[a] = Index(a) /\ TieBreak[b] = Index(b)
      BY <2>2 DEF TieBreak
    <3>2. Index(a) = Index(b) => a = b
      BY <1>3
    <3> QED BY <2>1, <2>2, <3>1, <3>2 DEF ComesBefore
  <2>3. CASE adapter # "memory" /\ query.sort # <<>> /\ AllOrders("desc")
    <3>1. TieBreak[a] = -a.id /\ TieBreak[b] = -b.id
      BY <2>3 DEF TieBreak
    <3>2. (a.id > b.id <=> -a.id < -b.id) /\ (-a.id = -b.id <=> a.id = b.id) /\ -a.id \in Int
      BY <2>1
    <3> QED BY <1>2, <2>3, <3>1, <3>2 DEF ComesBefore
  <2>4. CASE adapter # "memory" /\ ~(query.sort # <<>> /\ AllOrders("desc"))
    <3>1. TieBreak[a] = a.id /\ TieBreak[b] = b.id
      BY <2>4 DEF TieBreak
    <3> QED BY <1>2, <2>1, <2>4, <3>1 DEF ComesBefore
  <2> QED BY <2>2, <2>3, <2>4
<1> QED BY <1>4

\* The rows stand in a line, and each is told by its place in it.
LEMMA PlaceFacts ==
  ASSUME TypeOK
  PROVE  /\ Place \in [Rows -> 0 .. (Cardinality(Rows) - 1)]
         /\ \A r \in Rows : Place[r] = Rank(r) /\ Place[r] \in Nat
         /\ \A a, b \in Rows : Place[a] < Place[b] <=> ComesBefore(a, b)
         /\ \A a, b \in Rows : Place[a] = Place[b] => a = b
         /\ \A k \in 0 .. (Cardinality(Rows) - 1) : \E r \in Rows : Place[r] = k
<1> DEFINE E == {p \in Rows \X Rows : ComesBefore(p[1], p[2])}
<1>1. ASSUME NEW a \in Rows, NEW b \in Rows PROVE <<a, b>> \in E <=> ComesBefore(a, b)
  OBVIOUS
<1>2. E \in SUBSET (Rows \X Rows)
  OBVIOUS
<1>3. Place = RankIn(Rows, E)
  <2>1. ASSUME NEW r \in Rows PROVE {s \in Rows : ComesBefore(s, r)} = {y \in Rows : <<y, r>> \in E}
    <3> HIDE DEF E
    <3> QED BY <1>1
  <2> HIDE DEF E
  <2> QED BY <2>1 DEF Place, RankIn, Rank
<1> HIDE DEF E
<1>4. /\ \A a \in Rows : a \in Projection
      /\ IsFiniteSet(Rows) /\ Cardinality(Rows) \in Nat /\ query.sort \in Seq(SortType)
  BY RowsFacts, TableFacts
<1>5. \A a \in Rows : <<a, a>> \notin E
  <2>1. \A a \in Rows : ~After(a, a, query.sort) /\ ~(TieBreak[a] < TieBreak[a])
    BY <1>4, AfterFacts, TieBreakFacts
  <2> QED BY <1>1, <2>1, TieBreakFacts
<1>6. ASSUME NEW a \in Rows, NEW b \in Rows PROVE a = b \/ <<a, b>> \in E \/ <<b, a>> \in E
  <2>1. TieBreak[a] \in Int /\ TieBreak[b] \in Int /\ (TieBreak[a] = TieBreak[b] => a = b)
    BY TieBreakFacts
  <2>2. a = b \/ TieBreak[a] < TieBreak[b] \/ TieBreak[b] < TieBreak[a]
    BY <2>1
  <2> QED BY <1>1, <2>2, TieBreakFacts
<1>7. ASSUME NEW a \in Rows, NEW b \in Rows, NEW c \in Rows, <<a, b>> \in E, <<b, c>> \in E
      PROVE  <<a, c>> \in E
  <2>1. a \in Projection /\ b \in Projection /\ c \in Projection
    BY <1>4
  <2>2. /\ After(b, a, query.sort) \/ (~After(a, b, query.sort) /\ TieBreak[a] < TieBreak[b])
        /\ After(c, b, query.sort) \/ (~After(b, c, query.sort) /\ TieBreak[b] < TieBreak[c])
    BY <1>1, <1>7, TieBreakFacts
  <2>3. TieBreak[a] < TieBreak[b] /\ TieBreak[b] < TieBreak[c] => TieBreak[a] < TieBreak[c]
    <3>1. TieBreak[a] \in Int /\ TieBreak[b] \in Int /\ TieBreak[c] \in Int
      BY TieBreakFacts
    <3> QED BY <3>1
  <2>4. /\ After(b, a, query.sort) => After(b, c, query.sort) \/ After(c, a, query.sort)
        /\ After(c, b, query.sort) => After(c, a, query.sort) \/ After(a, b, query.sort)
        /\ After(a, c, query.sort) => After(a, b, query.sort) \/ After(b, c, query.sort)
    BY <1>4, <2>1, AfterFacts
  <2>5. /\ After(b, a, query.sort) => ~After(a, b, query.sort)
        /\ After(c, b, query.sort) => ~After(b, c, query.sort)
    BY <1>4, <2>1, AfterFacts
  <2>6. After(c, a, query.sort) \/ (~After(a, c, query.sort) /\ TieBreak[a] < TieBreak[c])
    BY <2>2, <2>3, <2>4, <2>5
  <2> QED BY <1>1, <2>6, TieBreakFacts
<1>8. /\ Place \in [Rows -> 0 .. (Cardinality(Rows) - 1)]
      /\ \A a, b \in Rows : Place[a] < Place[b] <=> <<a, b>> \in E
      /\ \A a, b \in Rows : Place[a] = Place[b] => a = b
      /\ \A k \in 0 .. (Cardinality(Rows) - 1) : \E r \in Rows : Place[r] = k
  BY <1>2, <1>3, <1>4, <1>5, <1>6, <1>7, OrderRanks
<1>9. \A r \in Rows : Place[r] = Rank(r)
  BY DEF Place
<1>10. \A r \in Rows : Place[r] \in Nat
  BY <1>4, <1>8
<1> QED BY <1>1, <1>8, <1>9, <1>10

\* The place of a row is the number of rows before it.
LEMMA PlaceCounts ==
  ASSUME TypeOK, NEW r \in Rows
  PROVE  Place[r] = Cardinality(Below(Rows, Place, Place[r]))
<1>1. Below(Rows, Place, Place[r]) = {s \in Rows : ComesBefore(s, r)}
  BY PlaceFacts DEF Below
<1> QED BY <1>1, PlaceFacts DEF Rank

\* The adapters order the rows by their places; where the sort leaves no two
\* rows equal, both do.
LEMMA RowsRanked ==
  ASSUME TypeOK, adapter = "postgres" \/ NoTies
  PROVE  Ranks(Place, TotalSort)
<1>1. ASSUME NEW a \in Rows, NEW b \in Rows PROVE Place[a] < Place[b] <=> After(b, a, TotalSort)
  <2>1. Place[a] < Place[b] <=> ComesBefore(a, b)
    BY PlaceFacts
  <2>2. After(b, a, TotalSort) <=>
          \/ After(b, a, query.sort)
          \/ /\ ~After(a, b, query.sort)
             /\ IF query.sort # <<>> /\ AllOrders("desc") THEN a.id > b.id ELSE a.id < b.id
    BY TotalSortFacts
  <2>3. CASE adapter = "postgres"
    BY <2>1, <2>2, <2>3 DEF ComesBefore
  <2>4. CASE NoTies
    <3>1. CASE a = b
      <4>1. ~(Place[a] < Place[a]) /\ ~(a.id > a.id) /\ ~(a.id < a.id)
        BY PlaceFacts, RowsFacts
      <4>2. ~After(a, a, query.sort)
        BY RowsFacts, TableFacts, AfterFacts
      <4> QED BY <2>2, <3>1, <4>1, <4>2
    <3>2. CASE a # b
      <4>1. After(a, b, query.sort) \/ After(b, a, query.sort)
        BY <2>4, <3>2 DEF NoTies
      <4>2. After(a, b, query.sort) => ~After(b, a, query.sort)
        BY RowsFacts, TableFacts, AfterFacts
      <4> QED BY <2>1, <2>2, <4>1, <4>2 DEF ComesBefore
    <3> QED BY <3>1, <3>2
  <2> QED BY <2>3, <2>4
<1> QED BY <1>1, PlaceFacts DEF Ranks

\* The results of the memory adapter, in the order of their places.
LEMMA ResultsRanked ==
  ASSUME TypeOK, adapter = "memory" \/ NoTies
  PROVE  /\ SortedResults \in Seq(Rows) /\ ToSet(SortedResults) = Rows
         /\ Ascending(SortedResults, Place)
         /\ \A k \in 1 .. Len(SortedResults) : SortedResults[k] \in Rows /\ Place[SortedResults[k]] = k - 1
         /\ \A r \in Rows : Place[r] + 1 \in 1 .. Len(SortedResults) /\ SortedResults[Place[r] + 1] = r
<1> DEFINE t == SortedResults
<1>1. /\ t \in Seq(Rows) /\ ToSet(t) = Rows
      /\ \A i, j \in DOMAIN t : i < j => MemoryBefore(t[i], t[j])
  BY SortedFacts
<1> HIDE DEF t
<1>2. Len(t) \in Nat /\ DOMAIN t = 1 .. Len(t) /\ \A k \in 1 .. Len(t) : t[k] \in Rows
  BY <1>1, LenProperties, ElementOfSeq
<1>3. ASSUME NEW i \in DOMAIN t, NEW j \in DOMAIN t, i < j PROVE Place[t[i]] < Place[t[j]]
  <2> DEFINE a == t[i]
             b == t[j]
  <2>1. a \in Rows /\ b \in Rows /\ MemoryBefore(a, b)
    BY <1>1, <1>2, <1>3
  <2> HIDE DEF a, b
  <2>2. Place[a] < Place[b] <=> ComesBefore(a, b)
    BY <2>1, PlaceFacts
  <2>3. CASE adapter = "memory"
    <3>1. Place[a] < Place[b]
      BY <2>1, <2>2, <2>3 DEF ComesBefore, MemoryBefore
    <3> QED BY <3>1 DEF a, b
  <2>4. CASE NoTies
    <3>1. a # b
      <4>1. ~After(a, a, query.sort)
        BY <2>1, RowsFacts, TableFacts, AfterFacts
      <4>2. Index(a) \in Nat
        BY <2>1, RowsFacts, IndexFacts, TableFacts
      <4>3. ~MemoryBefore(a, a)
        BY <4>1, <4>2 DEF MemoryBefore
      <4> QED BY <2>1, <4>3
    <3>2. After(a, b, query.sort) \/ After(b, a, query.sort)
      BY <2>1, <2>4, <3>1 DEF NoTies
    <3>3. ComesBefore(a, b)
      BY <2>1, <3>2 DEF MemoryBefore, ComesBefore
    <3> QED BY <2>2, <3>3 DEF a, b
  <2> QED BY <2>3, <2>4
<1>4. Ascending(t, Place)
  BY <1>3 DEF Ascending
<1>5. \A r \in Rows : Place[r] \in Int
  BY PlaceFacts
<1>6. ASSUME NEW k \in 1 .. Len(t) PROVE t[k] \in Rows /\ Place[t[k]] = k - 1
  <2>1. Cardinality(Below(Rows, Place, Place[t[k]])) = k - 1
    BY <1>1, <1>4, <1>5, AscendingCounts
  <2>2. t[k] \in Rows
    BY <1>2
  <2> QED BY <2>1, <2>2, PlaceCounts
<1>7. ASSUME NEW r \in Rows PROVE Place[r] + 1 \in 1 .. Len(t) /\ t[Place[r] + 1] = r
  <2>1. PICK k \in 1 .. Len(t) : t[k] = r
    BY <1>1, <1>2 DEF ToSet
  <2>2. Place[r] = k - 1
    BY <1>6, <2>1
  <2>3. Place[r] + 1 = k
    BY <1>2, <2>2
  <2> QED BY <2>1, <2>3
<1> QED BY <1>1, <1>4, <1>6, <1>7 DEF t

-----------------------------------------------------------------------------
(***************************************************************************)
(* The pages of the memory adapter.                                        *)
(***************************************************************************)

\* A stretch of the sorted results is a slice.
LEMMA StretchIsSlice ==
  ASSUME TypeOK, adapter = "memory" \/ NoTies,
         NEW u \in Seq(Rows), NEW lo \in Nat, NEW low \in Int,
         \A k \in 1 .. Len(u) : lo + k \in 1 .. Len(SortedResults) /\ u[k] = SortedResults[lo + k],
         \A i \in 1 .. Len(SortedResults) :
           i - 1 \in low .. (low + PageSize - 1) <=> i \in (lo + 1) .. (lo + Len(u))
  PROVE  SliceOf(u, Place, low)
<1> DEFINE t == SortedResults
<1>1. /\ Len(t) \in Nat /\ Len(u) \in Nat /\ DOMAIN u = 1 .. Len(u)
      /\ \A k \in 1 .. Len(t) : t[k] \in Rows /\ Place[t[k]] = k - 1
      /\ \A r \in Rows : Place[r] + 1 \in 1 .. Len(t) /\ t[Place[r] + 1] = r
  BY ResultsRanked, LenProperties
<1>2. \A k \in 1 .. Len(u) : lo + k \in 1 .. Len(t) /\ u[k] = t[lo + k]
  OBVIOUS
<1>3. \A i \in 1 .. Len(t) : i - 1 \in low .. (low + PageSize - 1) <=> i \in (lo + 1) .. (lo + Len(u))
  OBVIOUS
<1> HIDE DEF t
<1>4. ASSUME NEW k \in 1 .. Len(u) PROVE u[k] \in Rows /\ Place[u[k]] = lo + k - 1
  <2>1. lo + k \in 1 .. Len(t) /\ u[k] = t[lo + k]
    BY <1>2
  <2>2. t[lo + k] \in Rows /\ Place[t[lo + k]] = (lo + k) - 1
    BY <1>1, <2>1
  <2> QED BY <2>1, <2>2
<1>5. Ascending(u, Place)
  <2>1. ASSUME NEW i \in DOMAIN u, NEW j \in DOMAIN u, i < j PROVE Place[u[i]] < Place[u[j]]
    BY <1>1, <1>4, <2>1
  <2> QED BY <2>1 DEF Ascending
<1>6. ASSUME NEW x \in ToSet(u) PROVE x \in Rows /\ Place[x] \in low .. (low + PageSize - 1)
  <2>1. PICK k \in 1 .. Len(u) : x = u[k]
    BY <1>1 DEF ToSet
  <2>2. lo + k \in 1 .. Len(t) /\ lo + k \in (lo + 1) .. (lo + Len(u))
    BY <1>1, <1>2
  <2>3. (lo + k) - 1 \in low .. (low + PageSize - 1)
    BY <1>3, <2>2
  <2> QED BY <1>4, <2>1, <2>3
<1>7. ASSUME NEW x \in Rows, Place[x] \in low .. (low + PageSize - 1) PROVE x \in ToSet(u)
  <2> DEFINE i == Place[x] + 1
  <2>1. i \in 1 .. Len(t) /\ t[i] = x /\ Place[x] \in Nat
    BY <1>1, PlaceFacts
  <2>2. i - 1 = Place[x]
    BY <2>1
  <2>3. i \in (lo + 1) .. (lo + Len(u))
    BY <1>3, <1>7, <2>1, <2>2
  <2>4. i - lo \in 1 .. Len(u) /\ lo + (i - lo) = i
    <3> HIDE DEF i
    <3>1. i \in Int /\ lo + 1 <= i /\ i <= lo + Len(u)
      BY <1>1, <2>1, <2>3
    <3> QED BY <1>1, <3>1
  <2>5. u[i - lo] = t[i]
    BY <1>2, <2>4
  <2> QED BY <1>1, <2>1, <2>4, <2>5 DEF ToSet
<1>8. ToSet(u) = {s \in Rows : Place[s] \in low .. (low + PageSize - 1)}
  BY <1>6, <1>7
<1> QED BY <1>5, <1>8 DEF SliceOf

\* What remains of a list after its first lo elements.
LEMMA RestFacts ==
  ASSUME NEW X, NEW s \in Seq(X), NEW lo \in Nat
  PROVE  /\ SubSeq(s, lo + 1, Len(s)) \in Seq(X)
         /\ Len(SubSeq(s, lo + 1, Len(s))) = IF lo < Len(s) THEN Len(s) - lo ELSE 0
         /\ \A i \in 1 .. Len(SubSeq(s, lo + 1, Len(s))) :
              lo + i \in 1 .. Len(s) /\ SubSeq(s, lo + 1, Len(s))[i] = s[lo + i]
<1>1. Len(s) \in Nat /\ \A i \in 1 .. Len(s) : s[i] \in X
  BY LenProperties, ElementOfSeq
<1>2. lo + 1 \in Int /\ Len(s) \in Int /\ \A i \in (lo + 1) .. Len(s) : s[i] \in X
  BY <1>1
<1>3. /\ SubSeq(s, lo + 1, Len(s)) \in Seq(X)
      /\ Len(SubSeq(s, lo + 1, Len(s))) = IF lo + 1 <= Len(s) THEN Len(s) - (lo + 1) + 1 ELSE 0
      /\ \A i \in 1 .. Len(s) - (lo + 1) + 1 : SubSeq(s, lo + 1, Len(s))[i] = s[(lo + 1) + i - 1]
  BY <1>2, SubSeqProperties
<1>4. Len(SubSeq(s, lo + 1, Len(s))) = IF lo < Len(s) THEN Len(s) - lo ELSE 0
  BY <1>1, <1>3
<1>5. ASSUME NEW i \in 1 .. Len(SubSeq(s, lo + 1, Len(s)))
      PROVE  lo + i \in 1 .. Len(s) /\ i \in 1 .. Len(s) - (lo + 1) + 1 /\ (lo + 1) + i - 1 = lo + i
  BY <1>1, <1>4
<1> QED BY <1>3, <1>4, <1>5

\* A page of the results after the first lo of them.
LEMMA RestPage ==
  ASSUME TypeOK, adapter = "memory" \/ NoTies, NEW lo \in Nat
  PROVE  SliceOf(Limit(SubSeq(SortedResults, lo + 1, Len(SortedResults)), PageSize), Place, lo)
<1> DEFINE t == SortedResults
           v == SubSeq(t, lo + 1, Len(t))
           u == Limit(v, PageSize)
<1>1. t \in Seq(Rows) /\ Len(t) \in Nat /\ PageSize \in Nat \ {0}
  BY ResultsRanked, LenProperties, TableFacts
<1>2. /\ v \in Seq(Rows)
      /\ Len(v) = IF lo < Len(t) THEN Len(t) - lo ELSE 0
      /\ \A i \in 1 .. Len(v) : lo + i \in 1 .. Len(t) /\ v[i] = t[lo + i]
  <2> HIDE DEF t
  <2> QED BY <1>1, RestFacts
<1> HIDE DEF v
<1>3. /\ u \in Seq(Rows)
      /\ Len(u) = IF Len(v) < PageSize THEN Len(v) ELSE PageSize
      /\ \A i \in 1 .. Len(u) : i \in 1 .. Len(v) /\ u[i] = v[i]
  BY <1>1, <1>2, LimitFacts
<1> HIDE DEF u
<1>4. \A k \in 1 .. Len(u) : lo + k \in 1 .. Len(t) /\ u[k] = t[lo + k]
  BY <1>2, <1>3
<1>5. ASSUME NEW i \in 1 .. Len(t)
      PROVE  i - 1 \in lo .. (lo + PageSize - 1) <=> i \in (lo + 1) .. (lo + Len(u))
  <2> HIDE DEF t
  <2>1. Len(v) \in Nat /\ Len(u) \in Nat
    BY <1>2, <1>3, LenProperties
  <2>2. CASE Len(v) < PageSize
    BY <1>1, <1>2, <1>3, <2>1, <2>2
  <2>3. CASE ~(Len(v) < PageSize)
    BY <1>1, <1>2, <1>3, <2>1, <2>3
  <2> QED BY <2>2, <2>3
<1>6. SliceOf(u, Place, lo)
  <2>1. lo \in Int
    OBVIOUS
  <2> QED BY <1>3, <1>4, <1>5, <2>1, StretchIsSlice
<1> QED BY <1>6 DEF u, v

LEMMA FirstPageIsSlice ==
  ASSUME TypeOK, adapter = "memory" \/ NoTies
  PROVE  SliceOf(FirstPageOfResults, Place, 0)
<1> DEFINE t == SortedResults
           u == Limit(t, PageSize)
<1>1. t \in Seq(Rows) /\ Len(t) \in Nat /\ PageSize \in Nat \ {0}
  BY ResultsRanked, LenProperties, TableFacts
<1>2. /\ u \in Seq(Rows)
      /\ Len(u) = IF Len(t) < PageSize THEN Len(t) ELSE PageSize
      /\ \A i \in 1 .. Len(u) : i \in 1 .. Len(t) /\ u[i] = t[i]
  <2> HIDE DEF t
  <2> QED BY <1>1, LimitFacts
<1> HIDE DEF u
<1>3. PICK z \in Nat : z = 0
  OBVIOUS
<1>4. \A k \in 1 .. Len(u) : z + k \in 1 .. Len(t) /\ u[k] = t[z + k]
  <2> HIDE DEF t
  <2>1. \A k \in 1 .. Len(u) : z + k = k
    BY <1>3
  <2> QED BY <1>2, <2>1
<1>5. \A i \in 1 .. Len(t) : i - 1 \in z .. (z + PageSize - 1) <=> i \in (z + 1) .. (z + Len(u))
  <2> HIDE DEF t
  <2> QED BY <1>1, <1>2, <1>3
<1>6. z \in Int
  OBVIOUS
<1>7. SliceOf(u, Place, z)
  BY <1>2, <1>4, <1>5, <1>6, StretchIsSlice
<1> QED BY <1>3, <1>7 DEF u, FirstPageOfResults

LEMMA PagesOfResultsAreSlices ==
  ASSUME TypeOK, adapter = "memory" \/ NoTies, NEW r \in Rows
  PROVE  /\ SliceOf(PageOfResults(r.id, TRUE), Place, Place[r] + 1)
         /\ SliceOf(PageOfResults(r.id, FALSE), Place, Place[r] - PageSize)
<1> DEFINE t    == SortedResults
           last == CHOOSE i \in DOMAIN t : t[i].id = r.id
           p    == Place[r] + 1
<1>1. /\ t \in Seq(Rows) /\ Len(t) \in Nat /\ DOMAIN t = 1 .. Len(t)
      /\ PageSize \in Nat \ {0} /\ Place[r] \in Nat
  BY ResultsRanked, LenProperties, TableFacts, PlaceFacts
<1>2. p \in DOMAIN t /\ t[p] = r
  BY <1>1, ResultsRanked
<1>3. last = p
  <2>1. last \in DOMAIN t /\ t[last].id = r.id
    <3> HIDE DEF t
    <3> QED BY <1>2
  <2> HIDE DEF last
  <2>2. t[last] \in Rows
    BY <1>1, <2>1, ResultsRanked
  <2>3. t[last] = r
    BY <2>1, <2>2, RowsFacts
  <2>4. Place[r] = last - 1
    BY <1>1, <2>1, <2>3, ResultsRanked
  <2> HIDE DEF t
  <2> QED BY <1>1, <2>1, <2>4
<1>4. \E i \in DOMAIN t : t[i].id = r.id
  <2> HIDE DEF t
  <2> QED BY <1>2
<1>5. /\ PageOfResults(r.id, TRUE) = Limit(SubSeq(t, last + 1, Len(t)), PageSize)
      /\ PageOfResults(r.id, FALSE) = SubSeq(t, IF last > PageSize THEN last - PageSize ELSE 1, last - 1)
  BY <1>4 DEF PageOfResults
<1> HIDE DEF last
<1>6. SliceOf(PageOfResults(r.id, TRUE), Place, Place[r] + 1)
  <2>1. p \in Nat
    BY <1>1
  <2> HIDE DEF p
  <2>2. SliceOf(Limit(SubSeq(t, p + 1, Len(t)), PageSize), Place, p)
    BY <2>1, RestPage
  <2> QED BY <1>3, <1>5, <2>2 DEF p
<1>7. SliceOf(PageOfResults(r.id, FALSE), Place, Place[r] - PageSize)
  <2> DEFINE a  == IF p > PageSize THEN p - PageSize ELSE 1
             lo == a - 1
             u  == SubSeq(t, a, p - 1)
             n  == p - a
             low == Place[r] - PageSize
  <2>1. /\ a \in Int /\ p \in Int /\ p - 1 \in Int /\ a >= 1 /\ a <= p /\ p <= Len(t)
        /\ lo \in Nat /\ n \in Nat /\ low \in Int /\ low = p - 1 - PageSize
        /\ (a = 1 /\ p <= PageSize) \/ a = p - PageSize
    <3> HIDE DEF t
    <3> QED BY <1>1, <1>2
  <2>2. \A i \in a .. (p - 1) : t[i] \in Rows
    <3>1. \A i \in a .. (p - 1) : i \in 1 .. Len(t)
      <4> HIDE DEF t, a, p
      <4> QED BY <1>1, <2>1
    <3> QED BY <3>1, ResultsRanked
  <2> HIDE DEF t, a, p, low
  <2>3. /\ u \in Seq(Rows)
        /\ Len(u) = IF a <= p - 1 THEN (p - 1) - a + 1 ELSE 0
        /\ \A i \in 1 .. (p - 1) - a + 1 : u[i] = t[a + i - 1]
    BY <2>1, <2>2, SubSeqProperties
  <2> HIDE DEF u
  <2>4. Len(u) = n
    BY <2>1, <2>3
  <2>5. ASSUME NEW k \in 1 .. Len(u) PROVE lo + k \in 1 .. Len(t) /\ u[k] = t[lo + k]
    <3>1. k \in 1 .. (p - 1) - a + 1 /\ a + k - 1 = lo + k /\ lo + k \in 1 .. Len(t)
      BY <1>1, <2>1, <2>4
    <3> QED BY <2>3, <3>1
  <2>6. ASSUME NEW i \in 1 .. Len(t)
        PROVE  i - 1 \in low .. (low + PageSize - 1) <=> i \in (lo + 1) .. (lo + Len(u))
    <3>1. i \in Int /\ 1 <= i
      BY <1>1
    <3>2. i \in (lo + 1) .. (lo + Len(u)) <=> a <= i /\ i <= p - 1
      BY <2>1, <2>4, <3>1
    <3>3. i - 1 \in low .. (low + PageSize - 1) <=> p - PageSize <= i /\ i <= p - 1
      BY <1>1, <2>1, <3>1
    <3>4. a <= i <=> p - PageSize <= i
      BY <1>1, <2>1, <3>1
    <3> QED BY <3>2, <3>3, <3>4
  <2> HIDE DEF lo
  <2>7. SliceOf(u, Place, low)
    BY <2>1, <2>3, <2>5, <2>6, StretchIsSlice DEF t
  <2> QED BY <1>3, <1>5, <2>7 DEF u, low, a
<1> QED BY <1>6, <1>7

-----------------------------------------------------------------------------
(***************************************************************************)
(* What holds of the pages in every state of the right type.               *)
(***************************************************************************)

\* Two pages that are the same slice are equal.
LEMMA SliceUnique ==
  ASSUME TypeOK, NEW u, NEW v, NEW low, SliceOf(u, Place, low), SliceOf(v, Place, low)
  PROVE  u = v
<1> DEFINE X == {s \in Rows : Place[s] \in low .. (low + PageSize - 1)}
<1>1. ToSet(u) = X /\ ToSet(v) = X
  BY DEF SliceOf
<1>2. \A x \in X : Place[x] \in Int
  BY PlaceFacts
<1> HIDE DEF X
<1>3. ASSUME NEW w \in Seq(Rows), ToSet(w) = X PROVE w \in Seq(X)
  <2>1. Len(w) \in Nat /\ w \in [1 .. Len(w) -> Rows]
    BY LenProperties
  <2>2. \A i \in 1 .. Len(w) : w[i] \in X
    BY <1>3, <2>1 DEF ToSet
  <2>3. w \in [1 .. Len(w) -> X]
    BY <2>1, <2>2
  <2> QED BY <2>1, <2>3, SeqDef
<1>4. u \in Seq(X) /\ v \in Seq(X)
  BY <1>1, <1>3 DEF SliceOf
<1> QED BY <1>1, <1>2, <1>4, AscendingUnique DEF SliceOf

\* What the adapter answers, whichever it is, is a slice.
LEMMA AnswersAreSlices ==
  ASSUME TypeOK
  PROVE  /\ SliceOf(IF adapter = "memory" THEN FirstPageOfResults ELSE FirstPageOfRows, Place, 0)
         /\ ~(adapter = "postgres" /\ PageRaises) => \A r \in Rows : \A forwards \in BOOLEAN :
              SliceOf(IF adapter = "memory" THEN PageOfResults(r.id, forwards) ELSE PageOfRows(r.id, forwards),
                      Place, IF forwards THEN Place[r] + 1 ELSE Place[r] - PageSize)
<1>1. CASE adapter = "memory"
  <2>1. SliceOf(FirstPageOfResults, Place, 0)
    BY <1>1, FirstPageIsSlice
  <2>2. ASSUME NEW r \in Rows, NEW forwards \in BOOLEAN
        PROVE  SliceOf(PageOfResults(r.id, forwards), Place, IF forwards THEN Place[r] + 1 ELSE Place[r] - PageSize)
    <3>1. CASE forwards = TRUE
      BY <1>1, <3>1, PagesOfResultsAreSlices
    <3>2. CASE forwards = FALSE
      BY <1>1, <3>2, PagesOfResultsAreSlices
    <3> QED BY <3>1, <3>2
  <2> QED BY <1>1, <2>1, <2>2
<1>2. CASE adapter = "postgres"
  <2>1. Ranks(Place, TotalSort)
    BY <1>2, RowsRanked
  <2>2. SliceOf(FirstPageOfRows, Place, 0)
    BY <2>1, PagesOfRowsAreSlices
  <2>3. ASSUME ~PageRaises, NEW r \in Rows, NEW forwards \in BOOLEAN
        PROVE  SliceOf(PageOfRows(r.id, forwards), Place, IF forwards THEN Place[r] + 1 ELSE Place[r] - PageSize)
    <3>1. CASE forwards = TRUE
      BY <2>1, <2>3, <3>1, PagesOfRowsAreSlices
    <3>2. CASE forwards = FALSE
      BY <2>1, <2>3, <3>2, PagesOfRowsAreSlices
    <3> QED BY <3>1, <3>2
  <2> QED BY <1>2, <2>2, <2>3
<1> QED BY <1>1, <1>2 DEF TypeOK

LEMMA SlicesHold ==
  ASSUME TypeOK
  PROVE  PageIsSlice
<1> SUFFICES ASSUME ~(adapter = "postgres" /\ PageRaises), NEW r \in Rows, NEW forwards \in BOOLEAN
             PROVE  LET got == IF adapter = "memory" THEN PageOfResults(r.id, forwards) ELSE PageOfRows(r.id, forwards)
                        low == IF forwards THEN Rank(r) + 1 ELSE Rank(r) - PageSize
                    IN  /\ ToSet(got) = {s \in Rows : Rank(s) \in low .. (low + PageSize - 1)}
                        /\ \A i, j \in DOMAIN got : i < j => Rank(got[i]) < Rank(got[j])
  BY DEF PageIsSlice
<1> DEFINE got == IF adapter = "memory" THEN PageOfResults(r.id, forwards) ELSE PageOfRows(r.id, forwards)
           low == IF forwards THEN Rank(r) + 1 ELSE Rank(r) - PageSize
<1>1. \A s \in Rows : Place[s] = Rank(s)
  BY PlaceFacts
<1>2. SliceOf(got, Place, IF forwards THEN Place[r] + 1 ELSE Place[r] - PageSize)
  BY AnswersAreSlices
<1>3. (IF forwards THEN Place[r] + 1 ELSE Place[r] - PageSize) = low
  BY <1>1
<1> HIDE DEF got, low
<1>4. SliceOf(got, Place, low)
  BY <1>2, <1>3
<1>5. \A i \in DOMAIN got : got[i] \in Rows
  BY <1>4, LenProperties, ElementOfSeq DEF SliceOf
<1>6. ToSet(got) = {s \in Rows : Rank(s) \in low .. (low + PageSize - 1)}
  BY <1>1, <1>4 DEF SliceOf
<1>7. \A i, j \in DOMAIN got : i < j => Rank(got[i]) < Rank(got[j])
  BY <1>1, <1>4, <1>5 DEF SliceOf, Ascending
<1>8. /\ ToSet(got) = {s \in Rows : Rank(s) \in low .. (low + PageSize - 1)}
      /\ \A i, j \in DOMAIN got : i < j => Rank(got[i]) < Rank(got[j])
  BY <1>6, <1>7
<1> QED BY <1>8 DEF got, low

\* The orders in which the database may return the rows.
Orders == {t \in [1 .. Cardinality(Rows) -> Rows] : \A r \in Rows : \E i \in DOMAIN t : t[i] = r}

LEMMA OrdersFacts ==
  ASSUME TypeOK
  PROVE  /\ \A s \in Orders : Lists(s, Rows) /\ s \in Seq(Rows)
         /\ SetToSeq(Rows) \in Orders
<1> DEFINE n == Cardinality(Rows)
<1>1. IsFiniteSet(Rows) /\ n \in Nat
  BY RowsFacts
<1>2. ASSUME NEW s \in Orders PROVE Lists(s, Rows) /\ s \in Seq(Rows)
  <2>1. s \in [1 .. n -> Rows] /\ \A r \in Rows : \E i \in 1 .. n : s[i] = r
    BY DEF Orders
  <2>2. s \in Surjection(1 .. n, Rows)
    BY <2>1 DEF Surjection
  <2>3. IsFiniteSet(1 .. n) /\ Cardinality(1 .. n) = Cardinality(Rows)
    <3>1. 1 \in Int /\ n \in Int
      BY <1>1
    <3>2. IsFiniteSet(1 .. n) /\ Cardinality(1 .. n) = IF 1 > n THEN 0 ELSE n - 1 + 1
      <4> HIDE DEF n
      <4> QED BY <3>1, FS_Interval
    <3> QED BY <1>1, <3>2
  <2>4. s \in Injection(1 .. n, Rows)
    BY <2>2, <2>3, FS_SurjSameCardinalityImpliesInj
  <2>5. \A i, j \in DOMAIN s : s[i] = s[j] => i = j
    BY <2>4 DEF Injection, IsInjective
  <2>6. s \in Seq(Rows) /\ ToSet(s) = Rows
    BY <1>1, <2>1, SeqDef DEF ToSet
  <2> QED BY <2>5, <2>6 DEF Lists
<1>3. SetToSeq(Rows) \in Orders
  <2> DEFINE s == SetToSeq(Rows)
  <2>1. Lists(s, Rows)
    BY <1>1, SetToSeqFacts
  <2>2. \E f \in [1 .. n -> Rows] : IsInjective(f)
    BY <1>1, FS_CardinalityType DEF ExistsBijection, Bijection, Injection
  <2>3. s \in [1 .. n -> Rows]
    BY <2>2 DEF SetToSeq
  <2> HIDE DEF s
  <2>4. \A r \in Rows : \E i \in DOMAIN s : s[i] = r
    BY <2>1 DEF Lists, ToSet
  <2>5. s \in Orders
    BY <2>3, <2>4 DEF Orders
  <2> QED BY <2>5 DEF s
<1> QED BY <1>2, <1>3

\* Where the sort leaves no two rows equal, the database has no choice.
LEMMA OffsetPagesAgree ==
  ASSUME TypeOK, NoTies, NEW n
  PROVE  OffsetPagesOfRows(n) = {OffsetPageOfResults(n)}
<1>1. /\ SortedResults \in Seq(Rows) /\ ToSet(SortedResults) = Rows
      /\ Ascending(SortedResults, Place)
  BY ResultsRanked
<1>2. Follows(Place, Rows, query.sort)
  <2>1. ASSUME NEW a \in Rows, NEW b \in Rows, Place[a] < Place[b] PROVE After(b, a, query.sort)
    <3>1. ComesBefore(a, b)
      BY <2>1, PlaceFacts
    <3>2. a # b
      BY <2>1, PlaceFacts
    <3> QED BY <3>1, <3>2 DEF NoTies, ComesBefore
  <2>2. \A a \in Rows : Place[a] \in Int
    BY PlaceFacts
  <2> QED BY <2>1, <2>2, PlaceFacts DEF Follows
<1>3. ASSUME NEW s \in Orders
      PROVE  StableSort(s, query.sort) = SortedResults /\ Len(s) = Len(SortedResults)
  <2>1. Lists(s, Rows)
    BY OrdersFacts
  <2>2. Rows \in SUBSET Projection /\ query.sort \in Seq(SortType)
    BY RowsFacts, TableFacts
  <2>3. /\ StableSort(s, query.sort) \in Seq(Rows) /\ ToSet(StableSort(s, query.sort)) = Rows
        /\ Len(StableSort(s, query.sort)) = Len(s)
        /\ Ascending(StableSort(s, query.sort), Place)
    BY <1>2, <2>1, <2>2, SortAscends
  <2>4. \A x \in Rows : Place[x] \in Int
    BY PlaceFacts
  <2>5. StableSort(s, query.sort) = SortedResults
    BY <1>1, <2>3, <2>4, AscendingUnique
  <2> QED BY <2>3, <2>5
<1> DEFINE Page(s) == Limit(SubSeq(StableSort(s, query.sort), (n - 1) * PageSize + 1, Len(s)), PageSize)
<1>4. OffsetPagesOfRows(n) = {Page(s) : s \in Orders}
  BY DEF OffsetPagesOfRows, Orders
<1>5. \A s \in Orders : Page(s) = OffsetPageOfResults(n)
  BY <1>3 DEF OffsetPageOfResults
<1> HIDE DEF Page
<1>6. \E s : s \in Orders
  BY OrdersFacts
<1> QED BY <1>4, <1>5, <1>6

LEMMA AgreementHolds ==
  ASSUME TypeOK
  PROVE  AdaptersAgree
<1> SUFFICES ASSUME NoTies
             PROVE  /\ FirstPageOfResults = FirstPageOfRows
                    /\ OffsetPagesOfRows(number + 1) = {OffsetPageOfResults(number + 1)}
                    /\ PageRaises \/ \A r \in Rows, forwards \in BOOLEAN :
                         PageOfResults(r.id, forwards) = PageOfRows(r.id, forwards)
  BY DEF AdaptersAgree
<1>1. Ranks(Place, TotalSort)
  BY RowsRanked
<1>2. FirstPageOfResults = FirstPageOfRows
  <2>1. SliceOf(FirstPageOfResults, Place, 0)
    BY FirstPageIsSlice
  <2>2. SliceOf(FirstPageOfRows, Place, 0)
    BY <1>1, PagesOfRowsAreSlices
  <2> QED BY <2>1, <2>2, SliceUnique
<1>3. ASSUME ~PageRaises, NEW r \in Rows, NEW forwards \in BOOLEAN
      PROVE  PageOfResults(r.id, forwards) = PageOfRows(r.id, forwards)
  <2>1. /\ SliceOf(PageOfResults(r.id, TRUE), Place, Place[r] + 1)
        /\ SliceOf(PageOfResults(r.id, FALSE), Place, Place[r] - PageSize)
    BY PagesOfResultsAreSlices
  <2>2. /\ SliceOf(PageOfRows(r.id, TRUE), Place, Place[r] + 1)
        /\ SliceOf(PageOfRows(r.id, FALSE), Place, Place[r] - PageSize)
    BY <1>1, <1>3, PagesOfRowsAreSlices
  <2>3. PageOfResults(r.id, TRUE) = PageOfRows(r.id, TRUE)
    BY <2>1, <2>2, SliceUnique
  <2>4. PageOfResults(r.id, FALSE) = PageOfRows(r.id, FALSE)
    BY <2>1, <2>2, SliceUnique
  <2>5. forwards = TRUE \/ forwards = FALSE
    OBVIOUS
  <2>6. CASE forwards = TRUE
    BY <2>3, <2>6
  <2>7. CASE forwards = FALSE
    BY <2>4, <2>7
  <2> QED BY <2>5, <2>6, <2>7
<1> QED BY <1>2, <1>3, OffsetPagesAgree

-----------------------------------------------------------------------------
(***************************************************************************)
(* The walk: the inductive invariant.                                      *)
(***************************************************************************)

Once(q, id) == \E i \in DOMAIN q : q[i] = id /\ \A j \in DOMAIN q : q[j] = id => j = i

Never(q, id) == \A i \in DOMAIN q : q[i] # id

IdsIn(u) == [i \in DOMAIN u |-> u[i].id]

\* Not later than the record the walk stands on.
Passed(r, last) == r = last \/ ComesBefore(r, last)

IdleInv == phase = "idle" => number = 0 /\ seen = <<>>

\* A walk by keys has shown the expected records up to the one it stands on.
KeysetInv ==
  paging = "keyset" /\ steady =>
    /\ expected \subseteq IdsOf(Rows)
    /\ phase = "walking" =>
         /\ Last(page) \in Rows
         /\ \A r \in Rows : r.id \in expected =>
              IF Passed(r, Last(page)) THEN Once(seen, r.id) ELSE Never(seen, r.id)
    /\ phase = "done" => \A id \in expected : Once(seen, id)

\* How many of the results the pages received by offset hold.
AtMost(k, l) == IF k < l THEN k ELSE l

Covered == AtMost(number * PageSize, Len(SortedResults))

Decided == adapter = "postgres" => NoTies

\* A walk by offset has shown the results up to the end of the last page.
OffsetInv ==
  paging = "offset" =>
    /\ expected \subseteq IdsOf(Rows)
    /\ Decided => /\ seen = [i \in 1 .. Covered |-> SortedResults[i].id]
                  /\ phase = "done" => Covered = Len(SortedResults)

IInv == TypeOK /\ IdleInv /\ KeysetInv /\ OffsetInv

-----------------------------------------------------------------------------
(***************************************************************************)
(* Types: what the adapters answer, also where the record the walk stood   *)
(* on no longer matches.                                                   *)
(***************************************************************************)

LEMMA SelectType ==
  ASSUME NEW X \in SUBSET Projection, IsFiniteSet(X), NEW sort \in Seq(SortType)
  PROVE  Select(X, sort) \in Seq(X)
<1> DEFINE s == SetToSeq(X)
           t == StableSort(s, sort)
<1>1. s \in Seq(X)
  BY SetToSeqFacts DEF Lists
<1> HIDE DEF s
<1>2. s \in Seq(Projection) /\ Len(s) \in Nat /\ \A i \in 1 .. Len(s) : s[i] \in X
  BY <1>1, SeqMonotonic, LenProperties, ElementOfSeq
<1>3. t \in Seq(Projection) /\ Len(t) = Len(s)
  BY <1>2, StableSortFacts
<1>4. \A k \in 1 .. Len(s) : t[k] \in X
  <2>1. PICK o \in [1 .. Len(s) -> 1 .. Len(s)] :
              /\ \A k \in 1 .. Len(s) : StableSort(s, sort)[k] = s[o[k]]
              /\ \A k, l \in 1 .. Len(s) : k < l => o[k] # o[l] /\ Earlier(s, sort, o[k], o[l])
              /\ \A i \in 1 .. Len(s) : \E k \in 1 .. Len(s) : o[k] = i
    <3> HIDE DEF t
    <3> QED BY <1>2, StableSortFacts
  <2>2. \A k \in 1 .. Len(s) : t[k] = s[o[k]]
    BY <2>1
  <2> HIDE DEF t
  <2> QED BY <1>2, <2>1, <2>2
<1> HIDE DEF t
<1>5. t \in [1 .. Len(s) -> X]
  BY <1>3, <1>4, LenProperties
<1>6. t \in Seq(X)
  BY <1>2, <1>5, SeqDef
<1>7. Limit(t, PageSize) \in Seq(X)
  BY <1>6, LimitFacts, PageSizeAssumption
<1> QED BY <1>7 DEF Select, t, s

LEMMA SelectOfRows ==
  ASSUME TypeOK, NEW X \in SUBSET Rows, NEW sort \in Seq(SortType)
  PROVE  Select(X, sort) \in Seq(Projection) /\ ToSet(Select(X, sort)) \in SUBSET Rows
<1>1. X \in SUBSET Projection /\ IsFiniteSet(X)
  BY RowsFacts, FS_Subset
<1>2. Select(X, sort) \in Seq(X)
  BY <1>1, SelectType
<1>3. Select(X, sort) \in Seq(Projection)
  BY <1>1, <1>2, SeqMonotonic
<1>4. \A i \in DOMAIN Select(X, sort) : Select(X, sort)[i] \in X
  BY <1>2, LenProperties, ElementOfSeq
<1> QED BY <1>3, <1>4 DEF ToSet

LEMMA ForwardRowsType ==
  ASSUME TypeOK, NEW id
  PROVE  PageOfRows(id, TRUE) \in Seq(Projection)
<1>1. query.sort \in Seq(SortType) /\ SortBy("id", "asc") \in SortType /\ SortBy("id", "desc") \in SortType
  BY TableFacts, TotalSortType
<1>2. paged_sort("asc") \in Seq(SortType) /\ paged_sort("desc") \in Seq(SortType)
  BY <1>1, AppendProperties DEF paged_sort
<1>3. <<SortBy("id", "asc")>> \in Seq(SortType)
  BY <1>1
<1>4. {r \in Rows : r.id > id} \in SUBSET Rows
  OBVIOUS
<1>5. \A sort, operator : RowsBeyond(id, sort, operator) \in SUBSET Rows
  BY DEF RowsBeyond
<1>6. ASSUME NEW last, NEW sort \in Seq(SortType) PROVE UnionOfSelects(last, sort) \in SUBSET Rows
  <2>1. ASSUME NEW i PROVE ToSet(Select({r \in Rows : ordering_columns(r, last, sort, i)}, sort)) \in SUBSET Rows
    <3> DEFINE X == {r \in Rows : ordering_columns(r, last, sort, i)}
    <3>1. X \in SUBSET Rows
      OBVIOUS
    <3> HIDE DEF X
    <3>2. ToSet(Select(X, sort)) \in SUBSET Rows
      BY <3>1, SelectOfRows
    <3> QED BY <3>2 DEF X
  <2> QED BY <2>1 DEF UnionOfSelects
<1>7. subsequent_page_no_sort_paging_forwards_query(id) \in Seq(Projection)
  BY <1>3, <1>4, SelectOfRows
     DEF subsequent_page_no_sort_paging_forwards_query, subsequent_page_no_sort_row_selection_query
<1>8. subsequent_page_existing_sort_all_asc_forwards_query(id) \in Seq(Projection)
  BY <1>2, <1>5, SelectOfRows DEF subsequent_page_existing_sort_all_asc_forwards_query
<1>9. subsequent_page_existing_sort_all_desc_forwards_query(id) \in Seq(Projection)
  BY <1>2, <1>5, SelectOfRows DEF subsequent_page_existing_sort_all_desc_forwards_query
<1>10. subsequent_page_existing_sort_mixed_forwards_query(id) \in Seq(Projection)
  BY <1>2, <1>6, SelectOfRows DEF subsequent_page_existing_sort_mixed_forwards_query
<1> QED BY <1>7, <1>8, <1>9, <1>10 DEF PageOfRows

LEMMA ForwardResultsType ==
  ASSUME TypeOK, NEW id
  PROVE  PageOfResults(id, TRUE) \in Seq(Projection)
<1> DEFINE t    == SortedResults
           last == CHOOSE i \in DOMAIN t : t[i].id = id
<1>1. t \in Seq(Rows)
  BY SortedFacts
<1>2. t \in Seq(Projection) /\ Len(t) \in Nat /\ DOMAIN t = 1 .. Len(t)
  <2> HIDE DEF t
  <2> QED BY <1>1, RowsFacts, SeqMonotonic, LenProperties
<1>3. CASE ~\E i \in DOMAIN t : t[i].id = id
  <2>1. PageOfResults(id, TRUE) = <<>>
    BY <1>3 DEF PageOfResults
  <2>2. <<>> \in Seq(Projection)
    OBVIOUS
  <2> HIDE DEF t, last
  <2> QED BY <2>1, <2>2
<1>4. CASE \E i \in DOMAIN t : t[i].id = id
  <2>1. last \in DOMAIN t
    <3> HIDE DEF t
    <3> QED BY <1>4
  <2>2. PageOfResults(id, TRUE) = Limit(SubSeq(t, last + 1, Len(t)), PageSize)
    BY <1>4 DEF PageOfResults
  <2>3. last \in Nat
    <3> HIDE DEF t, last
    <3> QED BY <1>2, <2>1
  <2> HIDE DEF t, last
  <2>4. SubSeq(t, last + 1, Len(t)) \in Seq(Projection)
    BY <1>2, <2>3, RestFacts
  <2>5. Limit(SubSeq(t, last + 1, Len(t)), PageSize) \in Seq(Projection)
    BY <2>4, LimitFacts, PageSizeAssumption
  <2> QED BY <2>2, <2>5
<1> QED BY <1>3, <1>4

LEMMA OffsetFacts ==
  ASSUME TypeOK, NEW k \in Nat
  PROVE  /\ k * PageSize \in Nat
         /\ OffsetPageOfResults(k + 1) =
              Limit(SubSeq(SortedResults, k * PageSize + 1, Len(SortedResults)), PageSize)
         /\ OffsetPageOfResults(k + 1) \in Seq(Projection)
         /\ OffsetPagesOfRows(k + 1) \in SUBSET Seq(Projection)
<1>1. PageSize \in Nat
  BY TableFacts
<1>2. k * PageSize \in Nat /\ ((k + 1) - 1) * PageSize = k * PageSize
  <2>1. (k + 1) - 1 = k
    OBVIOUS
  <2> QED BY <1>1, <2>1
<1>3. ASSUME NEW s \in Seq(Projection)
      PROVE  Limit(SubSeq(s, k * PageSize + 1, Len(s)), PageSize) \in Seq(Projection)
  <2>1. SubSeq(s, k * PageSize + 1, Len(s)) \in Seq(Projection)
    BY <1>2, RestFacts
  <2> QED BY <1>1, <2>1, LimitFacts
<1>4. OffsetPageOfResults(k + 1) =
        Limit(SubSeq(SortedResults, k * PageSize + 1, Len(SortedResults)), PageSize)
  BY <1>2 DEF OffsetPageOfResults
<1>5. SortedResults \in Seq(Projection)
  BY SortedFacts, RowsFacts, SeqMonotonic
<1>6. ASSUME NEW s \in Orders
      PROVE  Limit(SubSeq(StableSort(s, query.sort), ((k + 1) - 1) * PageSize + 1, Len(s)), PageSize) \in Seq(Projection)
  <2>1. s \in Seq(Projection)
    BY OrdersFacts, RowsFacts, SeqMonotonic
  <2>2. StableSort(s, query.sort) \in Seq(Projection) /\ Len(StableSort(s, query.sort)) = Len(s)
    BY <2>1, TableFacts, StableSortFacts
  <2> QED BY <1>2, <1>3, <2>2
<1>7. OffsetPagesOfRows(k + 1) \in SUBSET Seq(Projection)
  BY <1>6 DEF OffsetPagesOfRows, Orders
<1> QED BY <1>2, <1>3, <1>4, <1>5, <1>7

LEMMA AnswersType ==
  ASSUME TypeOK
  PROVE  FirstPages \in SUBSET Seq(Projection) /\ NextPages \in SUBSET Seq(Projection)
<1>1. number \in Nat /\ 0 \in Nat /\ 0 + 1 = 1
  BY DEF TypeOK
<1>2. /\ OffsetPageOfResults(0 + 1) \in Seq(Projection) /\ OffsetPagesOfRows(0 + 1) \in SUBSET Seq(Projection)
      /\ OffsetPageOfResults(number + 1) \in Seq(Projection)
      /\ OffsetPagesOfRows(number + 1) \in SUBSET Seq(Projection)
  BY <1>1, OffsetFacts
<1>3. (IF adapter = "memory" THEN FirstPageOfResults ELSE FirstPageOfRows) \in Seq(Projection)
  <2>1. (IF adapter = "memory" THEN FirstPageOfResults ELSE FirstPageOfRows) \in Seq(Rows)
    BY AnswersAreSlices DEF SliceOf
  <2> QED BY <2>1, RowsFacts, SeqMonotonic
<1>4. \A id : PageOfResults(id, TRUE) \in Seq(Projection) /\ PageOfRows(id, TRUE) \in Seq(Projection)
  BY ForwardResultsType, ForwardRowsType
<1>5. FirstPages \in SUBSET Seq(Projection)
  BY <1>1, <1>2, <1>3 DEF FirstPages
<1>6. NextPages \in SUBSET Seq(Projection)
  BY <1>2, <1>4 DEF NextPages
<1> QED BY <1>5, <1>6

LEMMA ReceiveType ==
  ASSUME TypeOK, NEW pages \in SUBSET Seq(Projection), Receive(pages), expected' \subseteq Ids
  PROVE  TypeOK'
<1>1. page' \in Seq(Projection) /\ seen \in Seq(Ids) /\ number \in Nat
  BY DEF Receive, TypeOK
<1>2. [i \in DOMAIN page' |-> page'[i].id] \in Seq(Ids)
  <2>1. /\ Len(page') \in Nat /\ DOMAIN page' = 1 .. Len(page')
        /\ \A i \in 1 .. Len(page') : page'[i] \in Projection
    BY <1>1, LenProperties, ElementOfSeq
  <2>2. \A i \in 1 .. Len(page') : page'[i].id \in Ids
    BY <2>1 DEF Projection
  <2>3. [i \in DOMAIN page' |-> page'[i].id] \in [1 .. Len(page') -> Ids]
    BY <2>1, <2>2
  <2> QED BY <2>1, <2>3, SeqDef
<1>3. seen' \in Seq(Ids)
  BY <1>1, <1>2, ConcatProperties DEF Receive
<1>4. number' \in Nat
  BY <1>1 DEF Receive
<1>5. phase' \in {"idle", "walking", "done", "failed"} /\ (phase' = "walking" => page' # <<>>)
  BY DEF Receive
<1> QED BY <1>1, <1>3, <1>4, <1>5 DEF Receive, TypeOK

LEMMA UpdatedFacts ==
  ASSUME NEW p \in Projection, NEW r \in Projection
  PROVE  Updated(p, r) \in Projection /\ Updated(p, r).id = p.id
<1>1. p.state \in [Fields -> Values] /\ r.state \in [Fields -> Values] /\ p.id \in Ids
  BY DEF Projection
<1>2. [f \in Fields |-> IF f \in Kept THEN p.state[f] ELSE r.state[f]] \in [Fields -> Values]
  BY <1>1
<1> QED BY <1>1, <1>2 DEF Updated, Projection

\* save: every record but the one saved stays where it is.
LEMMA PutFacts ==
  ASSUME TypeOK, NEW r \in Projection
  PROVE  /\ Put(r) \in Seq(Projection)
         /\ \A i, j \in DOMAIN Put(r) : Put(r)[i].id = Put(r)[j].id => i = j
         /\ \A i \in DOMAIN projections :
              projections[i].id # r.id => i \in DOMAIN Put(r) /\ Put(r)[i] = projections[i]
<1> DEFINE n == Len(projections)
           q == Put(r)
<1>1. /\ n \in Nat /\ DOMAIN projections = 1 .. n /\ \A i \in 1 .. n : projections[i] \in Projection
      /\ projections \in Seq(Projection)
  BY TableFacts DEF TypeOK
<1>2. \A i, j \in 1 .. n : projections[i].id = projections[j].id => i = j
  BY <1>1 DEF TypeOK
<1>3. CASE r.id \in IdsOf(ToSet(projections))
  <2>1. q = [i \in 1 .. n |-> IF projections[i].id = r.id THEN Updated(projections[i], r) ELSE projections[i]]
    BY <1>1, <1>3 DEF Put
  <2> HIDE DEF q, n
  <2>6. \A i \in 1 .. n : Updated(projections[i], r) \in Projection /\ Updated(projections[i], r).id = projections[i].id
    BY <1>1, UpdatedFacts
  <2>2. q \in [1 .. n -> Projection]
    BY <1>1, <2>1, <2>6
  <2>3. q \in Seq(Projection)
    BY <1>1, <2>2, SeqDef
  <2>4. DOMAIN q = 1 .. n /\ \A i \in 1 .. n : q[i].id = projections[i].id
    BY <2>1, <2>6
  <2>5. \A i \in 1 .. n : projections[i].id # r.id => q[i] = projections[i]
    BY <2>1
  <2> QED BY <1>1, <1>2, <2>3, <2>4, <2>5 DEF q
<1>4. CASE r.id \notin IdsOf(ToSet(projections))
  <2>1. q = Append(projections, r)
    BY <1>4 DEF Put
  <2>2. \A i \in 1 .. n : projections[i].id # r.id
    BY <1>1, <1>4 DEF IdsOf, ToSet
  <2> HIDE DEF q
  <2>3. q \in Seq(Projection) /\ Len(q) = n + 1 /\ q[n + 1] = r /\ \A i \in 1 .. n : q[i] = projections[i]
    BY <1>1, <2>1, AppendProperties
  <2>4. DOMAIN q = 1 .. (n + 1)
    BY <2>3, LenProperties
  <2> HIDE DEF n
  <2>5. \A i \in 1 .. (n + 1) : i \in 1 .. n \/ i = n + 1
    BY <1>1
  <2>6. ASSUME NEW i \in 1 .. (n + 1), NEW j \in 1 .. (n + 1), q[i].id = q[j].id PROVE i = j
    <3>1. CASE i \in 1 .. n /\ j \in 1 .. n
      BY <1>2, <2>3, <2>6, <3>1
    <3>2. CASE i = n + 1 /\ j \in 1 .. n
      BY <2>2, <2>3, <2>6, <3>2
    <3>3. CASE i \in 1 .. n /\ j = n + 1
      BY <2>2, <2>3, <2>6, <3>3
    <3> QED BY <2>5, <3>1, <3>2, <3>3
  <2>7. \A i \in 1 .. n : i \in 1 .. (n + 1)
    BY <1>1
  <2> QED BY <1>1, <2>3, <2>4, <2>6, <2>7 DEF q
<1> QED BY <1>3, <1>4

LEMMA TypeStep ==
  ASSUME TypeOK, [Next]_vars
  PROVE  TypeOK'
<1>1. CASE SearchFirst
  <2>1. IdsOf(Rows) \subseteq Ids
    BY RowsFacts DEF IdsOf, Projection
  <2> QED BY <1>1, <2>1, AnswersType, ReceiveType DEF SearchFirst
<1>2. CASE SearchNext
  <2>1. expected' \subseteq Ids
    BY <1>2 DEF SearchNext, TypeOK
  <2> QED BY <1>2, <2>1, AnswersType, ReceiveType DEF SearchNext
<1>3. ASSUME NEW r \in Projection, Save(r) PROVE TypeOK'
  <2>1. projections' = Put(r)
    BY <1>3 DEF Save
  <2>2. /\ projections' \in Seq(Projection)
        /\ \A i, j \in DOMAIN projections' : projections'[i].id = projections'[j].id => i = j
    BY <2>1, PutFacts
  <2>3. saves' \in 0 .. MaxSaves
    BY <1>3, MaxSavesAssumption DEF Save, TypeOK
  <2>4. expected' \subseteq Ids /\ steady' \in BOOLEAN
    BY <1>3 DEF Save, TypeOK
  <2> QED BY <1>3, <2>2, <2>3, <2>4 DEF Save, TypeOK
<1>4. CASE UNCHANGED vars
  BY <1>4 DEF vars, TypeOK
<1>5. CASE SearchRaises
  BY <1>5 DEF SearchRaises, TypeOK
<1> QED BY <1>1, <1>2, <1>3, <1>4, <1>5 DEF Next, Done

-----------------------------------------------------------------------------
(***************************************************************************)
(* The walk: what one more page adds to the ids received.                  *)
(***************************************************************************)

LEMMA ConcatIds ==
  ASSUME NEW q \in Seq(Ids), NEW w \in Seq(Ids), NEW id
  PROVE  /\ Never(q, id) /\ Never(w, id) => Never(q \o w, id)
         /\ Once(q, id) /\ Never(w, id) => Once(q \o w, id)
         /\ Never(q, id) /\ Once(w, id) => Once(q \o w, id)
<1> DEFINE m == Len(q)
           n == Len(w)
           z == q \o w
<1>1. m \in Nat /\ DOMAIN q = 1 .. m /\ n \in Nat /\ DOMAIN w = 1 .. n
  BY LenProperties
<1>2. /\ z \in Seq(Ids) /\ Len(z) = m + n
      /\ \A i \in 1 .. (m + n) : z[i] = IF i <= m THEN q[i] ELSE w[i - m]
  BY ConcatProperties
<1>3. DOMAIN z = 1 .. (m + n)
  BY <1>2, LenProperties
<1> HIDE DEF m, n, z
<1>4. \A i \in 1 .. m : i \in 1 .. (m + n) /\ z[i] = q[i]
  BY <1>1, <1>2
<1>5. \A i \in 1 .. n : m + i \in 1 .. (m + n) /\ z[m + i] = w[i]
  BY <1>1, <1>2
<1>6. \A i \in 1 .. (m + n) : i \in 1 .. m \/ \E k \in 1 .. n : i = m + k
  <2>1. ASSUME NEW i \in 1 .. (m + n), i \notin 1 .. m PROVE i - m \in 1 .. n /\ i = m + (i - m)
    BY <1>1, <2>1
  <2> QED BY <2>1
<1>7. ASSUME Never(q, id), Never(w, id) PROVE Never(z, id)
  <2>1. (\A i \in 1 .. m : q[i] # id) /\ (\A i \in 1 .. n : w[i] # id)
    BY <1>1, <1>7 DEF Never
  <2>2. \A i \in 1 .. (m + n) : z[i] # id
    BY <1>4, <1>5, <1>6, <2>1
  <2> QED BY <1>3, <2>2 DEF Never
<1>8. ASSUME Once(q, id), Never(w, id) PROVE Once(z, id)
  <2>1. PICK i \in 1 .. m : q[i] = id /\ \A j \in 1 .. m : q[j] = id => j = i
    BY <1>1, <1>8 DEF Once
  <2>2. \A k \in 1 .. n : w[k] # id
    BY <1>1, <1>8 DEF Never
  <2>3. i \in 1 .. (m + n) /\ z[i] = id
    BY <1>4, <2>1
  <2>4. ASSUME NEW j \in 1 .. (m + n), z[j] = id PROVE j = i
    BY <1>4, <1>5, <1>6, <2>1, <2>2, <2>4
  <2> QED BY <1>3, <2>3, <2>4 DEF Once
<1>9. ASSUME Never(q, id), Once(w, id) PROVE Once(z, id)
  <2>1. PICK i \in 1 .. n : w[i] = id /\ \A j \in 1 .. n : w[j] = id => j = i
    BY <1>1, <1>9 DEF Once
  <2>2. \A k \in 1 .. m : q[k] # id
    BY <1>1, <1>9 DEF Never
  <2>3. m + i \in 1 .. (m + n) /\ z[m + i] = id
    BY <1>5, <2>1
  <2>4. ASSUME NEW j \in 1 .. (m + n), z[j] = id PROVE j = m + i
    BY <1>4, <1>5, <1>6, <2>1, <2>2, <2>4
  <2> QED BY <1>3, <2>3, <2>4 DEF Once
<1> QED BY <1>7, <1>8, <1>9 DEF z

LEMMA PageIds ==
  ASSUME TypeOK, NEW u \in Seq(Rows), Ascending(u, Place)
  PROVE  /\ IdsIn(u) \in Seq(Ids)
         /\ \A r \in Rows : IF r \in ToSet(u) THEN Once(IdsIn(u), r.id) ELSE Never(IdsIn(u), r.id)
<1>1. Len(u) \in Nat /\ DOMAIN u = 1 .. Len(u) /\ \A i \in 1 .. Len(u) : u[i] \in Rows
  BY LenProperties, ElementOfSeq
<1>2. \A i \in 1 .. Len(u) : u[i].id \in Ids
  BY <1>1, RowsFacts DEF Projection
<1>3. IdsIn(u) \in [1 .. Len(u) -> Ids]
  BY <1>1, <1>2 DEF IdsIn
<1>4. IdsIn(u) \in Seq(Ids)
  BY <1>1, <1>3, SeqDef
<1>5. DOMAIN IdsIn(u) = 1 .. Len(u) /\ \A i \in 1 .. Len(u) : IdsIn(u)[i] = u[i].id
  BY <1>1 DEF IdsIn
<1>6. ASSUME NEW i \in 1 .. Len(u), NEW j \in 1 .. Len(u), u[i] = u[j] PROVE i = j
  <2>1. Place[u[i]] \in Nat /\ Place[u[j]] \in Nat
    BY <1>1, PlaceFacts
  <2>2. ~(i < j) /\ ~(j < i)
    BY <1>1, <1>6, <2>1 DEF Ascending
  <2> QED BY <1>1, <2>2
<1>7. ASSUME NEW r \in Rows, r \in ToSet(u) PROVE Once(IdsIn(u), r.id)
  <2>1. PICK i \in 1 .. Len(u) : u[i] = r
    BY <1>1, <1>7 DEF ToSet
  <2>2. ASSUME NEW j \in 1 .. Len(u), u[j].id = r.id PROVE j = i
    <3>1. u[j] = r
      BY <1>1, <2>2, RowsFacts
    <3> QED BY <1>6, <2>1, <3>1
  <2> QED BY <1>5, <2>1, <2>2 DEF Once
<1>8. ASSUME NEW r \in Rows, r \notin ToSet(u) PROVE Never(IdsIn(u), r.id)
  <2>1. ASSUME NEW j \in 1 .. Len(u) PROVE u[j].id # r.id
    <3>1. u[j] \in Rows /\ u[j] # r
      BY <1>1, <1>8 DEF ToSet
    <3> QED BY <3>1, RowsFacts
  <2> QED BY <1>5, <2>1 DEF Never
<1> QED BY <1>4, <1>7, <1>8

\* The page that starts at low reaches exactly to its last row; it is empty
\* when no row is left.
LEMMA PageAdvance ==
  ASSUME TypeOK, NEW u, NEW low \in Nat, SliceOf(u, Place, low)
  PROVE  /\ u = <<>> => \A r \in Rows : Place[r] < low
         /\ u # <<>> => /\ Last(u) \in Rows /\ low <= Place[Last(u)]
                        /\ \A r \in Rows : r \in ToSet(u) <=> low <= Place[r] /\ Place[r] <= Place[Last(u)]
<1>1. u \in Seq(Rows) /\ ToSet(u) = {s \in Rows : Place[s] \in low .. (low + PageSize - 1)} /\ Ascending(u, Place)
  BY DEF SliceOf
<1>2. Len(u) \in Nat /\ DOMAIN u = 1 .. Len(u) /\ \A i \in 1 .. Len(u) : u[i] \in Rows
  BY <1>1, LenProperties, ElementOfSeq
<1>3. PageSize \in Nat \ {0} /\ Cardinality(Rows) \in Nat
  BY TableFacts, RowsFacts
<1>4. \A r \in Rows : Place[r] \in Nat /\ Place[r] \in 0 .. (Cardinality(Rows) - 1)
  BY PlaceFacts
<1>5. ASSUME u = <<>>, NEW r \in Rows PROVE Place[r] < low
  <2>1. SUFFICES ASSUME low <= Place[r] PROVE FALSE
    BY <1>4
  <2>2. low \in 0 .. (Cardinality(Rows) - 1)
    BY <1>3, <1>4, <2>1
  <2>3. PICK s \in Rows : Place[s] = low
    BY <2>2, PlaceFacts
  <2>4. Place[s] \in low .. (low + PageSize - 1)
    BY <1>3, <2>3
  <2>5. s \in ToSet(u)
    BY <1>1, <2>4
  <2>6. ToSet(u) = {}
    BY <1>5 DEF ToSet
  <2> QED BY <2>5, <2>6
<1>6. ASSUME u # <<>>
      PROVE  /\ Last(u) \in Rows /\ low <= Place[Last(u)]
             /\ \A r \in Rows : r \in ToSet(u) <=> low <= Place[r] /\ Place[r] <= Place[Last(u)]
  <2> DEFINE last == Last(u)
  <2>1. Len(u) \in 1 .. Len(u)
    <3>1. Len(u) # 0
      BY <1>1, <1>6, EmptySeq
    <3> QED BY <1>2, <3>1
  <2>2. last = u[Len(u)]
    BY DEF Last
  <2> HIDE DEF last
  <2>3. last \in Rows /\ last \in ToSet(u)
    BY <1>2, <2>1, <2>2 DEF ToSet
  <2>4. Place[last] \in low .. (low + PageSize - 1)
    BY <1>1, <2>3
  <2>5. ASSUME NEW r \in Rows, r \in ToSet(u) PROVE low <= Place[r] /\ Place[r] <= Place[last]
    <3>1. PICK i \in 1 .. Len(u) : u[i] = r
      BY <1>2, <2>5 DEF ToSet
    <3>2. i < Len(u) => Place[r] < Place[last]
      BY <1>1, <1>2, <2>1, <2>2, <3>1 DEF Ascending
    <3>3. i = Len(u) \/ i < Len(u)
      <4>1. Len(u) \in Nat /\ i \in 1 .. Len(u)
        BY <1>2, <3>1
      <4> QED BY <4>1
    <3>4. Place[r] <= Place[last]
      <4>1. i = Len(u) => r = last
        BY <2>2, <3>1
      <4>2. Place[r] \in Nat /\ Place[last] \in Nat
        BY <1>4, <2>3
      <4> QED BY <3>2, <3>3, <4>1, <4>2
    <3>5. Place[r] \in low .. (low + PageSize - 1)
      BY <1>1, <2>5
    <3> QED BY <1>4, <3>4, <3>5
  <2>6. ASSUME NEW r \in Rows, low <= Place[r], Place[r] <= Place[last] PROVE r \in ToSet(u)
    <3>1. Place[r] \in low .. (low + PageSize - 1)
      BY <1>3, <1>4, <2>3, <2>4, <2>6
    <3> QED BY <1>1, <3>1
  <2>7. low <= Place[last]
    BY <1>4, <2>3, <2>4
  <2> QED BY <2>3, <2>5, <2>6, <2>7 DEF last
<1> QED BY <1>5, <1>6

LEMMA PassedFacts ==
  ASSUME TypeOK, NEW r \in Rows, NEW s \in Rows
  PROVE  Passed(r, s) <=> Place[r] <= Place[s]
<1>1. Place[r] \in Nat /\ Place[s] \in Nat
  BY PlaceFacts
<1>2. ComesBefore(r, s) <=> Place[r] < Place[s]
  BY PlaceFacts
<1>3. Place[r] = Place[s] => r = s
  BY PlaceFacts
<1> QED BY <1>1, <1>2, <1>3 DEF Passed

\* One more page by offset: the ids up to its end.
LEMMA OffsetAdvance ==
  ASSUME NEW s \in Seq(Projection), NEW c \in Nat, NEW n \in Nat \ {0}, NEW u,
         u = Limit(SubSeq(s, c + 1, Len(s)), n)
  PROVE  /\ [i \in 1 .. AtMost(c, Len(s)) |-> s[i].id] \o IdsIn(u)
              = [i \in 1 .. AtMost(c + n, Len(s)) |-> s[i].id]
         /\ u = <<>> => AtMost(c + n, Len(s)) = Len(s)
<1> DEFINE a    == AtMost(c, Len(s))
           b    == AtMost(c + n, Len(s))
           rest == SubSeq(s, c + 1, Len(s))
           q    == [i \in 1 .. a |-> s[i].id]
           t    == [i \in 1 .. b |-> s[i].id]
           z    == q \o IdsIn(u)
<1>1. Len(s) \in Nat /\ \A i \in 1 .. Len(s) : s[i] \in Projection
  BY LenProperties, ElementOfSeq
<1>2. \A i \in 1 .. Len(s) : s[i].id \in Ids
  BY <1>1 DEF Projection
<1>3. n \in Nat
  OBVIOUS
<1>4. /\ rest \in Seq(Projection)
      /\ Len(rest) = IF c < Len(s) THEN Len(s) - c ELSE 0
      /\ \A i \in 1 .. Len(rest) : c + i \in 1 .. Len(s) /\ rest[i] = s[c + i]
  BY RestFacts
<1>5. u = Limit(rest, n)
  OBVIOUS
<1> HIDE DEF rest, a, b
<1>6. /\ u \in Seq(Projection)
      /\ Len(u) = IF Len(rest) < n THEN Len(rest) ELSE n
      /\ \A i \in 1 .. Len(u) : i \in 1 .. Len(rest) /\ u[i] = rest[i]
  BY <1>3, <1>4, <1>5, LimitFacts
<1>7. /\ a \in Nat /\ b \in Nat /\ Len(u) \in Nat /\ a <= b /\ b <= Len(s) /\ Len(u) = b - a
      /\ Len(u) # 0 => a = c
      /\ Len(u) = 0 => b = Len(s)
  <2> DEFINE l == Len(s)
             k == Len(rest)
             m == Len(u)
  <2>1. /\ l \in Nat /\ a = AtMost(c, l) /\ b = AtMost(c + n, l)
        /\ k = (IF c < l THEN l - c ELSE 0) /\ m = AtMost(k, n)
    BY <1>1, <1>4, <1>6 DEF a, b, AtMost
  <2> HIDE DEF l, k, m
  <2>2. /\ a \in Nat /\ b \in Nat /\ m \in Nat /\ a <= b /\ b <= l /\ m = b - a
        /\ m # 0 => a = c
        /\ m = 0 => b = l
    BY <2>1 DEF AtMost
  <2> QED BY <2>2 DEF l, k, m
<1>8. \A i \in 1 .. Len(u) : a + i \in 1 .. Len(s) /\ u[i] = s[a + i]
  <2>1. ASSUME NEW i \in 1 .. Len(u) PROVE a = c
    <3>1. Len(u) # 0
      BY <1>7
    <3> QED BY <1>7, <3>1
  <2> QED BY <1>4, <1>6, <2>1
<1>9. DOMAIN u = 1 .. Len(u)
  BY <1>6, LenProperties
<1>10. q \in Seq(Ids) /\ Len(q) = a
  <2>1. \A i \in 1 .. a : s[i].id \in Ids
    BY <1>1, <1>2, <1>7
  <2>2. q \in [1 .. a -> Ids]
    BY <2>1
  <2> HIDE DEF q
  <2>3. q \in Seq(Ids)
    BY <1>7, <2>2, SeqDef
  <2> QED BY <1>7, <2>2, <2>3, LenProperties
<1>11. t \in Seq(Ids) /\ Len(t) = b
  <2>1. \A i \in 1 .. b : s[i].id \in Ids
    BY <1>1, <1>2, <1>7
  <2>2. t \in [1 .. b -> Ids]
    BY <2>1
  <2> HIDE DEF t
  <2>3. t \in Seq(Ids)
    BY <1>7, <2>2, SeqDef
  <2> QED BY <1>7, <2>2, <2>3, LenProperties
<1>12. IdsIn(u) \in Seq(Ids) /\ Len(IdsIn(u)) = Len(u) /\ \A i \in 1 .. Len(u) : IdsIn(u)[i] = s[a + i].id
  <2>1. \A i \in 1 .. Len(u) : u[i].id = s[a + i].id /\ u[i].id \in Ids
    BY <1>2, <1>8
  <2>2. IdsIn(u) \in [1 .. Len(u) -> Ids] /\ \A i \in 1 .. Len(u) : IdsIn(u)[i] = s[a + i].id
    BY <1>9, <2>1 DEF IdsIn
  <2>3. IdsIn(u) \in Seq(Ids)
    <3>1. Len(u) \in Nat
      BY <1>7
    <3> QED BY <2>2, <3>1, SeqDef
  <2> QED BY <1>7, <2>2, <2>3, LenProperties
<1>13. \A i \in 1 .. a : q[i] = s[i].id
  OBVIOUS
<1>14. \A i \in 1 .. b : t[i] = s[i].id
  OBVIOUS
<1> HIDE DEF q, t
<1>15. /\ z \in Seq(Ids) /\ Len(z) = Len(q) + Len(IdsIn(u))
       /\ \A i \in 1 .. Len(q) + Len(IdsIn(u)) : z[i] = IF i <= Len(q) THEN q[i] ELSE IdsIn(u)[i - Len(q)]
  <2> DEFINE w == IdsIn(u)
  <2>1. q \in Seq(Ids) /\ w \in Seq(Ids)
    BY <1>10, <1>12
  <2> HIDE DEF w
  <2>2. /\ q \o w \in Seq(Ids) /\ Len(q \o w) = Len(q) + Len(w)
        /\ \A i \in 1 .. Len(q) + Len(w) : (q \o w)[i] = IF i <= Len(q) THEN q[i] ELSE w[i - Len(q)]
    BY <2>1, ConcatProperties
  <2> QED BY <2>2 DEF w
<1> HIDE DEF z
<1>16. Len(z) = b
  <2>1. Len(z) = a + (b - a)
    BY <1>7, <1>10, <1>12, <1>15
  <2>2. a \in Nat /\ b \in Nat
    BY <1>7
  <2>3. a + (b - a) = b
    BY <2>2
  <2> QED BY <2>1, <2>3
<1>17. \A i \in 1 .. b : z[i] = IF i <= a THEN q[i] ELSE IdsIn(u)[i - a]
  <2>1. Len(q) = a /\ Len(q) + Len(IdsIn(u)) = b
    BY <1>10, <1>15, <1>16
  <2>2. \A i \in 1 .. b : z[i] = IF i <= Len(q) THEN q[i] ELSE IdsIn(u)[i - Len(q)]
    BY <1>15, <2>1
  <2> QED BY <2>1, <2>2
<1>18. ASSUME NEW i \in 1 .. b PROVE z[i] = t[i]
  <2>1. CASE i <= a
    <3>1. i \in 1 .. a
      BY <1>7, <2>1
    <3> QED BY <1>13, <1>14, <1>17, <2>1, <3>1
  <2>2. CASE ~(i <= a)
    <3>1. i - a \in 1 .. Len(u) /\ a + (i - a) = i
      <4>1. a \in Nat /\ b \in Nat /\ Len(u) = b - a /\ i \in 1 .. b
        BY <1>7
      <4>2. i - a \in 1 .. (b - a) /\ a + (i - a) = i
        BY <2>2, <4>1
      <4> QED BY <4>1, <4>2
    <3> QED BY <1>12, <1>14, <1>17, <2>2, <3>1
  <2> QED BY <2>1, <2>2
<1>19. z = t
  BY <1>11, <1>15, <1>16, <1>18, SeqEqual
<1>20. ASSUME u = <<>> PROVE b = Len(s)
  <2>1. Len(u) = 0
    BY <1>20, EmptySeq
  <2> QED BY <1>7, <2>1
<1> QED BY <1>19, <1>20 DEF q, t, z, a, b

-----------------------------------------------------------------------------
(***************************************************************************)
(* The walk: every step keeps the invariant.                               *)
(***************************************************************************)

\* What the invariant says is about the same rows after a page was received.
LEMMA SameRows ==
  ASSUME UNCHANGED <<projections, adapter, query>>
  PROVE  /\ IdsOf(Rows)' = IdsOf(Rows) /\ SortedResults' = SortedResults /\ (NoTies' <=> NoTies)
         /\ KeysetInv' <=> (paging' = "keyset" /\ steady' =>
              /\ expected' \subseteq IdsOf(Rows)
              /\ phase' = "walking" =>
                   /\ Last(page') \in Rows
                   /\ \A r \in Rows : r.id \in expected' =>
                        IF Passed(r, Last(page')) THEN Once(seen', r.id) ELSE Never(seen', r.id)
              /\ phase' = "done" => \A id \in expected' : Once(seen', id))
<1>1. IdsOf(Rows)' = IdsOf(Rows)
  BY DEF Rows, IdsOf
<1>2. SortedResults' = SortedResults
  BY DEF SortedResults, FilteredResults
<1>3. NoTies' <=> NoTies
  BY DEF NoTies, Rows
<1>4. KeysetInv' <=> (paging' = "keyset" /\ steady' =>
        /\ expected' \subseteq IdsOf(Rows)
        /\ phase' = "walking" =>
             /\ Last(page') \in Rows
             /\ \A r \in Rows : r.id \in expected' =>
                  IF Passed(r, Last(page')) THEN Once(seen', r.id) ELSE Never(seen', r.id)
        /\ phase' = "done" => \A id \in expected' : Once(seen', id))
  BY DEF KeysetInv, Passed, ComesBefore, Rows, Index, AllOrders, IdsOf, Last
<1> QED BY <1>1, <1>2, <1>3, <1>4

\* A page by keys: it starts where the walk stands.
LEMMA KeysetReceive ==
  ASSUME TypeOK, NEW pages, Receive(pages), NEW low \in Nat, \A u \in pages : SliceOf(u, Place, low),
         expected' \subseteq IdsOf(Rows),
         \A r \in Rows : r.id \in expected' => IF Place[r] < low THEN Once(seen, r.id) ELSE Never(seen, r.id)
  PROVE  KeysetInv'
<1> DEFINE u == page'
<1>1. /\ SliceOf(u, Place, low) /\ seen' = seen \o IdsIn(u)
      /\ phase' = (IF u = <<>> THEN "done" ELSE "walking")
  BY DEF Receive, IdsIn
<1>2. seen \in Seq(Ids)
  BY DEF TypeOK
<1> HIDE DEF u
<1>3. u \in Seq(Rows) /\ Ascending(u, Place)
  BY <1>1 DEF SliceOf
<1>4. /\ IdsIn(u) \in Seq(Ids)
      /\ \A r \in Rows : IF r \in ToSet(u) THEN Once(IdsIn(u), r.id) ELSE Never(IdsIn(u), r.id)
  BY <1>3, PageIds
<1>5. \A r \in Rows : Place[r] \in Nat
  BY PlaceFacts
<1>6. ASSUME NEW r \in Rows, r.id \in expected'
      PROVE  IF Place[r] < low \/ r \in ToSet(u) THEN Once(seen', r.id) ELSE Never(seen', r.id)
  <2>1. CASE Place[r] < low
    <3>1. r \notin ToSet(u)
      <4>1. ~(Place[r] \in low .. (low + PageSize - 1))
        BY <1>5, <2>1
      <4> QED BY <1>1, <4>1 DEF SliceOf
    <3>2. Once(seen, r.id) /\ Never(IdsIn(u), r.id)
      BY <1>4, <1>6, <2>1, <3>1
    <3>3. Once(seen \o IdsIn(u), r.id)
      BY <1>2, <1>4, <3>2, ConcatIds
    <3> QED BY <1>1, <2>1, <3>3
  <2>2. CASE ~(Place[r] < low) /\ r \in ToSet(u)
    <3>1. Never(seen, r.id) /\ Once(IdsIn(u), r.id)
      BY <1>4, <1>6, <2>2
    <3>2. Once(seen \o IdsIn(u), r.id)
      BY <1>2, <1>4, <3>1, ConcatIds
    <3> QED BY <1>1, <2>2, <3>2
  <2>3. CASE ~(Place[r] < low) /\ r \notin ToSet(u)
    <3>1. Never(seen, r.id) /\ Never(IdsIn(u), r.id)
      BY <1>4, <1>6, <2>3
    <3>2. Never(seen \o IdsIn(u), r.id)
      BY <1>2, <1>4, <3>1, ConcatIds
    <3> QED BY <1>1, <2>3, <3>2
  <2> QED BY <2>1, <2>2, <2>3
<1>7. ASSUME u = <<>>, NEW id \in expected' PROVE Once(seen', id)
  <2>1. PICK r \in Rows : r.id = id
    BY DEF IdsOf
  <2>2. Place[r] < low
    BY <1>1, <1>7, PageAdvance
  <2> QED BY <1>6, <2>1, <2>2
<1>8. ASSUME u # <<>>
      PROVE  /\ Last(u) \in Rows
             /\ \A r \in Rows : r.id \in expected' =>
                  IF Passed(r, Last(u)) THEN Once(seen', r.id) ELSE Never(seen', r.id)
  <2>1. /\ Last(u) \in Rows /\ low <= Place[Last(u)]
        /\ \A r \in Rows : r \in ToSet(u) <=> low <= Place[r] /\ Place[r] <= Place[Last(u)]
    BY <1>1, <1>8, PageAdvance
  <2>2. ASSUME NEW r \in Rows, r.id \in expected'
        PROVE  IF Passed(r, Last(u)) THEN Once(seen', r.id) ELSE Never(seen', r.id)
    <3>1. Passed(r, Last(u)) <=> Place[r] <= Place[Last(u)]
      BY <2>1, PassedFacts
    <3>2. Place[r] \in Nat /\ Place[Last(u)] \in Nat
      BY <1>5, <2>1
    <3>3. Place[r] <= Place[Last(u)] <=> Place[r] < low \/ r \in ToSet(u)
      BY <2>1, <3>2
    <3> QED BY <1>6, <2>2, <3>1, <3>3
  <2> QED BY <2>1, <2>2
<1>9. /\ phase' = "walking" =>
           /\ Last(page') \in Rows
           /\ \A r \in Rows : r.id \in expected' =>
                IF Passed(r, Last(page')) THEN Once(seen', r.id) ELSE Never(seen', r.id)
      /\ phase' = "done" => \A id \in expected' : Once(seen', id)
  BY <1>1, <1>7, <1>8 DEF u
<1>10. UNCHANGED <<projections, adapter, query>>
  BY DEF Receive
<1> QED BY <1>9, <1>10, SameRows

\* A page by offset: it starts where the pages before it end.
LEMMA OffsetReceive ==
  ASSUME TypeOK, OffsetInv, paging = "offset", NEW pages, Receive(pages),
         pages = (IF adapter = "memory" THEN {OffsetPageOfResults(number + 1)}
                  ELSE OffsetPagesOfRows(number + 1)),
         expected' \subseteq IdsOf(Rows)
  PROVE  OffsetInv'
<1> DEFINE c == number * PageSize
           s == SortedResults
<1>1. number \in Nat /\ PageSize \in Nat \ {0}
  BY TableFacts DEF TypeOK
<1>2. c \in Nat /\ OffsetPageOfResults(number + 1) = Limit(SubSeq(s, c + 1, Len(s)), PageSize)
  BY <1>1, OffsetFacts
<1>3. s \in Seq(Projection)
  BY SortedFacts, RowsFacts, SeqMonotonic
<1>4. number' * PageSize = c + PageSize
  <2>1. number' = number + 1
    BY DEF Receive
  <2>2. (number + 1) * PageSize = number * PageSize + PageSize
    BY <1>1
  <2> QED BY <2>1, <2>2
<1>5. s' = s /\ (NoTies' <=> NoTies) /\ IdsOf(Rows)' = IdsOf(Rows) /\ adapter' = adapter
  BY SameRows DEF Receive
<1>6. ASSUME Decided
      PROVE  /\ seen' = [i \in 1 .. AtMost(c + PageSize, Len(s)) |-> s[i].id]
             /\ page' = <<>> => AtMost(c + PageSize, Len(s)) = Len(s)
  <2>1. page' = Limit(SubSeq(s, c + 1, Len(s)), PageSize)
    <3>1. page' \in pages
      BY DEF Receive
    <3>2. CASE adapter = "memory"
      BY <1>2, <3>1, <3>2
    <3>3. CASE adapter # "memory"
      <4>1. adapter = "postgres"
        BY <3>3 DEF TypeOK
      <4>2. NoTies
        BY <1>6, <4>1 DEF Decided
      <4>3. OffsetPagesOfRows(number + 1) = {OffsetPageOfResults(number + 1)}
        BY <4>2, OffsetPagesAgree
      <4> QED BY <1>2, <3>1, <3>3, <4>3
    <3> QED BY <3>2, <3>3
  <2>2. seen = [i \in 1 .. AtMost(c, Len(s)) |-> s[i].id]
    BY <1>6 DEF OffsetInv, Covered
  <2>3. seen' = seen \o IdsIn(page')
    BY DEF Receive, IdsIn
  <2> HIDE DEF c, s
  <2>4. /\ [i \in 1 .. AtMost(c, Len(s)) |-> s[i].id] \o IdsIn(page')
             = [i \in 1 .. AtMost(c + PageSize, Len(s)) |-> s[i].id]
        /\ page' = <<>> => AtMost(c + PageSize, Len(s)) = Len(s)
    BY <1>1, <1>2, <1>3, <2>1, OffsetAdvance
  <2> QED BY <2>2, <2>3, <2>4
<1>7. phase' = "done" => page' = <<>>
  BY DEF Receive
<1>8. Decided' <=> Decided
  BY <1>5 DEF Decided
<1>9. Covered' = AtMost(c + PageSize, Len(s))
  BY <1>4, <1>5 DEF Covered
<1> HIDE DEF c, s
<1>10. Decided' => /\ seen' = [i \in 1 .. Covered' |-> s[i].id]
                   /\ phase' = "done" => Covered' = Len(s)
  BY <1>6, <1>7, <1>8, <1>9
<1> QED BY <1>5, <1>10 DEF OffsetInv, s

\* A save elsewhere leaves the record it does not concern where it is.
LEMMA IndexAfterPut ==
  ASSUME TypeOK, NEW r \in Projection, NEW x \in ToSet(projections), x.id # r.id
  PROVE  x \in ToSet(Put(r)) /\ (CHOOSE i \in DOMAIN Put(r) : Put(r)[i].id = x.id) = Index(x)
<1> DEFINE q == Put(r)
           k == Index(x)
<1>1. k \in DOMAIN projections /\ projections[k] = x
  BY IndexFacts
<1>2. k \in DOMAIN q /\ q[k] = x /\ \A i, j \in DOMAIN q : q[i].id = q[j].id => i = j
  BY <1>1, PutFacts
<1> HIDE DEF q, k
<1>3. (CHOOSE i \in DOMAIN q : q[i].id = x.id) = k
  <2>1. \E i \in DOMAIN q : q[i].id = x.id
    BY <1>2
  <2> DEFINE j == CHOOSE i \in DOMAIN q : q[i].id = x.id
  <2>2. j \in DOMAIN q /\ q[j].id = x.id
    BY <2>1
  <2> HIDE DEF j
  <2>3. j = k
    BY <1>2, <2>2
  <2> QED BY <2>3 DEF j
<1>4. x \in ToSet(q)
  BY <1>2 DEF ToSet
<1> QED BY <1>3, <1>4 DEF q, k

\* Nothing else is in the table after a save than was before, but what was saved.
LEMMA RowsAfterPut ==
  ASSUME TypeOK, NEW r \in Projection, NEW x \in ToSet(Put(r)), x.id # r.id
  PROVE  x \in ToSet(projections)
<1>1. /\ projections \in Seq(Projection) /\ DOMAIN projections = 1 .. Len(projections)
      /\ Len(projections) \in Nat
  BY TableFacts DEF TypeOK
<1>2. PICK i \in DOMAIN Put(r) : x = Put(r)[i]
  BY DEF ToSet
<1>3. CASE r.id \in IdsOf(ToSet(projections))
  <2>1. Put(r) = [j \in DOMAIN projections |->
                     IF projections[j].id = r.id THEN Updated(projections[j], r) ELSE projections[j]]
    BY <1>3 DEF Put
  <2>2. \A j \in DOMAIN projections : Updated(projections[j], r).id = projections[j].id
    BY <1>1, ElementOfSeq, UpdatedFacts
  <2>3. i \in DOMAIN projections /\ x = projections[i]
    BY <1>2, <2>1, <2>2
  <2> QED BY <2>3 DEF ToSet
<1>4. CASE r.id \notin IdsOf(ToSet(projections))
  <2>1. Put(r) = Append(projections, r)
    BY <1>4 DEF Put
  <2> DEFINE n == Len(projections)
             q == Put(r)
  <2>2. q \in Seq(Projection) /\ Len(q) = n + 1 /\ q[n + 1] = r /\ \A j \in 1 .. n : q[j] = projections[j]
    BY <1>1, <2>1, AppendProperties
  <2>3. DOMAIN q = 1 .. (n + 1)
    <3> HIDE DEF q, n
    <3> QED BY <2>2, LenProperties
  <2>4. x = q[i] /\ i \in DOMAIN q
    BY <1>2
  <2>5. n \in Nat /\ DOMAIN projections = 1 .. n
    BY <1>1
  <2> HIDE DEF q, n
  <2>6. i # n + 1
    BY <2>2, <2>4
  <2>7. i \in 1 .. n
    BY <2>3, <2>4, <2>5, <2>6
  <2>8. x = projections[i]
    BY <2>2, <2>4, <2>7
  <2> QED BY <2>5, <2>7, <2>8 DEF ToSet
<1> QED BY <1>3, <1>4

\* A save moves neither the record the walk stands on nor one that is expected.
LEMMA KeysetSave ==
  ASSUME TypeOK, KeysetInv, NEW r \in Projection, Save(r)
  PROVE  KeysetInv'
<1> DEFINE q        == Put(r)
           rows     == {x \in ToSet(q) : Matches(query.filters, x)}
           index(x) == CHOOSE i \in DOMAIN q : q[i].id = x.id
           before(x, y) ==
             \/ After(y, x, query.sort)
             \/ /\ ~After(x, y, query.sort)
                /\ IF adapter = "memory" THEN index(x) < index(y)
                   ELSE IF query.sort # <<>> /\ AllOrders("desc") THEN x.id > y.id
                   ELSE x.id < y.id
<1>1. /\ phase = "walking" /\ paging = "keyset" /\ projections' = q /\ expected' = expected \ {r.id}
      /\ steady' = (steady /\ Last(page).id # r.id)
      /\ UNCHANGED <<adapter, query, paging, phase, page, seen>>
  BY DEF Save
<1>2. KeysetInv' <=> (paging = "keyset" /\ steady' =>
        /\ expected' \subseteq IdsOf(rows)
        /\ phase = "walking" =>
             /\ Last(page) \in rows
             /\ \A x \in rows : x.id \in expected' =>
                  IF x = Last(page) \/ before(x, Last(page)) THEN Once(seen, x.id) ELSE Never(seen, x.id)
        /\ phase = "done" => \A id \in expected' : Once(seen, id))
  <2> HIDE DEF q
  <2> QED BY <1>1 DEF KeysetInv, Passed, ComesBefore, Rows, Index, AllOrders, IdsOf, Last
<1>3. SUFFICES ASSUME steady'
               PROVE  /\ expected' \subseteq IdsOf(rows)
                      /\ Last(page) \in rows
                      /\ \A x \in rows : x.id \in expected' =>
                           IF x = Last(page) \/ before(x, Last(page)) THEN Once(seen, x.id) ELSE Never(seen, x.id)
  BY <1>1, <1>2
<1>4. steady /\ Last(page).id # r.id
  BY <1>1, <1>3
<1>5. /\ expected \subseteq IdsOf(Rows) /\ Last(page) \in Rows
      /\ \A x \in Rows : x.id \in expected =>
           IF Passed(x, Last(page)) THEN Once(seen, x.id) ELSE Never(seen, x.id)
  BY <1>1, <1>4 DEF KeysetInv
<1>6. ASSUME NEW x \in Rows, x.id # r.id PROVE x \in rows /\ index(x) = Index(x)
  <2>1. x \in ToSet(projections) /\ Matches(query.filters, x)
    BY DEF Rows
  <2> QED BY <1>6, <2>1, IndexAfterPut
<1>7. ASSUME NEW x \in rows, x.id # r.id PROVE x \in Rows
  <2>1. x \in ToSet(projections)
    BY <1>7, RowsAfterPut
  <2> QED BY <2>1 DEF Rows
<1>8. expected' \subseteq IdsOf(rows)
  <2>1. ASSUME NEW id \in expected, id # r.id PROVE id \in IdsOf(rows)
    <3>1. PICK x \in Rows : x.id = id
      BY <1>5 DEF IdsOf
    <3>2. x \in rows
      BY <1>6, <2>1, <3>1
    <3> HIDE DEF rows
    <3> QED BY <3>1, <3>2 DEF IdsOf
  <2> QED BY <1>1, <2>1
<1>9. ASSUME NEW x \in Rows, NEW y \in Rows, x.id # r.id, y.id # r.id
      PROVE  before(x, y) <=> ComesBefore(x, y)
  <2>1. index(x) = Index(x) /\ index(y) = Index(y)
    BY <1>6, <1>9
  <2> HIDE DEF index
  <2> QED BY <2>1 DEF ComesBefore
<1>10. Last(page) \in rows
  BY <1>4, <1>5, <1>6
<1> HIDE DEF rows, before
<1>11. ASSUME NEW x \in rows, x.id \in expected'
       PROVE  IF x = Last(page) \/ before(x, Last(page)) THEN Once(seen, x.id) ELSE Never(seen, x.id)
  <2>1. x.id # r.id /\ x.id \in expected
    BY <1>1, <1>11
  <2>2. x \in Rows
    BY <1>7, <2>1
  <2>3. before(x, Last(page)) <=> ComesBefore(x, Last(page))
    BY <1>4, <1>5, <1>9, <2>1, <2>2
  <2> QED BY <1>5, <2>1, <2>2, <2>3 DEF Passed
<1> QED BY <1>8, <1>10, <1>11

LEMMA FirstStep ==
  ASSUME IInv, SearchFirst
  PROVE  KeysetInv' /\ OffsetInv'
<1>1. /\ TypeOK /\ number = 0 /\ seen = <<>> /\ Receive(FirstPages) /\ expected' = IdsOf(Rows)
      /\ UNCHANGED <<paging, adapter>> /\ OffsetInv /\ number + 1 = 1
  BY DEF IInv, IdleInv, SearchFirst, Receive
<1>2. CASE paging = "keyset"
  <2>1. \A u \in FirstPages : SliceOf(u, Place, 0)
    BY <1>1, <1>2, AnswersAreSlices DEF FirstPages
  <2>2. \A x \in Rows : ~(Place[x] < 0)
    BY <1>1, PlaceFacts
  <2>3. \A id : Never(seen, id)
    BY <1>1 DEF Never
  <2>4. KeysetInv'
    BY <1>1, <2>1, <2>2, <2>3, KeysetReceive
  <2> QED BY <1>1, <1>2, <2>4 DEF OffsetInv
<1>3. CASE paging = "offset"
  <2>1. FirstPages = IF adapter = "memory" THEN {OffsetPageOfResults(number + 1)}
                     ELSE OffsetPagesOfRows(number + 1)
    BY <1>1, <1>3 DEF FirstPages
  <2>2. OffsetInv'
    BY <1>1, <1>3, <2>1, OffsetReceive
  <2> QED BY <1>1, <1>3, <2>2 DEF KeysetInv
<1> QED BY <1>1, <1>2, <1>3 DEF TypeOK

LEMMA NextStep ==
  ASSUME IInv, SearchNext
  PROVE  KeysetInv' /\ OffsetInv'
<1> DEFINE last == Last(page)
<1>1. /\ TypeOK /\ phase = "walking" /\ Receive(NextPages) /\ expected' = expected
      /\ UNCHANGED <<paging, adapter, steady>> /\ KeysetInv /\ OffsetInv
      /\ ~(paging = "keyset" /\ adapter = "postgres" /\ PageRaises)
  BY DEF IInv, SearchNext, SearchFails, Receive
<1>2. CASE paging = "keyset" /\ steady
  <2>1. /\ expected \subseteq IdsOf(Rows) /\ last \in Rows
        /\ \A x \in Rows : x.id \in expected => IF Passed(x, last) THEN Once(seen, x.id) ELSE Never(seen, x.id)
    BY <1>1, <1>2 DEF KeysetInv
  <2>2. NextPages = {IF adapter = "memory" THEN PageOfResults(last.id, TRUE) ELSE PageOfRows(last.id, TRUE)}
    BY <1>2 DEF NextPages
  <2> HIDE DEF last
  <2>3. Place[last] \in Nat /\ Place[last] + 1 \in Nat /\ \A x \in Rows : Place[x] \in Nat
    BY <1>1, <2>1, PlaceFacts
  <2>4. SliceOf(IF adapter = "memory" THEN PageOfResults(last.id, TRUE) ELSE PageOfRows(last.id, TRUE),
                Place, Place[last] + 1)
    BY <1>1, <1>2, <2>1, AnswersAreSlices
  <2>5. \A u \in NextPages : SliceOf(u, Place, Place[last] + 1)
    BY <2>2, <2>4
  <2>6. ASSUME NEW x \in Rows, x.id \in expected
        PROVE  IF Place[x] < Place[last] + 1 THEN Once(seen, x.id) ELSE Never(seen, x.id)
    <3>1. Passed(x, last) <=> Place[x] <= Place[last]
      BY <1>1, <2>1, PassedFacts
    <3>2. Place[x] <= Place[last] <=> Place[x] < Place[last] + 1
      BY <2>3
    <3> QED BY <2>1, <2>6, <3>1, <3>2
  <2>7. KeysetInv'
    BY <1>1, <2>1, <2>3, <2>5, <2>6, KeysetReceive
  <2> QED BY <1>1, <1>2, <2>7 DEF OffsetInv
<1>3. CASE paging = "keyset" /\ ~steady
  BY <1>1, <1>3 DEF KeysetInv, OffsetInv
<1>4. CASE paging = "offset"
  <2>1. NextPages = IF adapter = "memory" THEN {OffsetPageOfResults(number + 1)}
                    ELSE OffsetPagesOfRows(number + 1)
    BY <1>4 DEF NextPages
  <2>2. expected' \subseteq IdsOf(Rows)
    BY <1>1, <1>4 DEF OffsetInv
  <2>3. OffsetInv'
    BY <1>1, <1>4, <2>1, <2>2, OffsetReceive
  <2> QED BY <1>1, <1>4, <2>3 DEF KeysetInv
<1> QED BY <1>1, <1>2, <1>3, <1>4 DEF TypeOK

LEMMA InitHolds ==
  ASSUME Init
  PROVE  IInv
<1>1. TypeOK
  <2>1. projections \in Seq(Projection) /\ \A i, j \in DOMAIN projections : projections[i].id = projections[j].id => i = j
    BY TablesAssumption DEF Init, Projection
  <2>2. page \in Seq(Projection) /\ seen \in Seq(Ids)
    BY DEF Init
  <2>3. saves \in 0 .. MaxSaves
    BY MaxSavesAssumption DEF Init
  <2> QED BY <2>1, <2>2, <2>3 DEF Init, TypeOK
<1>2. IdleInv /\ KeysetInv
  BY DEF Init, IdleInv, KeysetInv
<1>3. OffsetInv
  <2>1. Covered = 0
    <3>1. SortedResults \in Seq(Rows)
      BY <1>1, SortedFacts
    <3>2. Len(SortedResults) \in Nat
      BY <3>1, LenProperties
    <3>3. number * PageSize = 0
      BY PageSizeAssumption DEF Init
    <3> QED BY <3>2, <3>3 DEF Covered, AtMost
  <2>2. seen = [i \in 1 .. 0 |-> SortedResults[i].id]
    BY DEF Init
  <2> QED BY <2>1, <2>2 DEF Init, OffsetInv
<1> QED BY <1>1, <1>2, <1>3 DEF IInv

LEMMA InvariantStep ==
  ASSUME IInv, [Next]_vars
  PROVE  IInv'
<1>1. TypeOK'
  BY TypeStep DEF IInv
<1>2. CASE SearchFirst
  <2>1. IdleInv'
    BY <1>2 DEF SearchFirst, Receive, IdleInv
  <2> QED BY <1>1, <1>2, <2>1, FirstStep DEF IInv
<1>3. CASE SearchNext
  <2>1. IdleInv'
    BY <1>3 DEF SearchNext, Receive, IdleInv
  <2> QED BY <1>1, <1>3, <2>1, NextStep DEF IInv
<1>4. ASSUME NEW r \in Projection, Save(r) PROVE IInv'
  <2>1. IdleInv' /\ OffsetInv'
    BY <1>4 DEF Save, IdleInv, OffsetInv
  <2>2. KeysetInv'
    BY <1>4, KeysetSave DEF IInv
  <2> QED BY <1>1, <2>1, <2>2 DEF IInv
<1>6. CASE SearchRaises
  <2>1. /\ UNCHANGED <<projections, adapter, query, paging, number, page, seen, expected, steady>>
        /\ phase' = "failed" /\ paging = "keyset"
    BY <1>6 DEF SearchRaises, SearchFails
  <2>2. IdleInv' /\ OffsetInv'
    BY <2>1 DEF IdleInv, OffsetInv
  <2>3. IdsOf(Rows)' = IdsOf(Rows)
    BY <2>1 DEF IdsOf, Rows
  <2>4. KeysetInv'
    BY <2>1, <2>3 DEF IInv, KeysetInv
  <2> QED BY <1>1, <2>2, <2>4 DEF IInv
<1>5. CASE UNCHANGED vars
  <2>1. UNCHANGED <<projections, adapter, query, paging, phase, number, page, seen, expected, steady>>
    BY <1>5 DEF vars
  <2>2. IdleInv'
    BY <2>1 DEF IInv, IdleInv
  <2>3. KeysetInv'
    BY <2>1, SameRows DEF IInv, KeysetInv
  <2>4. Covered' = Covered /\ (Decided' <=> Decided) /\ IdsOf(Rows)' = IdsOf(Rows) /\ SortedResults' = SortedResults
    BY <2>1, SameRows DEF Covered, Decided
  <2>5. OffsetInv'
    BY <2>1, <2>4 DEF IInv, OffsetInv
  <2> QED BY <1>1, <2>2, <2>3, <2>5 DEF IInv
<1> QED BY <1>2, <1>3, <1>4, <1>5, <1>6 DEF Next, Done

\* The walk: a record seen once is at one place of what was received.
LEMMA OnceCounted ==
  ASSUME NEW q, NEW id, Once(q, id)
  PROVE  Cardinality({i \in DOMAIN q : q[i] = id}) = 1
<1>1. PICK i \in DOMAIN q : q[i] = id /\ \A j \in DOMAIN q : q[j] = id => j = i
  BY DEF Once
<1>2. {j \in DOMAIN q : q[j] = id} = {i}
  BY <1>1
<1> QED BY <1>2, FS_Singleton

LEMMA WalkHolds ==
  ASSUME IInv
  PROVE  WalkSeesEachOnce
<1> SUFFICES ASSUME phase = "done", steady, paging = "offset" /\ adapter = "postgres" => NoTies,
                    NEW id \in expected
             PROVE  Once(seen, id)
  BY OnceCounted DEF WalkSeesEachOnce
<1>1. CASE paging = "keyset"
  BY <1>1 DEF IInv, KeysetInv
<1>2. CASE paging = "offset"
  <2> DEFINE s == SortedResults
  <2>1. Decided
    BY <1>2 DEF Decided
  <2>2. expected \subseteq IdsOf(Rows) /\ seen = [i \in 1 .. Len(s) |-> s[i].id]
    BY <1>2, <2>1 DEF IInv, OffsetInv
  <2>3. adapter = "memory" \/ NoTies
    BY <2>1 DEF Decided, IInv, TypeOK
  <2>4. s \in Seq(Rows) /\ ToSet(s) = Rows /\ Ascending(s, Place)
    BY <2>3, ResultsRanked DEF IInv
  <2> HIDE DEF s
  <2>5. PICK r \in Rows : r.id = id
    BY <2>2 DEF IdsOf
  <2>6. Once(IdsIn(s), id)
    BY <2>4, <2>5, PageIds DEF IInv
  <2>7. IdsIn(s) = seen
    BY <2>2, <2>4, LenProperties DEF IdsIn
  <2> QED BY <2>6, <2>7
<1> QED BY <1>1, <1>2 DEF IInv, TypeOK

-----------------------------------------------------------------------------
\* The inductive invariant holds in every state of every walk: a walk by keys
\* stands on a row and has received the expected records up to it once each and
\* none beyond; one by offset has received the results up to the end of its last
\* page.
THEOREM Invariant == Spec => []IInv
<1>1. Init => IInv
  BY InitHolds
<1>2. IInv /\ [Next]_vars => IInv'
  BY InvariantStep
<1> QED BY <1>1, <1>2, PTL DEF Spec

\* Whatever the tables, the queries and the size of the pages: the ids in the
\* store stay unique under save, and what the converters answer are lists of
\* projections, also when the record the walk stands on has left the results.
THEOREM TypeCorrect == Spec => []TypeOK
<1>1. IInv => TypeOK
  BY DEF IInv
<1> QED BY <1>1, Invariant, PTL

\* Every page by keys, forwards and backwards, of the in-memory transformers and
\* of each of the statements that the postgres converters build (no sort, all
\* ascending, all descending, mixed), is the stretch of PageSize records next to
\* the record it is asked for in the total order of the results; but for a mixed
\* sort that names a path, the id or a column twice, whose statement fails.
THEOREM PagesAreSlices == Spec => []PageIsSlice
<1>1. IInv => PageIsSlice
  BY SlicesHold DEF IInv
<1> QED BY <1>1, Invariant, PTL

\* A client that walks over all the pages, by keys while projections are saved
\* or by offset, receives each record that was there from the start, and was not
\* saved meanwhile, exactly once, if no search raises on the way.
THEOREM WalkComplete == Spec => []WalkSeesEachOnce
<1>1. IInv => WalkSeesEachOnce
  BY WalkHolds
<1> QED BY <1>1, Invariant, PTL

\* Where no two rows are equal in the fields of the sort, the repeated stable
\* sorts and cuts in memory and the SQL answer every search with the same page,
\* if the SQL answers: the in-memory adapter stands in for the postgres one
\* except that it never fails on a mixed sort.
THEOREM AdaptersExchangeable == Spec => []AdaptersAgree
<1>1. IInv => AdaptersAgree
  BY AgreementHolds DEF IInv
<1> QED BY <1>1, Invariant, PTL
=============================================================================
