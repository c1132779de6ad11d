------------------------ MODULE InProcessBrokerProofs ------------------------
(***************************************************************************)
(* Safety of the broker that keeps its state in its own process: for any   *)
(* number of subscribers, failures and changes of health.                  *)
(***************************************************************************)
EXTENDS InProcessBroker, SequenceTheorems, WellFoundedInduction, TLAPS

EntryType == [id : Subscribers, age : 0 .. MaxAge]

\* No subscriber has two entries in the list.
Unique(list) == \A i, j \in DOMAIN list : list[i].id = list[j].id => i = j

\* The subscriber has been seen within so many heartbeat intervals.
Seen(list, s, a) == \E i \in DOMAIN list : list[i].id = s /\ list[i].age <= a

-----------------------------------------------------------------------------
(***************************************************************************)
(* Induction over the steps of a loop, by its least counterexample.        *)
(***************************************************************************)

\* A set of numbers that has 0 and, with each number below a bound, the next
\* one, has all numbers up to the bound.
LEMMA BoundedInduction ==
  ASSUME NEW N \in Nat, NEW P \in SUBSET Nat,
         0 \in P, \A n \in P : n < N => n + 1 \in P
  PROVE  0 .. N \subseteq P
<1> DEFINE T == (0 .. N) \ P
<1>1. SUFFICES ASSUME T # {} PROVE FALSE
  OBVIOUS
<1>2. T \subseteq Nat
  OBVIOUS
<1>3. PICK x \in T : \A y \in T : ~ (<<y, x>> \in OpToRel(<, Nat))
  <2> HIDE DEF T
  <2> QED BY <1>1, <1>2, WFMin, NatLessThanWellFounded
<1>4. x \in 1 .. N /\ x - 1 \in 0 .. N
  OBVIOUS
<1>5. x - 1 \notin T
  <2>1. <<x - 1, x>> \in OpToRel(<, Nat)
    BY <1>4 DEF OpToRel
  <2> QED BY <1>3, <2>1
<1>6. x - 1 \in P /\ x - 1 < N
  BY <1>4, <1>5
<1>7. x \in P
  <2>1. (x - 1) + 1 = x
    BY <1>4
  <2> QED BY <1>6, <2>1
<1> QED BY <1>7

\* The list without its k-th element.
LEMMA RemoveAtFacts ==
  ASSUME NEW S, NEW s \in Seq(S), NEW k \in DOMAIN s
  PROVE  /\ RemoveAt(s, k) \in Seq(S)
         /\ Len(RemoveAt(s, k)) = Len(s) - 1
         /\ DOMAIN RemoveAt(s, k) = 1 .. (Len(s) - 1)
         /\ \A i \in 1 .. (Len(s) - 1) :
              RemoveAt(s, k)[i] = IF i < k THEN s[i] ELSE s[i + 1]
<1> DEFINE a == SubSeq(s, 1, k - 1)
           b == SubSeq(s, k + 1, Len(s))
<1>1. Len(s) \in Nat /\ k \in 1 .. Len(s) /\ \A i \in 1 .. Len(s) : s[i] \in S
  BY LenProperties, ElementOfSeq
<1>2. a \in Seq(S) /\ Len(a) = k - 1 /\ \A i \in 1 .. (k - 1) : a[i] = s[i]
  <2>1. 1 \in Int /\ k - 1 \in Int /\ \A i \in 1 .. (k - 1) : s[i] \in S
    BY <1>1
  <2>2. /\ SubSeq(s, 1, k - 1) \in Seq(S)
        /\ Len(SubSeq(s, 1, k - 1)) = IF 1 <= k - 1 THEN (k - 1) - 1 + 1 ELSE 0
        /\ \A i \in 1 .. (k - 1) - 1 + 1 : SubSeq(s, 1, k - 1)[i] = s[1 + i - 1]
    BY <2>1, SubSeqProperties
  <2>3. \A i \in 1 .. (k - 1) : i \in 1 .. (k - 1) - 1 + 1 /\ 1 + i - 1 = i
    BY <1>1
  <2>4. Len(a) = k - 1
    BY <1>1, <2>2
  <2> QED BY <2>2, <2>3, <2>4
<1>3. /\ b \in Seq(S) /\ Len(b) = Len(s) - k
      /\ \A i \in 1 .. (Len(s) - k) : b[i] = s[k + i]
  <2>1. k + 1 \in Int /\ Len(s) \in Int /\ \A i \in (k + 1) .. Len(s) : s[i] \in S
    BY <1>1
  <2>2. /\ SubSeq(s, k + 1, Len(s)) \in Seq(S)
        /\ Len(SubSeq(s, k + 1, Len(s))) = IF k + 1 <= Len(s) THEN Len(s) - (k + 1) + 1 ELSE 0
        /\ \A i \in 1 .. Len(s) - (k + 1) + 1 : SubSeq(s, k + 1, Len(s))[i] = s[(k + 1) + i - 1]
    BY <2>1, SubSeqProperties
  <2>3. \A i \in 1 .. (Len(s) - k) : i \in 1 .. Len(s) - (k + 1) + 1 /\ (k + 1) + i - 1 = k + i
    BY <1>1
  <2>4. Len(b) = Len(s) - k
    BY <1>1, <2>2
  <2> QED BY <2>2, <2>3, <2>4
<1> HIDE DEF a, b
<1>4. RemoveAt(s, k) = a \o b
  BY DEF RemoveAt, a, b
<1>5. a \o b \in Seq(S) /\ Len(a \o b) = Len(a) + Len(b)
  BY <1>2, <1>3, ConcatProperties
<1>6. \A i \in 1 .. Len(a) + Len(b) : (a \o b)[i] = IF i <= Len(a) THEN a[i] ELSE b[i - Len(a)]
  BY <1>2, <1>3, ConcatProperties
<1>7. Len(a) + Len(b) = Len(s) - 1
  BY <1>1, <1>2, <1>3
<1>8. ASSUME NEW i \in 1 .. (Len(s) - 1)
      PROVE  (a \o b)[i] = IF i < k THEN s[i] ELSE s[i + 1]
  <2>1. CASE i < k
    BY <1>1, <1>2, <1>6, <1>7, <2>1
  <2>2. CASE ~(i < k)
    <3>1. i - Len(a) \in 1 .. (Len(s) - k) /\ k + (i - Len(a)) = i + 1
      BY <1>1, <1>2, <2>2
    <3>2. (a \o b)[i] = b[i - Len(a)]
      <4>1. i \in 1 .. Len(a) + Len(b) /\ Len(a) = k - 1
        BY <1>2, <1>7
      <4>2. ~(i <= Len(a))
        BY <1>1, <2>2, <4>1
      <4> QED BY <1>6, <4>1, <4>2
    <3> QED BY <1>3, <2>2, <3>1, <3>2
  <2> QED BY <2>1, <2>2
<1> QED BY <1>4, <1>5, <1>7, <1>8, LenProperties

-----------------------------------------------------------------------------
(***************************************************************************)
(* What the operations of the subscriber state store do to its list.       *)
(***************************************************************************)

\* The store finds the one entry of the subscriber.
LEMMA PlaceFacts ==
  ASSUME NEW list \in Seq(EntryType), Unique(list), NEW s, Has(list, s)
  PROVE  Place(list, s) \in DOMAIN list /\ list[Place(list, s)].id = s
<1>1. PICK i \in DOMAIN list : list[i].id = s
  BY DEF Has
<1>2. \A j \in 1 .. (i - 1) : j \in DOMAIN list /\ j # i
  BY LenProperties
<1>3. \A j \in 1 .. (i - 1) : list[j].id # s
  BY <1>1, <1>2 DEF Unique
<1>4. \E k \in DOMAIN list : list[k].id = s /\ \A j \in 1 .. (k - 1) : list[j].id # s
  BY <1>1, <1>3
<1> QED BY <1>4 DEF Place

\* A heartbeat makes the subscriber's entry new and leaves the others alone.
LEMMA BeatFacts ==
  ASSUME NEW list \in Seq(EntryType), Unique(list), NEW s \in Subscribers
  PROVE  /\ Beat(list, s) \in Seq(EntryType)
         /\ Unique(Beat(list, s))
         /\ Has(list, s) => Seen(Beat(list, s), s, 0)
         /\ \A t : \A a \in Nat : Seen(list, t, a) => Seen(Beat(list, s), t, a)
<1>1. CASE ~Has(list, s)
  BY <1>1 DEF Beat
<1>2. CASE Has(list, s)
  <2> DEFINE k == Place(list, s)
             new == [list EXCEPT ![k] = Entry(s)]
  <2>1. k \in DOMAIN list /\ list[k].id = s
    BY <1>2, PlaceFacts
  <2>2. Beat(list, s) = new
    BY <1>2 DEF Beat
  <2> HIDE DEF k
  <2>3. Entry(s) \in EntryType /\ Entry(s).id = s /\ Entry(s).age = 0
    BY AgesAssumption DEF Entry, EntryType
  <2>4. DOMAIN list = 1 .. Len(list) /\ Len(list) \in Nat
    BY LenProperties
  <2>5. /\ new \in Seq(EntryType) /\ DOMAIN new = DOMAIN list
        /\ \A j \in DOMAIN list : new[j] = IF j = k THEN Entry(s) ELSE list[j]
    BY <2>1, <2>3, <2>4, ExceptSeq
  <2> HIDE DEF new
  <2>6. \A j \in DOMAIN list : new[j].id = list[j].id
    BY <2>1, <2>3, <2>5
  <2>7. Unique(new)
    BY <2>5, <2>6 DEF Unique
  <2>8. Seen(new, s, 0)
    BY <2>1, <2>3, <2>5 DEF Seen
  <2>9. ASSUME NEW t, NEW a \in Nat, Seen(list, t, a)
        PROVE  Seen(new, t, a)
    <3>1. PICK j \in DOMAIN list : list[j].id = t /\ list[j].age <= a
      BY <2>9 DEF Seen
    <3>2. new[j].id = t /\ new[j].age <= a
      BY <2>1, <2>3, <2>5, <3>1
    <3> QED BY <2>5, <3>2 DEF Seen
  <2> QED BY <2>2, <2>5, <2>7, <2>8, <2>9
<1> QED BY <1>1, <1>2

\* Adding a subscriber leaves it with one entry, new or renewed.
LEMMA StoreFacts ==
  ASSUME NEW list \in Seq(EntryType), Unique(list), NEW s \in Subscribers
  PROVE  /\ Store(list, s) \in Seq(EntryType)
         /\ Unique(Store(list, s))
         /\ Seen(Store(list, s), s, 0)
         /\ \A t : \A a \in Nat : Seen(list, t, a) => Seen(Store(list, s), t, a)
<1>1. CASE Has(list, s)
  BY <1>1, BeatFacts DEF Store
<1>2. CASE ~Has(list, s)
  <2> DEFINE new == Append(list, Entry(s))
  <2>1. Store(list, s) = new
    BY <1>2 DEF Store
  <2>2. Entry(s) \in EntryType /\ Entry(s).id = s /\ Entry(s).age = 0
    BY AgesAssumption DEF Entry, EntryType
  <2>3. DOMAIN list = 1 .. Len(list) /\ Len(list) \in Nat
    BY LenProperties
  <2>4. /\ new \in Seq(EntryType) /\ Len(new) = Len(list) + 1
        /\ \A i \in 1 .. Len(list) : new[i] = list[i]
        /\ new[Len(list) + 1] = Entry(s)
    BY <2>2, AppendProperties
  <2>5. DOMAIN new = 1 .. (Len(list) + 1)
    BY <2>4, LenProperties
  <2> HIDE DEF new
  <2>6. \A i \in DOMAIN new : i \in DOMAIN list \/ i = Len(list) + 1
    BY <2>3, <2>5
  <2>7. \A i \in DOMAIN list : list[i].id # s
    BY <1>2 DEF Has
  <2>8. Unique(new)
    <3> SUFFICES ASSUME NEW i \in DOMAIN new, NEW j \in DOMAIN new, new[i].id = new[j].id
                 PROVE  i = j
      BY DEF Unique
    <3>1. CASE i \in DOMAIN list /\ j \in DOMAIN list
      BY <2>3, <2>4, <3>1 DEF Unique
    <3>2. CASE i = Len(list) + 1 /\ j \in DOMAIN list
      BY <2>2, <2>3, <2>4, <2>7, <3>2
    <3>3. CASE j = Len(list) + 1 /\ i \in DOMAIN list
      BY <2>2, <2>3, <2>4, <2>7, <3>3
    <3> QED BY <2>6, <3>1, <3>2, <3>3
  <2>9. Seen(new, s, 0)
    <3>1. Len(list) + 1 \in DOMAIN new
      BY <2>3, <2>5
    <3> QED BY <2>2, <2>4, <3>1 DEF Seen
  <2>10. ASSUME NEW t, NEW a \in Nat, Seen(list, t, a)
         PROVE  Seen(new, t, a)
    <3>1. PICK j \in DOMAIN list : list[j].id = t /\ list[j].age <= a
      BY <2>10 DEF Seen
    <3>2. j \in DOMAIN new /\ new[j] = list[j]
      BY <2>3, <2>4, <2>5
    <3> QED BY <3>1, <3>2 DEF Seen
  <2> QED BY <2>1, <2>4, <2>8, <2>9, <2>10
<1> QED BY <1>1, <1>2

\* Taking an element out of a list gives none of the others a second entry.
LEMMA RemoveAtKeepsUnique ==
  ASSUME NEW list \in Seq(EntryType), Unique(list), NEW k \in DOMAIN list
  PROVE  /\ RemoveAt(list, k) \in Seq(EntryType)
         /\ Unique(RemoveAt(list, k))
         /\ \A i \in DOMAIN list : i # k => \E j \in DOMAIN RemoveAt(list, k) : RemoveAt(list, k)[j] = list[i]
<1> DEFINE new == RemoveAt(list, k)
<1>1. /\ new \in Seq(EntryType)
      /\ DOMAIN new = 1 .. (Len(list) - 1)
      /\ \A i \in 1 .. (Len(list) - 1) : new[i] = IF i < k THEN list[i] ELSE list[i + 1]
  BY RemoveAtFacts
<1>2. DOMAIN list = 1 .. Len(list) /\ Len(list) \in Nat
  BY LenProperties
<1> HIDE DEF new
<1>3. Unique(new)
  <2> SUFFICES ASSUME NEW i \in DOMAIN new, NEW j \in DOMAIN new, new[i].id = new[j].id
               PROVE  i = j
    BY DEF Unique
  <2> DEFINE from(x) == IF x < k THEN x ELSE x + 1
  <2>1. from(i) \in DOMAIN list /\ from(j) \in DOMAIN list
    BY <1>1, <1>2
  <2>2. new[i] = list[from(i)] /\ new[j] = list[from(j)]
    BY <1>1
  <2>3. from(i) = from(j)
    BY <2>1, <2>2 DEF Unique
  <2> QED BY <1>1, <1>2, <2>3
<1>4. ASSUME NEW i \in DOMAIN list, i # k
      PROVE  \E j \in DOMAIN new : new[j] = list[i]
  <2>1. CASE i < k
    <3>1. i \in DOMAIN new /\ new[i] = list[i]
      BY <1>1, <1>2, <2>1
    <3> QED BY <3>1
  <2>2. CASE i > k
    <3>1. i - 1 \in DOMAIN new /\ ~(i - 1 < k) /\ (i - 1) + 1 = i
      BY <1>1, <1>2, <2>2
    <3>2. new[i - 1] = list[i]
      BY <1>1, <3>1
    <3> QED BY <3>1, <3>2
  <2> QED BY <1>2, <1>4, <2>1, <2>2
<1> QED BY <1>1, <1>3, <1>4 DEF new

\* Removing a subscriber leaves a list without repetition.
LEMMA WithoutFacts ==
  ASSUME NEW list \in Seq(EntryType), Unique(list), NEW s
  PROVE  Without(list, s) \in Seq(EntryType) /\ Unique(Without(list, s))
BY PlaceFacts, RemoveAtKeepsUnique DEF Without

(***************************************************************************)
(* The loop of purge.  Scans(list) are the states of the loop in which no  *)
(* entry that is not expired has been lost.                                *)
(***************************************************************************)
Scans(list) ==
  {r \in [list : Seq(EntryType), next : Nat \ {0}] :
     /\ Unique(r.list)
     /\ \A i \in DOMAIN list :
          ~Expired(list[i]) => \E j \in DOMAIN r.list : r.list[j] = list[i]}

Start(list) == [list |-> list, next |-> 1]

\* One step of the loop keeps what is not expired, and removes what it meets
\* that is.
LEMMA VisitFacts ==
  ASSUME NEW list, NEW r \in Scans(list)
  PROVE  /\ Visit(r) \in Scans(list)
         /\ Len(Visit(r).list) <= Len(r.list)
         /\ r.next \in DOMAIN r.list =>
              /\ Expired(r.list[r.next]) => Len(Visit(r).list) < Len(r.list)
              /\ ~Expired(r.list[r.next]) => Visit(r).list = r.list
              /\ Visit(r).next = r.next + 1
<1>1. /\ r = [list |-> r.list, next |-> r.next]
      /\ r.list \in Seq(EntryType) /\ r.next \in Nat \ {0} /\ Unique(r.list)
      /\ \A i \in DOMAIN list :
           ~Expired(list[i]) => \E j \in DOMAIN r.list : r.list[j] = list[i]
  BY DEF Scans
<1>2. DOMAIN r.list = 1 .. Len(r.list) /\ Len(r.list) \in Nat
  BY <1>1, LenProperties
<1>3. CASE r.next > Len(r.list)
  <2>1. Visit(r) = r /\ r.next \notin DOMAIN r.list
    BY <1>1, <1>2, <1>3 DEF Visit
  <2> QED BY <1>2, <2>1
<1>4. CASE ~(r.next > Len(r.list)) /\ ~Expired(r.list[r.next])
  <2>1. Visit(r) = [list |-> r.list, next |-> r.next + 1]
    BY <1>4 DEF Visit
  <2>2. Visit(r).list = r.list /\ Visit(r).next = r.next + 1 /\ r.next + 1 \in Nat \ {0}
    BY <1>1, <2>1
  <2>3. Visit(r) \in Scans(list)
    BY <1>1, <2>1, <2>2 DEF Scans
  <2> QED BY <1>2, <1>4, <2>2, <2>3
<1>5. CASE ~(r.next > Len(r.list)) /\ Expired(r.list[r.next])
  <2> DEFINE new == RemoveAt(r.list, r.next)
  <2>1. Visit(r) = [list |-> new, next |-> r.next + 1]
    BY <1>5 DEF Visit
  <2>2. r.next \in DOMAIN r.list
    BY <1>1, <1>2, <1>5
  <2>3. /\ new \in Seq(EntryType) /\ Unique(new) /\ Len(new) = Len(r.list) - 1
        /\ \A j \in DOMAIN r.list : j # r.next => \E k \in DOMAIN new : new[k] = r.list[j]
    BY <1>1, <2>2, RemoveAtKeepsUnique, RemoveAtFacts
  <2> HIDE DEF new
  <2>4. Visit(r).list = new /\ Visit(r).next = r.next + 1 /\ r.next + 1 \in Nat \ {0}
    BY <1>1, <2>1
  <2>5. ASSUME NEW i \in DOMAIN list, ~Expired(list[i])
        PROVE  \E k \in DOMAIN new : new[k] = list[i]
    <3>1. PICK j \in DOMAIN r.list : r.list[j] = list[i]
      BY <1>1, <2>5
    <3>2. j # r.next
      BY <1>5, <2>5, <3>1
    <3> QED BY <2>3, <3>1, <3>2
  <2>6. Visit(r) \in [list : Seq(EntryType), next : Nat \ {0}]
    BY <2>1, <2>3, <2>4
  <2>7. Visit(r) \in Scans(list)
    BY <2>3, <2>4, <2>5, <2>6 DEF Scans
  <2>8. Len(new) < Len(r.list)
    BY <1>2, <2>3
  <2> QED BY <1>2, <1>5, <2>2, <2>4, <2>7, <2>8
<1> QED BY <1>3, <1>4, <1>5

\* The states that the loop goes through.
IsScan(f, list, m) ==
  /\ f \in [0 .. m -> Scans(list)]
  /\ f[0] = Start(list)
  /\ \A n \in 1 .. m : f[n] = Visit(f[n - 1])

\* There is a run of the loop of each length.
LEMMA ScanExists ==
  ASSUME NEW list \in Seq(EntryType), Unique(list), NEW N \in Nat
  PROVE  \E f : IsScan(f, list, N)
<1> DEFINE P == {m \in Nat : \E f : IsScan(f, list, m)}
<1>1. Start(list) \in Scans(list)
  BY DEF Start, Scans
<1>2. 0 \in P
  <2> DEFINE f == [n \in 0 .. 0 |-> Start(list)]
  <2>1. f \in [0 .. 0 -> Scans(list)] /\ f[0] = Start(list)
    BY <1>1
  <2>2. \A n \in 1 .. 0 : f[n] = Visit(f[n - 1])
    OBVIOUS
  <2>3. IsScan(f, list, 0)
    BY <2>1, <2>2 DEF IsScan
  <2> QED BY <2>3
<1>3. ASSUME NEW m \in P PROVE m + 1 \in P
  <2>1. PICK g : IsScan(g, list, m)
    OBVIOUS
  <2> DEFINE f == [n \in 0 .. (m + 1) |-> IF n <= m THEN g[n] ELSE Visit(g[m])]
  <2>2. m \in Nat /\ g \in [0 .. m -> Scans(list)] /\ g[0] = Start(list)
    BY <2>1 DEF IsScan
  <2>3. \A n \in 0 .. m : g[n] \in Scans(list)
    BY <2>2
  <2>4. Visit(g[m]) \in Scans(list)
    BY <2>2, <2>3, VisitFacts
  <2>5. f \in [0 .. (m + 1) -> Scans(list)]
    BY <2>2, <2>3, <2>4
  <2>6. f[0] = Start(list)
    BY <2>2
  <2>7. ASSUME NEW n \in 1 .. (m + 1) PROVE f[n] = Visit(f[n - 1])
    <3>1. n - 1 \in 0 .. m /\ n \in 0 .. (m + 1) /\ n - 1 \in 0 .. (m + 1)
      BY <2>2
    <3>2. f[n - 1] = g[n - 1]
      BY <3>1
    <3>3. CASE n <= m
      <4>1. f[n] = g[n] /\ n \in 1 .. m
        BY <2>2, <3>1, <3>3
      <4> QED BY <2>1, <3>2, <4>1 DEF IsScan
    <3>4. CASE ~(n <= m)
      <4>1. n - 1 = m /\ f[n] = Visit(g[m])
        BY <2>2, <3>1, <3>4
      <4> QED BY <3>2, <4>1
    <3> QED BY <3>3, <3>4
  <2>8. IsScan(f, list, m + 1)
    BY <2>5, <2>6, <2>7 DEF IsScan
  <2> QED BY <2>2, <2>8
<1> HIDE DEF P
<1>4. P \in SUBSET Nat
  BY DEF P
<1>5. 0 .. N \subseteq P
  BY <1>2, <1>3, <1>4, BoundedInduction
<1> QED BY <1>5 DEF P

\* purge keeps every entry that is not expired, gives nobody a second one, and
\* shortens the list if anything is expired, though it may pass over some.
LEMMA PurgedFacts ==
  ASSUME NEW list \in Seq(EntryType), Unique(list)
  PROVE  /\ Purged(list) \in Seq(EntryType)
         /\ Unique(Purged(list))
         /\ \A i \in DOMAIN list :
              ~Expired(list[i]) => \E j \in DOMAIN Purged(list) : Purged(list)[j] = list[i]
         /\ (\E i \in DOMAIN list : Expired(list[i])) => Len(Purged(list)) < Len(list)
<1> DEFINE N == Len(list)
           Step(f) == [n \in 0 .. N |-> IF n = 0 THEN Start(list) ELSE Visit(f[n - 1])]
           scan == CHOOSE f : f = Step(f)
<1>1. N \in Nat /\ DOMAIN list = 1 .. N
  BY LenProperties
<1>2. Purged(list) = scan[N].list
  BY DEF Purged, Start
<1> HIDE DEF N
<1>3. PICK g : IsScan(g, list, N)
  BY <1>1, ScanExists
<1>4. g = Step(g)
  <2>1. g = [n \in 0 .. N |-> g[n]]
    BY <1>3 DEF IsScan
  <2>2. \A n \in 0 .. N : g[n] = IF n = 0 THEN Start(list) ELSE Visit(g[n - 1])
    <3> TAKE n \in 0 .. N
    <3>1. n = 0 \/ n \in 1 .. N
      BY <1>1
    <3> QED BY <1>3, <3>1 DEF IsScan
  <2> QED BY <2>1, <2>2
<1>5. scan = Step(scan)
  <2> HIDE DEF Step
  <2> QED BY <1>4
<1> HIDE DEF scan
<1>6. /\ scan[0] = Start(list)
      /\ \A n \in 1 .. N : scan[n] = Visit(scan[n - 1])
  <2>1. 0 \in 0 .. N
    BY <1>1
  <2>2. \A n \in 1 .. N : n \in 0 .. N /\ n # 0
    BY <1>1
  <2> QED BY <1>5, <2>1, <2>2
<1> HIDE DEF Step
<1> DEFINE Clean(n) == \A i \in 1 .. n : i \in DOMAIN list => ~Expired(list[i])
           P == {n \in 0 .. N :
                   /\ scan[n] \in Scans(list)
                   /\ \/ scan[n].list = list /\ scan[n].next = n + 1 /\ Clean(n)
                      \/ Len(scan[n].list) < N}
<1>7. 0 \in P
  <2>1. Start(list) \in Scans(list) /\ Start(list).list = list /\ Start(list).next = 0 + 1
    BY DEF Start, Scans
  <2>2. Clean(0)
    OBVIOUS
  <2> QED BY <1>1, <1>6, <2>1, <2>2
<1>8. ASSUME NEW n \in P, n < N PROVE n + 1 \in P
  <2>1. n \in Nat /\ n + 1 \in 1 .. N /\ n + 1 \in 0 .. N /\ (n + 1) - 1 = n
    BY <1>1, <1>8
  <2> DEFINE r == scan[n]
             q == scan[n + 1]
  <2>2. r \in Scans(list)
    OBVIOUS
  <2>3. q = Visit(r)
    BY <1>6, <2>1
  <2> HIDE DEF q
  <2>4. q \in Scans(list) /\ Len(q.list) <= Len(r.list)
    BY <2>2, <2>3, VisitFacts
  <2>5. Len(q.list) \in Nat /\ Len(r.list) \in Nat
    BY <2>2, <2>4 DEF Scans
  <2>6. CASE Len(r.list) < N
    <3>1. Len(q.list) < N
      BY <1>1, <2>4, <2>5, <2>6
    <3> QED BY <2>1, <2>4, <3>1 DEF q
  <2>7. CASE r.list = list /\ r.next = n + 1 /\ Clean(n)
    <3>1. r.next \in DOMAIN r.list
      BY <1>1, <2>1, <2>7
    <3>2. /\ Expired(list[n + 1]) => Len(q.list) < N
          /\ ~Expired(list[n + 1]) => q.list = list
          /\ q.next = (n + 1) + 1
      BY <2>2, <2>3, <2>7, <3>1, VisitFacts DEF N
    <3>3. CASE Expired(list[n + 1])
      BY <2>1, <2>4, <3>2, <3>3 DEF q
    <3>4. CASE ~Expired(list[n + 1])
      <4>1. Clean(n + 1)
        <5> TAKE i \in 1 .. (n + 1)
        <5>1. i \in 1 .. n \/ i = n + 1
          BY <2>1
        <5> QED BY <2>7, <3>4, <5>1
      <4> QED BY <2>1, <2>4, <3>2, <3>4, <4>1 DEF q
    <3> QED BY <3>3, <3>4
  <2> QED BY <2>6, <2>7
<1> HIDE DEF P
<1>9. P \in SUBSET Nat
  BY DEF P
<1>10. N \in P
  <2>1. 0 .. N \subseteq P
    BY <1>1, <1>7, <1>8, <1>9, BoundedInduction
  <2> QED BY <1>1, <2>1
<1>11. /\ scan[N] \in Scans(list)
       /\ Clean(N) \/ Len(scan[N].list) < N
  BY <1>10 DEF P
<1>12. (\E i \in DOMAIN list : Expired(list[i])) => Len(scan[N].list) < Len(list)
  BY <1>1, <1>11 DEF N
<1>13. /\ scan[N].list \in Seq(EntryType) /\ Unique(scan[N].list)
       /\ \A i \in DOMAIN list :
            ~Expired(list[i]) => \E j \in DOMAIN scan[N].list : scan[N].list[j] = list[i]
  BY <1>11 DEF Scans
<1> QED BY <1>2, <1>12, <1>13

-----------------------------------------------------------------------------
(***************************************************************************)
(* The inductive invariant.                                                *)
(***************************************************************************)

\* What the singleton broker may offer to whom.
Offer == {o \in Subscribers \X Sources : o[2] \in ToSet(Requests[o[1]])}

OffersInv ==
  /\ offers \in Seq(Offer)
  /\ \A s \in Subscribers : accepted[s] \subseteq ToSet(Requests[s])

\* The rounds of the subscriber manager.
RoundInv ==
  /\ strategy = "singleton" => status \in {"stopped", "running"} /\ steady = {} /\ todo = <<>>
  /\ status = "starting" => ~beaten
  /\ status = "running" /\ todo # <<>> => beaten
  /\ ToSet(todo) \subseteq ToSet(known)

\* A steady subscriber has been seen in this interval or in the last one, and
\* in this one if the round of heartbeats is past it.
SteadyInv ==
  /\ status \in {"starting", "running"} => \A s \in steady : healthy[s] /\ s \in ToSet(known)
  /\ status = "starting" => \A s \in steady : Seen(entries, s, 0)
  /\ status = "running" => \A s \in steady : Seen(entries, s, 1)
  /\ status = "running" /\ beaten => \A s \in steady \ ToSet(todo) : Seen(entries, s, 0)

IInv == TypeOK /\ OneEntryPerSubscriber /\ OffersInv /\ RoundInv /\ SteadyInv

\* FlattenSeq concatenates sequences over a set to a sequence over that set.
LEMMA FlattenSeqType ==
  ASSUME NEW T, NEW seqs \in Seq(Seq(T))
  PROVE  FlattenSeq(seqs) \in Seq(T)
<1> DEFINE N == Len(seqs)
           Step(f) == [i \in 1 .. N |-> IF i = 1 THEN seqs[i] ELSE f[i - 1] \o seqs[i]]
           flat == CHOOSE f : f = Step(f)
           IsFlat(f, m) == f \in [1 .. m -> Seq(T)]
                           /\ \A i \in 1 .. m : f[i] = IF i = 1 THEN seqs[i] ELSE f[i - 1] \o seqs[i]
           P == {m \in Nat : m <= N => \E f : IsFlat(f, m)}
<1>1. N \in Nat /\ \A i \in 1 .. N : seqs[i] \in Seq(T)
  BY LenProperties, ElementOfSeq
<1>2. CASE N = 0
  <2>1. FlattenSeq(seqs) = seqs
    BY <1>2 DEF FlattenSeq
  <2>2. seqs = <<>>
    BY <1>2, EmptySeq
  <2> QED BY <2>1, <2>2
<1>3. CASE N # 0
  <2>1. FlattenSeq(seqs) = flat[N]
    BY <1>3 DEF FlattenSeq
  <2> HIDE DEF N
  <2>2. 0 \in P
    <3> DEFINE f == [i \in 1 .. 0 |-> <<>>]
    <3>1. f \in [1 .. 0 -> Seq(T)]
      OBVIOUS
    <3>2. IsFlat(f, 0)
      BY <3>1
    <3> QED BY <3>2
  <2>3. ASSUME NEW m \in P, m < N PROVE m + 1 \in P
    <3>1. m \in Nat /\ m <= N
      BY <1>1, <2>3
    <3>2. PICK g : IsFlat(g, m)
      BY <3>1
    <3> DEFINE new == IF m = 0 THEN seqs[1] ELSE g[m] \o seqs[m + 1]
               f == [i \in 1 .. (m + 1) |-> IF i <= m THEN g[i] ELSE new]
    <3>3. new \in Seq(T)
      <4>1. m + 1 \in 1 .. N
        BY <1>1, <2>3, <3>1
      <4>2. CASE m = 0
        BY <1>1, <4>1, <4>2
      <4>3. CASE m # 0
        <5>1. m \in 1 .. m
          BY <3>1, <4>3
        <5>2. g[m] \in Seq(T) /\ seqs[m + 1] \in Seq(T)
          BY <1>1, <3>2, <4>1, <5>1
        <5> QED BY <4>3, <5>2, ConcatProperties
      <4> QED BY <4>2, <4>3
    <3>4. \A i \in 1 .. (m + 1) : i \in 1 .. m \/ i = m + 1
      BY <3>1
    <3>5. f \in [1 .. (m + 1) -> Seq(T)]
      <4> HIDE DEF new
      <4>1. \A i \in 1 .. m : g[i] \in Seq(T)
        BY <3>2
      <4> QED BY <3>1, <3>3, <4>1
    <3>6. ASSUME NEW i \in 1 .. (m + 1)
          PROVE  f[i] = IF i = 1 THEN seqs[i] ELSE f[i - 1] \o seqs[i]
      <4>1. CASE i \in 1 .. m
        <5>1. f[i] = g[i] /\ i # 1 => i - 1 \in 1 .. m /\ i - 1 \in 1 .. (m + 1) /\ i - 1 <= m
          BY <3>1, <4>1
        <5>2. f[i] = g[i]
          BY <3>1, <4>1
        <5>3. i # 1 => f[i - 1] = g[i - 1]
          BY <5>1, <5>2
        <5>4. g[i] = IF i = 1 THEN seqs[i] ELSE g[i - 1] \o seqs[i]
          BY <3>2, <4>1
        <5> HIDE DEF f
        <5> QED BY <5>2, <5>3, <5>4
      <4>2. CASE i = m + 1
        <5>1. f[i] = new
          BY <3>1, <4>2
        <5>2. CASE m = 0
          BY <4>2, <5>1, <5>2
        <5>3. CASE m # 0
          <6>1. i # 1 /\ i - 1 = m /\ m \in 1 .. (m + 1)
            BY <3>1, <4>2, <5>3
          <6>2. f[m] = g[m]
            BY <3>1, <6>1
          <6>3. new = g[m] \o seqs[i]
            BY <4>2, <5>3
          <6> HIDE DEF f, new
          <6> QED BY <5>1, <6>1, <6>2, <6>3
        <5> QED BY <5>2, <5>3
      <4> QED BY <3>4, <4>1, <4>2
    <3>7. IsFlat(f, m + 1)
      <4> HIDE DEF f
      <4> QED BY <3>5, <3>6
    <3> HIDE DEF IsFlat
    <3> QED BY <3>1, <3>7
  <2> HIDE DEF IsFlat
  <2>4. PICK g : IsFlat(g, N)
    <3>1. P \in SUBSET Nat
      OBVIOUS
    <3> HIDE DEF P
    <3>2. 0 .. N \subseteq P
      BY <1>1, <2>2, <2>3, <3>1, BoundedInduction
    <3>3. N \in P
      BY <1>1, <3>2
    <3> QED BY <1>1, <3>3 DEF P
  <2>5. g = Step(g)
    <3>1. g = [i \in 1 .. N |-> g[i]]
      BY <2>4 DEF IsFlat
    <3>2. \A i \in 1 .. N : g[i] = IF i = 1 THEN seqs[i] ELSE g[i - 1] \o seqs[i]
      BY <2>4 DEF IsFlat
    <3> QED BY <3>1, <3>2
  <2>6. flat = Step(flat)
    <3> HIDE DEF Step
    <3> QED BY <2>5
  <2> HIDE DEF flat
  <2>7. \A i \in 1 .. N : flat[i] = IF i = 1 THEN seqs[i] ELSE flat[i - 1] \o seqs[i]
    BY <2>6
  <2> DEFINE Q == {m \in Nat : m + 1 <= N => flat[m + 1] \in Seq(T)}
  <2>8. 0 \in Q
    <3>1. 0 + 1 <= N => 1 \in 1 .. N /\ 0 + 1 = 1
      BY <1>1
    <3> QED BY <1>1, <2>7, <3>1
  <2>9. ASSUME NEW m \in Q, m < N - 1 PROVE m + 1 \in Q
    <3>1. m \in Nat /\ (m + 1) + 1 \in 1 .. N /\ (m + 1) + 1 # 1 /\ ((m + 1) + 1) - 1 = m + 1 /\ m + 1 <= N
      BY <1>1, <2>9
    <3>2. flat[(m + 1) + 1] = flat[m + 1] \o seqs[(m + 1) + 1]
      BY <2>7, <3>1
    <3>3. flat[m + 1] \in Seq(T) /\ seqs[(m + 1) + 1] \in Seq(T)
      BY <1>1, <3>1
    <3>4. flat[m + 1] \o seqs[(m + 1) + 1] \in Seq(T)
      BY <3>3, ConcatProperties
    <3>5. flat[(m + 1) + 1] \in Seq(T)
      BY <3>2, <3>4
    <3> QED BY <3>1, <3>5
  <2>10. N - 1 \in Q
    <3>1. Q \in SUBSET Nat /\ N - 1 \in Nat
      BY <1>1, <1>3
    <3> HIDE DEF Q
    <3>2. 0 .. (N - 1) \subseteq Q
      BY <2>8, <2>9, <3>1, BoundedInduction
    <3> QED BY <3>1, <3>2
  <2>11. (N - 1) + 1 = N
    BY <1>1
  <2> QED BY <1>1, <2>1, <2>10, <2>11
<1> QED BY <1>2, <1>3

-----------------------------------------------------------------------------
(***************************************************************************)
(* Every step preserves the invariant.                                     *)
(***************************************************************************)

\* A queue of subscribers after its first has been taken off.
LEMMA TodoFacts ==
  ASSUME NEW S, NEW s \in Seq(S), s # <<>>
  PROVE  /\ Head(s) \in S /\ Tail(s) \in Seq(S)
         /\ Head(s) \in ToSet(s) /\ ToSet(Tail(s)) \subseteq ToSet(s)
         /\ ToSet(s) \subseteq ToSet(Tail(s)) \cup {Head(s)}
<1>1. Head(s) \in S /\ Tail(s) \in Seq(S) /\ Len(Tail(s)) = Len(s) - 1
  BY HeadTailProperties
<1>2. \A i \in 1 .. (Len(s) - 1) : Tail(s)[i] = s[i + 1]
  BY <1>1, HeadTailProperties
<1>3. DOMAIN s = 1 .. Len(s) /\ Len(s) \in Nat /\ Len(s) # 0 /\ DOMAIN Tail(s) = 1 .. (Len(s) - 1)
  BY <1>1, LenProperties, EmptySeq
<1>4. 1 \in DOMAIN s /\ Head(s) = s[1]
  BY <1>3
<1>5. \A i \in DOMAIN Tail(s) : i + 1 \in DOMAIN s /\ Tail(s)[i] = s[i + 1]
  BY <1>2, <1>3
<1>6. \A i \in DOMAIN s : i = 1 \/ (i - 1 \in DOMAIN Tail(s) /\ Tail(s)[i - 1] = s[i])
  <2> TAKE i \in DOMAIN s
  <2>1. i # 1 => i - 1 \in DOMAIN Tail(s) /\ (i - 1) + 1 = i
    BY <1>3
  <2> QED BY <1>5, <2>1
<1>7. Head(s) \in ToSet(s)
  BY <1>4 DEF ToSet
<1>8. ToSet(Tail(s)) \subseteq ToSet(s)
  BY <1>5 DEF ToSet
<1>9. ToSet(s) \subseteq ToSet(Tail(s)) \cup {Head(s)}
  BY <1>4, <1>6 DEF ToSet
<1> QED BY <1>1, <1>7, <1>8, <1>9

\* A subscriber that is added comes last, and is new.
LEMMA AddFacts ==
  ASSUME NEW s \in Subscribers, TypeOK, AddSubscriber(s)
  PROVE  /\ known' \in Seq(Subscribers)
         /\ \A i, j \in DOMAIN known' : known'[i] = known'[j] => i = j
         /\ ToSet(known) \subseteq ToSet(known')
<1>1. known \in Seq(Subscribers) /\ known' = Append(known, s) /\ s \notin ToSet(known)
  BY DEF TypeOK, AddSubscriber
<1>2. DOMAIN known = 1 .. Len(known) /\ Len(known) \in Nat
  BY <1>1, LenProperties
<1>3. /\ known' \in Seq(Subscribers) /\ Len(known') = Len(known) + 1
      /\ \A i \in 1 .. Len(known) : known'[i] = known[i]
      /\ known'[Len(known) + 1] = s
  BY <1>1, AppendProperties
<1>4. DOMAIN known' = 1 .. (Len(known) + 1)
  BY <1>3, LenProperties
<1>5. \A i \in DOMAIN known' : i \in DOMAIN known \/ i = Len(known) + 1
  BY <1>2, <1>4
<1>6. \A i \in DOMAIN known : known[i] # s /\ i \in DOMAIN known' /\ known'[i] = known[i]
  BY <1>1, <1>2, <1>3, <1>4 DEF ToSet
<1>7. \A i, j \in DOMAIN known : known[i] = known[j] => i = j
  BY DEF TypeOK
<1>8. \A i, j \in DOMAIN known' : known'[i] = known'[j] => i = j
  BY <1>3, <1>5, <1>6, <1>7
<1>9. ToSet(known) \subseteq ToSet(known')
  BY <1>6 DEF ToSet
<1> QED BY <1>3, <1>8, <1>9

\* A heartbeat interval makes every entry at most one interval older.
LEMMA TickFacts ==
  ASSUME TypeOK, OneEntryPerSubscriber, Tick
  PROVE  /\ entries' \in Seq(EntryType) /\ Unique(entries')
         /\ \A s : Seen(entries, s, 0) => Seen(entries', s, 1)
<1>1. entries \in Seq(EntryType)
  BY DEF TypeOK, EntryType
<1>2. DOMAIN entries = 1 .. Len(entries) /\ Len(entries) \in Nat
  BY <1>1, LenProperties
<1> DEFINE older(e) == IF Expired(e) THEN e ELSE [e EXCEPT !.age = @ + 1]
<1>3. entries' = [i \in 1 .. Len(entries) |-> older(entries[i])]
  BY <1>2 DEF Tick
<1>4. ASSUME NEW e \in EntryType
      PROVE  older(e) \in EntryType /\ older(e).id = e.id /\ older(e).age <= e.age + 1
  BY AgesAssumption DEF EntryType, Expired
<1>5. \A i \in DOMAIN entries : entries[i] \in EntryType
  BY <1>1, <1>2, ElementOfSeq
<1> HIDE DEF older
<1>6. entries' \in [1 .. Len(entries) -> EntryType]
  BY <1>2, <1>3, <1>4, <1>5
<1>7. entries' \in Seq(EntryType)
  BY <1>2, <1>6, SeqDef
<1>8. DOMAIN entries' = DOMAIN entries /\ \A i \in DOMAIN entries : entries'[i] = older(entries[i])
  BY <1>2, <1>3
<1>9. Unique(entries')
  BY <1>4, <1>5, <1>8 DEF Unique, OneEntryPerSubscriber
<1>10. ASSUME NEW s, Seen(entries, s, 0) PROVE Seen(entries', s, 1)
  <2>1. PICK i \in DOMAIN entries : entries[i].id = s /\ entries[i].age <= 0
    BY <1>10 DEF Seen
  <2>2. older(entries[i]).id = s /\ older(entries[i]).age <= entries[i].age + 1
    BY <1>4, <1>5, <2>1
  <2>3. entries[i].age \in Nat /\ older(entries[i]).age \in Nat
    BY <1>4, <1>5 DEF EntryType
  <2>4. older(entries[i]).age <= 1
    BY <2>1, <2>2, <2>3
  <2> QED BY <1>8, <2>2, <2>4 DEF Seen
<1> QED BY <1>7, <1>9, <1>10

\* The list of the subscriber state store stays a list without repetition.
LEMMA EntriesStep ==
  ASSUME IInv, [Next]_vars
  PROVE  entries' \in Seq(EntryType) /\ Unique(entries')
<1>1. entries \in Seq(EntryType) /\ Unique(entries)
  BY DEF IInv, TypeOK, EntryType, Unique, OneEntryPerSubscriber
<1>2. todo # <<>> => Head(todo) \in Subscribers
  BY TodoFacts DEF IInv, TypeOK
<1>3. CASE Register
  BY <1>1, <1>2, <1>3, StoreFacts DEF Register
<1>4. CASE Heartbeat
  BY <1>1, <1>2, <1>4, BeatFacts DEF Heartbeat
<1>5. CASE Purge
  BY <1>1, <1>5, PurgedFacts DEF Purge
<1>6. CASE Unregister
  BY <1>1, <1>6, WithoutFacts DEF Unregister
<1>7. CASE Tick
  BY <1>7, TickFacts DEF IInv
<1>8. CASE UNCHANGED entries
  BY <1>1, <1>8
<1>9. Register \/ Heartbeat \/ Purge \/ Unregister \/ Tick \/ UNCHANGED entries
  BY DEF Next, Manage, vars, Execute, Maintain, SendHeartbeats, Stop, Distribute, Accept, Fail,
         AddSubscriber, ChangeHealth
<1> QED BY <1>3, <1>4, <1>5, <1>6, <1>7, <1>8, <1>9

\* The sources of a subscriber's requests are sources.
LEMMA RequestFacts ==
  ASSUME NEW s \in Subscribers
  PROVE  /\ Requests[s] \in Seq(Sources)
         /\ \A i \in DOMAIN Requests[s] : <<s, Requests[s][i]>> \in Offer
<1>1. Requests[s] \in Seq(Sources)
  BY RequestsAssumption
<1>2. \A i \in DOMAIN Requests[s] : Requests[s][i] \in Sources /\ Requests[s][i] \in ToSet(Requests[s])
  BY <1>1, LenProperties, ElementOfSeq DEF ToSet
<1> QED BY <1>1, <1>2 DEF Offer

\* A subscriber is offered what it requests and nothing else.
LEMMA OffersStep ==
  ASSUME IInv, [Next]_vars
  PROVE  OffersInv' /\ accepted' \in [Subscribers -> SUBSET Sources]
<1>1. /\ offers \in Seq(Offer) /\ accepted \in [Subscribers -> SUBSET Sources]
      /\ \A s \in Subscribers : accepted[s] \subseteq ToSet(Requests[s])
      /\ known \in Seq(Subscribers)
  BY DEF IInv, TypeOK, OffersInv
<1>2. CASE Distribute
  <2> DEFINE seqs == [i \in DOMAIN known |-> Offers(known[i])]
  <2>1. DOMAIN known = 1 .. Len(known) /\ Len(known) \in Nat
        /\ \A i \in DOMAIN known : known[i] \in Subscribers
    BY <1>1, LenProperties, ElementOfSeq
  <2>2. ASSUME NEW s \in Subscribers PROVE Offers(s) \in Seq(Offer)
    <3>1. DOMAIN Requests[s] = 1 .. Len(Requests[s]) /\ Len(Requests[s]) \in Nat
      BY RequestFacts, LenProperties
    <3>2. Offers(s) \in [1 .. Len(Requests[s]) -> Offer]
      BY <3>1, RequestFacts DEF Offers
    <3> QED BY <3>1, <3>2, SeqDef
  <2>3. seqs \in [1 .. Len(known) -> Seq(Offer)]
    BY <2>1, <2>2
  <2>4. seqs \in Seq(Seq(Offer))
    BY <2>1, <2>3, SeqDef
  <2>5. offers' = FlattenSeq(seqs) /\ accepted' = accepted
    BY <1>2 DEF Distribute
  <2> HIDE DEF seqs
  <2>6. offers' \in Seq(Offer)
    BY <2>4, <2>5, FlattenSeqType
  <2> QED BY <1>1, <2>5, <2>6 DEF OffersInv
<1>3. CASE Accept
  <2>1. offers # <<>> /\ offers' = Tail(offers)
        /\ accepted' = [accepted EXCEPT ![Head(offers)[1]] = @ \cup {Head(offers)[2]}]
    BY <1>3 DEF Accept
  <2>2. Head(offers) \in Offer /\ Tail(offers) \in Seq(Offer)
    BY <1>1, <2>1, TodoFacts
  <2>3. /\ Head(offers)[1] \in Subscribers /\ Head(offers)[2] \in Sources
        /\ Head(offers)[2] \in ToSet(Requests[Head(offers)[1]])
    BY <2>2 DEF Offer
  <2>4. accepted' \in [Subscribers -> SUBSET Sources]
    BY <1>1, <2>1, <2>3
  <2>5. \A s \in Subscribers : accepted'[s] \subseteq ToSet(Requests[s])
    BY <1>1, <2>1, <2>3
  <2> QED BY <2>1, <2>2, <2>4, <2>5 DEF OffersInv
<1>4. CASE Fail
  BY <1>1, <1>4, EmptySeq DEF Fail, OffersInv
<1>5. CASE UNCHANGED <<offers, accepted>>
  BY <1>1, <1>5 DEF OffersInv
<1>6. Distribute \/ Accept \/ Fail \/ UNCHANGED <<offers, accepted>>
  BY DEF Next, Manage, vars, Execute, Register, Maintain, SendHeartbeats, Heartbeat, Unregister,
         Stop, Purge, Tick, AddSubscriber, ChangeHealth
<1> QED BY <1>2, <1>3, <1>4, <1>5, <1>6

\* The queue of the subscriber manager holds subscribers that are known.
LEMMA TodoStep ==
  ASSUME IInv, [Next]_vars
  PROVE  /\ known' \in Seq(Subscribers)
         /\ \A i, j \in DOMAIN known' : known'[i] = known'[j] => i = j
         /\ ToSet(known) \subseteq ToSet(known')
         /\ todo' \in Seq(Subscribers)
         /\ ToSet(todo') \subseteq ToSet(known')
<1>1. /\ known \in Seq(Subscribers) /\ todo \in Seq(Subscribers)
      /\ \A i, j \in DOMAIN known : known[i] = known[j] => i = j
      /\ ToSet(todo) \subseteq ToSet(known)
  BY DEF IInv, TypeOK, RoundInv
<1>2. <<>> \in Seq(Subscribers) /\ ToSet(<<>>) = {}
  BY DEF ToSet
<1>3. CASE \E s \in Subscribers : AddSubscriber(s)
  <2>1. PICK s \in Subscribers : AddSubscriber(s)
    BY <1>3
  <2>2. /\ known' \in Seq(Subscribers)
        /\ \A i, j \in DOMAIN known' : known'[i] = known'[j] => i = j
        /\ ToSet(known) \subseteq ToSet(known')
    BY <2>1, AddFacts DEF IInv
  <2>3. todo' = todo
    BY <2>1 DEF AddSubscriber
  <2> QED BY <1>1, <2>2, <2>3
<1>4. CASE known' = known /\ todo' \in {todo, known, <<>>}
  BY <1>1, <1>2, <1>4
<1>5. CASE known' = known /\ todo # <<>> /\ todo' = Tail(todo)
  <2>1. Tail(todo) \in Seq(Subscribers) /\ ToSet(Tail(todo)) \subseteq ToSet(todo)
    BY <1>1, <1>5, TodoFacts
  <2> QED BY <1>1, <1>5, <2>1
<1>6. \/ \E s \in Subscribers : AddSubscriber(s)
      \/ known' = known /\ todo' \in {todo, known, <<>>}
      \/ known' = known /\ todo # <<>> /\ todo' = Tail(todo)
  <2>1. CASE Execute
    BY <2>1 DEF Execute
  <2>2. CASE Fail
    BY <2>2 DEF Fail
  <2>3. CASE Register \/ Heartbeat \/ Unregister
    BY <2>3 DEF Register, Heartbeat, Unregister
  <2>4. CASE Maintain \/ SendHeartbeats \/ Stop \/ Purge \/ Tick
    BY <2>4 DEF Maintain, SendHeartbeats, Stop, Purge, Tick
  <2>5. CASE Distribute \/ Accept \/ UNCHANGED vars
    BY <2>5 DEF Distribute, Accept, vars
  <2>6. CASE \E s \in Subscribers : ChangeHealth(s)
    BY <2>6 DEF ChangeHealth
  <2> QED BY <2>1, <2>2, <2>3, <2>4, <2>5, <2>6 DEF Next, Manage
<1> QED BY <1>3, <1>4, <1>5, <1>6

\* Types.
LEMMA TypeStep == ASSUME IInv, [Next]_vars PROVE TypeOK'
<1> USE DEF IInv, TypeOK
<1>1. entries' \in Seq([id : Subscribers, age : 0 .. MaxAge])
  BY EntriesStep DEF EntryType
<1>2. /\ known' \in Seq(Subscribers)
      /\ \A i, j \in DOMAIN known' : known'[i] = known'[j] => i = j
      /\ todo' \in Seq(Subscribers)
  BY TodoStep
<1>3. offers' \in Seq(Subscribers \X Sources) /\ accepted' \in [Subscribers -> SUBSET Sources]
  <2>1. offers' \in Seq(Offer) /\ accepted' \in [Subscribers -> SUBSET Sources]
    BY OffersStep DEF OffersInv
  <2>2. Offer \subseteq Subscribers \X Sources
    BY DEF Offer
  <2> QED BY <2>1, <2>2, SeqMonotonic
<1>4. todo # <<>> => Head(todo) \in Subscribers
  BY TodoFacts
<1>5. /\ strategy' = strategy
      /\ status' \in {"stopped", "starting", "running", "stopping"}
      /\ healthy' \in [Subscribers -> BOOLEAN]
      /\ beaten' \in BOOLEAN
      /\ steady' \subseteq Subscribers
      /\ faults' \in 0 .. MaxFaults
  <2>1. CASE Execute
    BY <2>1 DEF Execute
  <2>2. CASE Fail
    BY <2>2, FaultsAssumption DEF Fail
  <2>3. CASE Register \/ Heartbeat \/ Unregister
    BY <1>4, <2>3 DEF Register, Heartbeat, Unregister
  <2>4. CASE Maintain \/ SendHeartbeats \/ Stop \/ Purge \/ Tick
    BY <2>4 DEF Maintain, SendHeartbeats, Stop, Purge, Tick
  <2>5. CASE Distribute \/ Accept \/ UNCHANGED vars
    BY <2>5 DEF Distribute, Accept, vars
  <2>6. CASE \E s \in Subscribers : ChangeHealth(s)
    BY <2>6, FaultsAssumption DEF ChangeHealth
  <2>7. CASE \E s \in Subscribers : AddSubscriber(s)
    BY <2>7 DEF AddSubscriber
  <2> QED BY <2>1, <2>2, <2>3, <2>4, <2>5, <2>6, <2>7 DEF Next, Manage
<1> QED BY <1>1, <1>2, <1>3, <1>5

\* The rounds of the subscriber manager.
LEMMA RoundStep == ASSUME IInv, [Next]_vars PROVE RoundInv'
<1>1. ToSet(todo') \subseteq ToSet(known')
  BY TodoStep
<1>2. /\ strategy \in {"singleton", "distributed"} /\ beaten \in BOOLEAN
      /\ strategy = "singleton" => status \in {"stopped", "running"} /\ steady = {} /\ todo = <<>>
      /\ status = "starting" => ~beaten
      /\ status = "running" /\ todo # <<>> => beaten
  BY DEF IInv, TypeOK, RoundInv
<1> DEFINE Rounds ==
      /\ strategy = "singleton" => status \in {"stopped", "running"} /\ steady = {} /\ todo = <<>>
      /\ status = "starting" => ~beaten
      /\ status = "running" /\ todo # <<>> => beaten
<1>3. Rounds'
  <2>1. CASE Execute
    BY <1>2, <2>1 DEF Execute
  <2>2. CASE Fail
    BY <1>2, <2>2 DEF Fail
  <2>3. CASE Register \/ Heartbeat \/ Unregister
    BY <1>2, <2>3 DEF Register, Heartbeat, Unregister
  <2>4. CASE Maintain \/ SendHeartbeats \/ Stop \/ Purge \/ Tick
    BY <1>2, <2>4 DEF Maintain, SendHeartbeats, Stop, Purge, Tick
  <2>5. CASE Distribute \/ Accept \/ UNCHANGED vars
    BY <1>2, <2>5 DEF Distribute, Accept, vars
  <2>6. CASE \E s \in Subscribers : AddSubscriber(s) \/ ChangeHealth(s)
    BY <1>2, <2>6 DEF AddSubscriber, ChangeHealth
  <2> QED BY <2>1, <2>2, <2>3, <2>4, <2>5, <2>6 DEF Next, Manage
<1> QED BY <1>1, <1>3 DEF RoundInv

\* Ages are numbers.
LEMMA AgeType ==
  ASSUME NEW list \in Seq(EntryType), NEW i \in DOMAIN list
  PROVE  list[i].age \in Nat
<1>1. list[i] \in EntryType
  BY LenProperties, ElementOfSeq
<1> QED BY <1>1 DEF EntryType

\* Who is seen within an interval is seen within a longer one.
LEMMA SeenLonger ==
  ASSUME NEW list \in Seq(EntryType), NEW s, Seen(list, s, 0)
  PROVE  Seen(list, s, 1)
<1>1. PICK i \in DOMAIN list : list[i].id = s /\ list[i].age <= 0
  BY DEF Seen
<1>2. list[i].age \in Nat
  BY AgeType
<1>3. list[i].age <= 1
  BY <1>1, <1>2
<1> QED BY <1>1, <1>3 DEF Seen

\* Steady subscribers are healthy and known, whatever step is taken.
LEMMA SteadyHealthyStep ==
  ASSUME IInv, [Next]_vars, status' \in {"starting", "running"}, NEW s \in steady'
  PROVE  healthy'[s] /\ s \in ToSet(known')
<1>1. status \in {"starting", "running"} => \A t \in steady : healthy[t] /\ t \in ToSet(known)
  BY DEF IInv, SteadyInv
<1>2. ToSet(known) \subseteq ToSet(known')
  BY TodoStep
<1>3. CASE Register
  <2>1. todo # <<>> => Head(todo) \in ToSet(todo)
    BY TodoFacts DEF IInv, TypeOK
  <2>2. ToSet(todo) \subseteq ToSet(known)
    BY DEF IInv, RoundInv
  <2> QED BY <1>1, <1>3, <2>1, <2>2 DEF Register
<1>4. CASE \E t \in Subscribers : ChangeHealth(t)
  BY <1>1, <1>4 DEF ChangeHealth, IInv, TypeOK
<1>5. CASE Execute
  BY <1>5 DEF Execute
<1>6. CASE /\ status \in {"starting", "running"}
           /\ healthy' = healthy /\ steady' = steady
  BY <1>1, <1>2, <1>6
<1>7. \/ Register \/ Execute \/ \E t \in Subscribers : ChangeHealth(t)
      \/ status \in {"starting", "running"} /\ healthy' = healthy /\ steady' = steady
  <2>1. CASE Fail \/ Stop \/ Maintain
    BY <2>1 DEF Fail, Stop, Maintain
  <2>2. CASE SendHeartbeats \/ Heartbeat \/ Unregister \/ Purge \/ Tick
    BY <2>2 DEF SendHeartbeats, Heartbeat, Unregister, Purge, Tick
  <2>3. CASE Distribute \/ Accept \/ UNCHANGED vars
    BY <2>3 DEF Distribute, Accept, vars
  <2>4. CASE \E t \in Subscribers : AddSubscriber(t)
    BY <2>4 DEF AddSubscriber
  <2> QED BY <2>1, <2>2, <2>3, <2>4 DEF Next, Manage
<1> QED BY <1>3, <1>4, <1>5, <1>6, <1>7

\* Steady subscribers are in sight, whatever step is taken.
LEMMA SteadyStep == ASSUME IInv, [Next]_vars PROVE SteadyInv'
<1>1. /\ status = "starting" => \A s \in steady : Seen(entries, s, 0)
      /\ status = "running" => \A s \in steady : Seen(entries, s, 1)
      /\ status = "running" /\ beaten => \A s \in steady \ ToSet(todo) : Seen(entries, s, 0)
  BY DEF IInv, SteadyInv
<1>16. status = "running" => \A s \in steady : healthy[s] /\ s \in ToSet(known)
  BY DEF IInv, SteadyInv
<1>2. entries \in Seq(EntryType) /\ Unique(entries) /\ todo \in Seq(Subscribers)
  BY DEF IInv, TypeOK, EntryType, Unique, OneEntryPerSubscriber
<1>3. todo # <<>> => Head(todo) \in Subscribers /\ ToSet(todo) \subseteq ToSet(Tail(todo)) \cup {Head(todo)}
  BY <1>2, TodoFacts
<1> DEFINE InSight ==
      /\ status = "starting" => \A s \in steady : Seen(entries, s, 0)
      /\ status = "running" => \A s \in steady : Seen(entries, s, 1)
      /\ status = "running" /\ beaten => \A s \in steady \ ToSet(todo) : Seen(entries, s, 0)
<1> SUFFICES InSight'
  BY SteadyHealthyStep DEF SteadyInv
<1>4. CASE Execute
  BY <1>4 DEF Execute
<1>5. CASE Register
  <2>1. /\ status = "starting" /\ status' = "starting" /\ Head(todo) \in Subscribers
        /\ entries' = Store(entries, Head(todo))
        /\ steady' \subseteq steady \cup {Head(todo)}
    BY <1>3, <1>5 DEF Register
  <2>2. \A s \in steady' : Seen(entries', s, 0)
    BY <1>1, <1>2, <2>1, StoreFacts
  <2> QED BY <2>1, <2>2
<1>6. CASE Maintain
  <2>1. /\ status = "starting" /\ status' = "running" /\ ~beaten /\ beaten' = beaten
        /\ entries' = entries /\ steady' = steady
    BY <1>6 DEF Maintain, IInv, RoundInv
  <2>2. \A s \in steady : Seen(entries, s, 1)
    BY <1>1, <1>2, <2>1, SeenLonger
  <2> QED BY <2>1, <2>2
<1>7. CASE SendHeartbeats
  <2>1. /\ status = "running" /\ status' = "running" /\ todo' = known
        /\ entries' = entries /\ steady' = steady
    BY <1>7 DEF SendHeartbeats
  <2>2. \A s \in steady : s \in ToSet(todo') /\ Seen(entries, s, 1)
    BY <1>1, <1>16, <2>1
  <2> QED BY <2>1, <2>2
<1>8. CASE Heartbeat
  <2>1. /\ status = "running" /\ status' = "running" /\ todo # <<>> /\ todo' = Tail(todo)
        /\ Head(todo) \in Subscribers /\ steady' = steady /\ beaten' = beaten
        /\ entries' = IF healthy[Head(todo)] THEN Beat(entries, Head(todo)) ELSE entries
    BY <1>3, <1>8 DEF Heartbeat
  <2>2. ASSUME NEW s \in steady PROVE Seen(entries', s, 1)
    BY <1>1, <1>2, <2>1, BeatFacts
  <2>3. ASSUME NEW s \in steady, beaten, s \notin ToSet(Tail(todo)) PROVE Seen(entries', s, 0)
    <3>1. CASE s = Head(todo)
      <4>1. Has(entries, s)
        BY <1>1, <2>1 DEF Has, Seen
      <4>2. entries' = Beat(entries, s)
        BY <1>16, <2>1, <3>1
      <4> QED BY <1>2, <2>1, <3>1, <4>1, <4>2, BeatFacts
    <3>2. CASE s # Head(todo)
      <4>1. s \notin ToSet(todo)
        BY <1>3, <2>1, <2>3, <3>2
      <4>2. Seen(entries, s, 0)
        BY <1>1, <2>1, <2>3, <4>1
      <4> QED BY <1>2, <2>1, <4>2, BeatFacts
    <3> QED BY <3>1, <3>2
  <2> QED BY <2>1, <2>2, <2>3
<1>9. CASE Purge
  <2>1. /\ status = "running" /\ status' = "running" /\ todo' = todo /\ beaten' = beaten
        /\ steady' = steady /\ entries' = Purged(entries)
    BY <1>9 DEF Purge
  <2>2. ASSUME NEW s, NEW a \in {0, 1}, Seen(entries, s, a) PROVE Seen(entries', s, a)
    <3>1. PICK i \in DOMAIN entries : entries[i].id = s /\ entries[i].age <= a
      BY <2>2 DEF Seen
    <3>2. entries[i].age \in Nat
      BY <1>2, AgeType
    <3>3. ~Expired(entries[i])
      BY <3>1, <3>2, AgesAssumption DEF Expired
    <3>4. PICK j \in DOMAIN Purged(entries) : Purged(entries)[j] = entries[i]
      BY <1>2, <3>3, PurgedFacts
    <3> QED BY <2>1, <3>1, <3>4 DEF Seen
  <2> QED BY <1>1, <2>1, <2>2
<1>10. CASE Tick
  <2>1. CASE status = "stopped"
    BY <1>10, <2>1 DEF Tick
  <2>2. CASE status = "running" /\ beaten /\ todo = <<>>
    <3>1. status' = "running" /\ ~beaten' /\ steady' = steady
      BY <1>10, <2>2 DEF Tick
    <3>2. ToSet(todo) = {}
      BY <2>2 DEF ToSet
    <3>3. \A s \in steady : Seen(entries, s, 0)
      BY <1>1, <2>2, <3>2
    <3>4. \A s \in steady : Seen(entries', s, 1)
      BY <1>10, <3>3, TickFacts DEF IInv
    <3> QED BY <3>1, <3>4
  <2> QED BY <1>10, <2>1, <2>2 DEF Tick
<1>11. CASE status' \notin {"starting", "running"}
  BY <1>11
<1>12. CASE /\ UNCHANGED <<status, entries, todo, beaten>>
            /\ steady' \subseteq steady
  BY <1>1, <1>12
<1>13. CASE Fail \/ Stop \/ Unregister
  <2>1. status' \notin {"starting", "running"}
    BY <1>13 DEF Fail, Stop, Unregister
  <2> QED BY <1>11, <2>1
<1>14. CASE Distribute \/ Accept \/ UNCHANGED vars
  <2>1. UNCHANGED <<status, entries, todo, beaten>> /\ steady' \subseteq steady
    BY <1>14 DEF Distribute, Accept, vars
  <2> QED BY <1>12, <2>1
<1>15. CASE \E s \in Subscribers : AddSubscriber(s) \/ ChangeHealth(s)
  <2>1. UNCHANGED <<status, entries, todo, beaten>> /\ steady' \subseteq steady
    BY <1>15 DEF AddSubscriber, ChangeHealth
  <2> QED BY <1>12, <2>1
<1> HIDE DEF InSight
<1> QED BY <1>4, <1>5, <1>6, <1>7, <1>8, <1>9, <1>10, <1>13, <1>14, <1>15 DEF Next, Manage

LEMMA InitHolds == ASSUME Init PROVE IInv
<1>1. ToSet(<<>>) = {} /\ DOMAIN <<>> = {}
  BY DEF ToSet
<1>2. TypeOK
  <2>1. \A S : <<>> \in Seq(S)
    BY EmptySeq
  <2>2. known \in Seq(Subscribers) /\ \A i, j \in DOMAIN known : known[i] = known[j] => i = j
    BY <1>1, <2>1 DEF Init
  <2>3. /\ entries \in Seq([id : Subscribers, age : 0 .. MaxAge])
        /\ todo \in Seq(Subscribers) /\ offers \in Seq(Subscribers \X Sources)
    BY <2>1 DEF Init
  <2>4. healthy \in [Subscribers -> BOOLEAN] /\ beaten \in BOOLEAN
    BY DEF Init
  <2>5. accepted \in [Subscribers -> SUBSET Sources] /\ steady \subseteq Subscribers
    BY DEF Init
  <2>6. faults \in 0 .. MaxFaults
    BY FaultsAssumption DEF Init
  <2> QED BY <2>2, <2>3, <2>4, <2>5, <2>6 DEF Init, TypeOK
<1>3. OneEntryPerSubscriber /\ OffersInv
  BY <1>1 DEF Init, OneEntryPerSubscriber, OffersInv
<1>4. RoundInv /\ SteadyInv
  BY <1>1 DEF Init, RoundInv, SteadyInv
<1> QED BY <1>2, <1>3, <1>4 DEF IInv

-----------------------------------------------------------------------------
\* The inductive invariant: the list of the store, the rounds of the manager
\* and the subscribers that have been healthy since they were registered.
THEOREM Invariant == Spec => []IInv
<1>1. Init => IInv
  BY InitHolds
<1>2. IInv /\ [Next]_vars => IInv'
  <2> SUFFICES ASSUME IInv, [Next]_vars PROVE IInv'
    OBVIOUS
  <2>1. TypeOK'
    BY TypeStep
  <2>2. OneEntryPerSubscriber'
    BY EntriesStep DEF Unique, OneEntryPerSubscriber
  <2>3. OffersInv' /\ RoundInv' /\ SteadyInv'
    BY OffersStep, RoundStep, SteadyStep
  <2> QED BY <2>1, <2>2, <2>3 DEF IInv
<1> QED BY <1>1, <1>2, PTL DEF Spec

\* Types.
THEOREM TypeCorrect == Spec => []TypeOK
<1>1. IInv => TypeOK
  BY DEF IInv
<1> QED BY <1>1, Invariant, PTL

\* However often register and unregister are interrupted and repeated, add and
\* purge leave each subscriber at most one state in the in-memory store.
THEOREM EntriesUnique == Spec => []OneEntryPerSubscriber
<1>1. IInv => OneEntryPerSubscriber
  BY DEF IInv
<1> QED BY <1>1, Invariant, PTL

\* A subscriber that has been healthy since the broker registered it is listed
\* to the coordinator as long as the broker runs: neither a round of heartbeats
\* in progress nor a purge, which skips elements, makes it disappear.
THEOREM HealthyListed == Spec => []HealthyStaysListed
<1>1. ASSUME IInv PROVE HealthyStaysListed
  <2> SUFFICES ASSUME status = "running", NEW s \in steady PROVE s \in Listed
    BY DEF HealthyStaysListed
  <2>1. PICK i \in DOMAIN entries : entries[i].id = s /\ entries[i].age <= 1
    <3>1. status = "running" => \A t \in steady : Seen(entries, t, 1)
      BY <1>1 DEF IInv, SteadyInv
    <3>2. Seen(entries, s, 1)
      BY <3>1
    <3> QED BY <3>2 DEF Seen
  <2>2. entries[i].age \in Nat
    BY <1>1, AgeType DEF IInv, TypeOK, EntryType
  <2>3. entries[i].age < SeenWithin
    BY <2>1, <2>2, AgesAssumption
  <2> QED BY <2>1, <2>3 DEF Listed
<1> QED BY <1>1, Invariant, PTL

\* Every run of the purge task that finds an expired state shortens the list,
\* although its loop passes over elements, and loses no state that is not
\* expired.
THEOREM PurgeProgresses ==
  Spec => [][Purge => /\ Len(entries') < Len(entries)
                      /\ \A i \in DOMAIN entries :
                           ~Expired(entries[i]) => \E j \in DOMAIN entries' : entries'[j] = entries[i]]_vars
<1> DEFINE A == Purge => /\ Len(entries') < Len(entries)
                         /\ \A i \in DOMAIN entries :
                              ~Expired(entries[i]) => \E j \in DOMAIN entries' : entries'[j] = entries[i]
<1>1. ASSUME IInv PROVE A
  <2>1. entries \in Seq(EntryType) /\ Unique(entries)
    BY <1>1 DEF IInv, TypeOK, EntryType, Unique, OneEntryPerSubscriber
  <2>2. Purge => entries' = Purged(entries) /\ \E i \in DOMAIN entries : Expired(entries[i])
    BY DEF Purge
  <2> QED BY <2>1, <2>2, PurgedFacts
<1>2. IInv /\ [Next]_vars => [A]_vars
  BY <1>1
<1> QED BY <1>2, Invariant, PTL DEF Spec

\* The singleton broker makes no subscriber accept a source that it has not
\* requested.
THEOREM OnlyRequestsAccepted ==
  Spec => [](\A s \in Subscribers : accepted[s] \subseteq ToSet(Requests[s]))
<1>1. IInv => \A s \in Subscribers : accepted[s] \subseteq ToSet(Requests[s])
  BY DEF IInv, OffersInv
<1> QED BY <1>1, Invariant, PTL
=============================================================================
