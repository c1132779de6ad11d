--------------------------- MODULE EventStoreTypes ---------------------------
(***************************************************************************)
(* What every storage adapter of the event store shares: identifiers,      *)
(* publish requests, stored events, the lock a serialisation guarantee     *)
(* asks for, and the position of the last event of a stream.               *)
(*                                                                         *)
(* Stream names are natural numbers: the adapters only compare them and    *)
(* sort them.  The payload of an event is the writer that published it.    *)
(*                                                                         *)
(* Here and in the other modules a definition whose comment begins with    *)
(* "Slip:" is a mistake the code could plausibly contain.  Nothing uses    *)
(* it; substituted for the definition that follows, it makes one of the    *)
(* properties fail.                                                        *)
(***************************************************************************)
EXTENDS Integers, Sequences

CONSTANTS
  Categories,       \* category names
  Streams,          \* stream names
  Writers,          \* the concurrent calls of save
  Requests,         \* what a call of save may be asked to publish
  Guarantee,        \* the adapter's serialisation guarantee
  Satisfied(_, _)   \* Satisfied(c, p): condition c accepts a stream whose
                    \* last event is at position p

ASSUME StreamsAssumption == Streams \subseteq Nat

ASSUME GuaranteeAssumption == Guarantee \in {"log", "category", "stream"}

StreamIdentifier == [category : Categories, stream : Streams]

(***************************************************************************)
(* A request maps the streams of one category to the number of events to   *)
(* publish and the write condition.  A stream level publish is the request *)
(* for a single stream.                                                    *)
(***************************************************************************)
ASSUME RequestsAssumption ==
  \A r \in Requests :
    /\ r.category \in Categories
    /\ DOMAIN r.streams \subseteq Streams
    /\ DOMAIN r.streams # {}
    /\ \A s \in DOMAIN r.streams : r.streams[s].events \in Nat

Target(r, s) == [category |-> r.category, stream |-> s]

Targets(r) == {Target(r, s) : s \in DOMAIN r.streams}

NoPosition == -1    \* the last position of a stream that has no event

Position == Nat \cup {NoPosition}

StoredEvent ==
  [category : Categories, stream : Streams, position : Nat,
   sequence_number : Nat, payload : Writers]

InStream(e, id) == e.category = id.category /\ e.stream = id.stream

SameStream(e, f) == e.category = f.category /\ e.stream = f.stream

-----------------------------------------------------------------------------
\* Slip: the lock of the stream under every guarantee.
lock_nameOfStream(id) == <<id.category, id.stream>>

(***************************************************************************)
(* EventSerialisationGuarantee.lock_name, without the namespace prefix     *)
(* that every name of one adapter shares.                                  *)
(***************************************************************************)
lock_name(id) ==
  CASE Guarantee = "log"      -> <<>>
    [] Guarantee = "category" -> <<id.category>>
    [] Guarantee = "stream"   -> <<id.category, id.stream>>

LockNames == {lock_name(id) : id \in StreamIdentifier}

\* Slip: a category publish locks its first stream only.
RequiredLocksOfFirstStream(r) ==
  {lock_name(Target(r, CHOOSE s \in DOMAIN r.streams : \A u \in DOMAIN r.streams : s <= u))}

\* The locks of a request: one per stream under the stream guarantee, the
\* single lock of the target otherwise.
RequiredLocks(r) == {lock_name(id) : id \in Targets(r)}

-----------------------------------------------------------------------------
\* The indexes in the log of the events of a stream: the stream index.
StreamIndex(log, id) == {i \in DOMAIN log : InStream(log[i], id)}

LastIndex(I) == CHOOSE i \in I : \A j \in I : j <= i

\* The position of the last event of a stream, in the order of its index.
LastStreamPosition(log, id) ==
  IF StreamIndex(log, id) = {} THEN NoPosition
  ELSE log[LastIndex(StreamIndex(log, id))].position
=============================================================================
