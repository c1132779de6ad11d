-------------------------- MODULE MCWriteConditions --------------------------
(***************************************************************************)
(* The algebra of write conditions against its reference: a condition      *)
(* built with & and | accepts the intersection and the union of what its   *)
(* operands accept.  Two conditions are built step by step, each beside    *)
(* the set of latest positions it is meant to accept, and combined with    *)
(* each other in either order.                                             *)
(***************************************************************************)
EXTENDS WriteConditions

CONSTANTS
  Positions,   \* latest positions of a stream that has events
  MaxSteps     \* bound: the number of combinations

ASSUME PositionsAssumption == Positions \subseteq Nat
ASSUME StepsAssumption == MaxSteps \in Nat

Latest == Positions \cup {NoPositionYet}

VARIABLES left, right, steps

vars == <<left, right, steps>>

\* The primitive conditions, each with its meaning.
Primitives ==
  { [condition |-> NoCondition, meaning |-> Latest],
    [condition |-> EmptyStreamCondition, meaning |-> {NoPositionYet}] }
  \cup {[condition |-> PositionIsCondition(p), meaning |-> {p}] : p \in Positions}

Both(a, b) ==
  [condition |-> And(a.condition, b.condition), meaning |-> a.meaning \cap b.meaning]

Either(a, b) ==
  [condition |-> Or(a.condition, b.condition), meaning |-> a.meaning \cup b.meaning]

Init == left \in Primitives /\ right \in Primitives /\ steps = 0

Restart == right' \in Primitives /\ UNCHANGED left

Conjoin == left' = Both(left, right) /\ UNCHANGED right

Disjoin == left' = Either(left, right) /\ UNCHANGED right

Swap == left' = right /\ right' = left

Next ==
  /\ steps < MaxSteps
  /\ steps' = steps + 1
  /\ Restart \/ Conjoin \/ Disjoin \/ Swap

Spec == Init /\ [][Next]_vars

\* Whatever mixture of & and | built it, and however the operands of nested
\* combinations were merged, a condition accepts exactly what it was meant to.
ConditionMeansWhatItSays ==
  \A c \in {left, right} :
    \A p \in Latest : assert_satisfied(c.condition, p) <=> p \in c.meaning
=============================================================================
