---------------------------- MODULE WriteConditions ----------------------------
(***************************************************************************)
(* Write conditions as they are built (conditions.py) and as they are      *)
(* enforced (adapters/memory/converters.py).  A condition is a record; the *)
(* operands of an "and" or an "or" are a set, as in the frozensets of      *)
(* AndCondition and OrCondition.                                           *)
(***************************************************************************)
EXTENDS Integers

NoPositionYet == -1   \* the latest position of an empty stream; None in python

NoCondition == [kind |-> "none"]

EmptyStreamCondition == [kind |-> "empty"]

PositionIsCondition(p) == [kind |-> "position", position |-> p]

construct(kind, conditions) == [kind |-> kind, conditions |-> conditions]

\* Slip: the operands of any combination are merged.
OperandsOfAnyKind(kind, c) == IF c.kind \in {"and", "or"} THEN c.conditions ELSE {c}

\* WriteCondition._combine: operands of the combination's own kind are merged.
Operands(kind, c) == IF c.kind = kind THEN c.conditions ELSE {c}

combine(kind, c, d) == construct(kind, Operands(kind, c) \cup Operands(kind, d))

And(c, d) == combine("and", c, d)

Or(c, d) == combine("or", c, d)

RECURSIVE assert_satisfied(_, _)

\* Whether the enforcer of c lets a stream at this latest position through.
\* An "or" re-raises the last failure of its operands, so one without operands
\* never raises.
assert_satisfied(c, latest) ==
  CASE c.kind = "none"     -> TRUE
    [] c.kind = "empty"    -> latest = NoPositionYet
    [] c.kind = "position" -> latest = c.position
    [] c.kind = "and"      -> \A d \in c.conditions : assert_satisfied(d, latest)
    [] c.kind = "or"       -> \/ c.conditions = {}
                              \/ \E d \in c.conditions : assert_satisfied(d, latest)
=============================================================================
