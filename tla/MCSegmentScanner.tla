-------------------------- MODULE MCSegmentScanner --------------------------
(* Instances of AggregateScanner for TLC: two columns, small hashes. *)
EXTENDS AggregateScanner

MCHash1 == [k \in Keys |-> (5 * k + 1) % Modulus64]
MCHash2 == [k \in Keys |-> (3 * k + 2) % Modulus64]

Eq(c, v) == Comparison("Equal", c, v)
Ne(c, v) == Comparison("NotEqual", c, v)
Lt(c, v) == Comparison("LessThan", c, v)
Gt(c, v) == Comparison("GreaterThan", c, v)
And == Connective("And")
Or  == Connective("Or")
Not == Connective("Not")

BothInt64 == [c \in Columns |-> "Int64"]
BothInt32 == [c \in Columns |-> "Int32"]
Doubles   == [c \in Columns |-> "Double"]

SmallValues  == [c \in Columns |-> IF c = 0 THEN {0, 1, 2} ELSE {0, 1}]
SignedValues == [c \in Columns |-> IF c = 0 THEN {-1, 1} ELSE {0}]

\* Single comparisons, null tests, conjunctions in both orders, and
\* disjunctions whose first column has no zone map.
Conjunctions == {<<>>,
    <<Eq(0, 1)>>, <<Ne(0, 1)>>, <<Lt(0, 2)>>, <<Gt(1, 0)>>,
    <<NullTest("IsNull", 1)>>,
    <<Lt(0, 2), And, Eq(1, 1)>>,
    <<Eq(0, 2), And, Gt(1, 0), And, Ne(0, 0)>>,
    <<Eq(0, 1), Gt(1, 0), And>>,
    <<NullTest("IsNotNull", 0), And, Lt(1, 1)>>,
    <<Lt(1, 1), Or, Eq(0, 2)>>}

\* A second Scan of the same object: one that prunes and one that does not.
Again == {<<Eq(0, 1)>>, <<Gt(1, 0)>>}

BothColumns == <<0, 1>>

Disjunction == {<<Eq(0, 1), Or, Eq(1, 1)>>}
Negation    == {<<Lt(0, 1), Not>>}
LessThan1   == {<<Lt(0, 1)>>}
EqualOne    == {<<Eq(0, 1)>>}
EqualMinus  == {<<Eq(0, -1)>>}

\* The instance that the run checks is one of plain use.
ASSUME MCPlainUse ==
    /\ Programs = Conjunctions /\ Rescans = Again /\ ColumnType = BothInt64
    /\ BloomColumns = Columns /\ ZoneRows = BlockSize
    => PlainUse
=============================================================================
