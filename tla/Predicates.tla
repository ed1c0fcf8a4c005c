----------------------------- MODULE Predicates -----------------------------
(***************************************************************************)
(* class Predicate, PredicateBuilder and BytecodeInterpreter               *)
(* (include/columnar/predicate.h).                                         *)
(*                                                                         *)
(* A predicate is the sequence of builder calls that made it.  A call that *)
(* tests a column emits LoadColumn, then LoadConst and a comparison, or a  *)
(* null test; And, Or and Not emit themselves.  No other instruction runs  *)
(* between those of one call and the loads leave nothing behind, so the    *)
(* interpreter is modelled one call at a time, and the values on its stack *)
(* between calls are the 0 and 1 the instructions push.                    *)
(***************************************************************************)
EXTENDS Integers, Sequences, SequencesExt

ComparisonOps == {"Equal", "NotEqual", "LessThan", "LessEqual", "GreaterThan", "GreaterEqual"}
NullOps       == {"IsNull", "IsNotNull"}
\* The comparisons the builder can emit.
BuilderOps    == {"Equal", "NotEqual", "LessThan", "GreaterThan"}

Compare(op, a, b) ==
    CASE op = "Equal"        -> a = b
      [] op = "NotEqual"     -> a # b
      [] op = "LessThan"     -> a < b
      [] op = "LessEqual"    -> a <= b
      [] op = "GreaterThan"  -> a > b
      [] op = "GreaterEqual" -> a >= b

\* The calls of the builder.
Comparison(op, col, val) == [op |-> op, col |-> col, val |-> val]
NullTest(op, col)        == [op |-> op, col |-> col]
Connective(op)           == [op |-> op]

IsComparison(call) == call.op \in ComparisonOps

\* The calls with one of the operations: what the builder's push_backs leave.
Recorded(calls, ops) ==
    LET kept[n \in 0 .. Len(calls)] ==
            IF n = 0 THEN <<>>
            ELSE IF calls[n].op \in ops THEN Append(kept[n - 1], calls[n]) ELSE kept[n - 1]
    IN kept[Len(calls)]

\* What a predicate records beside its instructions.
ColumnPredicates(calls) == LET ts == Recorded(calls, ComparisonOps \cup NullOps)
                           IN  [i \in DOMAIN ts |-> ts[i].op]
ColumnIndices(calls)    == LET ts == Recorded(calls, ComparisonOps \cup NullOps)
                           IN  [i \in DOMAIN ts |-> ts[i].col]
Constants(calls)        == LET cs == Recorded(calls, ComparisonOps)
                           IN  [i \in DOMAIN cs |-> cs[i].val]
-----------------------------------------------------------------------------
(* The interpreter: stack_, pending_and_ and pending_or_.                  *)

Cleared == [stack |-> <<>>, pendingAnd |-> FALSE, pendingOr |-> FALSE]

Push(m, b) == [m EXCEPT !.stack = Append(@, b)]

\* Pop b, pop a, push their conjunction or disjunction.
PopPush(stack, b) == Append(SubSeq(stack, 1, Len(stack) - 2), b)
AndTop(stack) == PopPush(stack, stack[Len(stack) - 1] /\ stack[Len(stack)])

\* A faulty disjunction of the two topmost values, copied from AndTop.
OrTopAnd(stack) == PopPush(stack, stack[Len(stack) - 1] /\ stack[Len(stack)])

OrTop(stack)  == PopPush(stack, stack[Len(stack) - 1] \/ stack[Len(stack)])

FoldPending(m) ==
    LET n == IF m.pendingAnd /\ Len(m.stack) >= 2
             THEN [m EXCEPT !.stack = AndTop(@), !.pendingAnd = FALSE] ELSE m
    IN  IF n.pendingOr /\ Len(n.stack) >= 2
        THEN [n EXCEPT !.stack = OrTop(@), !.pendingOr = FALSE] ELSE n

\* The instructions of one builder call.  A comparison folds a deferred And
\* or Or; a null test does not, and reads the value 0 as null.
Execute(m, call, row) ==
    CASE IsComparison(call)      -> FoldPending(Push(m, Compare(call.op, row[call.col], call.val)))
      [] call.op = "IsNull"      -> Push(m, row[call.col] = 0)
      [] call.op = "IsNotNull"   -> Push(m, row[call.col] # 0)
      [] call.op = "And"         -> IF Len(m.stack) >= 2
                                    THEN [m EXCEPT !.stack = AndTop(@)]
                                    ELSE [m EXCEPT !.pendingAnd = TRUE]
      [] call.op = "Or"          -> IF Len(m.stack) >= 2
                                    THEN [m EXCEPT !.stack = OrTop(@)]
                                    ELSE [m EXCEPT !.pendingOr = TRUE]
      [] call.op = "Not"         -> [m EXCEPT !.stack[Len(m.stack)] = ~@]

\* !stack_.empty() && stack_.back() != 0
Answer(m) == m.stack # <<>> /\ m.stack[Len(m.stack)]

\* The value EvaluateRow returns for one row.
EvaluateRow(calls, row) ==
    Answer(FoldLeft(LAMBDA m, call : Execute(m, call, row), Cleared, calls))
=============================================================================
