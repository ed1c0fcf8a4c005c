------------------------ MODULE BytecodeInterpreter ------------------------
(***************************************************************************)
(* A predicate is built, in infix or in postfix order, and one             *)
(* BytecodeInterpreter then evaluates it for one row after another, as     *)
(* SegmentScanner::Scan does: stack_ and the pending flags outlive a row.  *)
(*                                                                         *)
(* The reference is kept beside the construction: formula holds the sets   *)
(* of rows that the operands written so far denote, combined by            *)
(* intersection, union and complement.                                     *)
(***************************************************************************)
EXTENDS Predicates

CONSTANTS Columns, Values,
          Terms,           \* the column tests that may appear
          RightNullTests,  \* whether a null test may be the right operand of an infix And or Or
                           \* (a restriction of the predicates when FALSE)
          MaxCalls         \* bound: builder calls per predicate

ASSUME InterpreterAssumption ==
    /\ Values \subseteq Int
    /\ Terms \subseteq [op : BuilderOps, col : Columns, val : Int] \cup [op : NullOps, col : Columns]
    /\ RightNullTests \in BOOLEAN
    /\ MaxCalls \in Nat

VARIABLES style,    \* "infix" or "postfix"
          calls,    \* the builder calls made
          formula,  \* reference: the operands written and, in infix, the operator between two
          phase,    \* "build", "ready", "run" or "returned"
          row,      \* the row under evaluation
          pc,       \* the next call's instructions
          machine,  \* stack_, pending_and_, pending_or_
          result    \* what EvaluateRow returned

vars == <<style, calls, formula, phase, row, pc, machine, result>>

Rows == [Columns -> Values]

Init ==
    /\ style \in {"infix", "postfix"}
    /\ calls = <<>>
    /\ formula = [operands |-> <<>>, operator |-> "none"]
    /\ phase = "build"
    /\ row \in Rows
    /\ pc = 1
    /\ machine = Cleared
    /\ result = FALSE
-----------------------------------------------------------------------------
(* The reference.                                                          *)

Denotes(term) ==
    {r \in Rows : CASE IsComparison(term)     -> Compare(term.op, r[term.col], term.val)
                    [] term.op = "IsNull"     -> r[term.col] = 0
                    [] term.op = "IsNotNull"  -> r[term.col] # 0}

Join(op, A, B) == IF op = "And" THEN A \cap B ELSE A \cup B

Written == Len(formula.operands)
-----------------------------------------------------------------------------
(* PredicateBuilder.                                                       *)

\* Eq, Ne, Lt, Gt, Null and NotNull.
AddTerm(term) ==
    /\ phase = "build" /\ Len(calls) < MaxCalls
    /\ \/ /\ style = "infix" /\ Written = 1 /\ formula.operator # "none"
          /\ term.op \in NullOps => RightNullTests
          /\ formula' = [operands |-> <<Join(formula.operator, formula.operands[1], Denotes(term))>>,
                         operator |-> "none"]
       \/ /\ style = "postfix" \/ Written = 0
          /\ formula' = [formula EXCEPT !.operands = Append(@, Denotes(term))]
    /\ calls' = Append(calls, term)
    /\ UNCHANGED <<style, phase, row, pc, machine, result>>

\* And, Or.
AddJunction(op) ==
    /\ phase = "build" /\ Len(calls) < MaxCalls
    /\ \/ /\ style = "infix" /\ Written = 1 /\ formula.operator = "none"
          /\ formula' = [formula EXCEPT !.operator = op]
       \/ /\ style = "postfix" /\ Written >= 2
          /\ formula' = [formula EXCEPT !.operands =
                 PopPush(@, Join(op, @[Written - 1], @[Written]))]
    /\ calls' = Append(calls, Connective(op))
    /\ UNCHANGED <<style, phase, row, pc, machine, result>>

\* Not, written after its operand.
AddNot ==
    /\ phase = "build" /\ Len(calls) < MaxCalls
    /\ Written >= 1 /\ formula.operator = "none"
    /\ formula' = [formula EXCEPT !.operands[Written] = Rows \ @]
    /\ calls' = Append(calls, Connective("Not"))
    /\ UNCHANGED <<style, phase, row, pc, machine, result>>

\* Build, once the expression is complete.
Build ==
    /\ phase = "build"
    /\ Written = 1 /\ formula.operator = "none"
    /\ phase' = "ready"
    /\ UNCHANGED <<style, calls, formula, row, pc, machine, result>>
-----------------------------------------------------------------------------
(* BytecodeInterpreter::EvaluateRow.                                       *)

\* A faulty BeginRow that leaves stack_ and the flags as the last row left them.
BeginRowStale(r) ==
    /\ phase \in {"ready", "returned"}
    /\ phase' = "run"
    /\ row' = r
    /\ pc' = 1
    /\ UNCHANGED <<style, calls, formula, machine, result>>

\* stack_.clear() and both flags reset, for each row anew.
BeginRow(r) ==
    /\ phase \in {"ready", "returned"}
    /\ phase' = "run"
    /\ row' = r
    /\ pc' = 1
    /\ machine' = Cleared
    /\ UNCHANGED <<style, calls, formula, result>>

Step ==
    /\ phase = "run" /\ pc <= Len(calls)
    /\ machine' = Execute(machine, calls[pc], row)
    /\ pc' = pc + 1
    /\ UNCHANGED <<style, calls, formula, phase, row, result>>

Return ==
    /\ phase = "run" /\ pc = Len(calls) + 1
    /\ phase' = "returned"
    /\ result' = Answer(machine)
    /\ UNCHANGED <<style, calls, formula, row, pc, machine>>

Next ==
    \/ \E term \in Terms : AddTerm(term)
    \/ \E op \in {"And", "Or"} : AddJunction(op)
    \/ AddNot
    \/ Build
    \/ \E r \in Rows : BeginRow(r)
    \/ Step
    \/ Return

Spec == Init /\ [][Next]_vars
-----------------------------------------------------------------------------
(***************************************************************************)
(* AnswersTheFormula: for a predicate of comparisons and null tests, And,  *)
(* Or and Not, in either order, no null test being the right operand of an *)
(* infix And or Or, and for every row, whatever rows the interpreter saw   *)
(* before, EvaluateRow returns whether the row satisfies the formula the   *)
(* calls spell.  The interpreter tells the two orders apart only by how    *)
(* many values lie on its stack when And or Or executes.  With             *)
(* RightNullTests it fails: IsNull and IsNotNull leave And and Or pending, *)
(* as in Gt And Lt And NotNull, which test_predicate.cpp:95-102 builds.    *)
(***************************************************************************)
AnswersTheFormula == phase = "returned" => (result <=> row \in formula.operands[1])

(***************************************************************************)
(* NothingLeftOver: when EvaluateRow returns, for a predicate as above,    *)
(* the stack holds the answer alone and no And or Or is still deferred:    *)
(* every operand the builder was given has had its part in the answer.     *)
(***************************************************************************)
NothingLeftOver ==
    phase = "returned" => /\ Len(machine.stack) = 1
                          /\ ~machine.pendingAnd /\ ~machine.pendingOr
=============================================================================
