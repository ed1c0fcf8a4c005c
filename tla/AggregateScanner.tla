-------------------------- MODULE AggregateScanner --------------------------
(***************************************************************************)
(* class AggregateScanner (include/columnar/scanner.h): a SegmentScanner   *)
(* whose callback adds the rows it is handed to a sum, a count, a minimum  *)
(* and a maximum of each aggregated column.  Several Scans of one object   *)
(* add to the same results.                                                *)
(***************************************************************************)
EXTENDS SegmentScanner

CONSTANTS AggColumns,  \* agg_columns_: the columns aggregated, in order
          Misread      \* what 8 bytes of a column of another type may read as

INT64_MAX == Modulus64 \div 2 - 1
INT64_MIN == -(Modulus64 \div 2)

ASSUME AggregateAssumption ==
    /\ AggColumns \in Seq(Columns)
    /\ Misread \subseteq INT64_MIN .. INT64_MAX /\ Misread # {}

VARIABLE results  \* sums_, counts_, mins_ and maxs_, by aggregated column
aggVars == <<vars, results>>

AggInit ==
    /\ Init
    /\ results = [k \in DOMAIN AggColumns |->
                     [sum |-> 0, count |-> 0, min |-> INT64_MAX, max |-> INT64_MIN]]

\* static_cast<const int64_t*>(cols[col_idx])[j], whatever the column's type.
DataAt(row, col, junk) == IF ColumnType[col] = "Int64" THEN table[row][col] ELSE junk

\* A faulty callback that takes the value 0 for a null.
AddRowSkippingZero(result, v) ==
    IF v = 0 THEN result
    ELSE [sum |-> result.sum + v, count |-> result.count + 1,
          min |-> Min({result.min, v}), max |-> Max({result.max, v})]

AddRow(result, v) ==
    [sum |-> result.sum + v, count |-> result.count + 1,
     min |-> Min({result.min, v}), max |-> Max({result.max, v})]

\* A result after the loop of the callback over the values of one run.
AddRows(result, values) ==
    LET after[n \in 0 .. Len(values)] ==
            IF n = 0 THEN result ELSE AddRow(after[n - 1], values[n])
    IN after[Len(values)]

\* The callback, over the rows of one run.
Callback(rows, junk) ==
    results' = [k \in DOMAIN AggColumns |->
                   AddRows(results[k], [j \in 1 .. Len(rows) |-> DataAt(rows[j], AggColumns[k], junk)])]

\* Every step of the scanner; the callback runs on the rows it delivers.
AggNext == /\ Next
           /\ \E junk \in Misread :
                  Callback(SubSeq(output', Len(output) + 1, Len(output')), junk)

AggSpec == AggInit /\ [][AggNext]_aggVars
-----------------------------------------------------------------------------
\* The sum of a sequence of integers.
SumOf(values) ==
    LET sum[n \in 0 .. Len(values)] == IF n = 0 THEN 0 ELSE sum[n - 1] + values[n]
    IN sum[Len(values)]

(***************************************************************************)
(* AggregatesMatch: after every block, Results() are the sum, count,       *)
(* minimum and maximum of the columns over the rows that satisfy the       *)
(* predicates of the Scans so far: a row counted twice, or lost at the     *)
(* seam of a run, a block or a Scan, would show here.                      *)
(***************************************************************************)
AggregatesMatch ==
    phase = "block" => LET rows == Expected IN
        \A k \in DOMAIN AggColumns :
            LET values == [j \in DOMAIN rows |-> table[rows[j]][AggColumns[k]]]
            IN results[k] = [sum   |-> SumOf(values),
                             count |-> Len(values),
                             min   |-> Min(ToSet(values) \cup {INT64_MAX}),
                             max   |-> Max(ToSet(values) \cup {INT64_MIN})]
=============================================================================
