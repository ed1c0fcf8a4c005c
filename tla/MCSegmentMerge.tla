--------------------------- MODULE MCSegmentMerge ---------------------------
(* Two columns, small tables and delta stores for SegmentMerge. *)
EXTENDS SegmentMerge

Table(rows, nulls) == [rows |-> rows, nulls |-> nulls]

\* No row, three equal rows, rows that a column sort would tear, and a value
\* between two nulls, the first of which counts for the bounds.
MCTables == {Table(<<>>, {}), Table(<<<<2, 1>>, <<2, 1>>, <<2, 1>>>>, {}),
             Table(<<<<2, 1>>, <<1, 2>>>>, {}), Table(<<<<3, 1>>, <<2, 2>>, <<1, 3>>>>, {1, 3})}

Symmetry == Permutations(Paths)

Insert(r, ts, d) == [kind |-> "insert", row |-> r, ts |-> ts, data |-> d]
Delete(r, ts)    == [kind |-> "delete", row |-> r, ts |-> ts]

\* Nothing; the same timestamp twice; rows out of timestamp order, of which one
\* was inserted twice and one is deleted; a row deleted and inserted again.
MCHistories == {<<>>,
    <<Insert(2, 3, <<1, 2>>), Insert(1, 3, <<2, 1>>)>>,
    <<Insert(1, 1, <<1, 2>>), Insert(2, 2, <<2, 2>>), Insert(1, 3, <<2, 1>>), Delete(2, 4)>>,
    <<Insert(1, 2, <<2, 1>>), Delete(1, 3), Insert(1, 4, <<1, 2>>)>>}

\* A row with only one column of data.
ShortHistories == {<<Insert(1, 1, <<1>>), Insert(2, 2, <<2, 1>>)>>}

\* The instance that the run checks is one of plain use.
ASSUME MCPlainMerges ==
    /\ ~OutputOverInput /\ ~EmptyInputs => PlainMerges
    /\ Histories = MCHistories => WholeHistories
=============================================================================
