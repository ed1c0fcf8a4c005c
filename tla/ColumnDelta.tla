---------------------------- MODULE ColumnDelta ----------------------------
(***************************************************************************)
(* struct DeltaStore::ColumnDelta (include/columnar/delta_store.h): the    *)
(* two ordered maps one column of a delta store keeps, `inserts` from row  *)
(* id to (timestamp, bytes) and `deletes` from row id to timestamp.        *)
(*                                                                         *)
(* A map is a total function over Rows.  A stored timestamp is never 0,    *)
(* because Insert and Delete replace a 0 argument by ++global_timestamp_,  *)
(* so timestamp 0 stands for "no entry".                                   *)
(***************************************************************************)
EXTENDS Integers

CONSTANTS Rows,     \* the row ids in play, a set of naturals
          Data,     \* the byte strings a caller may store for one column
          NoData    \* what an absent entry holds

ASSUME RowsAssumption == Rows \subseteq Nat /\ NoData \notin Data

Version == [ts : Nat, data : Data \cup {NoData}]
Absent  == [ts |-> 0, data |-> NoData]

Column == [inserts : [Rows -> Version], deletes : [Rows -> Nat]]

EmptyColumn == [inserts |-> [r \in Rows |-> Absent],
                deletes |-> [r \in Rows |-> 0]]

\* inserts[row_id] = {timestamp, column_data[col]}
PutInsert(col, r, ts, d) ==
    [col EXCEPT !.inserts = [@ EXCEPT ![r] = [ts |-> ts, data |-> d]]]

\* deletes[row_id] = timestamp
PutDelete(col, r, ts) ==
    [col EXCEPT !.deletes = [@ EXCEPT ![r] = ts]]

\* DeltaStore::Get: any tombstone hides the row, whatever its timestamp.
GetFinds(col, r) == col.deletes[r] = 0 /\ col.inserts[r].ts # 0

\* A faulty GetRange that lets any tombstone hide a row, as Get does.
GetRangeAnyTombstone(col, start, end) ==
    {r \in Rows : start <= r /\ r < end /\ col.inserts[r].ts # 0 /\ col.deletes[r] = 0}

\* DeltaStore::GetRange: rows of [start, end) whose tombstone, if there is
\* one, is older than the stored version.
GetRange(col, start, end) ==
    {r \in Rows : /\ start <= r /\ r < end
                  /\ col.inserts[r].ts # 0
                  /\ \/ col.deletes[r] = 0
                     \/ col.deletes[r] < col.inserts[r].ts}
=============================================================================
