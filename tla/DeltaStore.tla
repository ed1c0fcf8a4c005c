----------------------------- MODULE DeltaStore -----------------------------
(***************************************************************************)
(* class DeltaStore (include/columnar/delta_store.h): the in-memory store  *)
(* of rows inserted and deleted since the last segment was written.        *)
(*                                                                         *)
(* Each column has its own shared_mutex.  Insert and Delete take a         *)
(* timestamp and then visit the columns one at a time, locking only the    *)
(* column they write, so a call is a sequence of steps that other threads  *)
(* interleave with: the stamp, one step per column, the return.            *)
(* BeginFlush, EndFlush and Clear are driven by the manager and are        *)
(* modelled in DeltaStoreManager.                                          *)
(***************************************************************************)
EXTENDS ColumnDelta, FiniteSets

CONSTANTS Threads,       \* client threads
          RowsOf,        \* RowsOf[t]: the row ids thread t inserts or deletes
          NumColumns,    \* num_columns_
          Widths,        \* the values column_data.size() takes
          Stamps,        \* the timestamp arguments callers pass; 0 asks for a fresh one
          MaxTimestamp,  \* bound: global_timestamp_ stops growing here
          MaxInserts     \* bound: Insert calls that may return

ASSUME StoreAssumption ==
    /\ RowsOf \in [Threads -> SUBSET Rows]
    /\ NumColumns \in Nat \ {0}
    /\ Widths \subseteq Nat
    /\ Stamps \subseteq Nat
    /\ MaxTimestamp \in Nat
    /\ MaxInserts \in Nat

VARIABLES columns,    \* columns_[c], the maps of each column
          pending,    \* pending_rows_
          globalTs,   \* global_timestamp_
          op,         \* the call each thread is inside, or Idle
          acked       \* history: the calls that have returned

vars == <<columns, pending, globalTs, op, acked>>

Cols == 0 .. NumColumns - 1
Idle == [kind |-> "idle"]

Calls == [kind  : {"insert", "delete"},
          row   : Rows,
          ts    : Nat \ {0},
          data  : Data \cup {NoData},
          width : Nat,
          col   : Nat]

Acks == [kind : {"insert", "delete"}, row : Rows, ts : Nat \ {0}]

TypeOK ==
    /\ columns \in [Cols -> Column]
    /\ pending \in Nat
    /\ globalTs \in Nat
    /\ op \in [Threads -> Calls \cup {Idle}]
    /\ acked \in SUBSET Acks

Init ==
    /\ columns = [c \in Cols |-> EmptyColumn]
    /\ pending = 0
    /\ globalTs = 0
    /\ op = [t \in Threads |-> Idle]
    /\ acked = {}
-----------------------------------------------------------------------------
\* if (timestamp == 0) timestamp = ++global_timestamp_;
Stamp(arg) == IF arg = 0 THEN globalTs + 1 ELSE arg

\* The call starts: it takes its timestamp and has written no column yet.
Begin(t, kind, r, d, n, arg) ==
    /\ op[t] = Idle
    /\ globalTs < MaxTimestamp
    /\ globalTs' = IF arg = 0 THEN globalTs + 1 ELSE globalTs
    /\ op' = [op EXCEPT ![t] = [kind |-> kind, row |-> r, ts |-> Stamp(arg),
                                data |-> d, width |-> n, col |-> 0]]
    /\ UNCHANGED <<columns, pending, acked>>

InsertCall(t, r, d, n, arg) ==
    /\ pending < MaxInserts
    /\ Begin(t, "insert", r, d, n, arg)

DeleteCall(t, r, arg) == Begin(t, "delete", r, NoData, NumColumns, arg)

\* for (col = 0; col < num_columns_ && col < column_data.size(); ++col)
InLoop(o) == o.col < NumColumns /\ o.col < o.width

\* A faulty InsertColumn that walks the columns from the last to the first.
InsertColumnBackwards(t) ==
    /\ op[t].kind = "insert" /\ InLoop(op[t])
    /\ LET c == NumColumns - 1 - op[t].col
       IN  columns' = [columns EXCEPT ![c] =
               PutInsert(@, op[t].row, op[t].ts, op[t].data)]
    /\ op' = [op EXCEPT ![t].col = @ + 1]
    /\ UNCHANGED <<pending, globalTs, acked>>

\* One iteration of Insert's loop, under the column's unique_lock.
InsertColumn(t) ==
    /\ op[t].kind = "insert" /\ InLoop(op[t])
    /\ columns' = [columns EXCEPT ![op[t].col] =
           PutInsert(@, op[t].row, op[t].ts, op[t].data)]
    /\ op' = [op EXCEPT ![t].col = @ + 1]
    /\ UNCHANGED <<pending, globalTs, acked>>

\* A faulty InsertReturn that takes the row off the counter.
InsertReturnMiscounts(t) ==
    /\ op[t].kind = "insert" /\ ~InLoop(op[t])
    /\ pending' = pending - 1
    /\ op' = [op EXCEPT ![t] = Idle]
    /\ acked' = acked \cup {[kind |-> "insert", row |-> op[t].row, ts |-> op[t].ts]}
    /\ UNCHANGED <<columns, globalTs>>

\* pending_rows_.fetch_add(1) and the return.
InsertReturn(t) ==
    /\ op[t].kind = "insert" /\ ~InLoop(op[t])
    /\ pending' = pending + 1
    /\ op' = [op EXCEPT ![t] = Idle]
    /\ acked' = acked \cup {[kind |-> "insert", row |-> op[t].row, ts |-> op[t].ts]}
    /\ UNCHANGED <<columns, globalTs>>

\* A faulty DeleteColumn that only marks the first column.
DeleteFirstColumn(t) ==
    /\ op[t].kind = "delete" /\ InLoop(op[t])
    /\ columns' = [columns EXCEPT ![0] = PutDelete(@, op[t].row, op[t].ts)]
    /\ op' = [op EXCEPT ![t].col = @ + 1]
    /\ UNCHANGED <<pending, globalTs, acked>>

\* One iteration of Delete's loop, under the column's unique_lock.
DeleteColumn(t) ==
    /\ op[t].kind = "delete" /\ InLoop(op[t])
    /\ columns' = [columns EXCEPT ![op[t].col] = PutDelete(@, op[t].row, op[t].ts)]
    /\ op' = [op EXCEPT ![t].col = @ + 1]
    /\ UNCHANGED <<pending, globalTs, acked>>

\* Delete returns without touching pending_rows_.
DeleteReturn(t) ==
    /\ op[t].kind = "delete" /\ ~InLoop(op[t])
    /\ op' = [op EXCEPT ![t] = Idle]
    /\ acked' = acked \cup {[kind |-> "delete", row |-> op[t].row, ts |-> op[t].ts]}
    /\ UNCHANGED <<columns, pending, globalTs>>

Step(t) ==
    \/ \E r \in RowsOf[t], d \in Data, n \in Widths, arg \in Stamps :
           InsertCall(t, r, d, n, arg)
    \/ \E r \in RowsOf[t], arg \in Stamps : DeleteCall(t, r, arg)
    \/ InsertColumn(t)
    \/ InsertReturn(t)
    \/ DeleteColumn(t)
    \/ DeleteReturn(t)

Next == \E t \in Threads : Step(t)

Spec == Init /\ [][Next]_vars
-----------------------------------------------------------------------------
\* Callers that never share a row id, as the threads of the ConcurrentInserts
\* test do, and callers that leave every timestamp to the store.
DisjointWriters == \A t1, t2 \in Threads : t1 # t2 => RowsOf[t1] \cap RowsOf[t2] = {}
FreshStamps     == Stamps = {0}

\* The columns every Insert call supplies data for.
Covered == {c \in Cols : \A n \in Widths : c < n}

CallOf(t) == [kind |-> op[t].kind, row |-> op[t].row, ts |-> op[t].ts]

\* The calls made so far: those that have returned and those in flight.
Issued == acked \cup {CallOf(t) : t \in {u \in Threads : op[u] # Idle}}

\* No call of this kind on the row of call a is as recent as a.
NoneSince(kind, a) ==
    \A b \in Issued : b.kind = kind /\ b.row = a.row => b.ts < a.ts

InFlight(r) == \E t \in Threads : op[t] # Idle /\ op[t].row = r

(***************************************************************************)
(* RowWhole: once no call on a row is in flight, all columns hold the same *)
(* version of it and the same tombstone.  The columns are written under    *)
(* different locks, so nothing in one step of Insert or Delete gives this. *)
(* Holds for DisjointWriters; two writers may leave a row mixed.           *)
(***************************************************************************)
RowWhole ==
    \A r \in Rows : ~InFlight(r) =>
        /\ \A c1, c2 \in Covered : columns[c1].inserts[r] = columns[c2].inserts[r]
        /\ \A c1, c2 \in Cols : columns[c1].deletes[r] = columns[c2].deletes[r]

(***************************************************************************)
(* VersionsDescend: at every moment, in the middle of calls too, an        *)
(* earlier column is at least as recent as a later one.  A reader that     *)
(* sees a version or a tombstone in column c therefore finds that version  *)
(* or a newer one in every column before c.                                *)
(* Holds for DisjointWriters with FreshStamps.                             *)
(***************************************************************************)
VersionsDescend ==
    \A r \in Rows, c1, c2 \in Cols : c1 <= c2 =>
        /\ columns[c1].inserts[r].ts >= columns[c2].inserts[r].ts
        /\ columns[c1].deletes[r] >= columns[c2].deletes[r]

(***************************************************************************)
(* ReadYourWrites: what the readers answer about an acknowledged call,     *)
(* in the middle of other calls too.  After Insert has returned, and       *)
(* unless a Delete as recent has been called since, GetRange finds the row *)
(* in every column the call covered, with that version or a newer one,     *)
(* although tombstones of earlier Deletes stay in the map; Get finds it    *)
(* if the row was never deleted.  After Delete has returned, and unless an *)
(* Insert as recent has been called since, neither finds the row in any    *)
(* column.  Of a row inserted again after a Delete nothing is said about   *)
(* Get, which misses it: GetAgreesWithGetRange below.                      *)
(* Holds for DisjointWriters with FreshStamps.                             *)
(***************************************************************************)
ReadYourWrites ==
    \A a \in acked :
        /\ a.kind = "insert" /\ NoneSince("delete", a) =>
               \A c \in Covered :
                   /\ columns[c].inserts[a.row].ts >= a.ts
                   /\ a.row \in GetRange(columns[c], a.row, a.row + 1)
                   /\ \/ GetFinds(columns[c], a.row)
                      \/ \E b \in Issued : b.kind = "delete" /\ b.row = a.row
        /\ a.kind = "delete" /\ NoneSince("insert", a) =>
               \A c \in Cols :
                   /\ ~GetFinds(columns[c], a.row)
                   /\ a.row \notin GetRange(columns[c], a.row, a.row + 1)

(***************************************************************************)
(* NewestVersionKept: the version a column holds for a row is never        *)
(* replaced by one with an older timestamp, as "MVCC" suggests.  It does   *)
(* not hold when two threads write one row: Insert compares no timestamps  *)
(* before it assigns inserts[row_id].                                      *)
(***************************************************************************)
NewestVersionKept ==
    [][\A c \in Cols, r \in Rows :
           columns'[c].inserts[r].ts >= columns[c].inserts[r].ts]_vars

(***************************************************************************)
(* GetAgreesWithGetRange: for a row no call is working on, the two read    *)
(* operations say the same about one column.  It does not hold for a row   *)
(* that was deleted and inserted again: Get looks for any tombstone,       *)
(* GetRange for one that is as recent as the version.                      *)
(***************************************************************************)
GetAgreesWithGetRange ==
    \A r \in Rows, c \in Cols : ~InFlight(r) =>
        (GetFinds(columns[c], r) <=> r \in GetRange(columns[c], r, r + 1))
=============================================================================
