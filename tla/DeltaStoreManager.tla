-------------------------- MODULE DeltaStoreManager --------------------------
(***************************************************************************)
(* class DeltaStoreManager (include/columnar/delta_store.h) and the flush  *)
(* side of DeltaStore: BeginFlush, EndFlush, Clear, ShouldFlush,           *)
(* PendingRows and VisitInserts.                                           *)
(*                                                                         *)
(* Writers fetch CurrentStore() without a lock and then run Insert or      *)
(* Delete on that pointer.  A flusher runs the protocol of the             *)
(* DeltaStoreManager test: GetStoreForFlush, PendingRows, one VisitInserts *)
(* per column, FinishFlush with the rows it counted.  CompactStores runs   *)
(* beside them.  Only GetStoreForFlush and CompactStores hold              *)
(* manager_mutex_; everything else meets at the column locks and atomics.  *)
(*                                                                         *)
(* Each Insert stores a row id of its own, so the versions of a row, which *)
(* DeltaStore is about, are left out: a column is a set of row ids.        *)
(***************************************************************************)
EXTENDS Integers, FiniteSets

CONSTANTS Writers, Flushers,
          NumColumns,         \* num_columns_
          FlushThreshold,     \* flush_threshold_
          SizeModulus,        \* 2^w for the w-bit size_t of pending_rows_
          OverlapCompaction,  \* whether CompactStores may run during Insert and Delete calls
          MaxRows,            \* bound: Insert calls
          MaxDeletes          \* bound: Delete calls

ASSUME ManagerAssumption ==
    /\ NumColumns \in Nat \ {0} /\ FlushThreshold \in Nat \ {0}
    /\ MaxRows \in Nat /\ MaxDeletes \in Nat
    /\ SizeModulus \in Nat /\ SizeModulus > MaxRows
    /\ OverlapCompaction \in BOOLEAN
    /\ "none" \notin Flushers /\ "compactor" \notin Flushers

VARIABLES stores,     \* stores_[0] and stores_[1]
          numStores,  \* stores_.size()
          active,     \* active_store_
          mutex,      \* holder of manager_mutex_
          call,       \* the Insert or Delete each writer is inside
          flush,      \* where each flusher is
          compact,    \* where CompactStores is
          started,    \* number of Insert and of Delete calls begun
          acked,      \* history: rows whose Insert, whose Delete has returned
          delivered   \* history: rows some finished flush read from every column

vars == <<stores, numStores, active, mutex, call, flush, compact, started,
          acked, delivered>>

Cols   == 0 .. NumColumns - 1
Rows   == 1 .. MaxRows
Index  == 0 .. 1
Idle   == [kind |-> "idle"]
Resting == [pc |-> "idle"]

EmptyStore == [inserts  |-> [c \in Cols |-> {}],
               deletes  |-> [c \in Cols |-> {}],
               pending  |-> 0,
               flushing |-> FALSE]

TypeOK ==
    /\ stores \in [Index -> [inserts : [Cols -> SUBSET Rows],
                             deletes : [Cols -> SUBSET Rows],
                             pending : 0 .. SizeModulus - 1,
                             flushing : BOOLEAN]]
    /\ numStores \in 1 .. 2
    /\ active \in 0 .. numStores - 1
    /\ mutex \in Flushers \cup {"none", "compactor"}
    /\ call \in [Writers -> {Idle} \cup [kind : {"insert", "delete"}, store : Index,
                                         row : Rows, col : 0 .. NumColumns]]
    /\ flush \in [Flushers -> {Resting} \cup
                     [pc : {"rotate", "begin", "count", "visit", "unflag"},
                      store : Index, rows : 0 .. SizeModulus - 1, col : 0 .. NumColumns,
                      read : [Cols -> SUBSET Rows], quiet : BOOLEAN]]
    /\ compact \in {Resting} \cup [pc : {"check", "clear"}, store : 0 .. 2, col : 0 .. NumColumns]
    /\ started \in [inserts : 0 .. MaxRows, deletes : 0 .. MaxDeletes]
    /\ acked \in [inserts : SUBSET Rows, deletes : SUBSET Rows]
    /\ delivered \in SUBSET Rows

Init ==
    /\ stores = [i \in Index |-> EmptyStore]
    /\ numStores = 1
    /\ active = 0
    /\ mutex = "none"
    /\ call = [w \in Writers |-> Idle]
    /\ flush = [f \in Flushers |-> Resting]
    /\ compact = Resting
    /\ started = [inserts |-> 0, deletes |-> 0]
    /\ acked = [inserts |-> {}, deletes |-> {}]
    /\ delivered = {}
-----------------------------------------------------------------------------
(* Writers: manager.CurrentStore()->Insert(...) and ->Delete(...).         *)

\* CurrentStore() dereferences stores_[active_store_]: the pointer the call
\* keeps using, whatever the manager does afterwards.  The vector is indexed
\* without the lock under which GetStoreForFlush's push_back may move its array,
\* a data race (also in FinishFlush) that this one step leaves out: stores is a
\* fixed array here, and the properties are of the protocol on top of it.
CurrentStore(w, kind, r) ==
    /\ call[w] = Idle
    /\ OverlapCompaction \/ compact = Resting
    /\ call' = [call EXCEPT ![w] = [kind |-> kind, store |-> active, row |-> r, col |-> 0]]
    /\ UNCHANGED <<stores, numStores, active, mutex, flush, compact, acked, delivered>>

BeginInsert(w) ==
    /\ started.inserts < MaxRows
    /\ started' = [started EXCEPT !.inserts = @ + 1]
    /\ CurrentStore(w, "insert", started.inserts + 1)

BeginDelete(w, r) ==
    /\ r <= started.inserts
    /\ started.deletes < MaxDeletes
    /\ started' = [started EXCEPT !.deletes = @ + 1]
    /\ CurrentStore(w, "delete", r)

\* One iteration of the column loop of Insert or Delete, under the column's lock.
WriteColumn(w) ==
    LET k == call[w] IN
    /\ k # Idle /\ k.col < NumColumns
    /\ stores' = IF k.kind = "insert"
                 THEN [stores EXCEPT ![k.store].inserts[k.col] = @ \cup {k.row}]
                 ELSE [stores EXCEPT ![k.store].deletes[k.col] = @ \cup {k.row}]
    /\ call' = [call EXCEPT ![w].col = @ + 1]
    /\ UNCHANGED <<numStores, active, mutex, flush, compact, started, acked, delivered>>

\* pending_rows_.fetch_add(1) and Insert returns.
InsertReturn(w) ==
    LET k == call[w] IN
    /\ k # Idle /\ k.kind = "insert" /\ k.col = NumColumns
    /\ stores' = [stores EXCEPT ![k.store].pending = (@ + 1) % SizeModulus]
    /\ acked' = [acked EXCEPT !.inserts = @ \cup {k.row}]
    /\ call' = [call EXCEPT ![w] = Idle]
    /\ UNCHANGED <<numStores, active, mutex, flush, compact, started, delivered>>

\* Delete returns; it counts nothing.
DeleteReturn(w) ==
    LET k == call[w] IN
    /\ k # Idle /\ k.kind = "delete" /\ k.col = NumColumns
    /\ acked' = [acked EXCEPT !.deletes = @ \cup {k.row}]
    /\ call' = [call EXCEPT ![w] = Idle]
    /\ UNCHANGED <<stores, numStores, active, mutex, flush, compact, started, delivered>>
-----------------------------------------------------------------------------
(* Flushers.                                                               *)

ShouldFlush(s) == stores[s].pending >= FlushThreshold

NewFlush(s) == [pc |-> "rotate", store |-> s, rows |-> 0, col |-> 0,
                read |-> [c \in Cols |-> {}], quiet |-> FALSE]

\* GetStoreForFlush takes the lock and finds the current store full.  When
\* ShouldFlush is false it returns nullptr and changes nothing.
GetStoreForFlush(f) ==
    /\ flush[f] = Resting
    /\ mutex = "none"
    /\ ShouldFlush(active)
    /\ mutex' = f
    /\ flush' = [flush EXCEPT ![f] = NewFlush(active)]
    /\ UNCHANGED <<stores, numStores, active, call, compact, started, acked, delivered>>

\* A faulty Rotate that leaves the full store active.
NoRotate(f) ==
    /\ flush[f] # Resting /\ flush[f].pc = "rotate"
    /\ numStores' = 2
    /\ active' = active
    /\ flush' = [flush EXCEPT ![f].pc = "begin",
                              ![f].quiet = \A w \in Writers :
                                  call[w] # Idle => call[w].store # flush[f].store]
    /\ UNCHANGED <<stores, mutex, call, compact, started, acked, delivered>>

\* A faulty Rotate that does not wrap around the end of stores_.
RotatePastEnd(f) ==
    /\ flush[f] # Resting /\ flush[f].pc = "rotate"
    /\ numStores' = 2
    /\ active' = flush[f].store + 1
    /\ flush' = [flush EXCEPT ![f].pc = "begin"]
    /\ UNCHANGED <<stores, mutex, call, compact, started, acked, delivered>>

\* The second store is created on the first flush; active_store_ moves on.
\* (history) quiet: no call is still using the store that is being flushed.
Rotate(f) ==
    /\ flush[f] # Resting /\ flush[f].pc = "rotate"
    /\ numStores' = 2
    /\ active' = (flush[f].store + 1) % numStores'
    /\ flush' = [flush EXCEPT ![f].pc = "begin",
                              ![f].quiet = \A w \in Writers :
                                  call[w] # Idle => call[w].store # flush[f].store]
    /\ UNCHANGED <<stores, mutex, call, compact, started, acked, delivered>>

\* stores_[current]->BeginFlush() and the return, which releases the lock.
BeginFlush(f) ==
    /\ flush[f] # Resting /\ flush[f].pc = "begin"
    /\ stores' = [stores EXCEPT ![flush[f].store].flushing = TRUE]
    /\ mutex' = "none"
    /\ flush' = [flush EXCEPT ![f].pc = "count"]
    /\ UNCHANGED <<numStores, active, call, compact, started, acked, delivered>>

\* The client reads PendingRows() before it visits the rows.
PendingRows(f) ==
    /\ flush[f] # Resting /\ flush[f].pc = "count"
    /\ flush' = [flush EXCEPT ![f].pc = "visit",
                              ![f].rows = stores[flush[f].store].pending]
    /\ UNCHANGED <<stores, numStores, active, mutex, call, compact, started, acked, delivered>>

\* VisitInserts(col, ...) under the column's shared lock.
VisitInserts(f) ==
    /\ flush[f] # Resting /\ flush[f].pc = "visit" /\ flush[f].col < NumColumns
    /\ flush' = [flush EXCEPT
           ![f].col = @ + 1,
           ![f].read[flush[f].col] = stores[flush[f].store].inserts[flush[f].col]]
    /\ UNCHANGED <<stores, numStores, active, mutex, call, compact, started, acked, delivered>>

\* The rows a finished flush carried over whole.
Carried(f) == {r \in Rows : \A c \in Cols : r \in flush[f].read[c]}

\* A faulty EndFlush that subtracts what is pending now, not what was counted.
EndFlushAll(f) ==
    /\ flush[f] # Resting /\ flush[f].pc = "visit" /\ flush[f].col = NumColumns
    /\ stores' = [stores EXCEPT ![flush[f].store].pending = 0]
    /\ delivered' = delivered \cup Carried(f)
    /\ flush' = [flush EXCEPT ![f].pc = "unflag"]
    /\ UNCHANGED <<numStores, active, mutex, call, compact, started, acked>>

\* A faulty EndFlush that also subtracts the row being inserted.
EndFlushOneMore(f) ==
    /\ flush[f] # Resting /\ flush[f].pc = "visit" /\ flush[f].col = NumColumns
    /\ stores' = [stores EXCEPT ![flush[f].store].pending =
                      (@ - (flush[f].rows + 1)) % SizeModulus]
    /\ delivered' = delivered \cup Carried(f)
    /\ flush' = [flush EXCEPT ![f].pc = "unflag"]
    /\ UNCHANGED <<numStores, active, mutex, call, compact, started, acked>>

\* FinishFlush(store_idx, n): EndFlush subtracts n, without the manager's lock ...
EndFlush(f) ==
    /\ flush[f] # Resting /\ flush[f].pc = "visit" /\ flush[f].col = NumColumns
    /\ stores' = [stores EXCEPT ![flush[f].store].pending = (@ - flush[f].rows) % SizeModulus]
    /\ delivered' = delivered \cup Carried(f)
    /\ flush' = [flush EXCEPT ![f].pc = "unflag"]
    /\ UNCHANGED <<numStores, active, mutex, call, compact, started, acked>>

\* ... and then lowers flushing_.
EndFlushFlag(f) ==
    /\ flush[f] # Resting /\ flush[f].pc = "unflag"
    /\ stores' = [stores EXCEPT ![flush[f].store].flushing = FALSE]
    /\ flush' = [flush EXCEPT ![f] = Resting]
    /\ UNCHANGED <<numStores, active, mutex, call, compact, started, acked, delivered>>
-----------------------------------------------------------------------------
(* CompactStores, under manager_mutex_ throughout.                         *)

CompactStores ==
    /\ compact = Resting
    /\ mutex = "none"
    /\ OverlapCompaction \/ \A w \in Writers : call[w] = Idle
    /\ mutex' = "compactor"
    /\ compact' = [pc |-> "check", store |-> 0, col |-> 0]
    /\ UNCHANGED <<stores, numStores, active, call, flush, started, acked, delivered>>

\* A faulty test that forgets PendingRows.
CompactCheckFlagOnly ==
    /\ compact # Resting /\ compact.pc = "check" /\ compact.store < numStores
    /\ compact' = IF ~stores[compact.store].flushing
                  THEN [compact EXCEPT !.pc = "clear", !.col = 0]
                  ELSE [compact EXCEPT !.store = @ + 1]
    /\ UNCHANGED <<stores, numStores, active, mutex, call, flush, started, acked, delivered>>

\* if (!IsFlushing() && PendingRows() == 0)
CompactCheck ==
    /\ compact # Resting /\ compact.pc = "check" /\ compact.store < numStores
    /\ compact' = IF ~stores[compact.store].flushing /\ stores[compact.store].pending = 0
                  THEN [compact EXCEPT !.pc = "clear", !.col = 0]
                  ELSE [compact EXCEPT !.store = @ + 1]
    /\ UNCHANGED <<stores, numStores, active, mutex, call, flush, started, acked, delivered>>

\* Clear() empties one column at a time, each under its own lock ...
ClearColumn ==
    /\ compact # Resting /\ compact.pc = "clear" /\ compact.col < NumColumns
    /\ stores' = [stores EXCEPT ![compact.store].inserts[compact.col] = {},
                                ![compact.store].deletes[compact.col] = {}]
    /\ compact' = [compact EXCEPT !.col = @ + 1]
    /\ UNCHANGED <<numStores, active, mutex, call, flush, started, acked, delivered>>

\* ... and then stores 0 into pending_rows_.
ClearPending ==
    /\ compact # Resting /\ compact.pc = "clear" /\ compact.col = NumColumns
    /\ stores' = [stores EXCEPT ![compact.store].pending = 0]
    /\ compact' = [pc |-> "check", store |-> compact.store + 1, col |-> 0]
    /\ UNCHANGED <<numStores, active, mutex, call, flush, started, acked, delivered>>

CompactReturn ==
    /\ compact # Resting /\ compact.pc = "check" /\ compact.store = numStores
    /\ compact' = Resting
    /\ mutex' = "none"
    /\ UNCHANGED <<stores, numStores, active, call, flush, started, acked, delivered>>

WriterStep(w) ==
    \/ BeginInsert(w)
    \/ \E r \in Rows : BeginDelete(w, r)
    \/ WriteColumn(w)
    \/ InsertReturn(w)
    \/ DeleteReturn(w)

FlusherStep(f) ==
    \/ GetStoreForFlush(f) \/ Rotate(f) \/ BeginFlush(f)
    \/ PendingRows(f) \/ VisitInserts(f) \/ EndFlush(f) \/ EndFlushFlag(f)

CompactStep ==
    CompactStores \/ CompactCheck \/ ClearColumn \/ ClearPending \/ CompactReturn

Next ==
    \/ \E w \in Writers : WriterStep(w)
    \/ \E f \in Flushers : FlusherStep(f)
    \/ CompactStep

Spec == Init /\ [][Next]_vars
-----------------------------------------------------------------------------
\* Row r can still be read back: from all columns of one store, or from a segment.
Kept(r) ==
    \/ r \in delivered
    \/ \E s \in Index : \A c \in Cols : r \in stores[s].inserts[c]

(***************************************************************************)
(* NoAckedInsertLost: a row whose Insert has returned stays readable,      *)
(* either in a store or, after a flush that read all of its columns, in a  *)
(* segment.  A writer may finish on a store the manager has moved away     *)
(* from, during or after its flush, and CompactStores may clear that       *)
(* store; only the order count, visit, subtract protects the row.          *)
(* Holds with one flusher and without OverlapCompaction.                   *)
(***************************************************************************)
NoAckedInsertLost == \A r \in acked.inserts : Kept(r)

(***************************************************************************)
(* ZeroPendingMeansDelivered: what CompactStores relies on when it clears  *)
(* a store: a store that is not being flushed and counts no pending rows   *)
(* holds no returned Insert that no flush has delivered.                   *)
(***************************************************************************)
ZeroPendingMeansDelivered ==
    \A s \in 0 .. numStores - 1 :
        ~stores[s].flushing /\ stores[s].pending = 0 =>
            \A r \in acked.inserts :
                (\E c \in Cols : r \in stores[s].inserts[c]) => r \in delivered

(***************************************************************************)
(* FlushIsAligned: a flush that found no call using its store when it      *)
(* rotated reads the same rows from every column, although it visits the   *)
(* columns under different locks while other writers run: they have all    *)
(* been sent to the other store.  MergeColumn pairs the columns by         *)
(* position, so a difference would mix rows.                               *)
(***************************************************************************)
FlushIsAligned ==
    \A f \in Flushers : flush[f] # Resting =>
        (flush[f].quiet =>
            \A c1, c2 \in 0 .. flush[f].col - 1 : flush[f].read[c1] = flush[f].read[c2])

(***************************************************************************)
(* PendingNeverWraps: pending_rows_, a size_t, never passes below zero: it *)
(* never counts more rows than were inserted.                              *)
(***************************************************************************)
PendingNeverWraps ==
    \A s \in Index : stores[s].pending <= Cardinality(acked.inserts)

(***************************************************************************)
(* NoAckedDeleteLost: a row whose Delete has returned has its tombstone in *)
(* every column of some store for as long as the row is readable.  It does *)
(* not hold: Delete counts nothing in pending_rows_, so CompactStores      *)
(* clears a store that holds only tombstones.                              *)
(***************************************************************************)
NoAckedDeleteLost ==
    \A r \in acked.deletes \cap acked.inserts :
        \E s \in Index : \A c \in Cols : r \in stores[s].deletes[c]
=============================================================================
