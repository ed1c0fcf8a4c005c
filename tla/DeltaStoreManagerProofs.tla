---------------------- MODULE DeltaStoreManagerProofs ----------------------
(***************************************************************************)
(* Proofs about DeltaStoreManager for any set of writers and any number of *)
(* columns, inserts and deletes: types, and, with one flusher and no       *)
(* compaction inside a call, that no acknowledged insert is lost.          *)
(***************************************************************************)
EXTENDS DeltaStoreManager, FiniteSetTheorems, TLAPS

\* At most one thread flushes.
OneFlusher == \A f, g \in Flushers : f = g

\* CompactStores is not called while an Insert or a Delete is running.
CalmCompaction == ~OverlapCompaction

\* Row r lies in column c of store s.
In(r, s, c) == r \in stores[s].inserts[c]

\* CompactStores is clearing store s.
Clearing(s) == compact # Resting /\ compact.pc = "clear" /\ compact.store = s

\* A store that is being cleared exists.
ClearStore == compact # Resting /\ compact.pc = "clear" => compact.store < numStores

\* Who holds manager_mutex_.
MutexInv ==
    /\ \A f \in Flushers :
           flush[f] # Resting /\ flush[f].pc \in {"rotate", "begin"} => mutex = f
    /\ compact # Resting => mutex = "compactor"

\* The store being flushed is flagged and no longer the active one; a flush that
\* found it quiet has it to itself; before the visit nothing has been read.
FlushInv == \A f \in Flushers : flush[f] # Resting =>
    /\ flush[f].pc \in {"count", "visit", "unflag"} => stores[flush[f].store].flushing
    /\ flush[f].pc = "rotate" => active = flush[f].store /\ ~flush[f].quiet
    /\ flush[f].pc # "rotate" => active # flush[f].store
    /\ flush[f].pc \in {"rotate", "begin", "count"} => flush[f].col = 0
    /\ flush[f].quiet => \A w \in Writers : call[w] # Idle => call[w].store # flush[f].store

\* Compaction has no call beside it, and what it clears is neither being flushed
\* nor counts anything.
ClearInv ==
    /\ compact # Resting => \A w \in Writers : call[w] = Idle
    /\ \A s \in Index : Clearing(s) =>
           /\ ~stores[s].flushing /\ stores[s].pending = 0
           /\ \A c \in Cols : c < compact.col => stores[s].inserts[c] = {}

\* An Insert in flight has its row to itself, in the columns it has visited of the
\* store it was given and nowhere else, and has not been acknowledged.
CallInv ==
    /\ \A w \in Writers : call[w] # Idle /\ call[w].kind = "insert" =>
           /\ call[w].row \notin acked.inserts /\ call[w].row <= started.inserts
           /\ \A s \in Index, c \in Cols :
                  In(call[w].row, s, c) <=> s = call[w].store /\ c < call[w].col
           /\ \A u \in Writers : u # w /\ call[u] # Idle /\ call[u].kind = "insert" =>
                  call[u].row # call[w].row
    /\ \A r \in acked.inserts : r <= started.inserts
    /\ \A s \in Index, c \in Cols : \A r \in stores[s].inserts[c] : r <= started.inserts

\* A row that some columns of a store have and others lack is being inserted there,
\* or the store is being cleared.
AlignInv == \A s \in Index, c1, c2 \in Cols, r \in Rows :
    In(r, s, c1) /\ ~In(r, s, c2) =>
        \/ Clearing(s)
        \/ \E w \in Writers : /\ call[w] # Idle /\ call[w].kind = "insert"
                              /\ call[w].row = r /\ call[w].store = s

\* What a quiet flush has read of a column is still all there is in it.
ReadInv == \A f \in Flushers : flush[f] # Resting /\ flush[f].quiet =>
    \A c \in Cols : c < flush[f].col => flush[f].read[c] = stores[flush[f].store].inserts[c]

\* owed[s]: the rows that pending_rows_ of store s stands for, each of them in
\* every column of s; among them all acknowledged rows of s that no flush has
\* delivered.  counted: the rows the flusher's number stands for; they were there
\* before it read the first column.
Owes(owed, counted) ==
    /\ \A s \in Index :
           /\ Cardinality(owed[s]) = stores[s].pending
           /\ owed[s] \subseteq acked.inserts
           /\ \A c \in Cols : owed[s] \subseteq stores[s].inserts[c]
    /\ \A r \in acked.inserts \ delivered :
           /\ \E s \in Index : r \in owed[s]
           /\ \A s \in Index, c \in Cols : In(r, s, c) => r \in owed[s]
    /\ \A f \in Flushers : flush[f] # Resting /\ flush[f].pc = "visit" =>
           /\ counted \subseteq owed[flush[f].store]
           /\ Cardinality(counted) = flush[f].rows
           /\ \A c \in Cols : c < flush[f].col => counted \subseteq flush[f].read[c]

OwedInv == \E owed \in [Index -> SUBSET Rows], counted \in SUBSET Rows : Owes(owed, counted)

\* Everything but the types and the count.
RingInv == MutexInv /\ FlushInv /\ ClearInv /\ CallInv /\ AlignInv /\ ReadInv

IInv == TypeOK /\ ClearStore /\ RingInv /\ OwedInv
-----------------------------------------------------------------------------
(* Types.                                                                  *)

StoreType == [inserts : [Cols -> SUBSET Rows], deletes : [Cols -> SUBSET Rows],
              pending : 0 .. SizeModulus - 1, flushing : BOOLEAN]

CallType == [kind : {"insert", "delete"}, store : Index, row : Rows, col : 0 .. NumColumns]

FlushType == [pc : {"rotate", "begin", "count", "visit", "unflag"},
              store : Index, rows : 0 .. SizeModulus - 1, col : 0 .. NumColumns,
              read : [Cols -> SUBSET Rows], quiet : BOOLEAN]

\* The store a field names, and its parts.
LEMMA StoreParts ==
    ASSUME TypeOK
    PROVE  /\ stores \in [Index -> StoreType]
           /\ \A s \in Index :
                 /\ stores[s] \in StoreType
                 /\ stores[s].inserts \in [Cols -> SUBSET Rows]
                 /\ stores[s].deletes \in [Cols -> SUBSET Rows]
                 /\ stores[s].pending \in 0 .. SizeModulus - 1
                 /\ stores[s].flushing \in BOOLEAN
  BY DEF TypeOK, StoreType

\* A writer inside a call.
LEMMA InCall ==
    ASSUME TypeOK
    PROVE  /\ call \in [Writers -> {Idle} \cup CallType]
           /\ \A w \in Writers : call[w] # Idle =>
                 /\ call[w] \in CallType
                 /\ call[w].kind \in {"insert", "delete"} /\ call[w].store \in Index
                 /\ call[w].row \in Rows /\ call[w].col \in 0 .. NumColumns
  BY DEF TypeOK, CallType

\* A flusher inside a flush.
LEMMA InFlush ==
    ASSUME TypeOK
    PROVE  /\ flush \in [Flushers -> {Resting} \cup FlushType]
           /\ \A f \in Flushers : flush[f] # Resting =>
                 /\ flush[f] \in FlushType
                 /\ flush[f].pc \in {"rotate", "begin", "count", "visit", "unflag"}
                 /\ flush[f].store \in Index /\ flush[f].rows \in 0 .. SizeModulus - 1
                 /\ flush[f].col \in 0 .. NumColumns
                 /\ flush[f].read \in [Cols -> SUBSET Rows] /\ flush[f].quiet \in BOOLEAN
  BY DEF TypeOK, FlushType

\* CompactStores at work.
LEMMA InCompact ==
    ASSUME TypeOK, compact # Resting
    PROVE  /\ compact \in [pc : {"check", "clear"}, store : 0 .. 2, col : 0 .. NumColumns]
           /\ compact.pc \in {"check", "clear"} /\ compact.store \in 0 .. 2
           /\ compact.col \in 0 .. NumColumns
  BY DEF TypeOK

LEMMA CallNotIdle == ASSUME NEW k \in CallType PROVE k # Idle
  BY DEF CallType, Idle

LEMMA FlushNotResting == ASSUME NEW x \in FlushType PROVE x # Resting
  BY DEF FlushType, Resting

LEMMA CompactNotResting ==
    ASSUME NEW x \in [pc : {"check", "clear"}, store : 0 .. 2, col : 0 .. NumColumns]
    PROVE  x # Resting
  BY DEF Resting
-----------------------------------------------------------------------------
(* What each step changes, field by field.                                 *)

LEMMA CurrentStoreEffect ==
    ASSUME TypeOK, NEW w \in Writers, NEW kind \in {"insert", "delete"}, NEW r \in Rows,
           CurrentStore(w, kind, r)
    PROVE  /\ call[w] = Idle
           /\ call' \in [Writers -> {Idle} \cup CallType]
           /\ \A u \in Writers : u # w => call'[u] = call[u]
           /\ call'[w] # Idle /\ call'[w].kind = kind /\ call'[w].store = active
           /\ call'[w].row = r /\ call'[w].col = 0
<1> DEFINE k == [kind |-> kind, store |-> active, row |-> r, col |-> 0]
<1>a. active \in Index /\ 0 \in 0 .. NumColumns
  BY ManagerAssumption DEF TypeOK, Index
<1>1. k \in CallType
  BY <1>a DEF CallType
<1>2. k # Idle
  BY <1>1, CallNotIdle
<1>3. call' = [call EXCEPT ![w] = k] /\ call[w] = Idle
  BY DEF CurrentStore
<1>4. k.kind = kind /\ k.store = active /\ k.row = r /\ k.col = 0
  OBVIOUS
<1> HIDE DEF k
<1> QED
  BY <1>1, <1>2, <1>3, <1>4, InCall

LEMMA WriteColumnEffect ==
    ASSUME TypeOK, NEW w \in Writers, WriteColumn(w)
    PROVE  /\ call[w] # Idle /\ call[w].col \in Cols
           /\ stores' \in [Index -> StoreType]
           /\ \A s \in Index :
                 /\ stores'[s].pending = stores[s].pending
                 /\ stores'[s].flushing = stores[s].flushing
                 /\ \A c \in Cols :
                       LET adds == /\ call[w].kind = "insert"
                                   /\ s = call[w].store /\ c = call[w].col
                       IN  /\ adds => stores'[s].inserts[c] =
                                         stores[s].inserts[c] \cup {call[w].row}
                           /\ ~adds => stores'[s].inserts[c] = stores[s].inserts[c]
           /\ call' \in [Writers -> {Idle} \cup CallType]
           /\ \A u \in Writers : u # w => call'[u] = call[u]
           /\ call'[w] # Idle /\ call'[w].kind = call[w].kind
           /\ call'[w].store = call[w].store /\ call'[w].row = call[w].row
           /\ call'[w].col = call[w].col + 1
<1> DEFINE k == call[w]
<1>1. /\ k # Idle /\ k \in CallType /\ k.kind \in {"insert", "delete"}
      /\ k.store \in Index /\ k.row \in Rows /\ k.col \in Cols
  BY InCall, ManagerAssumption DEF WriteColumn, Cols
<1>2. stores' = IF k.kind = "insert"
                THEN [stores EXCEPT ![k.store].inserts[k.col] = @ \cup {k.row}]
                ELSE [stores EXCEPT ![k.store].deletes[k.col] = @ \cup {k.row}]
  BY DEF WriteColumn
<1>3. call' = [call EXCEPT ![w].col = @ + 1]
  BY DEF WriteColumn
<1>4. /\ call' \in [Writers -> {Idle} \cup CallType]
      /\ \A u \in Writers : u # w => call'[u] = call[u]
      /\ call'[w] \in CallType /\ call'[w].kind = call[w].kind
      /\ call'[w].store = call[w].store /\ call'[w].row = call[w].row
      /\ call'[w].col = call[w].col + 1
  BY <1>1, <1>3, InCall, ManagerAssumption DEF CallType, Cols
<1>5. call'[w] # Idle
  BY <1>4, CallNotIdle
<1>6. CASE k.kind = "insert"
  <2> DEFINE x == [stores[k.store] EXCEPT !.inserts[k.col] = @ \cup {k.row}]
  <2>1. /\ x \in StoreType /\ x.pending = stores[k.store].pending
        /\ x.flushing = stores[k.store].flushing
        /\ x.inserts[k.col] = stores[k.store].inserts[k.col] \cup {k.row}
        /\ \A c \in Cols : c # k.col => x.inserts[c] = stores[k.store].inserts[c]
    BY <1>1, StoreParts DEF StoreType
  <2>2. stores' = [stores EXCEPT ![k.store] = x]
    BY <1>2, <1>6
  <2> HIDE DEF x
  <2> QED
    BY <1>1, <1>4, <1>5, <1>6, <2>1, <2>2, StoreParts
<1>7. CASE k.kind # "insert"
  <2> DEFINE x == [stores[k.store] EXCEPT !.deletes[k.col] = @ \cup {k.row}]
  <2>1. /\ x \in StoreType /\ x.pending = stores[k.store].pending
        /\ x.flushing = stores[k.store].flushing /\ x.inserts = stores[k.store].inserts
    BY <1>1, StoreParts DEF StoreType
  <2>2. stores' = [stores EXCEPT ![k.store] = x]
    BY <1>2, <1>7
  <2> HIDE DEF x
  <2> QED
    BY <1>1, <1>4, <1>5, <1>7, <2>1, <2>2, StoreParts
<1> QED
  BY <1>6, <1>7

\* A writer leaves its call.
LEMMA ReturnEffect ==
    ASSUME TypeOK, NEW w \in Writers, call' = [call EXCEPT ![w] = Idle]
    PROVE  /\ call' \in [Writers -> {Idle} \cup CallType]
           /\ call'[w] = Idle
           /\ \A u \in Writers : u # w => call'[u] = call[u]
  BY InCall

\* pending_rows_ of one store is assigned.
LEMMA PendingEffect ==
    ASSUME TypeOK, NEW s \in Index, NEW n \in 0 .. SizeModulus - 1,
           stores' = [stores EXCEPT ![s].pending = n]
    PROVE  /\ stores' \in [Index -> StoreType]
           /\ stores'[s].pending = n
           /\ \A t \in Index :
                 /\ t # s => stores'[t].pending = stores[t].pending
                 /\ stores'[t].flushing = stores[t].flushing
                 /\ stores'[t].inserts = stores[t].inserts
  BY StoreParts DEF StoreType

\* flushing_ of one store is assigned.
LEMMA FlagEffect ==
    ASSUME TypeOK, NEW s \in Index, NEW b \in BOOLEAN,
           stores' = [stores EXCEPT ![s].flushing = b]
    PROVE  /\ stores' \in [Index -> StoreType]
           /\ stores'[s].flushing = b
           /\ \A t \in Index :
                 /\ t # s => stores'[t].flushing = stores[t].flushing
                 /\ stores'[t].pending = stores[t].pending
                 /\ stores'[t].inserts = stores[t].inserts
<1> DEFINE x == [stores[s] EXCEPT !.flushing = b]
<1>1. /\ x \in StoreType /\ x.flushing = b
      /\ x.pending = stores[s].pending /\ x.inserts = stores[s].inserts
  BY StoreParts DEF StoreType
<1>2. stores' = [stores EXCEPT ![s] = x]
  OBVIOUS
<1> HIDE DEF x
<1> QED
  BY <1>1, <1>2, StoreParts

\* A flusher moves on.
LEMMA FlushEffect ==
    ASSUME TypeOK, NEW f \in Flushers, NEW x \in FlushType,
           flush' = [flush EXCEPT ![f] = x]
    PROVE  /\ flush' \in [Flushers -> {Resting} \cup FlushType]
           /\ flush'[f] = x /\ flush'[f] # Resting
           /\ \A g \in Flushers : g # f => flush'[g] = flush[g]
  BY InFlush, FlushNotResting

LEMMA GetStoreForFlushEffect ==
    ASSUME TypeOK, NEW f \in Flushers, GetStoreForFlush(f)
    PROVE  /\ flush' \in [Flushers -> {Resting} \cup FlushType]
           /\ \A g \in Flushers : g # f => flush'[g] = flush[g]
           /\ flush'[f] # Resting /\ flush'[f].pc = "rotate"
           /\ flush'[f].store = active /\ flush'[f].col = 0 /\ flush'[f].quiet = FALSE
<1> DEFINE x == NewFlush(active)
<1>1. active \in Index /\ 0 \in 0 .. NumColumns /\ 0 \in 0 .. SizeModulus - 1
  BY ManagerAssumption DEF TypeOK, Index
<1>2. /\ x \in FlushType /\ x.pc = "rotate" /\ x.store = active
      /\ x.col = 0 /\ x.quiet = FALSE
  BY <1>1 DEF NewFlush, FlushType
<1>3. flush' = [flush EXCEPT ![f] = x]
  BY DEF GetStoreForFlush
<1> HIDE DEF x
<1> QED
  BY <1>2, <1>3, FlushEffect

LEMMA RotateEffect ==
    ASSUME TypeOK, NEW f \in Flushers, Rotate(f)
    PROVE  /\ flush[f] # Resting
           /\ flush' \in [Flushers -> {Resting} \cup FlushType]
           /\ \A g \in Flushers : g # f => flush'[g] = flush[g]
           /\ flush'[f] # Resting /\ flush'[f].pc = "begin"
           /\ flush'[f].store = flush[f].store /\ flush'[f].col = flush[f].col
           /\ flush'[f].quiet = \A w \in Writers :
                                   call[w] # Idle => call[w].store # flush[f].store
           /\ numStores' = 2 /\ active' \in Index /\ active' # flush[f].store
<1> DEFINE q == \A w \in Writers : call[w] # Idle => call[w].store # flush[f].store
           x == [flush[f] EXCEPT !.pc = "begin", !.quiet = q]
<1>1. flush[f] # Resting
  BY DEF Rotate
<1>2. flush[f] \in FlushType /\ flush[f].store \in Index
  BY <1>1, InFlush
<1>3. q \in BOOLEAN
  OBVIOUS
<1>4. flush' = [flush EXCEPT ![f] = x]
  BY DEF Rotate
<1>5. numStores' = 2 /\ active' \in Index /\ active' # flush[f].store
  BY <1>2 DEF Rotate, Index
<1> HIDE DEF q
<1>6. /\ x \in FlushType /\ x.pc = "begin" /\ x.store = flush[f].store
      /\ x.col = flush[f].col /\ x.quiet = q
  BY <1>2, <1>3 DEF FlushType
<1> HIDE DEF x
<1>7. /\ flush' \in [Flushers -> {Resting} \cup FlushType]
      /\ flush'[f] = x /\ flush'[f] # Resting
      /\ \A g \in Flushers : g # f => flush'[g] = flush[g]
  BY <1>4, <1>6, FlushEffect
<1> QED
  BY <1>1, <1>5, <1>6, <1>7 DEF q

LEMMA BeginFlushEffect ==
    ASSUME TypeOK, NEW f \in Flushers, BeginFlush(f)
    PROVE  /\ flush[f] # Resting /\ flush[f].store \in Index
           /\ flush' \in [Flushers -> {Resting} \cup FlushType]
           /\ \A g \in Flushers : g # f => flush'[g] = flush[g]
           /\ flush'[f] # Resting /\ flush'[f].pc = "count"
           /\ flush'[f].store = flush[f].store /\ flush'[f].col = flush[f].col
           /\ flush'[f].read = flush[f].read /\ flush'[f].quiet = flush[f].quiet
           /\ stores' \in [Index -> StoreType]
           /\ stores'[flush[f].store].flushing = TRUE
           /\ \A t \in Index :
                 /\ t # flush[f].store => stores'[t].flushing = stores[t].flushing
                 /\ stores'[t].pending = stores[t].pending
                 /\ stores'[t].inserts = stores[t].inserts
<1> DEFINE x == [flush[f] EXCEPT !.pc = "count"]
<1>1. flush[f] # Resting /\ flush[f] \in FlushType /\ flush[f].store \in Index
  BY InFlush DEF BeginFlush
<1>2. /\ x \in FlushType /\ x.pc = "count" /\ x.store = flush[f].store
      /\ x.col = flush[f].col /\ x.read = flush[f].read /\ x.quiet = flush[f].quiet
  BY <1>1 DEF FlushType
<1>3. flush' = [flush EXCEPT ![f] = x]
  BY DEF BeginFlush
<1>4. stores' = [stores EXCEPT ![flush[f].store].flushing = TRUE]
  BY DEF BeginFlush
<1> HIDE DEF x
<1>5. /\ flush' \in [Flushers -> {Resting} \cup FlushType]
      /\ flush'[f] = x /\ flush'[f] # Resting
      /\ \A g \in Flushers : g # f => flush'[g] = flush[g]
  BY <1>2, <1>3, FlushEffect
<1>6. /\ stores' \in [Index -> StoreType]
      /\ stores'[flush[f].store].flushing = TRUE
      /\ \A t \in Index :
            /\ t # flush[f].store => stores'[t].flushing = stores[t].flushing
            /\ stores'[t].pending = stores[t].pending
            /\ stores'[t].inserts = stores[t].inserts
  BY <1>1, <1>4, FlagEffect
<1> QED
  BY <1>1, <1>2, <1>5, <1>6

LEMMA PendingRowsEffect ==
    ASSUME TypeOK, NEW f \in Flushers, PendingRows(f)
    PROVE  /\ flush[f] # Resting /\ flush[f].store \in Index
           /\ flush' \in [Flushers -> {Resting} \cup FlushType]
           /\ \A g \in Flushers : g # f => flush'[g] = flush[g]
           /\ flush'[f] # Resting /\ flush'[f].pc = "visit"
           /\ flush'[f].rows = stores[flush[f].store].pending
           /\ flush'[f].store = flush[f].store /\ flush'[f].col = flush[f].col
           /\ flush'[f].read = flush[f].read /\ flush'[f].quiet = flush[f].quiet
<1> DEFINE x == [flush[f] EXCEPT !.pc = "visit", !.rows = stores[flush[f].store].pending]
<1>1. /\ flush[f] # Resting /\ flush[f] \in FlushType /\ flush[f].store \in Index
      /\ stores[flush[f].store].pending \in 0 .. SizeModulus - 1
  BY InFlush, StoreParts DEF PendingRows
<1>2. /\ x \in FlushType /\ x.pc = "visit" /\ x.rows = stores[flush[f].store].pending
      /\ x.store = flush[f].store
      /\ x.col = flush[f].col /\ x.read = flush[f].read /\ x.quiet = flush[f].quiet
  BY <1>1 DEF FlushType
<1>3. flush' = [flush EXCEPT ![f] = x]
  BY DEF PendingRows
<1> HIDE DEF x
<1>4. /\ flush' \in [Flushers -> {Resting} \cup FlushType]
      /\ flush'[f] = x /\ flush'[f] # Resting
      /\ \A g \in Flushers : g # f => flush'[g] = flush[g]
  BY <1>2, <1>3, FlushEffect
<1> QED
  BY <1>1, <1>2, <1>4

LEMMA VisitInsertsEffect ==
    ASSUME TypeOK, NEW f \in Flushers, VisitInserts(f)
    PROVE  /\ flush[f] # Resting /\ flush[f].store \in Index /\ flush[f].col \in Cols
           /\ flush' \in [Flushers -> {Resting} \cup FlushType]
           /\ \A g \in Flushers : g # f => flush'[g] = flush[g]
           /\ flush'[f] # Resting /\ flush'[f].pc = "visit"
           /\ flush'[f].rows = flush[f].rows
           /\ flush'[f].store = flush[f].store /\ flush'[f].col = flush[f].col + 1
           /\ flush'[f].quiet = flush[f].quiet
           /\ \A c \in Cols : flush'[f].read[c] =
                 IF c = flush[f].col THEN stores[flush[f].store].inserts[c]
                                     ELSE flush[f].read[c]
<1> DEFINE y == stores[flush[f].store].inserts[flush[f].col]
           x == [flush[f] EXCEPT !.col = @ + 1, !.read[flush[f].col] = y]
<1>1. /\ flush[f] # Resting /\ flush[f] \in FlushType /\ flush[f].store \in Index
      /\ flush[f].pc = "visit" /\ flush[f].col \in Cols
      /\ flush[f].col + 1 \in 0 .. NumColumns
  BY InFlush, ManagerAssumption DEF VisitInserts, Cols
<1>2. y \in SUBSET Rows
  BY <1>1, StoreParts
<1>3. flush' = [flush EXCEPT ![f] = x]
  BY DEF VisitInserts
<1> HIDE DEF y
<1>4. /\ x \in FlushType /\ x.pc = "visit" /\ x.rows = flush[f].rows
      /\ x.store = flush[f].store /\ x.col = flush[f].col + 1 /\ x.quiet = flush[f].quiet
      /\ \A c \in Cols : x.read[c] = IF c = flush[f].col THEN y ELSE flush[f].read[c]
  BY <1>1, <1>2 DEF FlushType
<1> HIDE DEF x
<1>5. /\ flush' \in [Flushers -> {Resting} \cup FlushType]
      /\ flush'[f] = x /\ flush'[f] # Resting
      /\ \A g \in Flushers : g # f => flush'[g] = flush[g]
  BY <1>3, <1>4, FlushEffect
<1> QED
  BY <1>1, <1>4, <1>5 DEF y

LEMMA EndFlushEffect ==
    ASSUME TypeOK, NEW f \in Flushers, EndFlush(f)
    PROVE  LET s == flush[f].store IN
           /\ flush[f] # Resting /\ s \in Index
           /\ flush' \in [Flushers -> {Resting} \cup FlushType]
           /\ \A g \in Flushers : g # f => flush'[g] = flush[g]
           /\ flush'[f] # Resting /\ flush'[f].pc = "unflag"
           /\ flush'[f].store = s /\ flush'[f].col = flush[f].col
           /\ flush'[f].read = flush[f].read /\ flush'[f].quiet = flush[f].quiet
           /\ stores' \in [Index -> StoreType]
           /\ stores'[s].pending = (stores[s].pending - flush[f].rows) % SizeModulus
           /\ \A t \in Index :
                 /\ t # s => stores'[t].pending = stores[t].pending
                 /\ stores'[t].flushing = stores[t].flushing
                 /\ stores'[t].inserts = stores[t].inserts
<1> DEFINE s == flush[f].store
           x == [flush[f] EXCEPT !.pc = "unflag"]
           n == (stores[s].pending - flush[f].rows) % SizeModulus
<1>1. flush[f] # Resting /\ flush[f] \in FlushType /\ s \in Index
  BY InFlush DEF EndFlush
<1>2. /\ x \in FlushType /\ x.pc = "unflag" /\ x.store = s
      /\ x.col = flush[f].col /\ x.read = flush[f].read /\ x.quiet = flush[f].quiet
  BY <1>1 DEF FlushType
<1>3. flush' = [flush EXCEPT ![f] = x]
  BY DEF EndFlush
<1>4. stores' = [stores EXCEPT ![s].pending = n]
  BY DEF EndFlush
<1>5. stores[s].pending \in Int /\ flush[f].rows \in Int
  BY <1>1, InFlush, StoreParts
<1>6. n \in 0 .. SizeModulus - 1
  BY <1>5, ManagerAssumption
<1> HIDE DEF x, n
<1>7. /\ flush' \in [Flushers -> {Resting} \cup FlushType]
      /\ flush'[f] = x /\ flush'[f] # Resting
      /\ \A g \in Flushers : g # f => flush'[g] = flush[g]
  BY <1>2, <1>3, FlushEffect
<1>8. /\ stores' \in [Index -> StoreType]
      /\ stores'[s].pending = n
      /\ \A t \in Index :
            /\ t # s => stores'[t].pending = stores[t].pending
            /\ stores'[t].flushing = stores[t].flushing
            /\ stores'[t].inserts = stores[t].inserts
  BY <1>1, <1>4, <1>6, PendingEffect
<1> QED
  BY <1>1, <1>2, <1>7, <1>8 DEF n

LEMMA EndFlushFlagEffect ==
    ASSUME TypeOK, NEW f \in Flushers, EndFlushFlag(f)
    PROVE  /\ flush[f] # Resting /\ flush[f].store \in Index
           /\ flush' \in [Flushers -> {Resting} \cup FlushType]
           /\ flush'[f] = Resting
           /\ \A g \in Flushers : g # f => flush'[g] = flush[g]
           /\ stores' \in [Index -> StoreType]
           /\ stores'[flush[f].store].flushing = FALSE
           /\ \A t \in Index :
                 /\ t # flush[f].store => stores'[t].flushing = stores[t].flushing
                 /\ stores'[t].pending = stores[t].pending
                 /\ stores'[t].inserts = stores[t].inserts
<1>1. flush[f] # Resting /\ flush[f].store \in Index
  BY InFlush DEF EndFlushFlag
<1>2. /\ flush' = [flush EXCEPT ![f] = Resting]
      /\ stores' = [stores EXCEPT ![flush[f].store].flushing = FALSE]
  BY DEF EndFlushFlag
<1>3. /\ flush' \in [Flushers -> {Resting} \cup FlushType]
      /\ flush'[f] = Resting
      /\ \A g \in Flushers : g # f => flush'[g] = flush[g]
  BY <1>2, InFlush
<1>4. /\ stores' \in [Index -> StoreType]
      /\ stores'[flush[f].store].flushing = FALSE
      /\ \A t \in Index :
            /\ t # flush[f].store => stores'[t].flushing = stores[t].flushing
            /\ stores'[t].pending = stores[t].pending
            /\ stores'[t].inserts = stores[t].inserts
  BY <1>1, <1>2, FlagEffect
<1> QED
  BY <1>1, <1>3, <1>4

CompactType == [pc : {"check", "clear"}, store : 0 .. 2, col : 0 .. NumColumns]

LEMMA CompactCheckEffect ==
    ASSUME TypeOK, CompactCheck
    PROVE  /\ compact # Resting /\ compact.pc = "check" /\ compact.store \in Index
           /\ compact' \in CompactType /\ compact' # Resting
           /\ compact'.pc = "clear" =>
                 /\ compact'.store = compact.store /\ compact'.col = 0
                 /\ ~stores[compact.store].flushing /\ stores[compact.store].pending = 0
<1>1. /\ compact # Resting /\ compact \in CompactType /\ compact.pc = "check"
      /\ compact.store < numStores
  BY InCompact DEF CompactCheck, CompactType
<1>2. /\ compact.store \in Index /\ compact.store + 1 \in 0 .. 2
      /\ 0 \in 0 .. NumColumns
  <2>1. numStores \in 1 .. 2
    BY DEF TypeOK
  <2>2. compact.store \in 0 .. 2
    BY <1>1 DEF CompactType
  <2> QED
    BY <1>1, <2>1, <2>2, ManagerAssumption DEF Index
<1>3. compact' = IF ~stores[compact.store].flushing /\ stores[compact.store].pending = 0
                 THEN [compact EXCEPT !.pc = "clear", !.col = 0]
                 ELSE [compact EXCEPT !.store = @ + 1]
  BY DEF CompactCheck
<1>4. CASE ~stores[compact.store].flushing /\ stores[compact.store].pending = 0
  <2>1. compact' = [compact EXCEPT !.pc = "clear", !.col = 0]
    BY <1>3, <1>4
  <2>2. compact' \in CompactType /\ compact'.store = compact.store /\ compact'.col = 0
    BY <1>1, <1>2, <2>1 DEF CompactType
  <2> QED
    BY <1>1, <1>2, <1>4, <2>2, CompactNotResting DEF CompactType
<1>5. CASE ~(~stores[compact.store].flushing /\ stores[compact.store].pending = 0)
  <2>1. compact' = [compact EXCEPT !.store = @ + 1]
    BY <1>3, <1>5
  <2>2. compact' \in CompactType /\ compact'.pc = "check"
    BY <1>1, <1>2, <2>1 DEF CompactType
  <2> QED
    BY <1>1, <1>2, <2>2, CompactNotResting DEF CompactType
<1> QED
  BY <1>4, <1>5

LEMMA ClearColumnEffect ==
    ASSUME TypeOK, ClearStore, ClearColumn
    PROVE  /\ compact # Resting /\ compact.pc = "clear"
           /\ compact.store \in Index /\ compact.col \in Cols
           /\ compact' \in CompactType /\ compact' # Resting /\ compact'.pc = "clear"
           /\ compact'.store = compact.store /\ compact'.col = compact.col + 1
           /\ stores' \in [Index -> StoreType]
           /\ \A s \in Index :
                 /\ stores'[s].pending = stores[s].pending
                 /\ stores'[s].flushing = stores[s].flushing
                 /\ \A c \in Cols : stores'[s].inserts[c] =
                       IF s = compact.store /\ c = compact.col THEN {}
                                                               ELSE stores[s].inserts[c]
<1> DEFINE k == compact.store
           x == [stores[k] EXCEPT !.inserts[compact.col] = {}, !.deletes[compact.col] = {}]
<1>1. compact # Resting /\ compact \in CompactType /\ compact.pc = "clear" /\ k < numStores
  BY InCompact DEF ClearColumn, CompactType, ClearStore
<1>2. k \in Index /\ compact.col \in Cols /\ compact.col + 1 \in 0 .. NumColumns
  <2>1. numStores \in 1 .. 2
    BY DEF TypeOK
  <2>2. compact.store \in 0 .. 2 /\ compact.col \in 0 .. NumColumns
    BY <1>1 DEF CompactType
  <2>3. compact.col < NumColumns
    BY DEF ClearColumn
  <2> QED
    BY <1>1, <2>1, <2>2, <2>3, ManagerAssumption DEF Index, Cols
<1>3. compact' = [compact EXCEPT !.col = @ + 1]
  BY DEF ClearColumn
<1>4. /\ compact' \in CompactType /\ compact'.pc = "clear"
      /\ compact'.store = compact.store /\ compact'.col = compact.col + 1
  BY <1>1, <1>2, <1>3 DEF CompactType
<1>5. stores' = [stores EXCEPT ![k] = x]
  BY <1>2, StoreParts DEF ClearColumn
<1>6. /\ x \in StoreType /\ x.pending = stores[k].pending /\ x.flushing = stores[k].flushing
      /\ \A c \in Cols : x.inserts[c] = IF c = compact.col THEN {} ELSE stores[k].inserts[c]
  BY <1>2, StoreParts DEF StoreType
<1> HIDE DEF x
<1>7. /\ stores' \in [Index -> StoreType]
      /\ \A s \in Index :
            /\ stores'[s].pending = stores[s].pending
            /\ stores'[s].flushing = stores[s].flushing
            /\ \A c \in Cols : stores'[s].inserts[c] =
                  IF s = compact.store /\ c = compact.col THEN {} ELSE stores[s].inserts[c]
  BY <1>2, <1>5, <1>6, StoreParts
<1> QED
  BY <1>1, <1>2, <1>4, <1>7, CompactNotResting DEF CompactType

LEMMA ClearPendingEffect ==
    ASSUME TypeOK, ClearStore, ClearPending
    PROVE  /\ compact # Resting /\ compact.pc = "clear" /\ compact.store \in Index
           /\ compact.col = NumColumns
           /\ compact' \in CompactType /\ compact' # Resting /\ compact'.pc = "check"
           /\ stores' \in [Index -> StoreType]
           /\ stores'[compact.store].pending = 0
           /\ \A t \in Index :
                 /\ t # compact.store => stores'[t].pending = stores[t].pending
                 /\ stores'[t].flushing = stores[t].flushing
                 /\ stores'[t].inserts = stores[t].inserts
<1>1. /\ compact # Resting /\ compact \in CompactType /\ compact.pc = "clear"
      /\ compact.store < numStores /\ compact.col = NumColumns
  BY InCompact DEF ClearPending, CompactType, ClearStore
<1>2. compact.store \in Index /\ compact.store + 1 \in 0 .. 2 /\ 0 \in 0 .. NumColumns
  <2>1. numStores \in 1 .. 2
    BY DEF TypeOK
  <2>2. compact.store \in 0 .. 2
    BY <1>1 DEF CompactType
  <2> QED
    BY <1>1, <2>1, <2>2, ManagerAssumption DEF Index
<1>3. compact' = [pc |-> "check", store |-> compact.store + 1, col |-> 0]
  BY DEF ClearPending
<1>4. compact' \in CompactType /\ compact'.pc = "check"
  BY <1>2, <1>3 DEF CompactType
<1>5. stores' = [stores EXCEPT ![compact.store].pending = 0]
  BY DEF ClearPending
<1>6. 0 \in 0 .. SizeModulus - 1
  BY ManagerAssumption
<1>7. /\ stores' \in [Index -> StoreType]
      /\ stores'[compact.store].pending = 0
      /\ \A t \in Index :
            /\ t # compact.store => stores'[t].pending = stores[t].pending
            /\ stores'[t].flushing = stores[t].flushing
            /\ stores'[t].inserts = stores[t].inserts
  BY <1>2, <1>5, <1>6, PendingEffect
<1> QED
  BY <1>1, <1>2, <1>4, <1>7, CompactNotResting DEF CompactType

LEMMA InsertReturnEffect ==
    ASSUME TypeOK, NEW w \in Writers, InsertReturn(w)
    PROVE  LET k == call[w] IN
           /\ k # Idle /\ k.kind = "insert" /\ k.col = NumColumns
           /\ k.store \in Index /\ k.row \in Rows
           /\ call' \in [Writers -> {Idle} \cup CallType] /\ call'[w] = Idle
           /\ \A u \in Writers : u # w => call'[u] = call[u]
           /\ stores' \in [Index -> StoreType]
           /\ stores'[k.store].pending = (stores[k.store].pending + 1) % SizeModulus
           /\ \A t \in Index :
                 /\ t # k.store => stores'[t].pending = stores[t].pending
                 /\ stores'[t].flushing = stores[t].flushing
                 /\ stores'[t].inserts = stores[t].inserts
           /\ acked' \in [inserts : SUBSET Rows, deletes : SUBSET Rows]
           /\ acked'.inserts = acked.inserts \cup {k.row}
<1> DEFINE k == call[w]  n == (stores[k.store].pending + 1) % SizeModulus
<1>1. /\ k # Idle /\ k.kind = "insert" /\ k.col = NumColumns
      /\ k.store \in Index /\ k.row \in Rows
  BY InCall DEF InsertReturn
<1>2. stores' = [stores EXCEPT ![k.store].pending = n]
  BY DEF InsertReturn
<1>3. stores[k.store].pending \in Int
  BY <1>1, StoreParts
<1>4. n \in 0 .. SizeModulus - 1
  BY <1>3, ManagerAssumption
<1>5. /\ acked' \in [inserts : SUBSET Rows, deletes : SUBSET Rows]
      /\ acked'.inserts = acked.inserts \cup {k.row}
  BY <1>1 DEF InsertReturn, TypeOK
<1>6. /\ call' \in [Writers -> {Idle} \cup CallType] /\ call'[w] = Idle
      /\ \A u \in Writers : u # w => call'[u] = call[u]
  BY ReturnEffect DEF InsertReturn
<1> HIDE DEF n
<1>7. /\ stores' \in [Index -> StoreType]
      /\ stores'[k.store].pending = n
      /\ \A t \in Index :
            /\ t # k.store => stores'[t].pending = stores[t].pending
            /\ stores'[t].flushing = stores[t].flushing
            /\ stores'[t].inserts = stores[t].inserts
  BY <1>1, <1>2, <1>4, PendingEffect
<1> QED
  BY <1>1, <1>5, <1>6, <1>7 DEF n

LEMMA DeleteReturnEffect ==
    ASSUME TypeOK, NEW w \in Writers, DeleteReturn(w)
    PROVE  /\ call[w] # Idle /\ call[w].kind = "delete"
           /\ call' \in [Writers -> {Idle} \cup CallType] /\ call'[w] = Idle
           /\ \A u \in Writers : u # w => call'[u] = call[u]
           /\ acked' \in [inserts : SUBSET Rows, deletes : SUBSET Rows]
           /\ acked'.inserts = acked.inserts
<1>1. call[w] # Idle /\ call[w].kind = "delete" /\ call[w].row \in Rows
  BY InCall DEF DeleteReturn
<1>2. /\ acked' \in [inserts : SUBSET Rows, deletes : SUBSET Rows]
      /\ acked'.inserts = acked.inserts
  BY <1>1 DEF DeleteReturn, TypeOK
<1>3. /\ call' \in [Writers -> {Idle} \cup CallType] /\ call'[w] = Idle
      /\ \A u \in Writers : u # w => call'[u] = call[u]
  BY ReturnEffect DEF DeleteReturn
<1> QED
  BY <1>1, <1>2, <1>3

LEMMA BeginInsertEffect ==
    ASSUME TypeOK, NEW w \in Writers, BeginInsert(w)
    PROVE  LET r == started.inserts + 1 IN
           /\ r \in Rows /\ CurrentStore(w, "insert", r)
           /\ call[w] = Idle
           /\ call' \in [Writers -> {Idle} \cup CallType]
           /\ \A u \in Writers : u # w => call'[u] = call[u]
           /\ call'[w] # Idle /\ call'[w].kind = "insert" /\ call'[w].store = active
           /\ call'[w].row = r /\ call'[w].col = 0
           /\ started' \in [inserts : 0 .. MaxRows, deletes : 0 .. MaxDeletes]
           /\ started'.inserts = r
<1>1. /\ started.inserts + 1 \in Rows
      /\ CurrentStore(w, "insert", started.inserts + 1)
  BY ManagerAssumption DEF BeginInsert, TypeOK, Rows
<1>2. /\ started' \in [inserts : 0 .. MaxRows, deletes : 0 .. MaxDeletes]
      /\ started'.inserts = started.inserts + 1
  BY <1>1, ManagerAssumption DEF BeginInsert, TypeOK, Rows
<1> QED
  BY <1>1, <1>2, CurrentStoreEffect

LEMMA BeginDeleteEffect ==
    ASSUME TypeOK, NEW w \in Writers, NEW r \in Rows, BeginDelete(w, r)
    PROVE  /\ CurrentStore(w, "delete", r)
           /\ call[w] = Idle
           /\ call' \in [Writers -> {Idle} \cup CallType]
           /\ \A u \in Writers : u # w => call'[u] = call[u]
           /\ call'[w] # Idle /\ call'[w].kind = "delete" /\ call'[w].store = active
           /\ call'[w].row = r /\ call'[w].col = 0
           /\ started' \in [inserts : 0 .. MaxRows, deletes : 0 .. MaxDeletes]
           /\ started'.inserts = started.inserts
<1>1. CurrentStore(w, "delete", r)
  BY DEF BeginDelete
<1>2. /\ started' \in [inserts : 0 .. MaxRows, deletes : 0 .. MaxDeletes]
      /\ started'.inserts = started.inserts
  BY ManagerAssumption DEF BeginDelete, TypeOK
<1> QED
  BY <1>1, <1>2, CurrentStoreEffect
-----------------------------------------------------------------------------
LEMMA TypeInit == ASSUME Init PROVE TypeOK /\ ClearStore
<1>1. EmptyStore \in StoreType
  BY ManagerAssumption DEF EmptyStore, StoreType
<1>2. stores \in [Index -> StoreType]
  BY <1>1 DEF Init
<1>3. compact = Resting /\ ClearStore
  BY DEF Init, ClearStore
<1>4. started \in [inserts : 0 .. MaxRows, deletes : 0 .. MaxDeletes]
  BY ManagerAssumption DEF Init
<1> QED
  BY <1>2, <1>3, <1>4 DEF Init, TypeOK, StoreType

LEMMA TypeStep == ASSUME TypeOK, ClearStore, [Next]_vars PROVE TypeOK' /\ ClearStore'
<1>1. ASSUME NEW w \in Writers, BeginInsert(w) PROVE TypeOK' /\ ClearStore'
  BY <1>1, BeginInsertEffect DEF TypeOK, ClearStore, CallType, CurrentStore
<1>2. ASSUME NEW w \in Writers, NEW r \in Rows, BeginDelete(w, r) PROVE TypeOK' /\ ClearStore'
  BY <1>2, BeginDeleteEffect DEF TypeOK, ClearStore, CallType, CurrentStore
<1>3. ASSUME NEW w \in Writers, WriteColumn(w) PROVE TypeOK' /\ ClearStore'
  BY <1>3, WriteColumnEffect DEF WriteColumn, TypeOK, ClearStore, CallType, StoreType
<1>4. ASSUME NEW w \in Writers, InsertReturn(w) PROVE TypeOK' /\ ClearStore'
  BY <1>4, InsertReturnEffect DEF InsertReturn, TypeOK, ClearStore, CallType, StoreType
<1>5. ASSUME NEW w \in Writers, DeleteReturn(w) PROVE TypeOK' /\ ClearStore'
  BY <1>5, DeleteReturnEffect DEF DeleteReturn, TypeOK, ClearStore, CallType
<1>6. ASSUME NEW f \in Flushers, GetStoreForFlush(f) PROVE TypeOK' /\ ClearStore'
  BY <1>6, GetStoreForFlushEffect DEF GetStoreForFlush, TypeOK, ClearStore, FlushType
<1>7. ASSUME NEW f \in Flushers, Rotate(f) PROVE TypeOK' /\ ClearStore'
  <2>1. /\ numStores' = 2 /\ active' \in Index
        /\ flush' \in [Flushers -> {Resting} \cup FlushType]
        /\ UNCHANGED <<stores, mutex, call, compact, started, acked, delivered>>
    BY <1>7, RotateEffect DEF Rotate
  <2>2. numStores' \in 1 .. 2 /\ active' \in 0 .. numStores' - 1
    BY <2>1 DEF Index
  <2>3. ClearStore'
    BY <2>1 DEF TypeOK, ClearStore
  <2> QED
    BY <2>1, <2>2, <2>3 DEF TypeOK, FlushType
<1>8. ASSUME NEW f \in Flushers, BeginFlush(f) PROVE TypeOK' /\ ClearStore'
  BY <1>8, BeginFlushEffect DEF BeginFlush, TypeOK, ClearStore, FlushType, StoreType
<1>9. ASSUME NEW f \in Flushers, PendingRows(f) PROVE TypeOK' /\ ClearStore'
  BY <1>9, PendingRowsEffect DEF PendingRows, TypeOK, ClearStore, FlushType
<1>10. ASSUME NEW f \in Flushers, VisitInserts(f) PROVE TypeOK' /\ ClearStore'
  BY <1>10, VisitInsertsEffect DEF VisitInserts, TypeOK, ClearStore, FlushType
<1>11. ASSUME NEW f \in Flushers, EndFlush(f) PROVE TypeOK' /\ ClearStore'
  <2>1. delivered' \in SUBSET Rows
    BY <1>11 DEF EndFlush, Carried, TypeOK
  <2> QED
    BY <2>1, <1>11, EndFlushEffect DEF EndFlush, TypeOK, ClearStore, FlushType, StoreType
<1>12. ASSUME NEW f \in Flushers, EndFlushFlag(f) PROVE TypeOK' /\ ClearStore'
  BY <1>12, EndFlushFlagEffect DEF EndFlushFlag, TypeOK, ClearStore, FlushType, StoreType
<1>13. ASSUME CompactStores PROVE TypeOK' /\ ClearStore'
  BY <1>13, ManagerAssumption DEF CompactStores, TypeOK, ClearStore
<1>14. ASSUME CompactCheck PROVE TypeOK' /\ ClearStore'
  BY <1>14, CompactCheckEffect DEF CompactCheck, TypeOK, ClearStore, CompactType
<1>15. ASSUME ClearColumn PROVE TypeOK' /\ ClearStore'
  BY <1>15, ClearColumnEffect DEF ClearColumn, TypeOK, ClearStore, CompactType, StoreType
<1>16. ASSUME ClearPending PROVE TypeOK' /\ ClearStore'
  BY <1>16, ClearPendingEffect DEF ClearPending, TypeOK, ClearStore, CompactType, StoreType
<1>17. ASSUME CompactReturn PROVE TypeOK' /\ ClearStore'
  BY <1>17 DEF CompactReturn, TypeOK, ClearStore
<1>18. ASSUME UNCHANGED vars PROVE TypeOK' /\ ClearStore'
  BY <1>18 DEF vars, TypeOK, ClearStore
<1> QED
  BY <1>1, <1>2, <1>3, <1>4, <1>5, <1>6, <1>7, <1>8, <1>9, <1>10, <1>11, <1>12, <1>13,
     <1>14, <1>15, <1>16, <1>17, <1>18 DEF Next, WriterStep, FlusherStep, CompactStep

(***************************************************************************)
(* ManagerTypeOK: every variable of the manager keeps its type, whatever   *)
(* the number of flushers and however compaction is scheduled; in          *)
(* particular active_store_ always names a store that exists.              *)
(***************************************************************************)
THEOREM ManagerTypeOK == Spec => []TypeOK
<1>1. Init => TypeOK /\ ClearStore
  BY TypeInit
<1>2. TypeOK /\ ClearStore /\ [Next]_vars => (TypeOK /\ ClearStore)'
  BY TypeStep
<1> QED
  BY <1>1, <1>2, PTL DEF Spec
-----------------------------------------------------------------------------
(* RingInv, action by action.                                              *)

\* Only calls, begun, have changed.
Began(w, r) ==
    /\ \A u \in Writers : u # w => call'[u] = call[u]
    /\ call'[w] # Idle /\ call'[w].store = active /\ call'[w].row = r /\ call'[w].col = 0
    /\ call[w] = Idle /\ compact = Resting
    /\ UNCHANGED <<stores, active, mutex, flush, compact, acked, delivered>>

LEMMA BeganStep ==
    ASSUME TypeOK, RingInv, NEW w \in Writers, NEW r \in Rows, Began(w, r)
    PROVE  MutexInv' /\ FlushInv' /\ ClearInv' /\ AlignInv' /\ ReadInv'
<1>1. MutexInv'
  BY DEF RingInv, MutexInv, Began
<1>2. FlushInv'
  BY DEF RingInv, FlushInv, Began
<1>3. ClearInv'
  BY DEF RingInv, ClearInv, Began, Clearing
<1>4. AlignInv'
  <2> SUFFICES ASSUME NEW s \in Index, NEW c1 \in Cols, NEW c2 \in Cols, NEW q \in Rows,
                      In(q, s, c1)', ~In(q, s, c2)'
               PROVE  \E u \in Writers : /\ call'[u] # Idle /\ call'[u].kind = "insert"
                                         /\ call'[u].row = q /\ call'[u].store = s
    BY DEF AlignInv
  <2>1. In(q, s, c1) /\ ~In(q, s, c2) /\ ~Clearing(s)
    BY DEF In, Began, Clearing
  <2>2. PICK u \in Writers : /\ call[u] # Idle /\ call[u].kind = "insert"
                             /\ call[u].row = q /\ call[u].store = s
    BY <2>1 DEF RingInv, AlignInv
  <2> QED
    BY <2>2 DEF Began
<1>5. ReadInv'
  BY DEF RingInv, ReadInv, Began
<1> QED
  BY <1>1, <1>2, <1>3, <1>4, <1>5

LEMMA BeginInsertStep ==
    ASSUME CalmCompaction, TypeOK, RingInv, NEW w \in Writers, BeginInsert(w)
    PROVE  RingInv'
<1> DEFINE r == started.inserts + 1
<1>1. /\ r \in Rows /\ Began(w, r) /\ call'[w].kind = "insert" /\ started'.inserts = r
      /\ started.inserts \in Nat
  BY BeginInsertEffect DEF CurrentStore, CalmCompaction, Began, TypeOK
<1>2. CallInv'
  <2>1. /\ \A q \in acked.inserts : q # r /\ q <= r /\ q <= started.inserts
        /\ \A s \in Index, c \in Cols : \A q \in stores[s].inserts[c] : q # r /\ q <= r
    BY <1>1, StoreParts DEF RingInv, CallInv, Rows, TypeOK
  <2>2. \A s \in Index, c \in Cols : r \in stores'[s].inserts[c] <=> s = active /\ c < 0
    BY <2>1, <1>1 DEF Began, Cols
  <2>3. ASSUME NEW u \in Writers, call'[u] # Idle, call'[u].kind = "insert"
        PROVE  /\ call'[u].row \notin acked'.inserts /\ call'[u].row <= started'.inserts
               /\ \A s \in Index, c \in Cols :
                      In(call[u].row, s, c)' <=> s = call'[u].store /\ c < call'[u].col
               /\ \A v \in Writers : v # u /\ call'[v] # Idle /\ call'[v].kind = "insert" =>
                      call'[v].row # call'[u].row
    <3>1. CASE u = w
      <4>1. /\ call'[u].row = r /\ call'[u].store = active /\ call'[u].col = 0
            /\ r \notin acked'.inserts /\ r <= started'.inserts
        BY <1>1, <2>1, <3>1 DEF Began
      <4>2. \A s \in Index, c \in Cols :
               In(call[u].row, s, c)' <=> s = call'[u].store /\ c < call'[u].col
        BY <2>2, <4>1 DEF In
      <4>3. \A v \in Writers : v # u /\ call'[v] # Idle /\ call'[v].kind = "insert" =>
               call'[v].row # call'[u].row
        BY <1>1, <3>1, <4>1, InCall DEF RingInv, CallInv, Began, Rows
      <4> QED
        BY <4>1, <4>2, <4>3
    <3>2. CASE u # w
      BY <1>1, <3>2, <2>3, InCall DEF RingInv, CallInv, Began, In, Rows
    <3> QED
      BY <3>1, <3>2
  <2> QED
    BY <2>1, <2>3, <1>1 DEF CallInv, Began
<1> QED
  BY <1>1, <1>2, BeganStep DEF RingInv

LEMMA BeginDeleteStep ==
    ASSUME CalmCompaction, TypeOK, RingInv, NEW w \in Writers, NEW r \in Rows,
           BeginDelete(w, r)
    PROVE  RingInv'
<1>1. Began(w, r) /\ call'[w].kind = "delete" /\ started'.inserts = started.inserts
  BY BeginDeleteEffect DEF CurrentStore, CalmCompaction, Began
<1>2. CallInv'
  BY <1>1 DEF RingInv, CallInv, Began, In
<1> QED
  BY <1>1, <1>2, BeganStep DEF RingInv

LEMMA WriteColumnStep ==
    ASSUME TypeOK, RingInv, NEW w \in Writers, WriteColumn(w)
    PROVE  RingInv'
<1> DEFINE k == call[w]
           Adds(s, c) == k.kind = "insert" /\ s = k.store /\ c = k.col
<1>1. /\ k # Idle /\ k.kind \in {"insert", "delete"} /\ k.col \in Cols
      /\ k.store \in Index /\ k.row \in Rows
      /\ compact = Resting
      /\ UNCHANGED <<numStores, active, mutex, flush, compact, started, acked, delivered>>
  BY InCall, WriteColumnEffect DEF WriteColumn, RingInv, ClearInv
<1>2. /\ \A u \in Writers : u # w => call'[u] = call[u]
      /\ call'[w] # Idle /\ call'[w].kind = k.kind /\ call'[w].store = k.store
      /\ call'[w].row = k.row /\ call'[w].col = k.col + 1
  BY WriteColumnEffect
<1>3. \A s \in Index :
         /\ stores'[s].pending = stores[s].pending
         /\ stores'[s].flushing = stores[s].flushing
         /\ \A c \in Cols :
               /\ ~Adds(s, c) => stores'[s].inserts[c] = stores[s].inserts[c]
               /\ \A q : In(q, s, c)' <=> In(q, s, c) \/ (Adds(s, c) /\ q = k.row)
  <2> SUFFICES ASSUME NEW s \in Index
               PROVE  /\ stores'[s].pending = stores[s].pending
                      /\ stores'[s].flushing = stores[s].flushing
                      /\ \A c \in Cols :
                            /\ ~Adds(s, c) => stores'[s].inserts[c] = stores[s].inserts[c]
                            /\ \A q : In(q, s, c)' <=> In(q, s, c) \/ (Adds(s, c) /\ q = k.row)
    OBVIOUS
  <2>1. /\ stores'[s].pending = stores[s].pending
        /\ stores'[s].flushing = stores[s].flushing
    BY WriteColumnEffect
  <2>2. ASSUME NEW c \in Cols
        PROVE  /\ ~Adds(s, c) => stores'[s].inserts[c] = stores[s].inserts[c]
               /\ Adds(s, c) => stores'[s].inserts[c] = stores[s].inserts[c] \cup {k.row}
    BY WriteColumnEffect
  <2>3. ASSUME NEW c \in Cols, NEW q
        PROVE  In(q, s, c)' <=> In(q, s, c) \/ (Adds(s, c) /\ q = k.row)
    <3>1. In(q, s, c)' = (q \in stores'[s].inserts[c]) /\ In(q, s, c) = (q \in stores[s].inserts[c])
      BY DEF In
    <3> QED
      BY <2>2, <3>1
  <2> QED
    BY <2>1, <2>2, <2>3
<1>4. MutexInv'
  BY <1>1 DEF RingInv, MutexInv
<1>5. FlushInv'
  BY <1>1, <1>2, <1>3, InFlush DEF RingInv, FlushInv
<1>6. ClearInv'
  BY <1>1 DEF ClearInv, Clearing
<1>7. CallInv'
  <2>1. ASSUME NEW u \in Writers, call'[u] # Idle, call'[u].kind = "insert"
        PROVE  /\ call'[u].row \notin acked'.inserts /\ call'[u].row <= started'.inserts
               /\ \A s \in Index, c \in Cols :
                      In(call[u].row, s, c)' <=> s = call'[u].store /\ c < call'[u].col
               /\ \A v \in Writers : v # u /\ call'[v] # Idle /\ call'[v].kind = "insert" =>
                      call'[v].row # call'[u].row
    <3>1. /\ call[u] # Idle /\ call[u].kind = "insert" /\ call'[u].row = call[u].row
          /\ call'[u].store = call[u].store
      BY <1>1, <1>2, <2>1
    <3>2. call[u].row \notin acked.inserts /\ call[u].row <= started.inserts
      BY <3>1 DEF RingInv, CallInv
    <3>3. ASSUME NEW v \in Writers, v # u, call'[v] # Idle, call'[v].kind = "insert"
          PROVE  call'[v].row # call'[u].row
      BY <1>1, <1>2, <3>1, <3>3 DEF RingInv, CallInv
    <3>4. ASSUME NEW s \in Index, NEW c \in Cols
          PROVE  In(call[u].row, s, c)' <=> s = call'[u].store /\ c < call'[u].col
      <4>1. In(call[u].row, s, c) <=> s = call[u].store /\ c < call[u].col
        BY <3>1 DEF RingInv, CallInv
      <4>2. CASE u = w
        BY <1>1, <1>2, <1>3, <3>1, <4>1, <4>2 DEF Cols
      <4>3. CASE u # w
        <5>1. k.kind = "insert" => k.row # call[u].row
          BY <1>1, <3>1, <4>3 DEF RingInv, CallInv
        <5> QED
          BY <1>2, <1>3, <3>1, <4>1, <4>3, <5>1
      <4> QED
        BY <4>2, <4>3
    <3> QED
      BY <1>1, <3>1, <3>2, <3>3, <3>4
  <2>2. ASSUME NEW s \in Index, NEW c \in Cols, NEW q \in stores'[s].inserts[c]
        PROVE  q <= started'.inserts
    <3>1. In(q, s, c) \/ (Adds(s, c) /\ q = k.row)
      BY <1>3 DEF In
    <3> QED
      BY <1>1, <3>1 DEF RingInv, CallInv, In
  <2>3. \A q \in acked'.inserts : q <= started'.inserts
    BY <1>1 DEF RingInv, CallInv
  <2> QED
    BY <2>1, <2>2, <2>3 DEF CallInv
<1>8. AlignInv'
  <2> SUFFICES ASSUME NEW s \in Index, NEW c1 \in Cols, NEW c2 \in Cols, NEW q \in Rows,
                      In(q, s, c1)', ~In(q, s, c2)'
               PROVE  \E u \in Writers : /\ call'[u] # Idle /\ call'[u].kind = "insert"
                                         /\ call'[u].row = q /\ call'[u].store = s
    BY DEF AlignInv
  <2>1. CASE k.kind = "insert" /\ s = k.store /\ q = k.row
    BY <1>1, <1>2, <2>1
  <2>2. CASE ~(k.kind = "insert" /\ s = k.store /\ q = k.row)
    <3>1. In(q, s, c1) /\ ~In(q, s, c2) /\ ~Clearing(s)
      BY <1>1, <1>3, <2>2 DEF Clearing
    <3>2. PICK u \in Writers : /\ call[u] # Idle /\ call[u].kind = "insert"
                               /\ call[u].row = q /\ call[u].store = s
      BY <3>1 DEF RingInv, AlignInv
    <3> QED
      BY <1>2, <3>2
  <2> QED
    BY <2>1, <2>2
<1>9. ReadInv'
  <2> SUFFICES ASSUME NEW f \in Flushers, flush'[f] # Resting, flush'[f].quiet,
                      NEW c \in Cols, c < flush'[f].col
               PROVE  flush'[f].read[c] = stores'[flush'[f].store].inserts[c]
    BY DEF ReadInv
  <2>1. /\ flush[f].store \in Index /\ flush[f].store # k.store
        /\ flush[f].read[c] = stores[flush[f].store].inserts[c]
    BY <1>1, InFlush DEF RingInv, ReadInv, FlushInv
  <2> QED
    BY <1>1, <1>3, <2>1
<1> QED
  BY <1>4, <1>5, <1>6, <1>7, <1>8, <1>9 DEF RingInv

LEMMA InsertReturnStep ==
    ASSUME TypeOK, RingInv, NEW w \in Writers, InsertReturn(w)
    PROVE  RingInv'
<1> DEFINE k == call[w]
<1>1. /\ k # Idle /\ k.kind = "insert" /\ k.col = NumColumns
      /\ k.store \in Index /\ k.row \in Rows /\ compact = Resting
      /\ UNCHANGED <<numStores, active, mutex, flush, compact, started, delivered>>
  BY InsertReturnEffect DEF InsertReturn, RingInv, ClearInv
<1>2. /\ \A u \in Writers : u # w => call'[u] = call[u]
      /\ call'[w] = Idle /\ acked'.inserts = acked.inserts \cup {k.row}
  BY InsertReturnEffect
<1>3. \A t \in Index : /\ stores'[t].flushing = stores[t].flushing
                       /\ stores'[t].inserts = stores[t].inserts
  BY InsertReturnEffect
<1>4. MutexInv'
  BY <1>1 DEF RingInv, MutexInv
<1>5. FlushInv'
  BY <1>1, <1>2, <1>3, InFlush DEF RingInv, FlushInv
<1>6. ClearInv'
  BY <1>1 DEF ClearInv, Clearing
<1>7. CallInv'
  BY <1>1, <1>2, <1>3 DEF RingInv, CallInv, In
<1>8. AlignInv'
  <2> SUFFICES ASSUME NEW s \in Index, NEW c1 \in Cols, NEW c2 \in Cols, NEW q \in Rows,
                      In(q, s, c1)', ~In(q, s, c2)'
               PROVE  \E u \in Writers : /\ call'[u] # Idle /\ call'[u].kind = "insert"
                                         /\ call'[u].row = q /\ call'[u].store = s
    BY DEF AlignInv
  <2>1. In(q, s, c1) /\ ~In(q, s, c2) /\ ~Clearing(s)
    BY <1>1, <1>3 DEF In, Clearing
  <2>2. PICK u \in Writers : /\ call[u] # Idle /\ call[u].kind = "insert"
                             /\ call[u].row = q /\ call[u].store = s
    BY <2>1 DEF RingInv, AlignInv
  <2>3. u # w
    BY <1>1, <2>1, <2>2, ManagerAssumption DEF RingInv, CallInv, Cols
  <2> QED
    BY <1>2, <2>2, <2>3
<1>9. ReadInv'
  BY <1>1, <1>3, InFlush DEF RingInv, ReadInv
<1> QED
  BY <1>4, <1>5, <1>6, <1>7, <1>8, <1>9 DEF RingInv

LEMMA DeleteReturnStep ==
    ASSUME TypeOK, RingInv, NEW w \in Writers, DeleteReturn(w)
    PROVE  RingInv'
<1>1. /\ call[w] # Idle /\ call[w].kind = "delete" /\ compact = Resting
      /\ \A u \in Writers : u # w => call'[u] = call[u]
      /\ call'[w] = Idle /\ acked'.inserts = acked.inserts
      /\ UNCHANGED <<stores, numStores, active, mutex, flush, compact, started, delivered>>
  BY DeleteReturnEffect DEF DeleteReturn, RingInv, ClearInv
<1>2. MutexInv'
  BY <1>1 DEF RingInv, MutexInv
<1>3. FlushInv'
  BY <1>1 DEF RingInv, FlushInv
<1>4. ClearInv'
  BY <1>1 DEF ClearInv, Clearing
<1>5. CallInv'
  BY <1>1 DEF RingInv, CallInv, In
<1>6. AlignInv'
  BY <1>1 DEF RingInv, AlignInv, In, Clearing
<1>7. ReadInv'
  BY <1>1 DEF RingInv, ReadInv
<1> QED
  BY <1>2, <1>3, <1>4, <1>5, <1>6, <1>7 DEF RingInv

\* A step that leaves the columns and the calls alone.
LEMMA SameRows ==
    ASSUME RingInv, \A t \in Index : stores'[t].inserts = stores[t].inserts,
           UNCHANGED <<call, compact, started, acked>>
    PROVE  CallInv' /\ AlignInv'
<1>1. CallInv'
  BY DEF RingInv, CallInv, In
<1>2. AlignInv'
  BY DEF RingInv, AlignInv, In, Clearing
<1> QED
  BY <1>1, <1>2

LEMMA GetStoreForFlushStep ==
    ASSUME OneFlusher, TypeOK, RingInv, NEW f \in Flushers, GetStoreForFlush(f)
    PROVE  RingInv'
<1>1. /\ \A g \in Flushers : g = f
      /\ flush'[f].pc = "rotate" /\ flush'[f].store = active
      /\ flush'[f].col = 0 /\ flush'[f].quiet = FALSE
      /\ mutex = "none" /\ mutex' = f
      /\ UNCHANGED <<stores, numStores, active, call, compact, started, acked, delivered>>
  BY GetStoreForFlushEffect DEF GetStoreForFlush, OneFlusher
<1>2. MutexInv'
  BY <1>1 DEF RingInv, MutexInv
<1>3. FlushInv'
  BY <1>1 DEF FlushInv
<1>4. ClearInv'
  BY <1>1 DEF RingInv, ClearInv, Clearing
<1>5. CallInv' /\ AlignInv'
  BY <1>1, SameRows
<1>6. ReadInv'
  BY <1>1 DEF ReadInv
<1> QED
  BY <1>2, <1>3, <1>4, <1>5, <1>6 DEF RingInv

LEMMA RotateStep ==
    ASSUME OneFlusher, TypeOK, RingInv, NEW f \in Flushers, Rotate(f)
    PROVE  RingInv'
<1>1. /\ \A g \in Flushers : g = f
      /\ flush[f] # Resting /\ flush[f].pc = "rotate"
      /\ flush'[f].pc = "begin" /\ flush'[f].store = flush[f].store
      /\ flush'[f].col = flush[f].col
      /\ flush'[f].quiet = \A w \in Writers :
                              call[w] # Idle => call[w].store # flush[f].store
      /\ active' # flush[f].store
      /\ UNCHANGED <<stores, mutex, call, compact, started, acked, delivered>>
  BY RotateEffect DEF Rotate, OneFlusher
<1>2. flush'[f].col = 0 /\ mutex = f
  BY <1>1 DEF RingInv, FlushInv, MutexInv
<1>3. MutexInv'
  BY <1>1, <1>2 DEF RingInv, MutexInv
<1>4. FlushInv'
  BY <1>1, <1>2 DEF FlushInv
<1>5. ClearInv'
  BY <1>1 DEF RingInv, ClearInv, Clearing
<1>6. CallInv' /\ AlignInv'
  BY <1>1, SameRows
<1>7. ReadInv'
  BY <1>1, <1>2 DEF ReadInv, Cols
<1> QED
  BY <1>3, <1>4, <1>5, <1>6, <1>7 DEF RingInv

LEMMA BeginFlushStep ==
    ASSUME OneFlusher, TypeOK, RingInv, NEW f \in Flushers, BeginFlush(f)
    PROVE  RingInv'
<1>1. /\ \A g \in Flushers : g = f
      /\ flush[f] # Resting /\ flush[f].pc = "begin" /\ flush[f].store \in Index
      /\ flush'[f].pc = "count" /\ flush'[f].store = flush[f].store
      /\ flush'[f].col = flush[f].col /\ flush'[f].quiet = flush[f].quiet
      /\ stores'[flush[f].store].flushing = TRUE
      /\ \A t \in Index : stores'[t].inserts = stores[t].inserts
      /\ UNCHANGED <<numStores, active, call, compact, started, acked, delivered>>
  <2>1. /\ flush[f] # Resting /\ flush[f].pc = "begin"
        /\ UNCHANGED <<numStores, active, call, compact, started, acked, delivered>>
    BY DEF BeginFlush
  <2>2. \A g \in Flushers : g = f
    BY DEF OneFlusher
  <2> QED
    BY <2>1, <2>2, BeginFlushEffect
<1>2. mutex = f /\ compact = Resting /\ mutex' = "none"
  BY <1>1, ManagerAssumption DEF RingInv, MutexInv, BeginFlush
<1>3. flush[f].col = 0
  BY <1>1 DEF RingInv, FlushInv
<1>4. MutexInv'
  BY <1>1, <1>2 DEF MutexInv
<1>5. FlushInv'
  BY <1>1, <1>3 DEF RingInv, FlushInv
<1>6. ClearInv'
  BY <1>1, <1>2 DEF ClearInv, Clearing
<1>7. CallInv' /\ AlignInv'
  BY <1>1, SameRows
<1>8. ReadInv'
  BY <1>1, <1>3 DEF ReadInv, Cols
<1> QED
  BY <1>4, <1>5, <1>6, <1>7, <1>8 DEF RingInv

LEMMA PendingRowsStep ==
    ASSUME OneFlusher, TypeOK, RingInv, NEW f \in Flushers, PendingRows(f)
    PROVE  RingInv'
<1>1. /\ \A g \in Flushers : g = f
      /\ flush[f] # Resting /\ flush[f].pc = "count"
      /\ flush'[f].pc = "visit" /\ flush'[f].store = flush[f].store
      /\ flush'[f].col = flush[f].col /\ flush'[f].quiet = flush[f].quiet
      /\ flush'[f].read = flush[f].read
      /\ UNCHANGED <<stores, numStores, active, mutex, call, compact, started, acked, delivered>>
  BY PendingRowsEffect DEF PendingRows, OneFlusher
<1>2. MutexInv'
  BY <1>1 DEF RingInv, MutexInv
<1>3. FlushInv'
  BY <1>1 DEF RingInv, FlushInv
<1>4. ClearInv'
  BY <1>1 DEF RingInv, ClearInv, Clearing
<1>5. CallInv' /\ AlignInv'
  BY <1>1, SameRows
<1>6. ReadInv'
  BY <1>1 DEF RingInv, ReadInv
<1> QED
  BY <1>2, <1>3, <1>4, <1>5, <1>6 DEF RingInv

LEMMA VisitInsertsStep ==
    ASSUME OneFlusher, TypeOK, RingInv, NEW f \in Flushers, VisitInserts(f)
    PROVE  RingInv'
<1>1. /\ \A g \in Flushers : g = f
      /\ flush[f] # Resting /\ flush[f].pc = "visit" /\ flush[f].col \in Cols
      /\ flush'[f].pc = "visit" /\ flush'[f].store = flush[f].store
      /\ flush'[f].col = flush[f].col + 1 /\ flush'[f].quiet = flush[f].quiet
      /\ \A c \in Cols : flush'[f].read[c] =
            IF c = flush[f].col THEN stores[flush[f].store].inserts[c] ELSE flush[f].read[c]
      /\ UNCHANGED <<stores, numStores, active, mutex, call, compact, started, acked, delivered>>
  BY VisitInsertsEffect DEF VisitInserts, OneFlusher
<1>2. MutexInv'
  BY <1>1 DEF RingInv, MutexInv
<1>3. FlushInv'
  BY <1>1 DEF RingInv, FlushInv
<1>4. ClearInv'
  BY <1>1 DEF RingInv, ClearInv, Clearing
<1>5. CallInv' /\ AlignInv'
  BY <1>1, SameRows
<1>6. ReadInv'
  BY <1>1 DEF RingInv, ReadInv, Cols
<1> QED
  BY <1>2, <1>3, <1>4, <1>5, <1>6 DEF RingInv

LEMMA EndFlushStep ==
    ASSUME OneFlusher, TypeOK, RingInv, NEW f \in Flushers, EndFlush(f)
    PROVE  RingInv'
<1>1. /\ \A g \in Flushers : g = f
      /\ flush[f] # Resting /\ flush[f].pc = "visit" /\ flush[f].store \in Index
      /\ flush'[f].pc = "unflag" /\ flush'[f].store = flush[f].store
      /\ flush'[f].col = flush[f].col /\ flush'[f].quiet = flush[f].quiet
      /\ flush'[f].read = flush[f].read
      /\ UNCHANGED <<numStores, active, mutex, call, compact, started, acked>>
  <2>1. /\ flush[f] # Resting /\ flush[f].pc = "visit"
        /\ UNCHANGED <<numStores, active, mutex, call, compact, started, acked>>
    BY DEF EndFlush
  <2>2. \A g \in Flushers : g = f
    BY DEF OneFlusher
  <2> QED
    BY <2>1, <2>2, EndFlushEffect
<1>2. \A t \in Index :
         /\ t # flush[f].store => stores'[t].pending = stores[t].pending
         /\ stores'[t].flushing = stores[t].flushing
         /\ stores'[t].inserts = stores[t].inserts
  BY EndFlushEffect
<1>3. MutexInv'
  BY <1>1 DEF RingInv, MutexInv
<1>4. FlushInv'
  BY <1>1, <1>2 DEF RingInv, FlushInv
<1>5. ClearInv'
  <2>1. stores[flush[f].store].flushing
    BY <1>1 DEF RingInv, FlushInv
  <2> QED
    BY <1>1, <1>2, <2>1 DEF RingInv, ClearInv, Clearing
<1>6. CallInv' /\ AlignInv'
  BY <1>1, <1>2, SameRows
<1>7. ReadInv'
  BY <1>1, <1>2 DEF RingInv, ReadInv
<1> QED
  BY <1>3, <1>4, <1>5, <1>6, <1>7 DEF RingInv

LEMMA EndFlushFlagStep ==
    ASSUME OneFlusher, TypeOK, RingInv, NEW f \in Flushers, EndFlushFlag(f)
    PROVE  RingInv'
<1>1. /\ \A g \in Flushers : g = f
      /\ flush'[f] = Resting
      /\ UNCHANGED <<numStores, active, mutex, call, compact, started, acked>>
  BY EndFlushFlagEffect DEF EndFlushFlag, OneFlusher
<1>2. \A t \in Index :
         /\ stores'[t].flushing => stores[t].flushing
         /\ stores'[t].pending = stores[t].pending
         /\ stores'[t].inserts = stores[t].inserts
  BY EndFlushFlagEffect
<1>3. MutexInv'
  BY <1>1 DEF RingInv, MutexInv
<1>4. FlushInv' /\ ReadInv'
  BY <1>1 DEF FlushInv, ReadInv
<1>5. ClearInv'
  BY <1>1, <1>2 DEF RingInv, ClearInv, Clearing
<1>6. CallInv' /\ AlignInv'
  BY <1>1, <1>2, SameRows
<1> QED
  BY <1>3, <1>4, <1>5, <1>6 DEF RingInv

LEMMA CompactStoresStep ==
    ASSUME CalmCompaction, TypeOK, RingInv, CompactStores
    PROVE  RingInv'
<1>1. /\ compact = Resting /\ mutex = "none" /\ mutex' = "compactor"
      /\ compact' = [pc |-> "check", store |-> 0, col |-> 0]
      /\ \A w \in Writers : call[w] = Idle
      /\ UNCHANGED <<stores, numStores, active, call, flush, started, acked, delivered>>
  BY DEF CompactStores, CalmCompaction
<1>2. compact'.pc = "check"
  BY <1>1
<1>3. MutexInv'
  BY <1>1, ManagerAssumption DEF RingInv, MutexInv
<1>4. FlushInv' /\ ReadInv'
  BY <1>1 DEF RingInv, FlushInv, ReadInv
<1>5. ClearInv'
  BY <1>1, <1>2 DEF ClearInv, Clearing
<1>6. CallInv'
  BY <1>1 DEF RingInv, CallInv, In
<1>7. AlignInv'
  BY <1>1 DEF RingInv, AlignInv, In, Clearing
<1> QED
  BY <1>3, <1>4, <1>5, <1>6, <1>7 DEF RingInv

LEMMA CompactCheckStep ==
    ASSUME TypeOK, RingInv, CompactCheck
    PROVE  RingInv'
<1>1. /\ compact # Resting /\ compact.pc = "check" /\ compact' # Resting
      /\ compact'.pc = "clear" =>
            /\ compact'.store = compact.store /\ compact'.col = 0
            /\ ~stores[compact.store].flushing /\ stores[compact.store].pending = 0
      /\ UNCHANGED <<stores, numStores, active, mutex, call, flush, started, acked, delivered>>
  BY CompactCheckEffect DEF CompactCheck
<1>2. MutexInv'
  BY <1>1 DEF RingInv, MutexInv
<1>3. FlushInv' /\ ReadInv'
  BY <1>1 DEF RingInv, FlushInv, ReadInv
<1>4. ClearInv'
  BY <1>1 DEF RingInv, ClearInv, Clearing, Cols
<1>5. CallInv'
  BY <1>1 DEF RingInv, CallInv, In
<1>6. AlignInv'
  BY <1>1 DEF RingInv, AlignInv, In, Clearing
<1> QED
  BY <1>2, <1>3, <1>4, <1>5, <1>6 DEF RingInv

LEMMA ClearColumnStep ==
    ASSUME TypeOK, ClearStore, RingInv, ClearColumn
    PROVE  RingInv'
<1>1. /\ compact # Resting /\ compact.pc = "clear" /\ compact' # Resting
      /\ compact.store \in Index /\ compact.col \in Cols
      /\ compact'.pc = "clear"
      /\ compact'.store = compact.store /\ compact'.col = compact.col + 1
      /\ UNCHANGED <<numStores, active, mutex, call, flush, started, acked, delivered>>
  BY ClearColumnEffect DEF ClearColumn
<1>2. \A s \in Index :
         /\ stores'[s].pending = stores[s].pending
         /\ stores'[s].flushing = stores[s].flushing
         /\ \A c \in Cols :
               /\ s # compact.store \/ c # compact.col =>
                     stores'[s].inserts[c] = stores[s].inserts[c]
               /\ s = compact.store /\ c = compact.col => stores'[s].inserts[c] = {}
  BY ClearColumnEffect
<1>3. /\ \A w \in Writers : call[w] = Idle
      /\ ~stores[compact.store].flushing
  BY <1>1 DEF RingInv, ClearInv, Clearing
<1>4. MutexInv'
  BY <1>1 DEF RingInv, MutexInv
<1>5. FlushInv'
  BY <1>1, <1>2, InFlush DEF RingInv, FlushInv
<1>6. ClearInv'
  BY <1>1, <1>2, <1>3 DEF RingInv, ClearInv, Clearing, Cols
<1>7. CallInv'
  BY <1>1, <1>2, <1>3 DEF RingInv, CallInv
<1>8. AlignInv'
  <2> SUFFICES ASSUME NEW s \in Index, NEW c1 \in Cols, NEW c2 \in Cols, NEW q \in Rows,
                      In(q, s, c1)', ~In(q, s, c2)'
               PROVE  s = compact.store
    BY <1>1 DEF AlignInv, Clearing
  <2> SUFFICES ASSUME s # compact.store PROVE FALSE
    OBVIOUS
  <2>1. In(q, s, c1) /\ ~In(q, s, c2) /\ ~Clearing(s)
    BY <1>2 DEF In, Clearing
  <2> QED
    BY <1>3, <2>1 DEF RingInv, AlignInv
<1>9. ReadInv'
  <2> SUFFICES ASSUME NEW f \in Flushers, flush[f] # Resting, flush[f].quiet,
                      NEW c \in Cols, c < flush[f].col
               PROVE  flush[f].read[c] = stores'[flush[f].store].inserts[c]
    BY <1>1 DEF ReadInv
  <2>1. flush[f].col # 0 /\ flush[f].store \in Index
    BY InFlush DEF Cols
  <2>2. flush[f].store # compact.store
    BY <1>3, <2>1, InFlush DEF RingInv, FlushInv
  <2> QED
    BY <1>2, <2>1, <2>2 DEF RingInv, ReadInv
<1> QED
  BY <1>4, <1>5, <1>6, <1>7, <1>8, <1>9 DEF RingInv

LEMMA ClearPendingStep ==
    ASSUME TypeOK, ClearStore, RingInv, ClearPending
    PROVE  RingInv'
<1>1. /\ compact # Resting /\ compact.pc = "clear" /\ compact' # Resting
      /\ compact.store \in Index /\ compact.col = NumColumns
      /\ compact'.pc = "check"
      /\ UNCHANGED <<numStores, active, mutex, call, flush, started, acked, delivered>>
  BY ClearPendingEffect DEF ClearPending
<1>2. \A t \in Index :
         /\ stores'[t].flushing = stores[t].flushing
         /\ stores'[t].inserts = stores[t].inserts
  BY ClearPendingEffect
<1>3. MutexInv'
  BY <1>1 DEF RingInv, MutexInv
<1>4. FlushInv' /\ ReadInv'
  BY <1>1, <1>2, InFlush DEF RingInv, FlushInv, ReadInv
<1>5. ClearInv'
  BY <1>1 DEF RingInv, ClearInv, Clearing
<1>6. CallInv'
  BY <1>1, <1>2 DEF RingInv, CallInv, In
<1>7. AlignInv'
  <2> SUFFICES ASSUME NEW s \in Index, NEW c1 \in Cols, NEW c2 \in Cols, NEW q \in Rows,
                      In(q, s, c1)', ~In(q, s, c2)'
               PROVE  FALSE
    BY DEF AlignInv
  <2>1. In(q, s, c1) /\ ~In(q, s, c2)
    BY <1>2 DEF In
  <2>2. s # compact.store
    BY <1>1, <2>1, ManagerAssumption DEF RingInv, ClearInv, Clearing, In, Cols
  <2>3. \A w \in Writers : call[w] = Idle
    BY <1>1 DEF RingInv, ClearInv
  <2> QED
    BY <2>1, <2>2, <2>3 DEF RingInv, AlignInv, Clearing
<1> QED
  BY <1>3, <1>4, <1>5, <1>6, <1>7 DEF RingInv

LEMMA CompactReturnStep ==
    ASSUME TypeOK, RingInv, CompactReturn
    PROVE  RingInv'
<1>1. /\ compact # Resting /\ compact.pc = "check"
      /\ compact' = Resting /\ mutex' = "none"
      /\ UNCHANGED <<stores, numStores, active, call, flush, started, acked, delivered>>
  BY DEF CompactReturn
<1>2. MutexInv'
  BY <1>1, ManagerAssumption DEF RingInv, MutexInv
<1>3. FlushInv' /\ ReadInv'
  BY <1>1 DEF RingInv, FlushInv, ReadInv
<1>4. ClearInv'
  BY <1>1 DEF ClearInv, Clearing
<1>5. CallInv'
  BY <1>1 DEF RingInv, CallInv, In
<1>6. AlignInv'
  BY <1>1 DEF RingInv, AlignInv, In, Clearing
<1> QED
  BY <1>2, <1>3, <1>4, <1>5, <1>6 DEF RingInv

LEMMA RingStep ==
    ASSUME OneFlusher, CalmCompaction, TypeOK, ClearStore, RingInv, [Next]_vars
    PROVE  RingInv'
<1>1. CASE UNCHANGED vars
  BY <1>1 DEF vars, RingInv, MutexInv, FlushInv, ClearInv, CallInv, AlignInv, ReadInv,
              In, Clearing
<1> QED
  BY <1>1, BeginInsertStep, BeginDeleteStep, WriteColumnStep, InsertReturnStep,
     DeleteReturnStep, GetStoreForFlushStep, RotateStep, BeginFlushStep, PendingRowsStep,
     VisitInsertsStep, EndFlushStep, EndFlushFlagStep, CompactStoresStep, CompactCheckStep,
     ClearColumnStep, ClearPendingStep, CompactReturnStep
  DEF Next, WriterStep, FlusherStep, CompactStep
-----------------------------------------------------------------------------
(* OwedInv, action by action.                                              *)

LEMMA FiniteRows ==
    ASSUME NEW S \in SUBSET Rows
    PROVE  IsFiniteSet(S) /\ Cardinality(S) \in Nat /\ Cardinality(S) <= MaxRows
<1>1. IsFiniteSet(Rows) /\ Cardinality(Rows) = MaxRows
  BY FS_Interval, ManagerAssumption DEF Rows
<1>2. IsFiniteSet(S) /\ Cardinality(S) <= Cardinality(Rows)
  BY <1>1, FS_Subset
<1> QED
  BY <1>1, <1>2, FS_CardinalityType

\* A step that changes neither the rows of the columns nor what is counted,
\* acknowledged, delivered or read.
LEMMA SameOwed ==
    ASSUME OwedInv,
           \A t \in Index : /\ stores'[t].pending = stores[t].pending
                            /\ stores'[t].inserts = stores[t].inserts,
           acked'.inserts = acked.inserts, delivered' = delivered,
           \A f \in Flushers : flush'[f] # Resting /\ flush'[f].pc = "visit" =>
               flush'[f] = flush[f]
    PROVE  OwedInv'
<1>1. PICK owed \in [Index -> SUBSET Rows], counted \in SUBSET Rows : Owes(owed, counted)
  BY DEF OwedInv
<1>2. Owes(owed, counted)'
  BY <1>1 DEF Owes, In
<1> QED
  BY <1>2 DEF OwedInv

LEMMA WriteColumnOwed ==
    ASSUME TypeOK, RingInv, OwedInv, NEW w \in Writers, WriteColumn(w)
    PROVE  OwedInv'
<1> DEFINE k == call[w]
<1>1. PICK owed \in [Index -> SUBSET Rows], counted \in SUBSET Rows : Owes(owed, counted)
  BY DEF OwedInv
<1>2. k # Idle /\ UNCHANGED <<flush, acked, delivered>>
  BY DEF WriteColumn
<1>3. \A s \in Index :
         /\ stores'[s].pending = stores[s].pending
         /\ \A c \in Cols :
               LET adds == k.kind = "insert" /\ s = k.store /\ c = k.col
               IN  /\ adds => stores'[s].inserts[c] = stores[s].inserts[c] \cup {k.row}
                   /\ ~adds => stores'[s].inserts[c] = stores[s].inserts[c]
  BY WriteColumnEffect
<1>4. k.kind = "insert" => k.row \notin acked.inserts
  BY <1>2 DEF RingInv, CallInv
<1>5. \A s \in Index, c \in Cols :
         /\ stores[s].inserts[c] \subseteq stores'[s].inserts[c]
         /\ \A r \in acked.inserts : r \in stores'[s].inserts[c] => r \in stores[s].inserts[c]
  BY <1>3, <1>4
<1>6. Owes(owed, counted)'
  <2>1. \A s \in Index :
           /\ Cardinality(owed[s]) = stores'[s].pending
           /\ owed[s] \subseteq acked'.inserts
           /\ \A c \in Cols : owed[s] \subseteq stores'[s].inserts[c]
    BY <1>1, <1>2, <1>3, <1>5 DEF Owes
  <2>2. \A r \in acked'.inserts \ delivered' :
           /\ \E s \in Index : r \in owed[s]
           /\ \A s \in Index, c \in Cols : In(r, s, c)' => r \in owed[s]
    BY <1>1, <1>2, <1>5 DEF Owes, In
  <2> QED
    BY <1>1, <1>2, <2>1, <2>2 DEF Owes
<1> QED
  BY <1>6 DEF OwedInv

LEMMA InsertReturnOwed ==
    ASSUME TypeOK, RingInv, OwedInv, NEW w \in Writers, InsertReturn(w)
    PROVE  OwedInv'
<1> DEFINE k == call[w]
<1>1. PICK owed \in [Index -> SUBSET Rows], counted \in SUBSET Rows : Owes(owed, counted)
  BY DEF OwedInv
<1>2. /\ k # Idle /\ k.kind = "insert" /\ k.col = NumColumns
      /\ k.store \in Index /\ k.row \in Rows /\ UNCHANGED <<flush, delivered>>
  BY InsertReturnEffect DEF InsertReturn
<1>3. /\ stores'[k.store].pending = (stores[k.store].pending + 1) % SizeModulus
      /\ acked'.inserts = acked.inserts \cup {k.row}
      /\ \A t \in Index :
            /\ t # k.store => stores'[t].pending = stores[t].pending
            /\ stores'[t].inserts = stores[t].inserts
  BY InsertReturnEffect
<1>4. /\ k.row \notin acked.inserts
      /\ \A s \in Index, c \in Cols : In(k.row, s, c) <=> s = k.store
  BY <1>2, ManagerAssumption DEF RingInv, CallInv, Cols
<1>a. [owed EXCEPT ![k.store] = @ \cup {k.row}] \in [Index -> SUBSET Rows]
  BY <1>2
<1>b. PICK new \in [Index -> SUBSET Rows] : new = [owed EXCEPT ![k.store] = @ \cup {k.row}]
  BY <1>a
<1>5. /\ new \in [Index -> SUBSET Rows]
      /\ new[k.store] = owed[k.store] \cup {k.row}
      /\ \A t \in Index : t # k.store => new[t] = owed[t]
      /\ \A t \in Index : owed[t] \subseteq new[t]
  BY <1>2, <1>b
<1>6. Cardinality(new[k.store]) = stores'[k.store].pending
  <2>1. k.row \notin owed[k.store] /\ Cardinality(owed[k.store]) = stores[k.store].pending
    BY <1>1, <1>2, <1>4 DEF Owes
  <2>2. IsFiniteSet(owed[k.store])
    BY <1>2, FiniteRows
  <2>3. Cardinality(new[k.store]) = Cardinality(owed[k.store]) + 1
    <3> DEFINE S == owed[k.store]  x == k.row
    <3> HIDE DEF S, x
    <3>1. IsFiniteSet(S) /\ x \notin S
      BY <2>1, <2>2 DEF S, x
    <3>2. Cardinality(S \cup {x}) = Cardinality(S) + 1
      BY <3>1, FS_AddElement
    <3> QED
      BY <3>2, <1>5 DEF S, x
  <2>4. /\ Cardinality(new[k.store]) <= MaxRows /\ Cardinality(new[k.store]) \in Nat
        /\ Cardinality(owed[k.store]) \in Nat
    BY <1>2, <1>5, FiniteRows
  <2> QED
    BY <1>3, <2>1, <2>3, <2>4, ManagerAssumption
<1>7. Owes(new, counted)'
  <2>1. ASSUME NEW s \in Index
        PROVE  /\ Cardinality(new[s]) = stores'[s].pending
               /\ new[s] \subseteq acked'.inserts
               /\ \A c \in Cols : new[s] \subseteq stores'[s].inserts[c]
    <3>1. CASE s = k.store
      <4>1. /\ owed[s] \subseteq acked.inserts
            /\ \A c \in Cols : owed[s] \subseteq stores[s].inserts[c]
        BY <1>1 DEF Owes
      <4>2. \A c \in Cols : k.row \in stores[s].inserts[c]
        BY <1>4, <3>1 DEF In
      <4>3. new[s] = owed[s] \cup {k.row} /\ Cardinality(new[s]) = stores'[s].pending
        BY <1>5, <1>6, <3>1
      <4> QED
        BY <1>3, <4>1, <4>2, <4>3
    <3>2. CASE s # k.store
      BY <1>1, <1>3, <1>5, <3>2 DEF Owes
    <3> QED
      BY <3>1, <3>2
  <2>2. ASSUME NEW r \in acked'.inserts \ delivered'
        PROVE  /\ \E s \in Index : r \in new[s]
               /\ \A s \in Index, c \in Cols : In(r, s, c)' => r \in new[s]
    <3>1. CASE r = k.row
      <4>1. \A s \in Index, c \in Cols : r \in stores'[s].inserts[c] => s = k.store
        BY <1>3, <1>4, <3>1 DEF In
      <4> QED
        BY <1>2, <1>5, <3>1, <4>1 DEF In
    <3>2. CASE r # k.row
      <4>1. r \in acked.inserts \ delivered
        BY <1>2, <1>3, <3>2
      <4> QED
        BY <1>1, <1>3, <1>5, <4>1 DEF Owes, In
    <3> QED
      BY <3>1, <3>2
  <2>3. \A f \in Flushers : flush'[f] # Resting /\ flush'[f].pc = "visit" =>
           /\ counted \subseteq new[flush'[f].store]
           /\ Cardinality(counted) = flush'[f].rows
           /\ \A c \in Cols : c < flush'[f].col => counted \subseteq flush'[f].read[c]
    BY <1>1, <1>2, <1>5, InFlush DEF Owes
  <2> QED
    BY <2>1, <2>2, <2>3 DEF Owes
<1> QED
  BY <1>7 DEF OwedInv

LEMMA PendingRowsOwed ==
    ASSUME OneFlusher, TypeOK, RingInv, OwedInv, NEW f \in Flushers, PendingRows(f)
    PROVE  OwedInv'
<1>1. PICK owed \in [Index -> SUBSET Rows], counted \in SUBSET Rows : Owes(owed, counted)
  BY DEF OwedInv
<1>2. /\ flush[f] # Resting /\ flush[f].pc = "count"
      /\ UNCHANGED <<stores, acked, delivered>>
  BY DEF PendingRows
<1>3. /\ flush[f].store \in Index /\ flush'[f].store = flush[f].store
      /\ flush'[f].rows = stores[flush[f].store].pending
      /\ flush'[f].col = flush[f].col /\ flush[f].col = 0
  BY <1>2, PendingRowsEffect DEF RingInv, FlushInv
<1>4. \A g \in Flushers : g = f
  BY DEF OneFlusher
<1>a. PICK now \in SUBSET Rows : now = owed[flush[f].store]
  BY <1>3
<1>5. Owes(owed, now)'
  <2>1. \A c \in Cols : ~(c < 0)
    BY DEF Cols
  <2>2. /\ now = owed[flush'[f].store] /\ Cardinality(now) = flush'[f].rows
        /\ \A c \in Cols : ~(c < flush'[f].col)
    BY <1>1, <1>3, <1>a, <2>1 DEF Owes
  <2>3. \A g \in Flushers : flush'[g] # Resting /\ flush'[g].pc = "visit" =>
           /\ now \subseteq owed[flush'[g].store]
           /\ Cardinality(now) = flush'[g].rows
           /\ \A c \in Cols : c < flush'[g].col => now \subseteq flush'[g].read[c]
    BY <1>4, <2>2
  <2> QED
    BY <1>1, <1>2, <2>3 DEF Owes, In
<1> QED
  BY <1>5 DEF OwedInv

LEMMA VisitInsertsOwed ==
    ASSUME OneFlusher, TypeOK, OwedInv, NEW f \in Flushers, VisitInserts(f)
    PROVE  OwedInv'
<1>1. PICK owed \in [Index -> SUBSET Rows], counted \in SUBSET Rows : Owes(owed, counted)
  BY DEF OwedInv
<1>2. /\ flush[f] # Resting /\ flush[f].pc = "visit"
      /\ UNCHANGED <<stores, acked, delivered>>
  BY DEF VisitInserts
<1>3. /\ flush[f].store \in Index /\ flush[f].col \in Cols
      /\ flush'[f].store = flush[f].store /\ flush'[f].rows = flush[f].rows
      /\ flush'[f].col = flush[f].col + 1
      /\ \A c \in Cols :
            /\ c = flush[f].col => flush'[f].read[c] = stores[flush[f].store].inserts[c]
            /\ c # flush[f].col => flush'[f].read[c] = flush[f].read[c]
  BY VisitInsertsEffect
<1>4. \A g \in Flushers : g = f
  BY DEF OneFlusher
<1>5. /\ counted \subseteq owed[flush[f].store]
      /\ Cardinality(counted) = flush[f].rows
      /\ \A c \in Cols : c < flush[f].col => counted \subseteq flush[f].read[c]
      /\ \A c \in Cols : owed[flush[f].store] \subseteq stores[flush[f].store].inserts[c]
  BY <1>1, <1>2, <1>3 DEF Owes
<1>6. ASSUME NEW c \in Cols, c < flush'[f].col PROVE counted \subseteq flush'[f].read[c]
  <2>1. CASE c = flush[f].col
    BY <1>3, <1>5, <2>1
  <2>2. CASE c # flush[f].col
    <3>1. c < flush[f].col
      BY <1>3, <1>6, <2>2 DEF Cols
    <3> QED
      BY <1>3, <1>5, <2>2, <3>1
  <2> QED
    BY <2>1, <2>2
<1>7. Owes(owed, counted)'
  BY <1>1, <1>2, <1>3, <1>4, <1>5, <1>6 DEF Owes, In
<1> QED
  BY <1>7 DEF OwedInv

LEMMA EndFlushOwed ==
    ASSUME OneFlusher, TypeOK, OwedInv, NEW f \in Flushers, EndFlush(f)
    PROVE  OwedInv'
<1> DEFINE s == flush[f].store
<1>1. PICK owed \in [Index -> SUBSET Rows], counted \in SUBSET Rows : Owes(owed, counted)
  BY DEF OwedInv
<1>2. /\ flush[f] # Resting /\ flush[f].pc = "visit" /\ flush[f].col = NumColumns
      /\ acked' = acked /\ delivered' = delivered \cup Carried(f)
  BY DEF EndFlush
<1>3. /\ s \in Index /\ flush'[f].pc = "unflag"
      /\ stores'[s].pending = (stores[s].pending - flush[f].rows) % SizeModulus
      /\ \A t \in Index :
            /\ t # s => stores'[t].pending = stores[t].pending
            /\ stores'[t].inserts = stores[t].inserts
  BY EndFlushEffect
<1>4. /\ counted \subseteq owed[s] /\ Cardinality(counted) = flush[f].rows
      /\ \A c \in Cols : c < flush[f].col => counted \subseteq flush[f].read[c]
      /\ Cardinality(owed[s]) = stores[s].pending
  BY <1>1, <1>2, <1>3 DEF Owes
<1>5. counted \subseteq delivered'
  BY <1>2, <1>4, ManagerAssumption DEF Carried, Cols
<1>6. [owed EXCEPT ![s] = @ \ counted] \in [Index -> SUBSET Rows]
  BY <1>3
<1>7. PICK new \in [Index -> SUBSET Rows] : new = [owed EXCEPT ![s] = @ \ counted]
  BY <1>6
<1>8. /\ new[s] = owed[s] \ counted
      /\ \A t \in Index : t # s => new[t] = owed[t]
      /\ \A t \in Index : new[t] \subseteq owed[t]
  BY <1>3, <1>7
<1>9. Cardinality(new[s]) = stores'[s].pending
  <2>1. /\ IsFiniteSet(owed[s]) /\ Cardinality(owed[s]) \in Nat
        /\ Cardinality(counted) \in Nat /\ Cardinality(new[s]) \in Nat
    BY <1>3, FiniteRows
  <2>2. counted = owed[s] \cap counted
    BY <1>4
  <2>3. Cardinality(new[s]) = Cardinality(owed[s]) - Cardinality(counted)
    <3> DEFINE S == owed[s]
    <3> HIDE DEF S
    <3>1. IsFiniteSet(S) /\ counted = S \cap counted
      BY <2>1, <2>2 DEF S
    <3>2. Cardinality(S \ counted) = Cardinality(S) - Cardinality(S \cap counted)
      BY <3>1, FS_Difference
    <3> QED
      BY <1>8, <3>1, <3>2 DEF S
  <2>4. stores[s].pending \in 0 .. SizeModulus - 1
    BY <1>3, StoreParts
  <2>5. \A d \in 0 .. SizeModulus - 1 : d % SizeModulus = d
    BY ManagerAssumption
  <2>6. /\ stores[s].pending - flush[f].rows = Cardinality(new[s])
        /\ Cardinality(new[s]) \in 0 .. SizeModulus - 1
    BY <1>4, <2>1, <2>3, <2>4, ManagerAssumption
  <2> QED
    BY <1>3, <2>5, <2>6
<1>10. Owes(new, counted)'
  <2>1. \A t \in Index :
           /\ Cardinality(new[t]) = stores'[t].pending
           /\ new[t] \subseteq acked'.inserts
           /\ \A c \in Cols : new[t] \subseteq stores'[t].inserts[c]
    BY <1>1, <1>2, <1>3, <1>8, <1>9 DEF Owes
  <2>2. ASSUME NEW r \in acked'.inserts \ delivered'
        PROVE  /\ \E t \in Index : r \in new[t]
               /\ \A t \in Index, c \in Cols : In(r, t, c)' => r \in new[t]
    <3>1. r \in acked.inserts \ delivered /\ r \notin counted
      BY <1>2, <1>5
    <3>2. \A t \in Index : r \in new[t] <=> r \in owed[t]
      BY <1>8, <3>1
    <3>3. /\ \E t \in Index : r \in owed[t]
          /\ \A t \in Index, c \in Cols : In(r, t, c) => r \in owed[t]
      BY <1>1, <3>1 DEF Owes
    <3> QED
      BY <1>3, <3>2, <3>3 DEF In
  <2>3. \A g \in Flushers : flush'[g].pc # "visit"
    BY <1>3 DEF OneFlusher
  <2> QED
    BY <2>1, <2>2, <2>3 DEF Owes
<1> QED
  BY <1>10 DEF OwedInv

LEMMA ClearColumnOwed ==
    ASSUME TypeOK, ClearStore, RingInv, OwedInv, ClearColumn
    PROVE  OwedInv'
<1>1. PICK owed \in [Index -> SUBSET Rows], counted \in SUBSET Rows : Owes(owed, counted)
  BY DEF OwedInv
<1>2. /\ compact # Resting /\ compact.pc = "clear" /\ compact.store \in Index
      /\ UNCHANGED <<flush, acked, delivered>>
  BY ClearColumnEffect DEF ClearColumn
<1>3. \A s \in Index :
         /\ stores'[s].pending = stores[s].pending
         /\ \A c \in Cols :
               /\ s # compact.store => stores'[s].inserts[c] = stores[s].inserts[c]
               /\ stores'[s].inserts[c] \subseteq stores[s].inserts[c]
  BY ClearColumnEffect
<1>4. owed[compact.store] = {}
  <2>1. Cardinality(owed[compact.store]) = 0
    BY <1>1, <1>2 DEF Owes, RingInv, ClearInv, Clearing
  <2>2. IsFiniteSet(owed[compact.store])
    BY <1>2, FiniteRows
  <2> QED
    BY <2>1, <2>2, FS_EmptySet
<1>5. Owes(owed, counted)'
  <2>1. ASSUME NEW s \in Index
        PROVE  /\ Cardinality(owed[s]) = stores'[s].pending
               /\ owed[s] \subseteq acked'.inserts
               /\ \A c \in Cols : owed[s] \subseteq stores'[s].inserts[c]
    BY <1>1, <1>2, <1>3, <1>4 DEF Owes
  <2>2. \A r \in acked'.inserts \ delivered' :
           /\ \E s \in Index : r \in owed[s]
           /\ \A s \in Index, c \in Cols : In(r, s, c)' => r \in owed[s]
    BY <1>1, <1>2, <1>3 DEF Owes, In
  <2> QED
    BY <1>1, <1>2, <2>1, <2>2 DEF Owes
<1> QED
  BY <1>5 DEF OwedInv

LEMMA ClearPendingOwed ==
    ASSUME TypeOK, ClearStore, RingInv, OwedInv, ClearPending
    PROVE  OwedInv'
<1>1. /\ compact.store \in Index /\ stores[compact.store].pending = 0
      /\ UNCHANGED <<flush, acked, delivered>>
  BY ClearPendingEffect DEF ClearPending, RingInv, ClearInv, Clearing
<1>2. \A t \in Index : /\ stores'[t].pending = stores[t].pending
                       /\ stores'[t].inserts = stores[t].inserts
  BY <1>1, ClearPendingEffect
<1> QED
  BY <1>1, <1>2, SameOwed

LEMMA OwedStep ==
    ASSUME OneFlusher, TypeOK, ClearStore, RingInv, OwedInv, [Next]_vars
    PROVE  OwedInv'
<1>1. ASSUME NEW w \in Writers, BeginInsert(w) PROVE OwedInv'
  BY <1>1, SameOwed DEF BeginInsert, CurrentStore
<1>2. ASSUME NEW w \in Writers, NEW r \in Rows, BeginDelete(w, r) PROVE OwedInv'
  BY <1>2, SameOwed DEF BeginDelete, CurrentStore
<1>3. ASSUME NEW w \in Writers, DeleteReturn(w) PROVE OwedInv'
  BY <1>3, DeleteReturnEffect, SameOwed DEF DeleteReturn
<1>4. ASSUME NEW f \in Flushers, GetStoreForFlush(f) PROVE OwedInv'
  BY <1>4, GetStoreForFlushEffect, SameOwed DEF GetStoreForFlush
<1>5. ASSUME NEW f \in Flushers, Rotate(f) PROVE OwedInv'
  BY <1>5, RotateEffect, SameOwed DEF Rotate
<1>6. ASSUME NEW f \in Flushers, BeginFlush(f) PROVE OwedInv'
  BY <1>6, BeginFlushEffect, SameOwed DEF BeginFlush
<1>7. ASSUME NEW f \in Flushers, EndFlushFlag(f) PROVE OwedInv'
  BY <1>7, EndFlushFlagEffect, SameOwed DEF EndFlushFlag
<1>8. ASSUME CompactStores PROVE OwedInv'
  BY <1>8, SameOwed DEF CompactStores
<1>9. ASSUME CompactCheck PROVE OwedInv'
  BY <1>9, SameOwed DEF CompactCheck
<1>10. ASSUME CompactReturn PROVE OwedInv'
  BY <1>10, SameOwed DEF CompactReturn
<1>11. ASSUME UNCHANGED vars PROVE OwedInv'
  BY <1>11, SameOwed DEF vars
<1> QED
  BY <1>1, <1>2, <1>3, <1>4, <1>5, <1>6, <1>7, <1>8, <1>9, <1>10, <1>11, WriteColumnOwed,
     InsertReturnOwed, PendingRowsOwed, VisitInsertsOwed, EndFlushOwed, ClearColumnOwed,
     ClearPendingOwed DEF Next, WriterStep, FlusherStep, CompactStep
-----------------------------------------------------------------------------
LEMMA InvInit == ASSUME Init PROVE RingInv /\ OwedInv
<1>1. /\ \A s \in Index : stores[s].pending = 0
      /\ \A s \in Index, c \in Cols : stores[s].inserts[c] = {}
  BY DEF Init, EmptyStore
<1>2. /\ \A w \in Writers : call[w] = Idle
      /\ \A f \in Flushers : flush[f] = Resting
      /\ compact = Resting /\ acked.inserts = {}
  BY DEF Init
<1>3. RingInv
  BY <1>1, <1>2 DEF RingInv, MutexInv, FlushInv, ClearInv, CallInv, AlignInv, ReadInv,
                    In, Clearing
<1>4. Owes([s \in Index |-> {}], {})
  BY <1>1, <1>2, FS_EmptySet DEF Owes
<1>5. [s \in Index |-> {}] \in [Index -> SUBSET Rows] /\ {} \in SUBSET Rows
  OBVIOUS
<1> QED
  BY <1>3, <1>4, <1>5 DEF OwedInv

LEMMA Invariant ==
    ASSUME OneFlusher, CalmCompaction
    PROVE  Spec => []IInv
<1>1. Init => IInv
  BY TypeInit, InvInit DEF IInv
<1>2. IInv /\ [Next]_vars => IInv'
  BY TypeStep, RingStep, OwedStep DEF IInv
<1> QED
  BY <1>1, <1>2, PTL DEF Spec

(***************************************************************************)
(* ManagerNoAckedInsertLost: with one flusher, and CompactStores called    *)
(* outside Insert and Delete, no returned Insert is ever lost, for any     *)
(* number of writers, columns and rows.  A returned row that no flush has  *)
(* delivered is owed, and an owed row lies in every column of its store.   *)
(***************************************************************************)
THEOREM ManagerNoAckedInsertLost ==
    ASSUME OneFlusher, CalmCompaction
    PROVE  Spec => []NoAckedInsertLost
<1>1. IInv => NoAckedInsertLost
  <2> SUFFICES ASSUME IInv, NEW r \in acked.inserts PROVE Kept(r)
    BY DEF NoAckedInsertLost
  <2>1. PICK owed \in [Index -> SUBSET Rows], counted \in SUBSET Rows : Owes(owed, counted)
    BY DEF IInv, OwedInv
  <2>2. CASE r \in delivered
    BY <2>2 DEF Kept
  <2>3. CASE r \notin delivered
    <3>1. PICK s \in Index : r \in owed[s]
      BY <2>1, <2>3 DEF Owes
    <3>2. \A c \in Cols : r \in stores[s].inserts[c]
      BY <2>1, <3>1 DEF Owes
    <3> QED
      BY <3>2 DEF Kept
  <2> QED
    BY <2>2, <2>3
<1> QED
  BY <1>1, Invariant, PTL

(***************************************************************************)
(* ManagerZeroPendingMeansDelivered: under the same two conditions a store *)
(* that CompactStores finds idle and empty by its counter holds only       *)
(* returned rows that a flush has delivered: the counter is the size of    *)
(* the set of rows owed.                                                   *)
(***************************************************************************)
THEOREM ManagerZeroPendingMeansDelivered ==
    ASSUME OneFlusher, CalmCompaction
    PROVE  Spec => []ZeroPendingMeansDelivered
<1>1. IInv => ZeroPendingMeansDelivered
  <2> SUFFICES ASSUME IInv, NEW s \in 0 .. numStores - 1, stores[s].pending = 0,
                      NEW r \in acked.inserts, NEW c \in Cols, r \in stores[s].inserts[c],
                      r \notin delivered
               PROVE  FALSE
    BY DEF ZeroPendingMeansDelivered
  <2>1. s \in Index
    BY DEF IInv, TypeOK, Index
  <2>2. PICK owed \in [Index -> SUBSET Rows], counted \in SUBSET Rows : Owes(owed, counted)
    BY DEF IInv, OwedInv
  <2>3. r \in owed[s] /\ Cardinality(owed[s]) = 0
    BY <2>1, <2>2 DEF Owes, In
  <2>4. IsFiniteSet(owed[s])
    BY <2>1, FiniteRows
  <2> QED
    BY <2>3, <2>4, FS_EmptySet
<1> QED
  BY <1>1, Invariant, PTL

(***************************************************************************)
(* ManagerPendingNeverWraps: under the same two conditions pending_rows_   *)
(* never passes below zero, although EndFlush subtracts without a lock a   *)
(* number that was read several steps earlier.                             *)
(***************************************************************************)
THEOREM ManagerPendingNeverWraps ==
    ASSUME OneFlusher, CalmCompaction
    PROVE  Spec => []PendingNeverWraps
<1>1. IInv => PendingNeverWraps
  <2> SUFFICES ASSUME IInv, NEW s \in Index
               PROVE  stores[s].pending <= Cardinality(acked.inserts)
    BY DEF PendingNeverWraps
  <2>1. PICK owed \in [Index -> SUBSET Rows], counted \in SUBSET Rows : Owes(owed, counted)
    BY DEF IInv, OwedInv
  <2>2. /\ owed[s] \in SUBSET acked.inserts
        /\ Cardinality(owed[s]) = stores[s].pending
    BY <2>1 DEF Owes
  <2>3. acked.inserts \in SUBSET Rows
    BY DEF IInv, TypeOK
  <2>4. IsFiniteSet(acked.inserts)
    BY <2>3, FiniteRows
  <2> QED
    BY <2>2, <2>4, FS_Subset
<1> QED
  BY <1>1, Invariant, PTL

(***************************************************************************)
(* ManagerFlushIsAligned: under the same two conditions a flush that found *)
(* no call on its store when it rotated reads the same rows from every     *)
(* column, however the other writers, deletes and returns interleave with  *)
(* its visits.                                                             *)
(***************************************************************************)
THEOREM ManagerFlushIsAligned ==
    ASSUME OneFlusher, CalmCompaction
    PROVE  Spec => []FlushIsAligned
<1>1. IInv => FlushIsAligned
  <2> SUFFICES ASSUME IInv, NEW f \in Flushers, flush[f] # Resting, flush[f].quiet,
                      NEW c1 \in 0 .. flush[f].col - 1, NEW c2 \in 0 .. flush[f].col - 1
               PROVE  flush[f].read[c1] = flush[f].read[c2]
    BY DEF FlushIsAligned
  <2> DEFINE s == flush[f].store
  <2>1. /\ s \in Index /\ flush[f].col \in 0 .. NumColumns
        /\ flush[f].pc \in {"rotate", "begin", "count", "visit", "unflag"}
    BY InFlush DEF IInv
  <2>2. /\ c1 \in Cols /\ c2 \in Cols /\ c1 < flush[f].col /\ c2 < flush[f].col
        /\ flush[f].col # 0
    BY <2>1, ManagerAssumption DEF Cols
  <2>3. stores[s].flushing /\ \A w \in Writers : call[w] # Idle => call[w].store # s
    BY <2>1, <2>2 DEF IInv, RingInv, FlushInv
  <2>4. ~Clearing(s)
    BY <2>1, <2>3 DEF IInv, RingInv, ClearInv
  <2>5. ASSUME NEW d1 \in Cols, NEW d2 \in Cols
        PROVE  stores[s].inserts[d1] \subseteq stores[s].inserts[d2]
    <3> SUFFICES ASSUME NEW r \in stores[s].inserts[d1], r \notin stores[s].inserts[d2]
                 PROVE  FALSE
      OBVIOUS
    <3>1. r \in Rows
      BY <2>1, StoreParts DEF IInv
    <3>2. In(r, s, d1) /\ ~In(r, s, d2)
      BY DEF In
    <3> QED
      BY <2>1, <2>3, <2>4, <3>1, <3>2 DEF IInv, RingInv, AlignInv
  <2>6. stores[s].inserts[c1] = stores[s].inserts[c2]
    BY <2>2, <2>5
  <2> QED
    BY <2>2, <2>6 DEF IInv, RingInv, ReadInv
<1> QED
  BY <1>1, Invariant, PTL
=============================================================================
