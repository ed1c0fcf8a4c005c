-------------------------- MODULE DeltaStoreProofs --------------------------
(***************************************************************************)
(* Proofs about DeltaStore for any number of threads, rows and columns:    *)
(* the type invariant; RowWhole for callers that share no row id; and      *)
(* VersionsDescend and ReadYourWrites when they also leave the timestamps  *)
(* to the store.                                                           *)
(***************************************************************************)
EXTENDS DeltaStore, TLAPS

Ins(c, r) == columns[c].inserts[r]
Del(c, r) == columns[c].deletes[r]
VersionOf(t) == [ts |-> op[t].ts, data |-> op[t].data]

\* A call in flight works on a row of its own thread, with arguments the
\* caller could pass.
OpInv == \A t \in Threads : op[t] # Idle =>
    /\ op[t].row \in RowsOf[t]
    /\ op[t].kind = "insert" => op[t].width \in Widths
    /\ op[t].kind = "delete" => op[t].width = NumColumns

\* The columns the loop has passed hold what the call writes.
WrittenInv == \A t \in Threads, c \in Cols : op[t] # Idle /\ c < op[t].col =>
    /\ op[t].kind = "insert" => Ins(c, op[t].row) = VersionOf(t)
    /\ op[t].kind = "delete" => Del(c, op[t].row) = op[t].ts

\* The columns the loop has not reached still agree with one another, and the
\* map the call does not write agrees everywhere.
AheadInv == \A t \in Threads : op[t] # Idle =>
    LET r == op[t].row IN
    /\ op[t].kind = "insert" =>
         /\ \A c1, c2 \in Covered : c1 >= op[t].col /\ c2 >= op[t].col => Ins(c1, r) = Ins(c2, r)
         /\ \A c1, c2 \in Cols : Del(c1, r) = Del(c2, r)
    /\ op[t].kind = "delete" =>
         /\ \A c1, c2 \in Cols : c1 >= op[t].col /\ c2 >= op[t].col => Del(c1, r) = Del(c2, r)
         /\ \A c1, c2 \in Covered : Ins(c1, r) = Ins(c2, r)

WholeInv == TypeOK /\ OpInv /\ WrittenInv /\ AheadInv /\ RowWhole

\* A thread inside a call of either kind.
LEMMA CallType ==
    ASSUME TypeOK, NEW t \in Threads, op[t] # Idle
    PROVE  /\ op[t] \in Calls
           /\ op[t].kind \in {"insert", "delete"} /\ op[t].row \in Rows
           /\ op[t].ts \in Nat \ {0} /\ op[t].data \in Data \cup {NoData}
           /\ op[t].width \in Nat /\ op[t].col \in Nat
  BY DEF TypeOK, Calls

LEMMA NotIdle ==
    ASSUME NEW t \in Threads, op[t].kind \in {"insert", "delete"}
    PROVE  op[t] # Idle
  BY DEF Idle

\* What one iteration of Insert's loop changes.
LEMMA InsertEffect ==
    ASSUME TypeOK, NEW t \in Threads, InsertColumn(t)
    PROVE  /\ op[t] # Idle /\ op[t].col \in Cols
           /\ columns' \in [Cols -> Column]
           /\ \A c \in Cols, r \in Rows :
                 /\ columns'[c].inserts[r] =
                      IF c = op[t].col /\ r = op[t].row THEN VersionOf(t) ELSE Ins(c, r)
                 /\ columns'[c].deletes[r] = Del(c, r)
<1>1. op[t] # Idle
  BY NotIdle DEF InsertColumn
<1>2. op[t].col \in Cols /\ op[t].row \in Rows /\ VersionOf(t) \in Version
  BY <1>1, CallType, StoreAssumption DEF InsertColumn, InLoop, Cols, VersionOf, Version
<1>3. columns \in [Cols -> Column]
  BY DEF TypeOK
<1> DEFINE k == op[t].col  p == PutInsert(columns[k], op[t].row, op[t].ts, op[t].data)
<1>4. columns' = [columns EXCEPT ![k] = p]
  BY DEF InsertColumn
<1>5. /\ p \in Column
      /\ p.deletes = columns[k].deletes
      /\ p.inserts = [columns[k].inserts EXCEPT ![op[t].row] = VersionOf(t)]
  BY <1>2, <1>3 DEF PutInsert, Column, VersionOf
<1> HIDE DEF p
<1>6. columns' \in [Cols -> Column]
  BY <1>2, <1>3, <1>4, <1>5
<1>7. ASSUME NEW c \in Cols, NEW r \in Rows
      PROVE  /\ columns'[c].inserts[r] =
                  IF c = op[t].col /\ r = op[t].row THEN VersionOf(t) ELSE Ins(c, r)
             /\ columns'[c].deletes[r] = Del(c, r)
  <2>1. CASE c = k
    <3>1. columns'[c] = p
      BY <1>2, <1>3, <1>4, <2>1
    <3>2. columns[k].inserts \in [Rows -> Version]
      BY <1>2, <1>3 DEF Column
    <3> QED
      BY <3>1, <3>2, <2>1, <1>5, <1>7 DEF Ins, Del
  <2>2. CASE c # k
    BY <1>2, <1>3, <1>4, <2>2 DEF Ins, Del
  <2> QED
    BY <2>1, <2>2
<1> QED
  BY <1>1, <1>2, <1>6, <1>7

\* What one iteration of Delete's loop changes.
LEMMA DeleteEffect ==
    ASSUME TypeOK, NEW t \in Threads, DeleteColumn(t)
    PROVE  /\ op[t] # Idle /\ op[t].col \in Cols
           /\ columns' \in [Cols -> Column]
           /\ \A c \in Cols, r \in Rows :
                 /\ columns'[c].inserts[r] = Ins(c, r)
                 /\ columns'[c].deletes[r] =
                      IF c = op[t].col /\ r = op[t].row THEN op[t].ts ELSE Del(c, r)
<1>1. op[t] # Idle
  BY NotIdle DEF DeleteColumn
<1>2. op[t].col \in Cols /\ op[t].row \in Rows /\ op[t].ts \in Nat
  BY <1>1, CallType, StoreAssumption DEF DeleteColumn, InLoop, Cols
<1>3. columns \in [Cols -> Column]
  BY DEF TypeOK
<1> DEFINE k == op[t].col  p == PutDelete(columns[k], op[t].row, op[t].ts)
<1>4. columns' = [columns EXCEPT ![k] = p]
  BY DEF DeleteColumn
<1>5. /\ p \in Column
      /\ p.inserts = columns[k].inserts
      /\ p.deletes = [columns[k].deletes EXCEPT ![op[t].row] = op[t].ts]
  BY <1>2, <1>3 DEF PutDelete, Column
<1> HIDE DEF p
<1>6. columns' \in [Cols -> Column]
  BY <1>2, <1>3, <1>4, <1>5
<1>7. ASSUME NEW c \in Cols, NEW r \in Rows
      PROVE  /\ columns'[c].inserts[r] = Ins(c, r)
             /\ columns'[c].deletes[r] =
                  IF c = op[t].col /\ r = op[t].row THEN op[t].ts ELSE Del(c, r)
  <2>1. CASE c = k
    <3>1. columns'[c] = p
      BY <1>2, <1>3, <1>4, <2>1
    <3>2. columns[k].deletes \in [Rows -> Nat]
      BY <1>2, <1>3 DEF Column
    <3> QED
      BY <3>1, <3>2, <2>1, <1>5, <1>7 DEF Ins, Del
  <2>2. CASE c # k
    BY <1>2, <1>3, <1>4, <2>2 DEF Ins, Del
  <2> QED
    BY <2>1, <2>2
<1> QED
  BY <1>1, <1>2, <1>6, <1>7

\* The call a thread has just begun.
LEMMA BeginEffect ==
    ASSUME TypeOK, NEW t \in Threads, NEW kind \in {"insert", "delete"}, NEW r \in Rows,
           NEW d \in Data \cup {NoData}, NEW n \in Nat, NEW arg \in Nat,
           Begin(t, kind, r, d, n, arg)
    PROVE  /\ TypeOK'
           /\ op[t] = Idle /\ op'[t] # Idle
           /\ op'[t] = [kind |-> kind, row |-> r, ts |-> Stamp(arg),
                        data |-> d, width |-> n, col |-> 0]
           /\ \A u \in Threads : u # t => op'[u] = op[u]
           /\ UNCHANGED <<columns, pending, acked>>
<1> DEFINE o == [kind |-> kind, row |-> r, ts |-> Stamp(arg),
                 data |-> d, width |-> n, col |-> 0]
<1>1. globalTs \in Nat /\ globalTs' \in Nat /\ Stamp(arg) \in Nat \ {0}
  BY DEF TypeOK, Begin, Stamp
<1>2. o \in Calls /\ o # Idle
  BY <1>1 DEF Calls, Idle
<1>3. op' = [op EXCEPT ![t] = o] /\ op \in [Threads -> Calls \cup {Idle}]
  BY DEF Begin, TypeOK
<1>4. UNCHANGED <<columns, pending, acked>> /\ op[t] = Idle
  BY DEF Begin
<1> HIDE DEF o
<1>5. op' \in [Threads -> Calls \cup {Idle}] /\ op'[t] = o
      /\ \A u \in Threads : u # t => op'[u] = op[u]
  BY <1>2, <1>3
<1>6. TypeOK'
  BY <1>1, <1>4, <1>5 DEF TypeOK
<1> QED
  BY <1>2, <1>4, <1>5, <1>6 DEF o

\* A thread in its loop goes on to the next column, the others stay put.
LEMMA AdvanceEffect ==
    ASSUME TypeOK, NEW t \in Threads, op[t] # Idle,
           op' = [op EXCEPT ![t].col = @ + 1]
    PROVE  /\ op' \in [Threads -> Calls \cup {Idle}]
           /\ op'[t] # Idle
           /\ op'[t].kind = op[t].kind /\ op'[t].row = op[t].row /\ op'[t].ts = op[t].ts
           /\ op'[t].data = op[t].data /\ op'[t].width = op[t].width
           /\ op'[t].col = op[t].col + 1
           /\ \A u \in Threads : u # t => op'[u] = op[u]
<1>1. op[t] \in Calls /\ op \in [Threads -> Calls \cup {Idle}]
  BY CallType DEF TypeOK
<1>2. /\ op'[t] = [op[t] EXCEPT !.col = op[t].col + 1]
      /\ \A u \in Threads : u # t => op'[u] = op[u]
  BY <1>1
<1>3. /\ op'[t] \in Calls
      /\ op'[t].kind = op[t].kind /\ op'[t].row = op[t].row /\ op'[t].ts = op[t].ts
      /\ op'[t].data = op[t].data /\ op'[t].width = op[t].width
      /\ op'[t].col = op[t].col + 1
      /\ op[t].kind \in {"insert", "delete"}
  BY <1>1, <1>2 DEF Calls
<1>4. op'[t] # Idle
  BY <1>3 DEF Idle
<1>5. op' \in [Threads -> Calls \cup {Idle}]
  BY <1>1, <1>2, <1>3
<1> QED
  BY <1>2, <1>3, <1>4, <1>5

\* A call that returns leaves its thread idle and is recorded.
LEMMA ReturnEffect ==
    ASSUME TypeOK, NEW t \in Threads, InsertReturn(t) \/ DeleteReturn(t)
    PROVE  /\ TypeOK'
           /\ op[t] # Idle /\ op'[t] = Idle
           /\ \A u \in Threads : u # t => op'[u] = op[u]
           /\ op[t].col \in Nat /\ op[t].width \in Nat
           /\ op[t].col >= NumColumns \/ op[t].col >= op[t].width
           /\ UNCHANGED <<columns, globalTs>>
           /\ acked' = acked \cup {[kind |-> op[t].kind, row |-> op[t].row, ts |-> op[t].ts]}
<1>1. op[t] # Idle
  BY NotIdle DEF InsertReturn, DeleteReturn
<1>2. op \in [Threads -> Calls \cup {Idle}] /\ op' = [op EXCEPT ![t] = Idle]
  BY DEF TypeOK, InsertReturn, DeleteReturn
<1>3. acked' = acked \cup {[kind |-> op[t].kind, row |-> op[t].row, ts |-> op[t].ts]}
  BY DEF InsertReturn, DeleteReturn
<1>4. [kind |-> op[t].kind, row |-> op[t].row, ts |-> op[t].ts] \in Acks
  BY <1>1, CallType DEF Acks
<1>5. pending' \in Nat /\ UNCHANGED <<columns, globalTs>>
  BY DEF TypeOK, InsertReturn, DeleteReturn
<1>6. TypeOK'
  BY <1>2, <1>3, <1>4, <1>5 DEF TypeOK
<1>7. op[t].col >= NumColumns \/ op[t].col >= op[t].width
  BY <1>1, CallType, StoreAssumption DEF InsertReturn, DeleteReturn, InLoop
<1> QED
  BY <1>1, <1>2, <1>3, <1>5, <1>6, <1>7, CallType

\* The steps of the specification, as the lemmas above describe them.
LEMMA StepCases ==
    ASSUME [Next]_vars
    PROVE  \/ UNCHANGED vars
           \/ \E t \in Threads : \/ \E r \in RowsOf[t], d \in Data, n \in Widths, arg \in Stamps :
                                       Begin(t, "insert", r, d, n, arg)
                                 \/ \E r \in RowsOf[t], arg \in Stamps :
                                       Begin(t, "delete", r, NoData, NumColumns, arg)
           \/ \E t \in Threads : InsertColumn(t)
           \/ \E t \in Threads : DeleteColumn(t)
           \/ \E t \in Threads : InsertReturn(t) \/ DeleteReturn(t)
  BY DEF Next, Step, InsertCall, DeleteCall

\* Every step keeps the variables in their types.
LEMMA NextTypeOK == TypeOK /\ [Next]_vars => TypeOK'
<1> SUFFICES ASSUME TypeOK, [Next]_vars PROVE TypeOK'
  OBVIOUS
<1>1. CASE UNCHANGED vars
  BY <1>1 DEF vars, TypeOK
<1>2. ASSUME NEW t \in Threads, NEW r \in RowsOf[t], NEW d \in Data, NEW n \in Widths,
             NEW arg \in Stamps, Begin(t, "insert", r, d, n, arg)
      PROVE  TypeOK'
  BY <1>2, BeginEffect, StoreAssumption
<1>3. ASSUME NEW t \in Threads, NEW r \in RowsOf[t], NEW arg \in Stamps,
             Begin(t, "delete", r, NoData, NumColumns, arg)
      PROVE  TypeOK'
  BY <1>3, BeginEffect, StoreAssumption
<1>4. ASSUME NEW t \in Threads, InsertColumn(t) PROVE TypeOK'
  <2>1. op[t] # Idle /\ columns' \in [Cols -> Column]
    BY <1>4, InsertEffect
  <2>2. op' = [op EXCEPT ![t].col = @ + 1]
        /\ UNCHANGED <<pending, globalTs, acked>>
    BY <1>4 DEF InsertColumn
  <2>3. op' \in [Threads -> Calls \cup {Idle}]
    BY <2>1, <2>2, AdvanceEffect
  <2> QED
    BY <2>1, <2>2, <2>3 DEF TypeOK
<1>5. ASSUME NEW t \in Threads, DeleteColumn(t) PROVE TypeOK'
  <2>1. op[t] # Idle /\ columns' \in [Cols -> Column]
    BY <1>5, DeleteEffect
  <2>2. op' = [op EXCEPT ![t].col = @ + 1]
        /\ UNCHANGED <<pending, globalTs, acked>>
    BY <1>5 DEF DeleteColumn
  <2>3. op' \in [Threads -> Calls \cup {Idle}]
    BY <2>1, <2>2, AdvanceEffect
  <2> QED
    BY <2>1, <2>2, <2>3 DEF TypeOK
<1>6. ASSUME NEW t \in Threads, InsertReturn(t) \/ DeleteReturn(t) PROVE TypeOK'
  BY <1>6, ReturnEffect
<1> QED
  BY <1>1, <1>2, <1>3, <1>4, <1>5, <1>6, StepCases

\* The store starts empty.
LEMMA InitTypeOK == Init => TypeOK
<1> SUFFICES ASSUME Init PROVE TypeOK
  OBVIOUS
<1>1. EmptyColumn \in Column
  BY DEF EmptyColumn, Column, Version, Absent
<1> QED
  BY <1>1 DEF Init, TypeOK

\* The maps, counters and calls of the store keep their types; a stored
\* timestamp is a natural number and that of a call is never 0.
THEOREM StoreTypeOK == Spec => []TypeOK
  BY InitTypeOK, NextTypeOK, PTL DEF Spec
-----------------------------------------------------------------------------
\* With DisjointWriters no two calls in flight are on one row.
LEMMA OneCallPerRow ==
    ASSUME DisjointWriters, OpInv, NEW t \in Threads, NEW u \in Threads,
           op[t] # Idle, op[u] # Idle, op[t].row = op[u].row
    PROVE  t = u
  BY DEF DisjointWriters, OpInv

\* Beginning a call: its row was whole, since nobody was working on it.
LEMMA BeginWhole ==
    ASSUME DisjointWriters, WholeInv,
           NEW t \in Threads, NEW kind \in {"insert", "delete"}, NEW r \in RowsOf[t],
           NEW d \in Data \cup {NoData}, NEW n \in Nat, NEW arg \in Nat,
           kind = "insert" => n \in Widths, kind = "delete" => n = NumColumns,
           Begin(t, kind, r, d, n, arg)
    PROVE  WholeInv'
<1> USE DEF WholeInv
<1>0. r \in Rows
  BY StoreAssumption
<1>1. /\ TypeOK' /\ op[t] = Idle /\ op'[t] # Idle
      /\ op'[t].kind = kind /\ op'[t].row = r /\ op'[t].width = n /\ op'[t].col = 0
      /\ \A u \in Threads : u # t => op'[u] = op[u]
      /\ columns' = columns
  <2>1. /\ TypeOK' /\ op[t] = Idle /\ op'[t] # Idle
        /\ op'[t] = [kind |-> kind, row |-> r, ts |-> Stamp(arg),
                     data |-> d, width |-> n, col |-> 0]
        /\ \A u \in Threads : u # t => op'[u] = op[u]
        /\ UNCHANGED <<columns, pending, acked>>
    BY <1>0, BeginEffect
  <2> QED
    BY <2>1
<1>2. OpInv'
  BY <1>1 DEF OpInv
<1>3. ~InFlight(r)
  BY <1>1 DEF InFlight, OpInv, DisjointWriters
<1>4. WrittenInv'
  BY <1>1, StoreAssumption DEF WrittenInv, Ins, Del, VersionOf, Cols
<1>5. AheadInv'
  <2> SUFFICES ASSUME NEW u \in Threads, op'[u] # Idle
               PROVE  (/\ op[u].kind = "insert" =>
                            /\ \A c1, c2 \in Covered : c1 >= op[u].col /\ c2 >= op[u].col
                                    => Ins(c1, op[u].row) = Ins(c2, op[u].row)
                            /\ \A c1, c2 \in Cols : Del(c1, op[u].row) = Del(c2, op[u].row)
                       /\ op[u].kind = "delete" =>
                            /\ \A c1, c2 \in Cols : c1 >= op[u].col /\ c2 >= op[u].col
                                    => Del(c1, op[u].row) = Del(c2, op[u].row)
                            /\ \A c1, c2 \in Covered : Ins(c1, op[u].row) = Ins(c2, op[u].row))'
    BY DEF AheadInv
  <2>1. CASE u = t
    BY <1>0, <1>1, <1>3, <2>1 DEF RowWhole, Ins, Del
  <2>2. CASE u # t
    BY <1>1, <2>2 DEF AheadInv, Ins, Del
  <2> QED
    BY <2>1, <2>2
<1>6. RowWhole'
  <2>1. \A x \in Rows : ~InFlight(x)' => ~InFlight(x)
    BY <1>1 DEF InFlight
  <2> QED
    BY <1>1, <2>1 DEF RowWhole
<1> QED
  BY <1>1, <1>2, <1>4, <1>5, <1>6

\* One column written: the columns passed grow by one, the rest is as before.
LEMMA ColumnWhole ==
    ASSUME DisjointWriters, WholeInv, NEW t \in Threads, InsertColumn(t) \/ DeleteColumn(t)
    PROVE  WholeInv'
<1> USE DEF WholeInv
<1>1. op[t] # Idle /\ op[t].col \in Cols /\ columns' \in [Cols -> Column]
  BY InsertEffect, DeleteEffect
<1>a. op[t].row \in Rows
  BY <1>1, CallType
<1>b. PICK k \in Cols, r \in Rows : k = op[t].col /\ r = op[t].row
  BY <1>1, <1>a
<1>2. op[t].kind \in {"insert", "delete"} /\ k \in Nat
  BY <1>1, <1>b, CallType
<1>3. op' = [op EXCEPT ![t].col = @ + 1] /\ UNCHANGED <<pending, globalTs, acked>>
  BY DEF InsertColumn, DeleteColumn
<1>4. /\ op' \in [Threads -> Calls \cup {Idle}] /\ op'[t] # Idle
      /\ op'[t].kind = op[t].kind /\ op'[t].row = r /\ op'[t].ts = op[t].ts
      /\ op'[t].data = op[t].data /\ op'[t].width = op[t].width
      /\ op'[t].col = k + 1
      /\ \A u \in Threads : u # t => op'[u] = op[u]
  BY <1>1, <1>3, <1>b, AdvanceEffect
<1>5. \A c \in Cols, x \in Rows : c # k \/ x # r => Ins(c, x)' = Ins(c, x) /\ Del(c, x)' = Del(c, x)
  BY <1>b, InsertEffect, DeleteEffect DEF Ins, Del
<1>6. op[t].kind = "insert" =>
        Ins(k, r)' = VersionOf(t) /\ \A c \in Cols, x \in Rows : Del(c, x)' = Del(c, x)
  BY <1>b, InsertEffect DEF DeleteColumn, Ins, Del
<1>7. op[t].kind = "delete" =>
        Del(k, r)' = op[t].ts /\ \A c \in Cols, x \in Rows : Ins(c, x)' = Ins(c, x)
  BY <1>b, DeleteEffect DEF InsertColumn, Ins, Del
<1>8. TypeOK'
  BY <1>1, <1>3, <1>4 DEF TypeOK
<1>9. OpInv'
  BY <1>1, <1>4, <1>b DEF OpInv
<1>10. \A u \in Threads : u # t /\ op[u] # Idle => op[u].row # r /\ op[u].row \in Rows
  BY <1>1, <1>b, OneCallPerRow, CallType
<1>11. Cols \subseteq Nat /\ Covered \subseteq Cols
  BY StoreAssumption DEF Cols, Covered
<1>12. VersionOf(t)' = VersionOf(t)
  BY <1>4 DEF VersionOf
<1>13. WrittenInv'
  <2> SUFFICES ASSUME NEW u \in Threads, NEW c \in Cols, op'[u] # Idle, c < op'[u].col
               PROVE  (/\ op[u].kind = "insert" => Ins(c, op[u].row) = VersionOf(u)
                       /\ op[u].kind = "delete" => Del(c, op[u].row) = op[u].ts)'
    BY DEF WrittenInv
  <2>1. CASE u # t
    <3>1. op'[u] = op[u] /\ op[u].row # r /\ op[u].row \in Rows /\ op[u] # Idle
      BY <1>4, <1>10, <2>1
    <3>2. VersionOf(u)' = VersionOf(u)
      BY <3>1 DEF VersionOf
    <3>3. Ins(c, op[u].row)' = Ins(c, op[u].row) /\ Del(c, op[u].row)' = Del(c, op[u].row)
      BY <1>5, <3>1 DEF Ins, Del
    <3> QED
      BY <3>1, <3>2, <3>3 DEF WrittenInv
  <2>2. CASE u = t /\ c = k
    BY <1>4, <1>6, <1>7, <1>12, <2>2 DEF Ins, Del
  <2>3. CASE u = t /\ c # k
    <3>0. c < k + 1 /\ c \in Nat
      BY <1>4, <1>11, <2>3
    <3>1. c < op[t].col
      BY <1>2, <1>b, <2>3, <3>0
    <3>2. Ins(c, r)' = Ins(c, r) /\ Del(c, r)' = Del(c, r)
      BY <1>2, <1>5, <2>3
    <3>3. /\ op[t].kind = "insert" => Ins(c, r) = VersionOf(t)
          /\ op[t].kind = "delete" => Del(c, r) = op[t].ts
      BY <1>1, <1>b, <3>1 DEF WrittenInv
    <3> QED
      BY <1>4, <1>12, <2>3, <3>2, <3>3 DEF Ins, Del
  <2> QED
    BY <2>1, <2>2, <2>3
<1>14. AheadInv'
  <2> SUFFICES ASSUME NEW u \in Threads, op'[u] # Idle
               PROVE  (/\ op[u].kind = "insert" =>
                            /\ \A c1, c2 \in Covered : c1 >= op[u].col /\ c2 >= op[u].col
                                    => Ins(c1, op[u].row) = Ins(c2, op[u].row)
                            /\ \A c1, c2 \in Cols : Del(c1, op[u].row) = Del(c2, op[u].row)
                       /\ op[u].kind = "delete" =>
                            /\ \A c1, c2 \in Cols : c1 >= op[u].col /\ c2 >= op[u].col
                                    => Del(c1, op[u].row) = Del(c2, op[u].row)
                            /\ \A c1, c2 \in Covered : Ins(c1, op[u].row) = Ins(c2, op[u].row))'
    BY DEF AheadInv
  <2>1. CASE u # t
    <3>1. op'[u] = op[u] /\ op[u].row # r /\ op[u].row \in Rows /\ op[u] # Idle
      BY <1>4, <1>10, <2>1
    <3>2. \A c \in Cols : /\ Ins(c, op[u].row)' = Ins(c, op[u].row)
                          /\ Del(c, op[u].row)' = Del(c, op[u].row)
      BY <1>5, <3>1 DEF Ins, Del
    <3> QED
      BY <1>11, <3>1, <3>2 DEF AheadInv
  <2>2. CASE u = t
    <3>0. \A c \in Cols : c >= k + 1 => c # k
      BY <1>2, <1>11
    <3>1. \A c \in Cols : c >= k + 1 => Ins(c, r)' = Ins(c, r) /\ Del(c, r)' = Del(c, r)
      BY <1>5, <3>0
    <3>2. CASE op[t].kind = "insert"
      <4>1. /\ \A c1, c2 \in Covered : c1 >= k /\ c2 >= k => Ins(c1, r) = Ins(c2, r)
            /\ \A c1, c2 \in Cols : Del(c1, r) = Del(c2, r)
        BY <1>1, <1>b, <3>2 DEF AheadInv
      <4>2. \A c1, c2 \in Covered : c1 >= k + 1 /\ c2 >= k + 1 => Ins(c1, r)' = Ins(c2, r)'
        BY <1>2, <1>11, <3>1, <4>1
      <4>3. \A c1, c2 \in Cols : Del(c1, r)' = Del(c2, r)'
        BY <1>2, <1>6, <3>2, <4>1
      <4> QED
        BY <1>4, <2>2, <3>2, <4>2, <4>3 DEF Ins, Del
    <3>3. CASE op[t].kind = "delete"
      <4>1. /\ \A c1, c2 \in Cols : c1 >= k /\ c2 >= k => Del(c1, r) = Del(c2, r)
            /\ \A c1, c2 \in Covered : Ins(c1, r) = Ins(c2, r)
        BY <1>1, <1>b, <3>3 DEF AheadInv
      <4>2. \A c1, c2 \in Cols : c1 >= k + 1 /\ c2 >= k + 1 => Del(c1, r)' = Del(c2, r)'
        BY <1>2, <1>11, <3>1, <4>1
      <4>3. \A c1, c2 \in Covered : Ins(c1, r)' = Ins(c2, r)'
        BY <1>2, <1>7, <1>11, <3>3, <4>1
      <4> QED
        BY <1>4, <2>2, <3>3, <4>2, <4>3 DEF Ins, Del
    <3> QED
      BY <1>2, <3>2, <3>3
  <2> QED
    BY <2>1, <2>2
<1>15. RowWhole'
  <2>1. \A x \in Rows : ~InFlight(x)' => ~InFlight(x) /\ x # r
    BY <1>1, <1>4, <1>b DEF InFlight
  <2>2. \A x \in Rows, c \in Cols : x # r =>
            /\ columns'[c].inserts[x] = columns[c].inserts[x]
            /\ columns'[c].deletes[x] = columns[c].deletes[x]
    BY <1>5 DEF Ins, Del
  <2> QED
    BY <1>11, <2>1, <2>2 DEF RowWhole
<1> QED
  BY <1>8, <1>9, <1>13, <1>14, <1>15

\* A call returns: all the columns it covers are behind it.
LEMMA ReturnWhole ==
    ASSUME DisjointWriters, WholeInv, NEW t \in Threads, InsertReturn(t) \/ DeleteReturn(t)
    PROVE  WholeInv'
<1> USE DEF WholeInv
<1>1. /\ TypeOK' /\ op[t] # Idle /\ op'[t] = Idle
      /\ \A u \in Threads : u # t => op'[u] = op[u]
      /\ op[t].col >= NumColumns \/ op[t].col >= op[t].width
      /\ columns' = columns
  BY ReturnEffect
<1>2. OpInv' /\ WrittenInv' /\ AheadInv'
  BY <1>1 DEF OpInv, WrittenInv, AheadInv, Ins, Del, VersionOf
<1>3. op[t].kind \in {"insert", "delete"} /\ op[t].col \in Nat /\ op[t].width \in Nat
  BY <1>1, CallType
<1>4. Cols \subseteq Nat /\ Covered \subseteq Cols /\ \A c \in Cols : c < NumColumns
  BY StoreAssumption DEF Cols, Covered
<1>5. /\ \A c1, c2 \in Covered : Ins(c1, op[t].row) = Ins(c2, op[t].row)
      /\ \A c1, c2 \in Cols : Del(c1, op[t].row) = Del(c2, op[t].row)
  <2>1. CASE op[t].kind = "insert"
    <3>1. \A c \in Covered : c < op[t].width
      BY <1>1, <2>1 DEF OpInv, Covered
    <3>2. \A c \in Covered : c < op[t].col
      BY <1>1, <1>3, <1>4, <3>1, StoreAssumption
    <3>3. \A c \in Covered : Ins(c, op[t].row) = VersionOf(t)
      BY <1>1, <1>4, <2>1, <3>2 DEF WrittenInv
    <3> QED
      BY <1>1, <2>1, <3>3 DEF AheadInv
  <2>2. CASE op[t].kind = "delete"
    <3>1. op[t].width = NumColumns
      BY <1>1, <2>2 DEF OpInv
    <3>2. \A c \in Cols : c < op[t].col
      BY <1>1, <1>3, <1>4, <3>1, StoreAssumption
    <3>3. \A c \in Cols : Del(c, op[t].row) = op[t].ts
      BY <1>1, <2>2, <3>2 DEF WrittenInv
    <3> QED
      BY <1>1, <2>2, <3>3 DEF AheadInv
  <2> QED
    BY <1>3, <2>1, <2>2
<1>6. RowWhole'
  <2>1. \A x \in Rows : ~InFlight(x)' => ~InFlight(x) \/ x = op[t].row
    BY <1>1 DEF InFlight
  <2> QED
    BY <1>1, <1>5, <2>1 DEF RowWhole, Ins, Del
<1> QED
  BY <1>1, <1>2, <1>6

\* The inductive step for callers that share no row id.
LEMMA NextWhole ==
    ASSUME DisjointWriters PROVE WholeInv /\ [Next]_vars => WholeInv'
<1> SUFFICES ASSUME WholeInv, [Next]_vars PROVE WholeInv'
  OBVIOUS
<1>1. CASE UNCHANGED vars
  BY <1>1 DEF vars, WholeInv, TypeOK, OpInv, WrittenInv, AheadInv, RowWhole, InFlight,
     Ins, Del, VersionOf
<1>2. ASSUME NEW t \in Threads, NEW r \in RowsOf[t], NEW d \in Data, NEW n \in Widths,
             NEW arg \in Stamps, Begin(t, "insert", r, d, n, arg)
      PROVE  WholeInv'
  BY <1>2, BeginWhole, StoreAssumption
<1>3. ASSUME NEW t \in Threads, NEW r \in RowsOf[t], NEW arg \in Stamps,
             Begin(t, "delete", r, NoData, NumColumns, arg)
      PROVE  WholeInv'
  BY <1>3, BeginWhole, StoreAssumption
<1> QED
  BY <1>1, <1>2, <1>3, ColumnWhole, ReturnWhole, StepCases

\* Insert and Delete lock one column at a time, yet callers that share no row
\* id always leave a row whole: all columns hold the version, and the
\* tombstone, of the same call.
THEOREM StoreRowWhole == ASSUME DisjointWriters PROVE Spec => []RowWhole
<1>1. Init => WholeInv
  <2> SUFFICES ASSUME Init PROVE WholeInv
    OBVIOUS
  <2>1. OpInv /\ WrittenInv /\ AheadInv
    BY DEF Init, OpInv, WrittenInv, AheadInv
  <2>2. RowWhole
    BY DEF Init, RowWhole, Covered
  <2> QED
    BY <2>1, <2>2, InitTypeOK DEF WholeInv
<1>2. WholeInv => RowWhole
  BY DEF WholeInv
<1> QED
  BY <1>1, <1>2, NextWhole, PTL DEF Spec
-----------------------------------------------------------------------------
\* No timestamp runs ahead of global_timestamp_.
StampInv ==
    /\ \A c \in Cols, r \in Rows : Ins(c, r).ts <= globalTs /\ Del(c, r) <= globalTs
    /\ \A t \in Threads : op[t] # Idle => op[t].ts <= globalTs

\* What a call has yet to overwrite is no newer than the call.
OlderInv == \A t \in Threads, c \in Cols : op[t] # Idle /\ c >= op[t].col =>
    /\ op[t].kind = "insert" => Ins(c, op[t].row).ts <= op[t].ts
    /\ op[t].kind = "delete" => Del(c, op[t].row) <= op[t].ts

\* What a returned call wrote has only been replaced by newer versions.
AckInv == \A a \in acked :
    /\ a.kind = "insert" => \A c \in Covered : Ins(c, a.row).ts >= a.ts
    /\ a.kind = "delete" => \A c \in Cols : Del(c, a.row) >= a.ts

\* Every version and every tombstone in the maps was written by a call.
SourceInv == \A c \in Cols, r \in Rows :
    /\ Ins(c, r).ts # 0 => [kind |-> "insert", row |-> r, ts |-> Ins(c, r).ts] \in Issued
    /\ Del(c, r) # 0 => [kind |-> "delete", row |-> r, ts |-> Del(c, r)] \in Issued

FreshInv == WholeInv /\ StampInv /\ OlderInv /\ AckInv /\ VersionsDescend

\* Timestamps in the maps are naturals, column numbers too.
LEMMA MapTypes ==
    ASSUME TypeOK
    PROVE  /\ globalTs \in Nat
           /\ \A c \in Cols, r \in Rows : Ins(c, r).ts \in Nat /\ Del(c, r) \in Nat
           /\ Cols \subseteq Nat /\ Covered \subseteq Cols
           /\ \A a \in acked : a.row \in Rows /\ a.ts \in Nat
  BY StoreAssumption DEF TypeOK, Ins, Del, Column, Version, Cols, Covered, Acks

\* A fresh stamp is newer than everything stored.
LEMMA BeginFresh ==
    ASSUME FreshInv, WholeInv', NEW t \in Threads, NEW kind \in {"insert", "delete"},
           NEW r \in Rows, NEW d \in Data \cup {NoData}, NEW n \in Nat,
           Begin(t, kind, r, d, n, 0)
    PROVE  FreshInv'
<1> USE DEF FreshInv, WholeInv
<1>1. /\ op'[t] = [kind |-> kind, row |-> r, ts |-> Stamp(0), data |-> d, width |-> n, col |-> 0]
      /\ \A u \in Threads : u # t => op'[u] = op[u]
      /\ columns' = columns /\ acked' = acked
  BY BeginEffect
<1>2. globalTs \in Nat /\ globalTs' = globalTs + 1 /\ op'[t].ts = globalTs + 1 /\ op'[t].row = r
  BY <1>1 DEF Begin, Stamp, TypeOK
<1>3. AckInv' /\ VersionsDescend'
  BY <1>1 DEF AckInv, VersionsDescend, Ins, Del
<1>4. \A c \in Cols, x \in Rows : /\ Ins(c, x)' = Ins(c, x) /\ Del(c, x)' = Del(c, x)
                                 /\ Ins(c, x).ts <= globalTs /\ Ins(c, x).ts \in Nat
                                 /\ Del(c, x) <= globalTs /\ Del(c, x) \in Nat
  BY <1>1, MapTypes DEF StampInv, Ins, Del
<1>5. \A u \in Threads : op[u] # Idle => op[u].ts \in Nat /\ op[u].ts <= globalTs
  BY CallType DEF StampInv
<1>6. StampInv'
  <2>1. \A u \in Threads : op'[u] # Idle => op'[u].ts <= globalTs'
    BY <1>1, <1>2, <1>5
  <2>2. \A c \in Cols, x \in Rows : Ins(c, x)'.ts <= globalTs' /\ Del(c, x)' <= globalTs'
    BY <1>2, <1>4
  <2> QED
    BY <2>1, <2>2 DEF StampInv
<1>7. OlderInv'
  <2> SUFFICES ASSUME NEW u \in Threads, NEW c \in Cols, op'[u] # Idle, c >= op'[u].col
               PROVE  (/\ op[u].kind = "insert" => Ins(c, op[u].row).ts <= op[u].ts
                       /\ op[u].kind = "delete" => Del(c, op[u].row) <= op[u].ts)'
    BY DEF OlderInv
  <2>1. CASE u = t
    <3>1. Ins(c, r).ts <= globalTs + 1 /\ Del(c, r) <= globalTs + 1
      BY <1>2, <1>4
    <3> QED
      BY <1>1, <1>2, <2>1, <3>1 DEF Ins, Del
  <2>2. CASE u # t
    BY <1>1, <2>2 DEF OlderInv, Ins, Del
  <2> QED
    BY <2>1, <2>2
<1> QED
  BY <1>3, <1>6, <1>7

\* A column is overwritten by something at least as new, and the columns before
\* it already hold it.
LEMMA ColumnFresh ==
    ASSUME DisjointWriters, FreshInv, WholeInv', NEW t \in Threads,
           InsertColumn(t) \/ DeleteColumn(t)
    PROVE  FreshInv'
<1> USE DEF FreshInv, WholeInv
<1>1. op[t] # Idle /\ op[t].col \in Cols /\ op[t].row \in Rows /\ op[t].ts \in Nat \ {0}
      /\ op[t].kind \in {"insert", "delete"} /\ op[t].ts <= globalTs
  BY InsertEffect, DeleteEffect, CallType DEF StampInv
<1>2. PICK k \in Cols, r \in Rows, s \in Nat \ {0} :
        k = op[t].col /\ r = op[t].row /\ s = op[t].ts
  BY <1>1
<1>3. op' = [op EXCEPT ![t].col = @ + 1] /\ UNCHANGED <<pending, globalTs, acked>>
  BY DEF InsertColumn, DeleteColumn
<1>4. /\ op'[t].kind = op[t].kind /\ op'[t].row = r /\ op'[t].ts = s /\ op'[t].col = k + 1
      /\ \A u \in Threads : u # t => op'[u] = op[u]
  BY <1>1, <1>2, <1>3, AdvanceEffect
<1>5. \A c \in Cols, x \in Rows : c # k \/ x # r =>
        Ins(c, x)' = Ins(c, x) /\ Del(c, x)' = Del(c, x)
  BY <1>2, InsertEffect, DeleteEffect DEF Ins, Del
<1>6. /\ \A c \in Cols, x \in Rows : Ins(c, x).ts \in Nat /\ Del(c, x) \in Nat
      /\ Cols \subseteq Nat /\ Covered \subseteq Cols /\ globalTs \in Nat
      /\ \A a \in acked : a.row \in Rows /\ a.ts \in Nat
  BY MapTypes
<1>7. CASE op[t].kind = "insert"
  <2>0. VersionOf(t).ts = s
    BY <1>2 DEF VersionOf
  <2>1. Ins(k, r)'.ts = s /\ \A c \in Cols, x \in Rows : Del(c, x)' = Del(c, x)
    <3>1. Ins(k, r)' = VersionOf(t) /\ \A c \in Cols, x \in Rows : Del(c, x)' = Del(c, x)
      BY <1>2, <1>7, InsertEffect DEF DeleteColumn, Ins, Del
    <3> QED
      BY <2>0, <3>1
  <2>2. \A c \in Cols : c < k => Ins(c, r).ts = s
    <3>1. \A c \in Cols : c < k => Ins(c, r) = VersionOf(t)
      BY <1>1, <1>2, <1>7 DEF WrittenInv
    <3> QED
      BY <2>0, <3>1
  <2>3. \A c \in Cols : c >= k => Ins(c, r).ts <= s
    BY <1>1, <1>2, <1>7 DEF OlderInv
  <2>4. \A c \in Cols, x \in Rows : Ins(c, x)'.ts >= Ins(c, x).ts /\ Ins(c, x)'.ts \in Nat
    BY <1>5, <1>6, <2>1, <2>3
  <2>5. StampInv'
    <3>1. \A c \in Cols, x \in Rows : Ins(c, x)'.ts <= globalTs' /\ Del(c, x)' <= globalTs'
      BY <1>1, <1>2, <1>3, <1>5, <2>1 DEF StampInv
    <3>2. \A u \in Threads : op'[u] # Idle => op'[u].ts <= globalTs'
      BY <1>1, <1>2, <1>3, <1>4 DEF StampInv
    <3> QED
      BY <3>1, <3>2 DEF StampInv
  <2>6. OlderInv'
    <3> SUFFICES ASSUME NEW u \in Threads, NEW c \in Cols, op'[u] # Idle, c >= op'[u].col
                 PROVE  (/\ op[u].kind = "insert" => Ins(c, op[u].row).ts <= op[u].ts
                         /\ op[u].kind = "delete" => Del(c, op[u].row) <= op[u].ts)'
      BY DEF OlderInv
    <3>1. CASE u = t
      <4>1. c >= k /\ c # k
        BY <1>4, <1>6, <3>1
      <4>2. Ins(c, r)'.ts <= s
        BY <1>5, <2>3, <4>1
      <4> QED
        BY <1>4, <1>7, <3>1, <4>2 DEF Ins
    <3>2. CASE u # t
      <4>1. op'[u] = op[u] /\ op[u].row # r /\ op[u].row \in Rows
        BY <1>1, <1>2, <1>4, <3>2, OneCallPerRow, CallType
      <4>2. Ins(c, op[u].row)' = Ins(c, op[u].row) /\ Del(c, op[u].row)' = Del(c, op[u].row)
        BY <1>5, <4>1 DEF Ins, Del
      <4> QED
        BY <4>1, <4>2 DEF OlderInv
    <3> QED
      BY <3>1, <3>2
  <2>7. AckInv'
    <3> SUFFICES ASSUME NEW a \in acked'
                 PROVE  (/\ a.kind = "insert" => \A c \in Covered : Ins(c, a.row).ts >= a.ts
                         /\ a.kind = "delete" => \A c \in Cols : Del(c, a.row) >= a.ts)'
      BY DEF AckInv
    <3>1. a \in acked /\ a.row \in Rows /\ a.ts \in Nat
      BY <1>3, <1>6
    <3>2. ASSUME a.kind = "insert", NEW c \in Covered PROVE Ins(c, a.row)'.ts >= a.ts
      <4>1. Ins(c, a.row).ts >= a.ts
        BY <3>1, <3>2 DEF AckInv
      <4>2. Ins(c, a.row)'.ts >= Ins(c, a.row).ts /\ Ins(c, a.row)'.ts \in Nat
            /\ Ins(c, a.row).ts \in Nat
        BY <1>6, <2>4, <3>1
      <4> QED
        BY <3>1, <4>1, <4>2
    <3> QED
      BY <2>1, <3>1, <3>2 DEF AckInv
  <2>8. VersionsDescend'
    <3> SUFFICES ASSUME NEW x \in Rows, NEW c1 \in Cols, NEW c2 \in Cols, c1 <= c2
                 PROVE  Ins(c1, x)'.ts >= Ins(c2, x)'.ts /\ Del(c1, x)' >= Del(c2, x)'
      BY DEF VersionsDescend, Ins, Del
    <3>1. Ins(c1, x).ts >= Ins(c2, x).ts /\ Del(c1, x) >= Del(c2, x)
      BY DEF VersionsDescend, Ins, Del
    <3>2. CASE x = r /\ c1 = k
      BY <1>5, <1>6, <2>1, <2>3, <3>1, <3>2
    <3>3. CASE x = r /\ c1 # k /\ c2 = k
      BY <1>5, <1>6, <2>1, <2>2, <3>1, <3>3
    <3>4. CASE x # r \/ (c1 # k /\ c2 # k)
      BY <1>5, <3>1, <3>4
    <3> QED
      BY <3>2, <3>3, <3>4
  <2> QED
    BY <2>5, <2>6, <2>7, <2>8
<1>8. CASE op[t].kind = "delete"
  <2>1. Del(k, r)' = s /\ \A c \in Cols, x \in Rows : Ins(c, x)' = Ins(c, x)
    BY <1>2, <1>8, DeleteEffect DEF InsertColumn, Ins, Del
  <2>2. \A c \in Cols : c < k => Del(c, r) = s
    BY <1>1, <1>2, <1>8 DEF WrittenInv
  <2>3. \A c \in Cols : c >= k => Del(c, r) <= s
    BY <1>1, <1>2, <1>8 DEF OlderInv
  <2>4. \A c \in Cols, x \in Rows : Del(c, x)' >= Del(c, x) /\ Del(c, x)' \in Nat
    BY <1>5, <1>6, <2>1, <2>3
  <2>5. StampInv'
    <3>1. \A c \in Cols, x \in Rows : Ins(c, x)'.ts <= globalTs' /\ Del(c, x)' <= globalTs'
      BY <1>1, <1>2, <1>3, <1>5, <2>1 DEF StampInv
    <3>2. \A u \in Threads : op'[u] # Idle => op'[u].ts <= globalTs'
      BY <1>1, <1>2, <1>3, <1>4 DEF StampInv
    <3> QED
      BY <3>1, <3>2 DEF StampInv
  <2>6. OlderInv'
    <3> SUFFICES ASSUME NEW u \in Threads, NEW c \in Cols, op'[u] # Idle, c >= op'[u].col
                 PROVE  (/\ op[u].kind = "insert" => Ins(c, op[u].row).ts <= op[u].ts
                         /\ op[u].kind = "delete" => Del(c, op[u].row) <= op[u].ts)'
      BY DEF OlderInv
    <3>1. CASE u = t
      <4>1. c >= k /\ c # k
        BY <1>4, <1>6, <3>1
      <4>2. Del(c, r)' <= s
        BY <1>5, <2>3, <4>1
      <4> QED
        BY <1>4, <1>8, <3>1, <4>2 DEF Del
    <3>2. CASE u # t
      <4>1. op'[u] = op[u] /\ op[u].row # r /\ op[u].row \in Rows
        BY <1>1, <1>2, <1>4, <3>2, OneCallPerRow, CallType
      <4>2. Ins(c, op[u].row)' = Ins(c, op[u].row) /\ Del(c, op[u].row)' = Del(c, op[u].row)
        BY <1>5, <4>1 DEF Ins, Del
      <4> QED
        BY <4>1, <4>2 DEF OlderInv
    <3> QED
      BY <3>1, <3>2
  <2>7. AckInv'
    <3> SUFFICES ASSUME NEW a \in acked'
                 PROVE  (/\ a.kind = "insert" => \A c \in Covered : Ins(c, a.row).ts >= a.ts
                         /\ a.kind = "delete" => \A c \in Cols : Del(c, a.row) >= a.ts)'
      BY DEF AckInv
    <3>1. a \in acked /\ a.row \in Rows /\ a.ts \in Nat
      BY <1>3, <1>6
    <3>2. ASSUME a.kind = "delete", NEW c \in Cols PROVE Del(c, a.row)' >= a.ts
      <4>1. Del(c, a.row) >= a.ts
        BY <3>1, <3>2 DEF AckInv
      <4>2. Del(c, a.row)' >= Del(c, a.row) /\ Del(c, a.row)' \in Nat /\ Del(c, a.row) \in Nat
        BY <1>6, <2>4, <3>1
      <4> QED
        BY <3>1, <4>1, <4>2
    <3> QED
      BY <1>6, <2>1, <3>1, <3>2 DEF AckInv
  <2>8. VersionsDescend'
    <3> SUFFICES ASSUME NEW x \in Rows, NEW c1 \in Cols, NEW c2 \in Cols, c1 <= c2
                 PROVE  Ins(c1, x)'.ts >= Ins(c2, x)'.ts /\ Del(c1, x)' >= Del(c2, x)'
      BY DEF VersionsDescend, Ins, Del
    <3>1. Ins(c1, x).ts >= Ins(c2, x).ts /\ Del(c1, x) >= Del(c2, x)
      BY DEF VersionsDescend, Ins, Del
    <3>2. CASE x = r /\ c1 = k
      BY <1>5, <1>6, <2>1, <2>3, <3>1, <3>2
    <3>3. CASE x = r /\ c1 # k /\ c2 = k
      BY <1>5, <1>6, <2>1, <2>2, <3>1, <3>3
    <3>4. CASE x # r \/ (c1 # k /\ c2 # k)
      BY <1>5, <2>1, <3>1, <3>4
    <3> QED
      BY <3>2, <3>3, <3>4
  <2> QED
    BY <2>5, <2>6, <2>7, <2>8
<1> QED
  BY <1>1, <1>7, <1>8

\* When a call returns, every column it covers holds its version or tombstone.
LEMMA ReturnFresh ==
    ASSUME FreshInv, WholeInv', NEW t \in Threads, InsertReturn(t) \/ DeleteReturn(t)
    PROVE  FreshInv'
<1> USE DEF FreshInv, WholeInv
<1> DEFINE b == [kind |-> op[t].kind, row |-> op[t].row, ts |-> op[t].ts]
<1>1. /\ op[t] # Idle /\ op'[t] = Idle
      /\ \A u \in Threads : u # t => op'[u] = op[u]
      /\ op[t].col \in Nat /\ op[t].width \in Nat
      /\ op[t].col >= NumColumns \/ op[t].col >= op[t].width
      /\ columns' = columns /\ globalTs' = globalTs
      /\ acked' = acked \cup {b}
  BY ReturnEffect
<1>2. StampInv' /\ OlderInv' /\ VersionsDescend'
  BY <1>1 DEF StampInv, OlderInv, VersionsDescend, Ins, Del
<1>3. op[t].ts \in Nat \ {0} /\ op[t].kind \in {"insert", "delete"}
  BY <1>1, CallType
<1>4. Cols \subseteq Nat /\ Covered \subseteq Cols /\ \A c \in Cols : c < NumColumns
  BY StoreAssumption DEF Cols, Covered
<1>5. op[t].kind = "insert" => \A c \in Covered : Ins(c, op[t].row).ts >= op[t].ts
  <2> SUFFICES ASSUME op[t].kind = "insert", NEW c \in Covered
               PROVE  Ins(c, op[t].row).ts >= op[t].ts
    OBVIOUS
  <2>1. c < op[t].width
    BY <1>1 DEF OpInv, Covered
  <2>0. c \in Nat /\ c < NumColumns /\ NumColumns \in Nat
    BY <1>4, StoreAssumption
  <2>2. c < op[t].col
    BY <1>1, <2>0, <2>1
  <2>3. Ins(c, op[t].row) = VersionOf(t)
    BY <1>1, <1>4, <2>2 DEF WrittenInv
  <2> QED
    BY <1>3, <2>3 DEF VersionOf
<1>6. op[t].kind = "delete" => \A c \in Cols : Del(c, op[t].row) >= op[t].ts
  <2> SUFFICES ASSUME op[t].kind = "delete", NEW c \in Cols PROVE Del(c, op[t].row) >= op[t].ts
    OBVIOUS
  <2>0. op[t].width = NumColumns
    BY <1>1 DEF OpInv
  <2>1. c < op[t].col
    BY <1>1, <1>4, <2>0, StoreAssumption
  <2> QED
    BY <1>1, <1>3, <2>1 DEF WrittenInv
<1>7. AckInv'
  <2> SUFFICES ASSUME NEW a \in acked'
               PROVE  /\ a.kind = "insert" => \A c \in Covered : Ins(c, a.row)'.ts >= a.ts
                      /\ a.kind = "delete" => \A c \in Cols : Del(c, a.row)' >= a.ts
    BY DEF AckInv
  <2>1. \A c, x : Ins(c, x)' = Ins(c, x) /\ Del(c, x)' = Del(c, x)
    BY <1>1 DEF Ins, Del
  <2>2. CASE a \in acked
    BY <2>1, <2>2 DEF AckInv
  <2>3. CASE a = b
    <3>1. a.kind = op[t].kind /\ a.row = op[t].row /\ a.ts = op[t].ts
      BY <2>3
    <3> QED
      BY <1>5, <1>6, <2>1, <3>1
  <2> QED
    BY <1>1, <2>2, <2>3
<1> QED
  BY <1>2, <1>7

\* The inductive step for callers that share no row id and pass no timestamp.
LEMMA NextFresh ==
    ASSUME DisjointWriters, FreshStamps PROVE FreshInv /\ [Next]_vars => FreshInv'
<1> SUFFICES ASSUME FreshInv, [Next]_vars PROVE FreshInv'
  OBVIOUS
<1>0. WholeInv'
  BY NextWhole DEF FreshInv
<1>1. CASE UNCHANGED vars
  BY <1>0, <1>1 DEF vars, FreshInv, StampInv, OlderInv, AckInv, VersionsDescend, Ins, Del
<1>2. ASSUME NEW t \in Threads, NEW r \in RowsOf[t], NEW d \in Data, NEW n \in Widths,
             NEW arg \in Stamps, Begin(t, "insert", r, d, n, arg)
      PROVE  FreshInv'
  <2>1. arg = 0 /\ r \in Rows /\ n \in Nat
    BY StoreAssumption DEF FreshStamps
  <2> QED
    BY <1>0, <1>2, <2>1, BeginFresh
<1>3. ASSUME NEW t \in Threads, NEW r \in RowsOf[t], NEW arg \in Stamps,
             Begin(t, "delete", r, NoData, NumColumns, arg)
      PROVE  FreshInv'
  <2>1. arg = 0 /\ r \in Rows /\ NumColumns \in Nat
    BY StoreAssumption DEF FreshStamps
  <2> QED
    BY <1>0, <1>3, <2>1, BeginFresh
<1> QED
  BY <1>0, <1>1, <1>2, <1>3, ColumnFresh, ReturnFresh, StepCases

LEMMA InitFresh == Init => FreshInv
<1> SUFFICES ASSUME Init PROVE FreshInv
  OBVIOUS
<1>1. TypeOK
  BY InitTypeOK
<1>2. OpInv /\ WrittenInv /\ AheadInv /\ OlderInv /\ AckInv
  BY DEF Init, OpInv, WrittenInv, AheadInv, OlderInv, AckInv
<1>3. \A c \in Cols, r \in Rows : Ins(c, r) = Absent /\ Del(c, r) = 0
  BY DEF Init, EmptyColumn, Ins, Del
<1>4. Absent.ts = 0
  BY DEF Absent
<1>5. StampInv
  BY <1>3, <1>4 DEF StampInv, Init
<1>6. VersionsDescend
  BY <1>3, <1>4 DEF VersionsDescend, Ins, Del
<1>7. RowWhole
  BY <1>3 DEF RowWhole, Ins, Del, Covered
<1> QED
  BY <1>1, <1>2, <1>5, <1>6, <1>7 DEF FreshInv, WholeInv

\* No call is forgotten, and a column that changes holds what a call wrote.
LEMMA NextSource == TypeOK /\ SourceInv /\ [Next]_vars => SourceInv'
<1> SUFFICES ASSUME TypeOK, SourceInv, [Next]_vars PROVE SourceInv'
  OBVIOUS
<1> DEFINE Kept == Issued \subseteq Issued'
           Same == \A c \in Cols, r \in Rows : Ins(c, r)' = Ins(c, r) /\ Del(c, r)' = Del(c, r)
<1>0. Kept /\ Same => SourceInv'
  BY DEF SourceInv
<1>1. CASE UNCHANGED vars
  <2>1. Kept
    BY <1>1 DEF vars, Issued, CallOf
  <2>2. Same
    BY <1>1 DEF vars, Ins, Del
  <2> QED
    BY <1>0, <2>1, <2>2
<1>2. ASSUME NEW t \in Threads, op[t] = Idle, UNCHANGED <<columns, acked>>,
             \A u \in Threads : u # t => op'[u] = op[u]
      PROVE  SourceInv'
  <2>1. Kept
    BY <1>2 DEF Issued, CallOf
  <2>2. Same
    BY <1>2 DEF Ins, Del
  <2> QED
    BY <1>0, <2>1, <2>2
<1>3. ASSUME NEW t \in Threads, NEW r \in RowsOf[t], NEW d \in Data, NEW n \in Widths,
             NEW arg \in Stamps, Begin(t, "insert", r, d, n, arg)
      PROVE  SourceInv'
  <2>1. /\ op[t] = Idle /\ UNCHANGED <<columns, acked>>
        /\ \A u \in Threads : u # t => op'[u] = op[u]
    BY <1>3, BeginEffect, StoreAssumption
  <2> QED
    BY <1>2, <2>1
<1>4. ASSUME NEW t \in Threads, NEW r \in RowsOf[t], NEW arg \in Stamps,
             Begin(t, "delete", r, NoData, NumColumns, arg)
      PROVE  SourceInv'
  <2>1. /\ op[t] = Idle /\ UNCHANGED <<columns, acked>>
        /\ \A u \in Threads : u # t => op'[u] = op[u]
    BY <1>4, BeginEffect, StoreAssumption
  <2> QED
    BY <1>2, <2>1
<1>5. ASSUME NEW t \in Threads, InsertColumn(t) \/ DeleteColumn(t) PROVE SourceInv'
  <2>1. op[t] # Idle /\ op' = [op EXCEPT ![t].col = @ + 1] /\ acked' = acked
    BY <1>5, InsertEffect, DeleteEffect DEF InsertColumn, DeleteColumn
  <2>2. op'[t] # Idle /\ CallOf(t)' = CallOf(t) /\ \A u \in Threads : u # t => op'[u] = op[u]
    BY <2>1, AdvanceEffect DEF CallOf
  <2>3. Kept /\ CallOf(t) \in Issued'
    BY <2>1, <2>2 DEF Issued, CallOf
  <2>4. op[t].col \in Cols /\ op[t].row \in Rows
    BY <1>5, <2>1, CallType, InsertEffect, DeleteEffect
  <2> SUFFICES ASSUME NEW c \in Cols, NEW r \in Rows
               PROVE  (/\ Ins(c, r).ts # 0 => [kind |-> "insert", row |-> r, ts |-> Ins(c, r).ts] \in Issued
                       /\ Del(c, r) # 0 => [kind |-> "delete", row |-> r, ts |-> Del(c, r)] \in Issued)'
    BY DEF SourceInv
  <2>5. CASE c # op[t].col \/ r # op[t].row
    <3>1. Ins(c, r)' = Ins(c, r) /\ Del(c, r)' = Del(c, r)
      BY <1>5, <2>5, InsertEffect, DeleteEffect DEF Ins, Del
    <3> QED
      BY <2>3, <3>1 DEF SourceInv
  <2>6. CASE c = op[t].col /\ r = op[t].row /\ InsertColumn(t)
    <3>1. Ins(c, r)' = VersionOf(t) /\ Del(c, r)' = Del(c, r)
      BY <2>6, InsertEffect DEF Ins, Del
    <3>2. [kind |-> "insert", row |-> r, ts |-> VersionOf(t).ts] = CallOf(t)
      BY <2>6 DEF InsertColumn, CallOf, VersionOf
    <3> QED
      BY <2>3, <3>1, <3>2 DEF SourceInv
  <2>7. CASE c = op[t].col /\ r = op[t].row /\ DeleteColumn(t)
    <3>1. Ins(c, r)' = Ins(c, r) /\ Del(c, r)' = op[t].ts
      BY <2>7, DeleteEffect DEF Ins, Del
    <3>2. [kind |-> "delete", row |-> r, ts |-> op[t].ts] = CallOf(t)
      BY <2>7 DEF DeleteColumn, CallOf
    <3> QED
      BY <2>3, <3>1, <3>2 DEF SourceInv
  <2> QED
    BY <1>5, <2>5, <2>6, <2>7
<1>6. ASSUME NEW t \in Threads, InsertReturn(t) \/ DeleteReturn(t) PROVE SourceInv'
  <2>1. /\ op[t] # Idle /\ op'[t] = Idle /\ UNCHANGED columns
        /\ \A u \in Threads : u # t => op'[u] = op[u]
        /\ acked' = acked \cup {CallOf(t)}
    BY <1>6, ReturnEffect DEF CallOf
  <2>2. Kept
    BY <2>1 DEF Issued, CallOf
  <2>3. Same
    BY <2>1 DEF Ins, Del
  <2> QED
    BY <1>0, <2>2, <2>3
<1> QED
  BY <1>1, <1>3, <1>4, <1>5, <1>6, StepCases

\* In the middle of any Insert or Delete, an earlier column is never behind a
\* later one, for callers that share no row id and leave timestamps to the store.
THEOREM StoreVersionsDescend ==
    ASSUME DisjointWriters, FreshStamps PROVE Spec => []VersionsDescend
<1>1. FreshInv => VersionsDescend
  BY DEF FreshInv
<1> QED
  BY <1>1, InitFresh, NextFresh, PTL DEF Spec

\* What the invariants say about an acknowledged call and the readers.
LEMMA AckedIsRead == FreshInv /\ SourceInv => ReadYourWrites
<1> SUFFICES ASSUME FreshInv, SourceInv, NEW a \in acked
             PROVE  /\ a.kind = "insert" /\ NoneSince("delete", a) =>
                        \A c \in Covered :
                            /\ Ins(c, a.row).ts >= a.ts
                            /\ a.row \in GetRange(columns[c], a.row, a.row + 1)
                            /\ \/ GetFinds(columns[c], a.row)
                               \/ \E b \in Issued : b.kind = "delete" /\ b.row = a.row
                    /\ a.kind = "delete" /\ NoneSince("insert", a) =>
                        \A c \in Cols :
                            /\ ~GetFinds(columns[c], a.row)
                            /\ a.row \notin GetRange(columns[c], a.row, a.row + 1)
  BY DEF ReadYourWrites, Ins
<1>1. a.row \in Rows /\ a.row \in Nat /\ a.ts \in Nat \ {0}
  BY RowsAssumption DEF FreshInv, WholeInv, TypeOK, Acks
<1>2. /\ \A c \in Cols : Ins(c, a.row).ts \in Nat /\ Del(c, a.row) \in Nat
      /\ Covered \subseteq Cols
  BY <1>1, MapTypes DEF FreshInv, WholeInv
<1>3. ASSUME a.kind = "insert", NoneSince("delete", a), NEW c \in Covered
      PROVE  /\ Ins(c, a.row).ts >= a.ts
             /\ a.row \in GetRange(columns[c], a.row, a.row + 1)
             /\ \/ GetFinds(columns[c], a.row)
                \/ \E b \in Issued : b.kind = "delete" /\ b.row = a.row
  <2> DEFINE b == [kind |-> "delete", row |-> a.row, ts |-> Del(c, a.row)]
  <2>1. Ins(c, a.row).ts >= a.ts
    BY <1>3 DEF FreshInv, AckInv
  <2>2. Del(c, a.row) # 0 => b \in Issued
    BY <1>1, <1>2, <1>3 DEF SourceInv
  <2>3. b.kind = "delete" /\ b.row = a.row /\ b.ts = Del(c, a.row)
    OBVIOUS
  <2> HIDE DEF b
  <2>4. Del(c, a.row) # 0 => Del(c, a.row) < a.ts
    BY <1>3, <2>2, <2>3 DEF NoneSince
  <2>5. Ins(c, a.row).ts # 0 /\ (Del(c, a.row) = 0 \/ Del(c, a.row) < Ins(c, a.row).ts)
    BY <1>1, <1>2, <1>3, <2>1, <2>4
  <2> QED
    BY <1>1, <2>1, <2>2, <2>3, <2>5 DEF GetRange, GetFinds, Ins, Del
<1>4. ASSUME a.kind = "delete", NoneSince("insert", a), NEW c \in Cols
      PROVE  ~GetFinds(columns[c], a.row) /\ a.row \notin GetRange(columns[c], a.row, a.row + 1)
  <2> DEFINE b == [kind |-> "insert", row |-> a.row, ts |-> Ins(c, a.row).ts]
  <2>1. Del(c, a.row) >= a.ts
    BY <1>4 DEF FreshInv, AckInv
  <2>2. Ins(c, a.row).ts # 0 => b \in Issued
    BY <1>1, <1>4 DEF SourceInv
  <2>3. b.kind = "insert" /\ b.row = a.row /\ b.ts = Ins(c, a.row).ts
    OBVIOUS
  <2> HIDE DEF b
  <2>4. Ins(c, a.row).ts # 0 => Ins(c, a.row).ts < a.ts
    BY <1>4, <2>2, <2>3 DEF NoneSince
  <2>5. Del(c, a.row) # 0 /\ (Ins(c, a.row).ts = 0 \/ ~(Del(c, a.row) < Ins(c, a.row).ts))
    BY <1>1, <1>2, <1>4, <2>1, <2>4
  <2> QED
    BY <2>5 DEF GetRange, GetFinds, Ins, Del
<1> QED
  BY <1>3, <1>4

\* After Insert has returned GetRange finds the row until a newer Delete, and
\* Get finds it if it was never deleted; after Delete has returned neither
\* finds it until a newer Insert.
THEOREM StoreReadYourWrites ==
    ASSUME DisjointWriters, FreshStamps PROVE Spec => []ReadYourWrites
<1>1. Init => SourceInv
  <2> SUFFICES ASSUME Init PROVE SourceInv
    OBVIOUS
  <2>1. \A c \in Cols, r \in Rows : Ins(c, r) = Absent /\ Del(c, r) = 0
    BY DEF Init, EmptyColumn, Ins, Del
  <2> QED
    BY <2>1 DEF SourceInv, Absent
<1>2. FreshInv => TypeOK
  BY DEF FreshInv, WholeInv
<1> QED
  BY <1>1, <1>2, InitFresh, NextFresh, NextSource, AckedIsRead, PTL DEF Spec
=============================================================================
