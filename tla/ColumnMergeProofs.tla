------------------------- MODULE ColumnMergeProofs -------------------------
(***************************************************************************)
(* Proofs about columns in memory and in segments (TypedColumn, Codecs,    *)
(* ColumnCodec, SegmentMerge), for columns of any length, any number of    *)
(* columns, any widths of the machine and any number of calls.             *)
(*                                                                         *)
(* ColumnsKeepTheirRows: data_, nulls_ and size_ of a column stay in step  *)
(* with the rows appended, marked, filtered and copied (ColumnHolds).  The *)
(* relation between the two is Agrees; each operation of TypedColumn       *)
(* carries it to the longer history, Filter by an induction over its loop. *)
(*                                                                         *)
(* SegmentsReadBack and PlainRunsAndDeltasRoundTrip: the Plain, RLE and    *)
(* Delta codecs of encoding.h give back what they took, with the row count *)
(* of the caller or, for Plain and Delta, the one derived from the encoded *)
(* size.  The invariant CodecInv says of an encoded column that its buffer *)
(* is the encoder's image of the rows.  The facts about the codecs:        *)
(* differences that wrap are undone by sums that wrap (WrapsBack), a       *)
(* buffer of equal fields has the size of their number (SizeIs), and the   *)
(* encoder's runs, end to end, are the rows (RunsAre).                     *)
(*                                                                         *)
(* MergesKeepEveryRow and StatsBoundEveryColumn: a segment reads back the  *)
(* rows it was made of, through merges of merges, with bounds that hold.   *)
(* The invariant MergeInv ties an object to its rows as long as its file   *)
(* is the one it was opened with or it has been read (ObjectInv), and an   *)
(* open merge to the rows of its inputs as long as none is lost (TaskInv). *)
(* A step may lose an object's rows but never change them (Carried).       *)
(*                                                                         *)
(* MergedRowsStayTogether: the columns that ColumnMerger sorts one at a    *)
(* time still line up.  Ordered ranks the members of a set, and a list of  *)
(* them in a strict order is the only one (OrderedIs, OrderedUnique).  The *)
(* inserts of a column are those of the latest calls, by row (DeltaColumn- *)
(* Is, VisitsAre); the stable sort moves them to the order by timestamp    *)
(* and row, which does not mention the column (SortedRows, SortedColumn).  *)
(*                                                                         *)
(* KernelLoopsAgree: the kernels that walk a column in a vector loop and a *)
(* tail give what a loop over the rows gives, for every width.  The loops  *)
(* visit every row once (LoopRows), and a sum may be taken in parts        *)
(* (TotalSplits).                                                          *)
(*                                                                         *)
(* RunObjectsRoundTrip and RunKernelsAgree: an RLE object written and read *)
(* back decodes to the column, and its Filter agrees with the column's.    *)
(* The invariant RunInv says that the object has the encoder's runs of the *)
(* column; Filter maps runs to runs of the mask (RunsMapped, RunObject).   *)
(*                                                                         *)
(* The loops are recursive functions.  What such a function computes is    *)
(* shown by its equation having a solution and by the first index at which *)
(* two solutions would differ having a predecessor at which they agree.    *)
(***************************************************************************)
EXTENDS ColumnCodec, SegmentMerge, FiniteSetTheorems, SequenceTheorems,
        NaturalsInduction, WellFoundedInduction, TLAPS
-----------------------------------------------------------------------------
\* A non-empty set of naturals has a least element.
LEMMA LeastNat ==
    ASSUME NEW S, S \subseteq Nat, S # {}
    PROVE  \E m \in S : \A n \in S : m <= n
<1>1. IsWellFoundedOn(OpToRel(<, Nat), Nat)
  BY NatLessThanWellFounded
<1>2. PICK m \in S : \A n \in S : ~ (<<n, m>> \in OpToRel(<, Nat))
  BY <1>1, WFMin
<1>3. \A n \in S : n < m => <<n, m>> \in OpToRel(<, Nat)
  BY DEF OpToRel
<1>4. \A n \in S : ~ (n < m)
  BY <1>2, <1>3, Zenon
<1> QED
  BY <1>4
-----------------------------------------------------------------------------
(* Columns in memory *)

RowType == [value : Int, null : BOOLEAN]

\* data_ and nulls_ have an element for every row, and the column stands for
\* the rows.
Agrees(col, rows) ==
    /\ col \in [data : Seq(Int), nulls : Seq(BOOLEAN), size : Nat] /\ rows \in Seq(RowType)
    /\ Len(col.data) = Len(rows) /\ Len(col.nulls) = Len(rows) /\ col.size = Len(rows)
    /\ \A i \in 1 .. Len(rows) : col.data[i] = rows[i].value /\ col.nulls[i] = rows[i].null

\* Values and flags spell out rows.
Spells(values, flags, rows) ==
    /\ values \in Seq(Int) /\ flags \in Seq(BOOLEAN) /\ rows \in Seq(RowType)
    /\ Len(values) = Len(rows) /\ Len(flags) = Len(rows)
    /\ \A i \in 1 .. Len(rows) : values[i] = rows[i].value /\ flags[i] = rows[i].null

\* A column that agrees with rows stands for them.
LEMMA AgreesHolds ==
    ASSUME NEW col, NEW rows, Agrees(col, rows) PROVE Holds(col, rows)
  BY LenProperties DEF Agrees, Holds

\* An element of a concatenation, on either side of the seam.
LEMMA ConcatAt ==
    ASSUME NEW S, NEW s \in Seq(S), NEW t \in Seq(S), NEW i \in 1 .. Len(s) + Len(t)
    PROVE  \/ i \in 1 .. Len(s) /\ (s \o t)[i] = s[i]
           \/ i - Len(s) \in 1 .. Len(t) /\ ~(i \in 1 .. Len(s)) /\ (s \o t)[i] = t[i - Len(s)]
<1>1. Len(s) \in Nat /\ Len(t) \in Nat
  BY LenProperties
<1>2. (s \o t)[i] = IF i <= Len(s) THEN s[i] ELSE t[i - Len(s)]
  BY ConcatProperties
<1>3. CASE i <= Len(s)
  BY <1>1, <1>2, <1>3
<1>4. CASE ~(i <= Len(s))
  <2>1. i - Len(s) \in 1 .. Len(t) /\ ~(i \in 1 .. Len(s))
    BY <1>1, <1>4
  <2> QED
    BY <1>2, <1>4, <2>1
<1> QED
  BY <1>3, <1>4

\* Appending an array appends the rows it spells out.
LEMMA AppendArrayAgrees ==
    ASSUME NEW col, NEW rows, Agrees(col, rows), NEW values, NEW flags, NEW new,
           Spells(values, flags, new)
    PROVE  Agrees(AppendArray(col, values, flags), rows \o new)
<1> DEFINE r == AppendArray(col, values, flags)
           n == Len(rows)
           m == Len(new)
<1>1. /\ col.data \in Seq(Int) /\ col.nulls \in Seq(BOOLEAN) /\ col.size \in Nat /\ rows \in Seq(RowType)
      /\ Len(col.data) = n /\ Len(col.nulls) = n /\ col.size = n
      /\ \A i \in 1 .. n : col.data[i] = rows[i].value /\ col.nulls[i] = rows[i].null
  BY DEF Agrees
<1>2. /\ values \in Seq(Int) /\ flags \in Seq(BOOLEAN) /\ new \in Seq(RowType)
      /\ Len(values) = m /\ Len(flags) = m
      /\ \A i \in 1 .. m : values[i] = new[i].value /\ flags[i] = new[i].null
  BY DEF Spells
<1>3. n \in Nat /\ m \in Nat
  BY <1>1, <1>2, LenProperties
<1>4. r.data = col.data \o values /\ r.nulls = col.nulls \o flags /\ r.size = n + m
  BY <1>1, <1>2 DEF AppendArray
<1>5. /\ r.data \in Seq(Int) /\ r.nulls \in Seq(BOOLEAN) /\ r.size \in Nat
      /\ Len(r.data) = n + m /\ Len(r.nulls) = n + m
  <2> HIDE DEF n, m, r
  <2>1. col.data \o values \in Seq(Int) /\ Len(col.data \o values) = n + m
    BY <1>1, <1>2, ConcatProperties
  <2>2. col.nulls \o flags \in Seq(BOOLEAN) /\ Len(col.nulls \o flags) = n + m
    BY <1>1, <1>2, ConcatProperties
  <2> QED
    BY <1>3, <1>4, <2>1, <2>2
<1>6. r = [data |-> r.data, nulls |-> r.nulls, size |-> r.size]
  BY DEF AppendArray
<1>7. rows \o new \in Seq(RowType) /\ Len(rows \o new) = n + m
  BY <1>1, <1>2, ConcatProperties
<1>8. ASSUME NEW i \in 1 .. n + m
      PROVE  r.data[i] = (rows \o new)[i].value /\ r.nulls[i] = (rows \o new)[i].null
  <2> HIDE DEF r, n, m
  <2>1. \/ i \in 1 .. n /\ (col.data \o values)[i] = col.data[i]
        \/ i - n \in 1 .. m /\ ~(i \in 1 .. n) /\ (col.data \o values)[i] = values[i - n]
    <3> DEFINE s == col.data
    <3>1. s \in Seq(Int) /\ values \in Seq(Int) /\ Len(s) = n /\ Len(values) = m
      BY <1>1, <1>2
    <3> HIDE DEF s
    <3>2. i \in 1 .. Len(s) + Len(values)
      BY <3>1
    <3>3. \/ i \in 1 .. Len(s) /\ (s \o values)[i] = s[i]
          \/ /\ i - Len(s) \in 1 .. Len(values) /\ ~(i \in 1 .. Len(s))
             /\ (s \o values)[i] = values[i - Len(s)]
      BY <3>1, <3>2, ConcatAt, Zenon
    <3> QED
      BY <3>1, <3>3, Zenon DEF s
  <2>2. \/ i \in 1 .. n /\ (col.nulls \o flags)[i] = col.nulls[i]
        \/ i - n \in 1 .. m /\ ~(i \in 1 .. n) /\ (col.nulls \o flags)[i] = flags[i - n]
    <3> DEFINE s == col.nulls
    <3>1. s \in Seq(BOOLEAN) /\ flags \in Seq(BOOLEAN) /\ Len(s) = n /\ Len(flags) = m
      BY <1>1, <1>2
    <3> HIDE DEF s
    <3>2. i \in 1 .. Len(s) + Len(flags)
      BY <3>1
    <3>3. \/ i \in 1 .. Len(s) /\ (s \o flags)[i] = s[i]
          \/ /\ i - Len(s) \in 1 .. Len(flags) /\ ~(i \in 1 .. Len(s))
             /\ (s \o flags)[i] = flags[i - Len(s)]
      BY <3>1, <3>2, ConcatAt, Zenon
    <3> QED
      BY <3>1, <3>3, Zenon DEF s
  <2>3. \/ i \in 1 .. n /\ (rows \o new)[i] = rows[i]
        \/ i - n \in 1 .. m /\ ~(i \in 1 .. n) /\ (rows \o new)[i] = new[i - n]
    BY <1>1, <1>2, ConcatAt DEF n, m
  <2>4. CASE i \in 1 .. n
    BY <1>1, <1>4, <2>1, <2>2, <2>3, <2>4, Zenon
  <2>5. CASE ~(i \in 1 .. n)
    BY <1>2, <1>4, <2>1, <2>2, <2>3, <2>5, Zenon
  <2> QED
    BY <2>4, <2>5
<1> HIDE DEF r, n, m
<1>9. r \in [data : Seq(Int), nulls : Seq(BOOLEAN), size : Nat]
  BY <1>5, <1>6
<1>10. Agrees(r, rows \o new)
  BY <1>4, <1>5, <1>7, <1>8, <1>9 DEF Agrees
<1> QED
  BY <1>10 DEF r

\* One row.
LEMMA AppendValueAgrees ==
    ASSUME NEW col, NEW rows, Agrees(col, rows), NEW v \in Int, NEW null \in BOOLEAN,
           NEW row, row = [value |-> v, null |-> null]
    PROVE  Agrees(AppendValue(col, v, null), rows \o <<row>>)
<1>1. row \in RowType /\ row.value = v /\ row.null = null
  BY DEF RowType
<1>2. /\ <<v>> \in Seq(Int) /\ <<null>> \in Seq(BOOLEAN) /\ <<row>> \in Seq(RowType)
      /\ Len(<<v>>) = 1 /\ Len(<<null>>) = 1 /\ Len(<<row>>) = 1
      /\ <<v>>[1] = v /\ <<null>>[1] = null /\ <<row>>[1] = row
  BY <1>1
<1>3. Spells(<<v>>, <<null>>, <<row>>)
  BY <1>1, <1>2 DEF Spells
<1> QED
  BY <1>3, AppendArrayAgrees DEF AppendValue

\* A new column has no rows.
LEMMA NewAgrees ==
    ASSUME NEW col PROVE Agrees(New(0), <<>>) /\ Agrees(Clear(col), <<>>)
<1> DEFINE r == [data |-> <<>>, nulls |-> <<>>, size |-> 0]
<1>1. New(0) = r /\ Clear(col) = r
  BY DEF New, Clear
<1>2. /\ r \in [data : Seq(Int), nulls : Seq(BOOLEAN), size : Nat]
      /\ r.data = <<>> /\ r.nulls = <<>> /\ r.size = 0
  OBVIOUS
<1>3. <<>> \in Seq(RowType) /\ Len(<<>>) = 0
  OBVIOUS
<1> HIDE DEF r
<1>4. Agrees(r, <<>>)
  BY <1>2, <1>3 DEF Agrees
<1> QED
  BY <1>1, <1>4

\* SetNull changes one flag.
LEMMA SetNullAgrees ==
    ASSUME NEW col, NEW rows, Agrees(col, rows), NEW i \in DOMAIN rows, NEW null \in BOOLEAN
    PROVE  Agrees(SetNull(col, i, null), [rows EXCEPT ![i].null = null])
<1> DEFINE n == Len(rows)
           row == [rows[i] EXCEPT !.null = null]
           q == [rows EXCEPT ![i] = row]
           f == [col.nulls EXCEPT ![i] = null]
           r == SetNull(col, i, null)
<1>1. /\ col \in [data : Seq(Int), nulls : Seq(BOOLEAN), size : Nat] /\ rows \in Seq(RowType)
      /\ Len(col.data) = n /\ Len(col.nulls) = n /\ col.size = n
      /\ \A j \in 1 .. n : col.data[j] = rows[j].value /\ col.nulls[j] = rows[j].null
  BY DEF Agrees
<1>2. n \in Nat /\ i \in 1 .. n
  BY <1>1, LenProperties
<1>3. rows[i] \in RowType
  BY <1>1, <1>2, ElementOfSeq
<1>4. row \in RowType /\ row.value = rows[i].value /\ row.null = null
  BY <1>3 DEF RowType
<1> HIDE DEF row
<1>5. /\ q \in Seq(RowType) /\ Len(q) = n
      /\ \A j \in 1 .. n : q[j] = IF j = i THEN row ELSE rows[j]
  BY <1>1, <1>2, <1>4, ExceptSeq
<1>6. /\ f \in Seq(BOOLEAN) /\ Len(f) = n
      /\ \A j \in 1 .. n : f[j] = IF j = i THEN null ELSE col.nulls[j]
  <2>1. col.nulls \in Seq(BOOLEAN)
    BY <1>1
  <2> QED
    BY <1>1, <1>2, <2>1, ExceptSeq
<1>7. r = [col EXCEPT !.nulls = f]
  BY DEF SetNull
<1> HIDE DEF f, r, q
<1>8. /\ r \in [data : Seq(Int), nulls : Seq(BOOLEAN), size : Nat]
      /\ r.data = col.data /\ r.nulls = f /\ r.size = col.size
  BY <1>1, <1>6, <1>7
<1>9. ASSUME NEW j \in 1 .. n PROVE r.data[j] = q[j].value /\ r.nulls[j] = q[j].null
  <2>1. CASE j = i
    BY <1>1, <1>4, <1>5, <1>6, <1>8, <2>1
  <2>2. CASE j # i
    BY <1>1, <1>5, <1>6, <1>8, <2>2
  <2> QED
    BY <2>1, <2>2
<1>10. Agrees(r, q)
  BY <1>1, <1>5, <1>6, <1>8, <1>9 DEF Agrees
<1>11. q = [rows EXCEPT ![i].null = null]
  BY DEF q, row
<1> QED
  BY <1>10, <1>11 DEF r

\* A part of a column spells out that part of its rows.
LEMMA PartSpells ==
    ASSUME NEW col, NEW rows, Agrees(col, rows), NEW offset \in 0 .. Len(rows),
           NEW count \in 0 .. Len(rows) - offset
    PROVE  Spells(SubSeq(col.data, offset + 1, offset + count),
                  SubSeq(col.nulls, offset + 1, offset + count),
                  SubSeq(rows, offset + 1, offset + count))
<1> DEFINE n == Len(rows)
           a == offset + 1
           b == offset + count
           d == SubSeq(col.data, a, b)
           f == SubSeq(col.nulls, a, b)
           q == SubSeq(rows, a, b)
<1>1. /\ col.data \in Seq(Int) /\ col.nulls \in Seq(BOOLEAN) /\ rows \in Seq(RowType)
      /\ Len(col.data) = n /\ Len(col.nulls) = n
      /\ \A j \in 1 .. n : col.data[j] = rows[j].value /\ col.nulls[j] = rows[j].null
  BY DEF Agrees
<1>2. n \in Nat
  BY <1>1, LenProperties
<1>3. /\ a \in Int /\ b \in Int /\ b - a + 1 = count /\ count \in Nat
      /\ (IF a <= b THEN b - a + 1 ELSE 0) = count
      /\ (\A i \in a .. b : i \in 1 .. n)
      /\ \A i \in 1 .. count : a + i - 1 \in 1 .. n
  BY <1>2
<1>4. /\ \A i \in a .. b : col.data[i] \in Int
      /\ \A i \in a .. b : col.nulls[i] \in BOOLEAN
      /\ \A i \in a .. b : rows[i] \in RowType
  BY <1>1, <1>3, ElementOfSeq
<1> HIDE DEF a, b, n
<1>5. d \in Seq(Int) /\ Len(d) = count /\ \A i \in 1 .. count : d[i] = col.data[a + i - 1]
  BY <1>3, <1>4, SubSeqProperties
<1>6. f \in Seq(BOOLEAN) /\ Len(f) = count /\ \A i \in 1 .. count : f[i] = col.nulls[a + i - 1]
  BY <1>3, <1>4, SubSeqProperties
<1>7. q \in Seq(RowType) /\ Len(q) = count /\ \A i \in 1 .. count : q[i] = rows[a + i - 1]
  BY <1>3, <1>4, SubSeqProperties
<1> HIDE DEF d, f, q
<1>8. Spells(d, f, q)
  BY <1>1, <1>3, <1>5, <1>6, <1>7 DEF Spells
<1> QED
  BY <1>8 DEF d, f, q, a, b

\* The loops of Filter and of Kept, up to row n: A[k] and K[k] after row k.
FilterLoop(col, mask, dest, A, n) ==
    A = [k \in 0 .. n |-> IF k = 0 THEN dest
                          ELSE IF mask[k] THEN AppendValue(A[k - 1], col.data[k], col.nulls[k])
                          ELSE A[k - 1]]
KeptLoop(rows, mask, K, n) ==
    K = [k \in 0 .. n |-> IF k = 0 THEN <<>>
                          ELSE IF mask[k] THEN Append(K[k - 1], rows[k]) ELSE K[k - 1]]

\* Both loops run, and after every row the column has the rows kept.
Filtered(col, rows, mask, dest, taken, A, K, n) ==
    /\ FilterLoop(col, mask, dest, A, n) /\ KeptLoop(rows, mask, K, n)
    /\ \A k \in 0 .. n : K[k] \in Seq(RowType) /\ Agrees(A[k], taken \o K[k])

\* What the loops compute is settled row by row.
LEMMA FilterIs ==
    ASSUME NEW col, NEW mask, NEW dest, NEW n \in Nat, Len(mask) = n,
           NEW A, FilterLoop(col, mask, dest, A, n)
    PROVE  FilterTo(col, mask, dest) = A[n]
<1> DEFINE E(f, k) == IF k = 0 THEN dest
                      ELSE IF mask[k] THEN AppendValue(f[k - 1], col.data[k], col.nulls[k])
                      ELSE f[k - 1]
           R(f) == [k \in 0 .. n |-> E(f, k)]
           after == CHOOSE f : f = R(f)
<1>1. FilterTo(col, mask, dest) = after[n]
  BY DEF FilterTo
<1>2. A = R(A)
  BY DEF FilterLoop
<1>3. after = R(after)
  <2> HIDE DEF R
  <2> QED
    BY <1>2
<1> HIDE DEF after
<1> DEFINE Bad == {k \in Nat : k <= n /\ after[k] # A[k]}
<1>4. Bad = {}
  <2> SUFFICES ASSUME Bad # {} PROVE FALSE
    OBVIOUS
  <2>1. PICK k \in Bad : \A j \in Bad : k <= j
    <3>1. Bad \subseteq Nat
      OBVIOUS
    <3> HIDE DEF Bad
    <3> QED
      BY <3>1, LeastNat
  <2>2. after[k] = E(after, k) /\ A[k] = E(A, k)
    <3>1. k \in 0 .. n
      OBVIOUS
    <3> HIDE DEF E
    <3> QED
      BY <1>2, <1>3, <3>1
  <2>3. k # 0
    BY <2>1, <2>2
  <2>4. k - 1 \in Nat /\ k - 1 <= n /\ ~(k <= k - 1)
    BY <2>3
  <2>5. after[k - 1] = A[k - 1]
    <3>1. k - 1 \notin Bad
      <4> HIDE DEF Bad
      <4> QED
        BY <2>1, <2>4
    <3> QED
      BY <2>4, <3>1
  <2>6. after[k] = A[k]
    <3> HIDE DEF Bad, R
    <3> QED
      BY <2>2, <2>3, <2>5
  <2> QED
    BY <2>6
<1> QED
  BY <1>1, <1>4

\* The same of the rows kept.
LEMMA KeptIs ==
    ASSUME NEW rows, NEW mask, NEW n \in Nat, Len(rows) = n, NEW K, KeptLoop(rows, mask, K, n)
    PROVE  Kept(rows, mask) = K[n]
<1> DEFINE E(f, k) == IF k = 0 THEN <<>>
                      ELSE IF mask[k] THEN Append(f[k - 1], rows[k]) ELSE f[k - 1]
           R(f) == [k \in 0 .. n |-> E(f, k)]
           kept == CHOOSE f : f = R(f)
<1>1. Kept(rows, mask) = kept[n]
  BY DEF Kept
<1>2. K = R(K)
  BY DEF KeptLoop
<1>3. kept = R(kept)
  <2> HIDE DEF R
  <2> QED
    BY <1>2
<1> HIDE DEF kept
<1> DEFINE Bad == {k \in Nat : k <= n /\ kept[k] # K[k]}
<1>4. Bad = {}
  <2> SUFFICES ASSUME Bad # {} PROVE FALSE
    OBVIOUS
  <2>1. PICK k \in Bad : \A j \in Bad : k <= j
    <3>1. Bad \subseteq Nat
      OBVIOUS
    <3> HIDE DEF Bad
    <3> QED
      BY <3>1, LeastNat
  <2>2. kept[k] = E(kept, k) /\ K[k] = E(K, k)
    <3>1. k \in 0 .. n
      OBVIOUS
    <3> HIDE DEF E
    <3> QED
      BY <1>2, <1>3, <3>1
  <2>3. k # 0
    BY <2>1, <2>2
  <2>4. k - 1 \in Nat /\ k - 1 <= n /\ ~(k <= k - 1)
    BY <2>3
  <2>5. kept[k - 1] = K[k - 1]
    <3>1. k - 1 \notin Bad
      <4> HIDE DEF Bad
      <4> QED
        BY <2>1, <2>4
    <3> QED
      BY <2>4, <3>1
  <2>6. kept[k] = K[k]
    <3> HIDE DEF Bad, R
    <3> QED
      BY <2>2, <2>3, <2>5
  <2> QED
    BY <2>6
<1> QED
  BY <1>1, <1>4

\* One row more: the loops go on, and a row that is kept is appended.
LEMMA FilteredLonger ==
    ASSUME NEW col, NEW rows, Agrees(col, rows), NEW dest, NEW taken, Agrees(dest, taken),
           NEW mask, NEW k \in 1 .. Len(rows), mask[k] \in BOOLEAN,
           NEW A, NEW K, Filtered(col, rows, mask, dest, taken, A, K, k - 1)
    PROVE  \E B, L : Filtered(col, rows, mask, dest, taken, B, L, k)
<1> DEFINE a == IF mask[k] THEN AppendValue(A[k - 1], col.data[k], col.nulls[k]) ELSE A[k - 1]
           l == IF mask[k] THEN Append(K[k - 1], rows[k]) ELSE K[k - 1]
           B == [j \in 0 .. k |-> IF j = k THEN a ELSE A[j]]
           L == [j \in 0 .. k |-> IF j = k THEN l ELSE K[j]]
<1>1. /\ FilterLoop(col, mask, dest, A, k - 1) /\ KeptLoop(rows, mask, K, k - 1)
      /\ \A j \in 0 .. k - 1 : K[j] \in Seq(RowType) /\ Agrees(A[j], taken \o K[j])
  BY DEF Filtered
<1>2. /\ k \in Nat \ {0} /\ k - 1 \in 0 .. k - 1 /\ rows \in Seq(RowType) /\ taken \in Seq(RowType)
      /\ k - 1 \in Nat /\ Len(rows) \in Nat
  BY LenProperties DEF Agrees
<1>3. /\ rows[k] \in RowType /\ col.data[k] = rows[k].value /\ col.nulls[k] = rows[k].null
  BY <1>2, ElementOfSeq DEF Agrees
<1>4. l \in Seq(RowType) /\ Agrees(a, taken \o l)
  <2>1. K[k - 1] \in Seq(RowType) /\ Agrees(A[k - 1], taken \o K[k - 1])
    BY <1>1, <1>2
  <2>2. CASE ~mask[k]
    BY <2>1, <2>2
  <2>3. CASE mask[k]
    <3> DEFINE q == K[k - 1]
               c == A[k - 1]
               row == rows[k]
    <3>1. a = AppendValue(c, row.value, row.null) /\ l = Append(q, row)
      BY <1>3, <2>3
    <3>2. row = [value |-> row.value, null |-> row.null] /\ row.value \in Int /\ row.null \in BOOLEAN
      BY <1>3 DEF RowType
    <3> HIDE DEF q, c, row, a, l
    <3>3. q \in Seq(RowType) /\ Agrees(c, taken \o q) /\ row \in RowType
      BY <1>3, <2>1 DEF q, c, row
    <3>4. Append(q, row) = q \o <<row>> /\ Append(q, row) \in Seq(RowType) /\ <<row>> \in Seq(RowType)
      BY <3>3, AppendIsConcat, AppendProperties
    <3>5. Agrees(AppendValue(c, row.value, row.null), (taken \o q) \o <<row>>)
      BY <3>2, <3>3, AppendValueAgrees
    <3>6. (taken \o q) \o <<row>> = taken \o (q \o <<row>>)
      <4> DEFINE u == <<row>>
      <4>1. u \in Seq(RowType) /\ q \in Seq(RowType) /\ taken \in Seq(RowType)
        BY <1>2, <3>3, <3>4
      <4> HIDE DEF u
      <4>2. (taken \o q) \o u = taken \o (q \o u)
        BY <4>1, ConcatAssociative
      <4> QED
        BY <4>2 DEF u
    <3> QED
      BY <3>1, <3>4, <3>5, <3>6
  <2> QED
    BY <2>2, <2>3
<1> HIDE DEF a, l
<1>5. \A j \in 0 .. k : L[j] \in Seq(RowType) /\ Agrees(B[j], taken \o L[j])
  <2>1. ASSUME NEW j \in 0 .. k PROVE L[j] \in Seq(RowType) /\ Agrees(B[j], taken \o L[j])
    <3>1. CASE j = k
      BY <1>4, <3>1
    <3>2. CASE j # k
      <4>1. j \in 0 .. k - 1 /\ B[j] = A[j] /\ L[j] = K[j]
        BY <1>2, <3>2
      <4> QED
        BY <1>1, <4>1
    <3> QED
      BY <3>1, <3>2
  <2> HIDE DEF B, L
  <2> QED
    BY <2>1
<1>6. FilterLoop(col, mask, dest, B, k)
  <2> DEFINE E(f, j) == IF j = 0 THEN dest
                        ELSE IF mask[j] THEN AppendValue(f[j - 1], col.data[j], col.nulls[j])
                        ELSE f[j - 1]
  <2>1. ASSUME NEW j \in 0 .. k PROVE B[j] = E(B, j)
    <3>1. CASE j = k
      <4>1. B[j] = a /\ B[j - 1] = A[k - 1]
        BY <1>2, <3>1
      <4> HIDE DEF B
      <4> QED
        BY <1>2, <3>1, <4>1 DEF a
    <3>2. CASE j # k
      <4>1. j \in 0 .. k - 1 /\ B[j] = A[j] /\ (j # 0 => B[j - 1] = A[j - 1])
        BY <1>2, <3>2
      <4>2. A[j] = E(A, j)
        <5>1. A = [i \in 0 .. k - 1 |-> E(A, i)]
          BY <1>1 DEF FilterLoop
        <5> HIDE DEF E
        <5> QED
          BY <4>1, <5>1
      <4> HIDE DEF B
      <4> QED
        BY <4>1, <4>2
    <3> QED
      BY <3>1, <3>2
  <2>2. B = [j \in 0 .. k |-> B[j]]
    OBVIOUS
  <2> HIDE DEF B
  <2>3. B = [j \in 0 .. k |-> E(B, j)]
    <3> HIDE DEF E
    <3> QED
      BY <2>1, <2>2
  <2> QED
    BY <2>3 DEF FilterLoop
<1>7. KeptLoop(rows, mask, L, k)
  <2> DEFINE E(f, j) == IF j = 0 THEN <<>>
                        ELSE IF mask[j] THEN Append(f[j - 1], rows[j]) ELSE f[j - 1]
  <2>1. ASSUME NEW j \in 0 .. k PROVE L[j] = E(L, j)
    <3>1. CASE j = k
      <4>1. L[j] = l /\ L[j - 1] = K[k - 1]
        BY <1>2, <3>1
      <4> HIDE DEF L
      <4> QED
        BY <1>2, <3>1, <4>1 DEF l
    <3>2. CASE j # k
      <4>1. j \in 0 .. k - 1 /\ L[j] = K[j] /\ (j # 0 => L[j - 1] = K[j - 1])
        BY <1>2, <3>2
      <4>2. K[j] = E(K, j)
        <5>1. K = [i \in 0 .. k - 1 |-> E(K, i)]
          BY <1>1 DEF KeptLoop
        <5> HIDE DEF E
        <5> QED
          BY <4>1, <5>1
      <4> HIDE DEF L
      <4> QED
        BY <4>1, <4>2
    <3> QED
      BY <3>1, <3>2
  <2>2. L = [j \in 0 .. k |-> L[j]]
    OBVIOUS
  <2> HIDE DEF L
  <2>3. L = [j \in 0 .. k |-> E(L, j)]
    <3> HIDE DEF E
    <3> QED
      BY <2>1, <2>2
  <2> QED
    BY <2>3 DEF KeptLoop
<1> HIDE DEF B, L
<1>8. Filtered(col, rows, mask, dest, taken, B, L, k)
  BY <1>5, <1>6, <1>7 DEF Filtered
<1> QED
  BY <1>8

\* The loops run over any number of rows: the first at which they did not would
\* have one before it at which they did.
LEMMA FilteredExists ==
    ASSUME NEW col, NEW rows, Agrees(col, rows), NEW dest, NEW taken, Agrees(dest, taken),
           NEW mask \in [1 .. Len(rows) -> BOOLEAN]
    PROVE  \E A, K : Filtered(col, rows, mask, dest, taken, A, K, Len(rows))
<1> DEFINE n == Len(rows)
           Good(k) == \E A, K : Filtered(col, rows, mask, dest, taken, A, K, k)
           Bad == {k \in Nat : k <= n /\ ~Good(k)}
<1>1. n \in Nat /\ taken \in Seq(RowType)
  BY LenProperties DEF Agrees
<1> SUFFICES ASSUME Bad # {} PROVE FALSE
  <2>1. n \notin Bad
    OBVIOUS
  <2> QED
    BY <1>1, <2>1
<1>2. PICK k \in Bad : \A j \in Bad : k <= j
  <2>1. Bad \subseteq Nat
    OBVIOUS
  <2> HIDE DEF Bad
  <2> QED
    BY <2>1, LeastNat
<1>3. CASE k = 0
  <2> DEFINE A == [j \in 0 .. 0 |-> dest]
             K == [j \in 0 .. 0 |-> <<>>]
  <2>1. FilterLoop(col, mask, dest, A, 0) /\ KeptLoop(rows, mask, K, 0)
    BY DEF FilterLoop, KeptLoop
  <2>2. \A j \in 0 .. 0 : A[j] = dest /\ K[j] = <<>>
    OBVIOUS
  <2>3. taken \o <<>> = taken /\ <<>> \in Seq(RowType)
    BY <1>1, ConcatEmptySeq, EmptySeq
  <2> HIDE DEF A, K
  <2>4. Filtered(col, rows, mask, dest, taken, A, K, 0)
    BY <2>1, <2>2, <2>3 DEF Filtered
  <2> QED
    BY <1>3, <2>4
<1>4. CASE k # 0
  <2>1. k \in 1 .. n /\ k - 1 \in Nat /\ k - 1 <= n /\ ~(k <= k - 1) /\ mask[k] \in BOOLEAN
    BY <1>1, <1>4
  <2>2. k - 1 \notin Bad
    <3> HIDE DEF Bad
    <3> QED
      BY <1>2, <2>1
  <2>3. PICK A, K : Filtered(col, rows, mask, dest, taken, A, K, k - 1)
    BY <2>1, <2>2
  <2>4. Good(k)
    BY <2>1, <2>3, FilteredLonger
  <2> QED
    BY <2>4
<1> QED
  BY <1>3, <1>4

\* Filter puts the rows of the mask behind those of the other column.
LEMMA FilterAgrees ==
    ASSUME NEW col, NEW rows, Agrees(col, rows), NEW dest, NEW taken, Agrees(dest, taken),
           NEW mask \in [DOMAIN rows -> BOOLEAN]
    PROVE  Agrees(FilterTo(col, mask, dest), taken \o Kept(rows, mask))
<1> DEFINE n == Len(rows)
<1>1. n \in Nat /\ DOMAIN rows = 1 .. n
  BY LenProperties DEF Agrees
<1>2. mask \in [1 .. n -> BOOLEAN] /\ Len(mask) = n
  BY <1>1
<1>3. PICK A, K : Filtered(col, rows, mask, dest, taken, A, K, n)
  BY <1>2, FilteredExists
<1> HIDE DEF n
<1>4. /\ FilterLoop(col, mask, dest, A, n) /\ KeptLoop(rows, mask, K, n)
      /\ Agrees(A[n], taken \o K[n])
  BY <1>1, <1>3 DEF Filtered
<1>5. FilterTo(col, mask, dest) = A[n]
  BY <1>1, <1>2, <1>4, FilterIs
<1>6. Kept(rows, mask) = K[n]
  BY <1>1, <1>4, KeptIs DEF n
<1> QED
  BY <1>4, <1>5, <1>6
-----------------------------------------------------------------------------
(* The column through the steps of the specification *)

\* Every type's values are integers.
LEMMA NativesAreIntegers ==
    ASSUME NEW t, NEW v \in Natives(t) PROVE v \in Int
<1>1. CASE t = "Double"
  BY <1>1 DEF Natives
<1>2. CASE t # "Double"
  BY <1>2 DEF Natives
<1> QED
  BY <1>1, <1>2

\* The ranges of the two integer types.
LEMMA HalfRangePositive ==
    ASSUME NEW t PROVE HalfRange(t) \in Nat \ {0}
<1> DEFINE n == 2 ^ (NativeBits - 1)
           w == 2 ^ (WordBits - 1)
<1>1. n \in Nat \ {0} /\ w \in Nat \ {0}
  BY WidthAssumption
<1>2. HalfRange(t) = IF t = "Int32" THEN n ELSE w
  BY DEF HalfRange, TypeBits
<1> HIDE DEF n, w
<1> QED
  BY <1>1, <1>2

\* What AppendNull stores is a value of every type.
LEMMA ZeroIsNative ==
    ASSUME NEW t PROVE 0 \in Natives(t)
<1>1. CASE t = "Double"
  <2> DEFINE h == HalfBase
  <2>1. h \in Nat /\ h >= 2
    BY WidthAssumption
  <2> HIDE DEF h
  <2>2. h * h \in Nat /\ h * h >= 1
    BY <2>1
  <2>3. 0 \in 0 .. h * h - 1
    BY <2>2
  <2> QED
    BY <1>1, <2>3 DEF Natives, h
<1>2. CASE t # "Double"
  <2> DEFINE h == HalfRange(t)
  <2>1. h \in Nat /\ h >= 1
    BY HalfRangePositive
  <2> HIDE DEF h
  <2>2. 0 \in -h .. h - 1
    BY <2>1
  <2> QED
    BY <1>2, <2>2 DEF Natives, h
<1> QED
  BY <1>1, <1>2

\* Every value lies in a type.
Fits(rows, t) == \A i \in 1 .. Len(rows) : rows[i].value \in Natives(t)

\* Rows appended to rows of a type.
LEMMA FitsConcat ==
    ASSUME NEW t, NEW rows \in Seq(RowType), NEW new \in Seq(RowType), Fits(rows, t), Fits(new, t)
    PROVE  Fits(rows \o new, t)
<1>1. Len(rows \o new) = Len(rows) + Len(new)
  BY ConcatProperties
<1>2. ASSUME NEW i \in 1 .. Len(rows) + Len(new) PROVE (rows \o new)[i].value \in Natives(t)
  <2>1. \/ i \in 1 .. Len(rows) /\ (rows \o new)[i] = rows[i]
        \/ i - Len(rows) \in 1 .. Len(new) /\ (rows \o new)[i] = new[i - Len(rows)]
    BY ConcatAt
  <2> QED
    BY <2>1 DEF Fits
<1> QED
  BY <1>1, <1>2 DEF Fits

\* Arrays and rows of one length that agree row by row.
LEMMA SpellsShort ==
    ASSUME NEW t, NEW m \in Nat, NEW values \in Seq(Int), NEW flags \in Seq(BOOLEAN),
           NEW new \in Seq(RowType), Len(values) = m, Len(flags) = m, Len(new) = m,
           \A i \in 1 .. m : /\ values[i] = new[i].value /\ flags[i] = new[i].null
                             /\ new[i].value \in Natives(t)
    PROVE  Spells(values, flags, new) /\ Fits(new, t)
  BY DEF Spells, Fits

Phases == {"filled", "picking", "looping", "crashed", "encoded", "decoded", "read", "taken", "written", "restored"}

\* The inductive invariant: the column agrees with the rows appended to it, which
\* lie in its type; until something is decoded the other column agrees with the
\* rows taken, of which there are none before the first filter or copy.
FillInv ==
    /\ type \in Types /\ phase \in Phases
    /\ Agrees(src, held) /\ Fits(held, type)
    /\ phase \in {"filled", "picking"} => Agrees(out, picked)
    /\ phase # "picking" => picked = <<>>

\* A step that appends rows.
LEMMA FillStep ==
    ASSUME FillInv, NEW values, NEW flags, NEW new, Spells(values, flags, new), Fits(new, type),
           Fill(new, AppendArray(src, values, flags))
    PROVE  FillInv'
<1>1. /\ phase = "filled" /\ src' = AppendArray(src, values, flags) /\ held' = held \o new
      /\ type' = type /\ out' = out /\ phase' = phase /\ picked' = picked
  BY DEF Fill
<1>2. /\ type \in Types /\ phase \in Phases /\ Agrees(src, held) /\ Fits(held, type)
      /\ Agrees(out, picked) /\ picked = <<>>
  BY <1>1 DEF FillInv
<1>3. held \in Seq(RowType) /\ new \in Seq(RowType)
  BY <1>2 DEF Agrees, Spells
<1>4. Agrees(AppendArray(src, values, flags), held \o new) /\ Fits(held \o new, type)
  BY <1>2, <1>3, AppendArrayAgrees, FitsConcat
<1>5. Agrees(src', held') /\ Fits(held', type') /\ Agrees(out', picked')
  BY <1>1, <1>2, <1>4
<1>6. type' \in Types /\ phase' \in Phases /\ picked' = <<>>
  BY <1>1, <1>2
<1> QED
  BY <1>5, <1>6 DEF FillInv

\* A step that takes rows.
LEMMA PickStep ==
    ASSUME FillInv, NEW rows, NEW col, Pick(rows, col), Agrees(col, picked \o rows)
    PROVE  FillInv'
<1>1. /\ out' = col /\ picked' = picked \o rows /\ phase' = "picking"
      /\ type' = type /\ src' = src /\ held' = held
  BY DEF Pick
<1>2. type \in Types /\ Agrees(src, held) /\ Fits(held, type)
  BY DEF FillInv
<1>3. Agrees(src', held') /\ Fits(held', type') /\ Agrees(out', picked')
  BY <1>1, <1>2
<1>4. type' \in Types /\ phase' \in Phases /\ phase' = "picking"
  BY <1>1, <1>2 DEF Phases
<1> QED
  BY <1>3, <1>4 DEF FillInv

\* A step that leaves both columns' rows alone and does not go back to filling.
LEMMA OtherStep ==
    ASSUME FillInv, UNCHANGED <<type, src, held, picked>>, phase # "picking",
           phase' \in Phases \ {"filled", "picking"}
    PROVE  FillInv'
<1>1. /\ type' \in Types /\ Agrees(src', held') /\ Fits(held', type') /\ picked' = <<>>
  BY DEF FillInv
<1> QED
  BY <1>1 DEF FillInv

\* Every step keeps the invariant: one case per action.
LEMMA FillInvNext ==
    ASSUME FillInv, [Next]_vars PROVE FillInv'
<1> USE DEF FillInv
<1>0. type \in Types /\ Agrees(src, held) /\ Fits(held, type)
  OBVIOUS
<1> HIDE DEF FillInv
<1>1. \A v \in Values[type] : v \in Int /\ v \in Natives(type)
  BY <1>0, ColumnAssumption, NativesAreIntegers
<1>2. CASE AppendOne
  <2>1. PICK v \in Values[type] : Fill(<<Row(v, FALSE)>>, AppendValue(src, v, FALSE))
    BY <1>2 DEF AppendOne
  <2> DEFINE new == <<Row(v, FALSE)>>
             values == <<v>>
             flags == <<FALSE>>
  <2>2. new \in Seq(RowType) /\ Len(new) = 1 /\ new[1].value = v /\ new[1].null = FALSE
    BY <1>1 DEF Row, RowType
  <2>3. /\ values \in Seq(Int) /\ flags \in Seq(BOOLEAN) /\ Len(values) = 1 /\ Len(flags) = 1
        /\ values[1] = v /\ flags[1] = FALSE
    BY <1>1
  <2>4. Fill(new, AppendArray(src, values, flags))
    BY <2>1 DEF AppendValue
  <2> HIDE DEF new, values, flags
  <2>5. Spells(values, flags, new) /\ Fits(new, type)
    <3>1. ASSUME NEW i \in 1 .. 1
          PROVE  values[i] = new[i].value /\ flags[i] = new[i].null /\ new[i].value \in Natives(type)
      <4>1. i = 1
        OBVIOUS
      <4> QED
        BY <1>1, <2>2, <2>3, <4>1, Zenon
    <3> QED
      BY <2>2, <2>3, <3>1, SpellsShort
  <2> QED
    BY <2>4, <2>5, FillStep
<1>3. CASE AppendMany
  <2>1. PICK v \in [1 .. 2 -> Values[type]],
             n \in IF Nullable THEN [1 .. 2 -> BOOLEAN] ELSE {<<FALSE, FALSE>>} :
          Fill([i \in 1 .. 2 |-> Row(v[i], n[i])], AppendArray(src, v, n))
    BY <1>3 DEF AppendMany
  <2> DEFINE new == [i \in 1 .. 2 |-> Row(v[i], n[i])]
  <2>2. n \in Seq(BOOLEAN) /\ Len(n) = 2
    <3>1. CASE Nullable
      <4>1. n \in [1 .. 2 -> BOOLEAN]
        BY <2>1, <3>1, Zenon
      <4>2. n \in Seq(BOOLEAN)
        BY <4>1, SeqDef, Zenon
      <4> QED
        BY <4>1, <4>2
    <3>2. CASE ~Nullable
      <4>1. n = <<FALSE, FALSE>>
        BY <2>1, <3>2
      <4> QED
        BY <4>1
    <3> QED
      BY <3>1, <3>2
  <2>3. v \in Seq(Int) /\ Len(v) = 2 /\ v[1] \in Natives(type) /\ v[2] \in Natives(type)
    <3>1. v \in [1 .. 2 -> Int] /\ v[1] \in Natives(type) /\ v[2] \in Natives(type)
      BY <1>1
    <3>2. v \in Seq(Int)
      BY <3>1, SeqDef, Zenon
    <3> QED
      BY <3>1, <3>2
  <2>4. /\ n[1] \in BOOLEAN /\ n[2] \in BOOLEAN /\ v[1] \in Int /\ v[2] \in Int
    BY <1>1, <2>2
  <2>5. /\ new \in Seq(RowType) /\ Len(new) = 2
        /\ new[1].value = v[1] /\ new[1].null = n[1] /\ new[2].value = v[2] /\ new[2].null = n[2]
    BY <2>4 DEF Row, RowType
  <2> HIDE DEF new
  <2>6. Spells(v, n, new) /\ Fits(new, type)
    <3>1. \A i \in 1 .. Len(new) : i = 1 \/ i = 2
      BY <2>5
    <3> QED
      BY <2>2, <2>3, <2>5, <3>1 DEF Spells, Fits
  <2> QED
    BY <2>1, <2>6, FillStep DEF new
<1>4. CASE AppendNull
  <2> DEFINE new == <<Row(0, TRUE)>>
             v == [i \in 1 .. 1 |-> 0]
             n == [i \in 1 .. 1 |-> TRUE]
  <2>1. Fill(new, AppendArray(src, v, n))
    BY <1>4 DEF AppendNull, AppendNulls
  <2>2. new \in Seq(RowType) /\ Len(new) = 1 /\ new[1].value = 0 /\ new[1].null = TRUE
    BY DEF Row, RowType
  <2>3. v \in Seq(Int) /\ n \in Seq(BOOLEAN) /\ Len(v) = 1 /\ Len(n) = 1 /\ v[1] = 0 /\ n[1] = TRUE
    OBVIOUS
  <2> HIDE DEF new, v, n
  <2>4. Spells(v, n, new) /\ Fits(new, type)
    <3>1. ASSUME NEW i \in 1 .. 1
          PROVE  v[i] = new[i].value /\ n[i] = new[i].null /\ new[i].value \in Natives(type)
      <4>1. i = 1
        OBVIOUS
      <4> QED
        BY <2>2, <2>3, <4>1, ZeroIsNative, Zenon
    <3> QED
      BY <2>2, <2>3, <3>1, SpellsShort
  <2> QED
    BY <2>1, <2>4, FillStep
<1>5. ASSUME NEW i \in DOMAIN held, NEW null \in BOOLEAN, MarkNull(i, null) PROVE FillInv'
  <2>1. /\ src' = SetNull(src, i, null) /\ held' = [held EXCEPT ![i].null = null] /\ phase = "filled"
        /\ type' = type /\ out' = out /\ phase' = phase /\ picked' = picked
    BY <1>5 DEF MarkNull
  <2>2. Agrees(src', held')
    BY <1>0, <2>1, SetNullAgrees
  <2>3. Fits(held', type')
    <3>1. Agrees(src', held') /\ Len(held') = Len(held) /\ Len(held) \in Nat
      BY <1>0, <2>1, <2>2, LenProperties DEF Agrees
    <3>2. src'.data = src.data
      BY <1>0, <2>1 DEF SetNull, Agrees
    <3>3. \A j \in 1 .. Len(held) : held'[j].value = held[j].value
      BY <1>0, <3>1, <3>2 DEF Agrees
    <3> QED
      BY <1>0, <2>1, <3>1, <3>3 DEF Fits
  <2>4. Agrees(out', picked') /\ type' \in Types /\ phase' \in Phases /\ picked' = <<>>
    BY <2>1 DEF FillInv
  <2> QED
    BY <2>2, <2>3, <2>4 DEF FillInv
<1>6. CASE FilterInto
  <2>1. PICK mask \in [DOMAIN held -> BOOLEAN] : Pick(Kept(held, mask), FilterTo(src, mask, out))
    BY <1>6 DEF FilterInto
  <2>2. Agrees(out, picked)
    BY <2>1 DEF FillInv, Pick
  <2>3. Agrees(FilterTo(src, mask, out), picked \o Kept(held, mask))
    BY <1>0, <2>2, FilterAgrees
  <2> QED
    BY <2>1, <2>3, PickStep
<1>7. CASE CopyInto
  <2>0. PICK offset \in 0 .. Len(held) : \E count \in 0 .. Len(held) - offset :
            Pick(SubSeq(held, offset + 1, offset + count), CopyTo(src, out, offset, count))
    BY <1>7 DEF CopyInto
  <2>1. PICK count \in 0 .. Len(held) - offset :
            Pick(SubSeq(held, offset + 1, offset + count), CopyTo(src, out, offset, count))
    BY <2>0
  <2>2. Agrees(out, picked)
    BY <2>1 DEF FillInv, Pick
  <2>3. Spells(SubSeq(src.data, offset + 1, offset + count),
               SubSeq(src.nulls, offset + 1, offset + count),
               SubSeq(held, offset + 1, offset + count))
    BY <1>0, PartSpells
  <2>4. Agrees(CopyTo(src, out, offset, count), picked \o SubSeq(held, offset + 1, offset + count))
    BY <2>2, <2>3, AppendArrayAgrees DEF CopyTo, ReadValues
  <2> QED
    BY <2>1, <2>4, PickStep
<1>8. CASE Encode
  <2>1. UNCHANGED <<type, src, held, picked>> /\ phase = "filled" /\ phase' \in {"looping", "crashed", "encoded"}
    BY <1>8 DEF Encode
  <2> QED
    BY <2>1, OtherStep DEF Phases
<1>9. CASE Decode \/ ReadColumn
  <2>1. UNCHANGED <<type, src, held, picked>> /\ phase = "encoded" /\ phase' \in {"decoded", "read"}
    BY <1>9 DEF Decode, ReadColumn
  <2> QED
    BY <2>1, OtherStep DEF Phases
<1>10. ASSUME NEW kind, NEW modulo, ObjectEncode(kind, modulo) PROVE FillInv'
  <2>1. UNCHANGED <<type, src, held, picked>> /\ phase = "filled" /\ phase' \in {"taken", "written"}
    BY <1>10 DEF ObjectEncode
  <2> QED
    BY <2>1, OtherStep DEF Phases
<1>11. CASE ObjectWrite
  <2>1. UNCHANGED <<type, src, held, picked>> /\ phase = "taken" /\ phase' = "written"
    BY <1>11 DEF ObjectWrite
  <2> QED
    BY <2>1, OtherStep DEF Phases
<1>12. ASSUME NEW keep, ObjectRead(keep) PROVE FillInv'
  <2>1. UNCHANGED <<type, src, held, picked>> /\ phase = "written" /\ phase' = "restored"
    BY <1>12 DEF ObjectRead
  <2> QED
    BY <2>1, OtherStep DEF Phases
<1>13. CASE Refill
  <2>1. /\ phase = "restored" /\ src' = Clear(src) /\ held' = <<>> /\ out' = New(0)
        /\ phase' = "filled" /\ type' = type /\ picked' = picked
    BY <1>13 DEF Refill
  <2>2. Agrees(src', held') /\ type' \in Types /\ picked' = <<>> /\ Agrees(out', picked')
    BY <1>0, <2>1, NewAgrees DEF FillInv
  <2>3. Fits(held', type') /\ phase' \in Phases
    BY <2>1 DEF Fits, Phases
  <2> QED
    BY <2>2, <2>3 DEF FillInv
<1>14. CASE UNCHANGED vars
  BY <1>14 DEF FillInv, vars
<1> QED
  BY <1>2, <1>3, <1>4, <1>5, <1>6, <1>7, <1>8, <1>9, <1>10, <1>11, <1>12, <1>13, <1>14
  DEF Next, Done

\* The first state has it.
LEMMA FillInvInit ==
    ASSUME Capacities \subseteq {0}, Init PROVE FillInv
<1>1. src = New(0) /\ held = <<>> /\ picked = <<>> /\ out = New(0) /\ type \in Types /\ phase = "filled"
  BY DEF Init
<1>2. Agrees(src, held) /\ Agrees(out, picked)
  BY <1>1, NewAgrees
<1>3. Fits(held, type) /\ phase \in Phases
  BY <1>1 DEF Fits, Phases
<1> QED
  BY <1>1, <1>2, <1>3 DEF FillInv

\* ColumnHolds for every column that is made empty.
THEOREM ColumnsKeepTheirRows ==
    ASSUME Capacities \subseteq {0} PROVE Spec => []ColumnHolds
<1>1. FillInv => ColumnHolds
  BY AgreesHolds DEF FillInv, ColumnHolds
<1> QED
  BY <1>1, FillInvInit, FillInvNext, PTL DEF Spec
-----------------------------------------------------------------------------
(* Arithmetic that wraps *)

\* Within one period of the modulus.
LEMMA ModShift ==
    ASSUME NEW M \in Nat \ {0}, NEW r \in 0 .. M - 1
    PROVE  r % M = r /\ (r + M) % M = r /\ (r - M) % M = r
  OBVIOUS

\* A sum that wraps undoes a difference that wrapped.
LEMMA WrapsBack ==
    ASSUME NEW t, t # "Double", NEW a \in Natives(t), NEW b \in Natives(t)
    PROVE  Signed(b + Signed(a - b, t), t) = a
<1> DEFINE H == HalfRange(t)
           M == 2 * H
           S(v) == ((v + H) % M) - H
<1>1. a \in -H .. H - 1 /\ b \in -H .. H - 1
  BY DEF Natives
<1>2. \A v : Signed(v, t) = S(v)
  BY DEF Signed
<1>3. H \in Nat \ {0}
  BY HalfRangePositive
<1> HIDE DEF H
<1>4. M \in Nat \ {0} /\ a + H \in 0 .. M - 1 /\ a \in Int /\ b \in Int
  BY <1>1, <1>3
<1>5. /\ (a + H) % M = a + H /\ ((a + H) + M) % M = a + H /\ ((a + H) - M) % M = a + H
  BY <1>4, ModShift
<1>6. \/ S(a - b) = a - b \/ S(a - b) = a - b + M \/ S(a - b) = a - b - M
  <2> DEFINE r == a - b + H
  <2> HIDE DEF M
  <2>1. CASE r \in 0 .. M - 1
    <3>1. r % M = r
      BY <1>4, <2>1, ModShift
    <3> QED
      BY <1>1, <1>3, <1>4, <3>1
  <2>2. CASE r < 0
    <3>1. r + M \in 0 .. M - 1
      BY <1>1, <1>3, <1>4, <2>2 DEF M
    <3>2. ((r + M) - M) % M = r + M
      BY <1>4, <3>1, ModShift
    <3>3. (r + M) - M = r
      BY <1>1, <1>3, <1>4
    <3> QED
      BY <1>1, <1>3, <1>4, <3>2, <3>3
  <2>3. CASE r >= M
    <3>1. r - M \in 0 .. M - 1
      BY <1>1, <1>3, <1>4, <2>3 DEF M
    <3>2. ((r - M) + M) % M = r - M
      BY <1>4, <3>1, ModShift
    <3>3. (r - M) + M = r
      BY <1>1, <1>3, <1>4
    <3> QED
      BY <1>1, <1>3, <1>4, <3>2, <3>3
  <2> QED
    BY <1>1, <1>3, <1>4, <2>1, <2>2, <2>3
<1>7. S(b + S(a - b)) = a
  <2> DEFINE d == S(a - b)
  <2>1. d = a - b \/ d = a - b + M \/ d = a - b - M
    BY <1>6
  <2> HIDE DEF d, M
  <2>2. b + d + H = a + H \/ b + d + H = (a + H) + M \/ b + d + H = (a + H) - M
    BY <1>3, <1>4, <2>1
  <2>3. (b + d + H) % M = a + H
    BY <1>5, <2>2, Zenon
  <2> QED
    BY <1>3, <1>4, <2>3 DEF d
<1> QED
  BY <1>2, <1>7, Zenon
-----------------------------------------------------------------------------
(* Plain and Delta *)

\* A buffer of fields of one width.
LEMMA SizeIs ==
    ASSUME NEW buf, NEW n \in Nat, Len(buf) = n, NEW b \in {4, 8},
           \A i \in 1 .. n : buf[i].w = b
    PROVE  Size(buf) = b * n
<1> DEFINE E(f, k) == IF k = 0 THEN 0 ELSE f[k - 1] + buf[k].w
           R(f) == [k \in 0 .. n |-> E(f, k)]
           size == CHOOSE f : f = R(f)
           A == [k \in 0 .. n |-> b * k]
<1>1. Size(buf) = size[n]
  BY DEF Size
<1>2. A = R(A)
  <2>1. ASSUME NEW k \in 0 .. n PROVE A[k] = E(A, k)
    <3>1. CASE k = 0
      BY <3>1
    <3>2. CASE k # 0
      <4>1. A[k - 1] = b * (k - 1) /\ A[k] = b * k /\ buf[k].w = b
        BY <3>2
      <4> HIDE DEF A
      <4>2. b * (k - 1) + b = b * k
        <5>1. CASE b = 4
          BY <5>1
        <5>2. CASE b = 8
          BY <5>2
        <5> QED
          BY <5>1, <5>2
      <4> QED
        BY <3>2, <4>1, <4>2
    <3> QED
      BY <3>1, <3>2
  <2>2. A = [k \in 0 .. n |-> A[k]]
    OBVIOUS
  <2> HIDE DEF A, E
  <2> QED
    BY <2>1, <2>2
<1>3. size = R(size)
  <2> HIDE DEF R
  <2> QED
    BY <1>2
<1> HIDE DEF size
<1> DEFINE Bad == {k \in Nat : k <= n /\ size[k] # A[k]}
<1>4. Bad = {}
  <2> SUFFICES ASSUME Bad # {} PROVE FALSE
    OBVIOUS
  <2>1. PICK k \in Bad : \A j \in Bad : k <= j
    <3>1. Bad \subseteq Nat
      OBVIOUS
    <3> HIDE DEF Bad
    <3> QED
      BY <3>1, LeastNat
  <2> HIDE DEF A
  <2>2. size[k] = E(size, k) /\ A[k] = E(A, k)
    <3>1. k \in 0 .. n
      OBVIOUS
    <3> HIDE DEF E
    <3> QED
      BY <1>2, <1>3, <3>1
  <2>3. k # 0
    BY <2>1, <2>2
  <2>4. k - 1 \in Nat /\ k - 1 <= n /\ ~(k <= k - 1)
    BY <2>3
  <2>5. size[k - 1] = A[k - 1]
    <3>1. k - 1 \notin Bad
      <4> HIDE DEF Bad
      <4> QED
        BY <2>1, <2>4
    <3> QED
      BY <2>4, <3>1
  <2>6. size[k] = A[k]
    <3> HIDE DEF Bad, R
    <3> QED
      BY <2>2, <2>3, <2>5
  <2> QED
    BY <2>6
<1>5. A[n] = b * n
  OBVIOUS
<1> HIDE DEF A
<1>6. size[n] = A[n]
  BY <1>4
<1> QED
  BY <1>1, <1>5, <1>6

\* The fields a Plain or Delta encoder writes: one of a value's size per row.
LEMMA EncodedSize ==
    ASSUME NEW t, NEW column \in Seq(Int), NEW buf,
           buf = PlainEncode(t, column) \/ buf = DeltaEncode(t, column)
    PROVE  /\ Len(buf) = Len(column) /\ DOMAIN buf = 1 .. Len(column)
           /\ Size(buf) \div NativeBytes(t) = Len(column)
<1> DEFINE n == Len(column)
           b == NativeBytes(t)
<1>1. n \in Nat /\ DOMAIN column = 1 .. n
  BY LenProperties
<1>2. b \in {4, 8}
  BY DEF NativeBytes
<1>3. /\ Len(buf) = n /\ DOMAIN buf = 1 .. n
      /\ \A i \in 1 .. n : buf[i].w = b
  <2> HIDE DEF n, b
  <2>1. CASE buf = PlainEncode(t, column)
    BY <1>1, <2>1 DEF PlainEncode, Fields, Field, b
  <2>2. CASE buf = DeltaEncode(t, column)
    BY <1>1, <2>2 DEF DeltaEncode, Field, b
  <2> QED
    BY <2>1, <2>2
<1> HIDE DEF n, b
<1>4. Size(buf) = b * n
  BY <1>1, <1>2, <1>3, SizeIs
<1>5. (b * n) \div b = n
  <2>1. CASE b = 4
    BY <1>1, <2>1
  <2>2. CASE b = 8
    BY <1>1, <2>2
  <2> QED
    BY <1>2, <2>1, <2>2
<1> QED
  BY <1>3, <1>4, <1>5 DEF n, b

\* Plain: one field per row.
LEMMA PlainRestores ==
    ASSUME NEW t, NEW column \in Seq(Int)
    PROVE  PlainDecode(PlainEncode(t, column), Len(column)) = column
<1> DEFINE n == Len(column)
           buf == PlainEncode(t, column)
<1>1. n \in Nat /\ column = [i \in 1 .. n |-> column[i]]
  BY LenProperties
<1>2. DOMAIN buf = 1 .. n /\ \A i \in 1 .. n : buf[i].v = column[i]
  BY <1>1 DEF PlainEncode, Fields, Field
<1> HIDE DEF n, buf
<1>3. \A i \in 1 .. n : Read(buf, i) = column[i]
  BY <1>2 DEF Read
<1>4. PlainDecode(buf, n) = column
  BY <1>1, <1>3 DEF PlainDecode
<1> QED
  BY <1>4 DEF n, buf

\* The differences wrap, and the sums wrap back.
LEMMA DeltaRestores ==
    ASSUME NEW t, t # "Double", NEW column \in Seq(Int),
           \A i \in 1 .. Len(column) : column[i] \in Natives(t)
    PROVE  DeltaDecode(t, DeltaEncode(t, column), Len(column)) = column
<1> DEFINE n == Len(column)
           buf == DeltaEncode(t, column)
           E(f, i) == IF i = 1 THEN Read(buf, 1) ELSE Signed(f[i - 1] + Read(buf, i), t)
           R(f) == [i \in 1 .. n |-> E(f, i)]
           out0 == CHOOSE f : f = R(f)
<1>1. n \in Nat /\ DOMAIN column = 1 .. n /\ column = [i \in 1 .. n |-> column[i]]
  BY LenProperties
<1>2. /\ DOMAIN buf = 1 .. n
      /\ \A i \in 1 .. n : buf[i].v = IF i = 1 THEN column[1] ELSE Signed(column[i] - column[i - 1], t)
  <2> HIDE DEF n
  <2> QED
    BY <1>1 DEF DeltaEncode, Field
<1> HIDE DEF n, buf
<1>3. \A i \in 1 .. n : Read(buf, i) = IF i = 1 THEN column[1] ELSE Signed(column[i] - column[i - 1], t)
  BY <1>2 DEF Read
<1>4. ASSUME NEW i \in 1 .. n PROVE column[i] = E(column, i)
  <2>1. CASE i = 1
    BY <1>1, <1>3, <2>1
  <2>2. CASE i # 1
    <3>1. i - 1 \in 1 .. n
      BY <1>1, <2>2
    <3>2. column[i] \in Natives(t) /\ column[i - 1] \in Natives(t)
      BY <3>1 DEF n
    <3>3. Signed(column[i - 1] + Signed(column[i] - column[i - 1], t), t) = column[i]
      BY <3>2, WrapsBack, Zenon
    <3>4. Read(buf, i) = Signed(column[i] - column[i - 1], t)
      BY <1>3, <2>2
    <3> QED
      BY <2>2, <3>3, <3>4
  <2> QED
    BY <2>1, <2>2
<1>5. column = R(column)
  <2> HIDE DEF E
  <2> QED
    BY <1>1, <1>4
<1>6. out0 = R(out0)
  <2> HIDE DEF R
  <2> QED
    BY <1>5
<1>7. DeltaDecode(t, buf, n) = out0
  BY DEF DeltaDecode
<1> HIDE DEF out0
<1> DEFINE Bad == {k \in Nat : k \in 1 .. n /\ out0[k] # column[k]}
<1>8. Bad = {}
  <2> SUFFICES ASSUME Bad # {} PROVE FALSE
    OBVIOUS
  <2>1. PICK k \in Bad : \A j \in Bad : k <= j
    <3>1. Bad \subseteq Nat
      OBVIOUS
    <3> HIDE DEF Bad
    <3> QED
      BY <3>1, LeastNat
  <2>2. out0[k] = E(out0, k) /\ column[k] = E(column, k)
    <3>1. k \in 1 .. n
      OBVIOUS
    <3> HIDE DEF E
    <3> QED
      BY <1>4, <1>6, <3>1
  <2>3. k # 1
    BY <2>1, <2>2
  <2>4. k - 1 \in Nat /\ k - 1 \in 1 .. n /\ ~(k <= k - 1)
    BY <1>1, <2>3
  <2>5. out0[k - 1] = column[k - 1]
    <3>1. k - 1 \notin Bad
      <4> HIDE DEF Bad
      <4> QED
        BY <2>1, <2>4
    <3> QED
      BY <2>4, <3>1
  <2>6. out0[k] = column[k]
    <3> HIDE DEF Bad, R
    <3> QED
      BY <2>2, <2>3, <2>5
  <2> QED
    BY <2>6
<1>9. ASSUME NEW i \in 1 .. n PROVE out0[i] = column[i]
  <2>1. i \in Nat /\ i \notin Bad
    BY <1>8
  <2> QED
    BY <2>1
<1>10. out0 = column
  <2>1. out0 = [i \in 1 .. n |-> out0[i]]
    <3> HIDE DEF E
    <3> QED
      BY <1>6
  <2> QED
    BY <1>1, <1>9, <2>1
<1> QED
  BY <1>7, <1>10 DEF n, buf
-----------------------------------------------------------------------------
(* RLE *)

\* A run, and the rows before row k + 1.
Rep(v, r) == [i \in 1 .. r |-> v]
FirstRows(column, k) == [i \in 1 .. k |-> column[i]]

\* A sequence and one element more, as a function.
LEMMA OneMore ==
    ASSUME NEW s \in Seq(Int), NEW u \in Seq(Int), Len(u) = 1
    PROVE  s \o u = [i \in 1 .. Len(s) + 1 |-> IF i = Len(s) + 1 THEN u[1] ELSE s[i]]
<1>1. /\ s \o u \in Seq(Int) /\ Len(s \o u) = Len(s) + Len(u)
      /\ \A i \in 1 .. Len(s) + Len(u) : (s \o u)[i] = IF i <= Len(s) THEN s[i] ELSE u[i - Len(s)]
  BY ConcatProperties
<1>2. Len(s) \in Nat
  BY LenProperties
<1> DEFINE c == s \o u
           n == Len(s)
<1>3. c \in Seq(Int) /\ Len(c) = n + 1
  BY <1>1
<1>4. ASSUME NEW i \in 1 .. n + 1 PROVE c[i] = IF i = n + 1 THEN u[1] ELSE s[i]
  <2>1. c[i] = IF i <= n THEN s[i] ELSE u[i - n]
    BY <1>1
  <2> HIDE DEF c, n
  <2>2. CASE i = n + 1
    <3>1. ~(i <= n) /\ i - n = 1
      BY <1>2, <2>2 DEF n
    <3> QED
      BY <2>1, <2>2, <3>1
  <2>3. CASE i # n + 1
    <3>1. i <= n
      BY <1>2, <2>3 DEF n
    <3> QED
      BY <2>1, <2>3, <3>1
  <2> QED
    BY <2>2, <2>3
<1> HIDE DEF c
<1>5. c = [i \in 1 .. n + 1 |-> c[i]]
  BY <1>3, LenProperties
<1>6. c = [i \in 1 .. n + 1 |-> IF i = n + 1 THEN u[1] ELSE s[i]]
  BY <1>4, <1>5
<1> QED
  BY <1>6 DEF c

\* A run that goes on.
LEMMA RepLonger ==
    ASSUME NEW v \in Int, NEW r \in Nat
    PROVE  Rep(v, r) \in Seq(Int) /\ Len(Rep(v, r)) = r /\ Rep(v, r) \o <<v>> = Rep(v, r + 1)
<1>1. /\ Rep(v, r) \in Seq(Int) /\ Len(Rep(v, r)) = r
      /\ \A i \in 1 .. r : Rep(v, r)[i] = v
  BY DEF Rep
<1> DEFINE s == Rep(v, r)
           u == <<v>>
<1>2. u \in Seq(Int) /\ Len(u) = 1 /\ u[1] = v
  OBVIOUS
<1>3. s \in Seq(Int) /\ Len(s) = r /\ \A i \in 1 .. r : s[i] = v
  BY <1>1
<1> HIDE DEF s, u
<1>4. s \o u = [i \in 1 .. r + 1 |-> IF i = r + 1 THEN u[1] ELSE s[i]]
  BY <1>2, <1>3, OneMore
<1>5. s \o u = [i \in 1 .. r + 1 |-> v]
  BY <1>2, <1>3, <1>4
<1> QED
  BY <1>1, <1>5 DEF s, u, Rep

\* One row more of the column.
LEMMA FirstRowsLonger ==
    ASSUME NEW column \in Seq(Int), NEW k \in 1 .. Len(column)
    PROVE  /\ FirstRows(column, k - 1) \in Seq(Int)
           /\ FirstRows(column, k - 1) \o <<column[k]>> = FirstRows(column, k)
<1> DEFINE s == FirstRows(column, k - 1)
           v == column[k]
           u == <<v>>
<1>1. k \in Nat /\ k - 1 \in Nat /\ Len(column) \in Nat /\ \A i \in 1 .. k : column[i] \in Int
  BY LenProperties, ElementOfSeq
<1>2. s \in Seq(Int) /\ Len(s) = k - 1 /\ \A i \in 1 .. k - 1 : s[i] = column[i]
  BY <1>1 DEF FirstRows
<1>3. u \in Seq(Int) /\ Len(u) = 1 /\ u[1] = v
  BY <1>1
<1> HIDE DEF s, u
<1>4. s \o u = [i \in 1 .. (k - 1) + 1 |-> IF i = (k - 1) + 1 THEN u[1] ELSE s[i]]
  <2>1. s \in Seq(Int) /\ u \in Seq(Int) /\ Len(u) = 1
    BY <1>2, <1>3
  <2>2. s \o u = [i \in 1 .. Len(s) + 1 |-> IF i = Len(s) + 1 THEN u[1] ELSE s[i]]
    BY <2>1, OneMore, Zenon
  <2> QED
    BY <1>2, <2>2, Zenon
<1>5. (k - 1) + 1 = k
  BY <1>1
<1>6. ASSUME NEW i \in 1 .. k PROVE (IF i = k THEN u[1] ELSE s[i]) = column[i]
  <2>1. CASE i = k
    BY <1>3, <2>1
  <2>2. CASE i # k
    BY <1>1, <1>2, <2>2
  <2> QED
    BY <2>1, <2>2
<1>7. s \o u = [i \in 1 .. k |-> column[i]]
  BY <1>4, <1>5, <1>6
<1> QED
  BY <1>2, <1>7 DEF s, u, FirstRows

\* Fields in pairs, and the rows they stand for after each pair: P[k].
FieldType == [w : Nat, v : Int]
Unpacks(fields, rows, m, P) ==
    /\ m \in Nat /\ fields \in Seq(FieldType) /\ Len(fields) = 2 * m
    /\ P \in [0 .. m -> Seq(Int)] /\ P[0] = <<>> /\ P[m] = rows
    /\ \A k \in 1 .. m : /\ fields[2 * k].v \in Nat
                         /\ P[k] = P[k - 1] \o Rep(fields[2 * k - 1].v, fields[2 * k].v)
PairOf(t, v, r) == <<Field(NativeBytes(t), v), Field(4, r)>>

\* One pair more.
LEMMA UnpacksMore ==
    ASSUME NEW fields, NEW rows, NEW m, NEW P, Unpacks(fields, rows, m, P),
           NEW t, NEW v \in Int, NEW r \in Nat
    PROVE  \E Q : Unpacks(fields \o PairOf(t, v, r), rows \o Rep(v, r), m + 1, Q)
<1> DEFINE u == PairOf(t, v, r)
           f == fields \o u
           Q == [k \in 0 .. m + 1 |-> IF k = m + 1 THEN rows \o Rep(v, r) ELSE P[k]]
<1>1. /\ m \in Nat /\ fields \in Seq(FieldType) /\ Len(fields) = 2 * m
      /\ P \in [0 .. m -> Seq(Int)] /\ P[0] = <<>> /\ P[m] = rows
      /\ \A k \in 1 .. m : /\ fields[2 * k].v \in Nat
                           /\ P[k] = P[k - 1] \o Rep(fields[2 * k - 1].v, fields[2 * k].v)
  BY DEF Unpacks
<1>2. u \in Seq(FieldType) /\ Len(u) = 2 /\ u[1].v = v /\ u[2].v = r
  BY DEF PairOf, Field, FieldType, NativeBytes
<1> HIDE DEF u
<1>3. f \in Seq(FieldType) /\ Len(f) = 2 * (m + 1)
  <2>1. f \in Seq(FieldType) /\ Len(f) = Len(fields) + Len(u)
    <3>1. fields \in Seq(FieldType) /\ u \in Seq(FieldType)
      BY <1>1, <1>2
    <3> QED
      BY <3>1, ConcatProperties, Zenon
  <2> QED
    BY <1>1, <1>2, <2>1
<1>4. ASSUME NEW i \in 1 .. 2 * m PROVE f[i] = fields[i]
  <2>1. i \in 1 .. Len(fields) + Len(u) /\ i \in 1 .. Len(fields)
    BY <1>1, <1>2
  <2>2. \/ i \in 1 .. Len(fields) /\ f[i] = fields[i]
        \/ i - Len(fields) \in 1 .. Len(u) /\ ~(i \in 1 .. Len(fields)) /\ f[i] = u[i - Len(fields)]
    BY <1>1, <1>2, <2>1, ConcatAt
  <2> QED
    BY <2>1, <2>2
<1>5. f[2 * m + 1] = u[1] /\ f[2 * m + 2] = u[2]
  <2>1. ASSUME NEW j \in 1 .. 2 PROVE f[2 * m + j] = u[j]
    <3> DEFINE i == 2 * m + j
    <3>1. i \in 1 .. Len(fields) + Len(u) /\ ~(i \in 1 .. Len(fields)) /\ i - Len(fields) = j
      BY <1>1, <1>2
    <3> HIDE DEF i
    <3>2. \/ i \in 1 .. Len(fields) /\ f[i] = fields[i]
          \/ i - Len(fields) \in 1 .. Len(u) /\ ~(i \in 1 .. Len(fields)) /\ f[i] = u[i - Len(fields)]
      BY <1>1, <1>2, <3>1, ConcatAt
    <3> QED
      BY <3>1, <3>2 DEF i
  <2>2. 1 \in 1 .. 2 /\ 2 \in 1 .. 2
    OBVIOUS
  <2> HIDE DEF f
  <2> QED
    BY <2>1, <2>2, Zenon
<1> HIDE DEF f
<1>6. rows \in Seq(Int) /\ rows \o Rep(v, r) \in Seq(Int)
  <2>1. rows \in Seq(Int) /\ Rep(v, r) \in Seq(Int)
    <3>1. m \in 0 .. m
      BY <1>1
    <3> QED
      BY <1>1, <3>1, RepLonger
  <2> QED
    BY <2>1, ConcatProperties
<1>7. /\ Q \in [0 .. m + 1 -> Seq(Int)] /\ Q[m + 1] = rows \o Rep(v, r)
      /\ \A k \in 0 .. m : Q[k] = P[k]
  BY <1>1, <1>6
<1> HIDE DEF Q
<1>8. ASSUME NEW k \in 1 .. m + 1
      PROVE  f[2 * k].v \in Nat /\ Q[k] = Q[k - 1] \o Rep(f[2 * k - 1].v, f[2 * k].v)
  <2>1. CASE k = m + 1
    <3>1. 2 * k = 2 * m + 2 /\ 2 * k - 1 = 2 * m + 1 /\ k - 1 = m /\ m \in 0 .. m
      BY <1>1, <2>1
    <3>2. f[2 * k] = u[2] /\ f[2 * k - 1] = u[1] /\ Q[k - 1] = rows
      BY <1>1, <1>5, <1>7, <3>1
    <3> QED
      BY <1>2, <1>7, <2>1, <3>2
  <2>2. CASE k # m + 1
    <3>1. k \in 1 .. m /\ k \in 0 .. m /\ k - 1 \in 0 .. m /\ 2 * k \in 1 .. 2 * m /\ 2 * k - 1 \in 1 .. 2 * m
      BY <1>1, <2>2
    <3>2. f[2 * k] = fields[2 * k] /\ f[2 * k - 1] = fields[2 * k - 1] /\ Q[k] = P[k] /\ Q[k - 1] = P[k - 1]
      BY <1>4, <1>7, <3>1
    <3> QED
      BY <1>1, <3>1, <3>2
  <2> QED
    BY <2>1, <2>2
<1>9. m + 1 \in Nat /\ Q[0] = <<>>
  BY <1>1, <1>7
<1>10. Unpacks(f, rows \o Rep(v, r), m + 1, Q)
  BY <1>3, <1>7, <1>8, <1>9 DEF Unpacks
<1> QED
  BY <1>10 DEF f, u

\* Concatenation associates.
LEMMA ConcatInts ==
    ASSUME NEW a \in Seq(Int), NEW b \in Seq(Int), NEW c \in Seq(Int)
    PROVE  (a \o b) \o c = a \o (b \o c)
  BY ConcatAssociative

\* P[k] is the first k sequences, end to end.
Chain(seqs, P, m, S) ==
    /\ m \in Nat /\ seqs \in [1 .. m -> Seq(S)]
    /\ P \in [0 .. m -> Seq(S)] /\ P[0] = <<>>
    /\ \A k \in 1 .. m : P[k] = P[k - 1] \o seqs[k]

\* FlattenSeq puts the sequences end to end.
LEMMA FlattenIsChain ==
    ASSUME NEW seqs, NEW P, NEW m, NEW S, Chain(seqs, P, m, S)
    PROVE  FlattenSeq(seqs) = P[m]
<1> DEFINE E(f, k) == IF k = 1 THEN seqs[k] ELSE f[k - 1] \o seqs[k]
           R(f) == [k \in 1 .. m |-> E(f, k)]
           flat == CHOOSE f : f = R(f)
           A == [k \in 1 .. m |-> P[k]]
<1>1. /\ m \in Nat /\ seqs \in [1 .. m -> Seq(S)]
      /\ P \in [0 .. m -> Seq(S)] /\ P[0] = <<>>
      /\ \A k \in 1 .. m : P[k] = P[k - 1] \o seqs[k]
  BY DEF Chain
<1>2. Len(seqs) = m /\ seqs = [k \in 1 .. m |-> seqs[k]]
  BY <1>1
<1>3. CASE m = 0
  <2>1. FlattenSeq(seqs) = seqs
    BY <1>2, <1>3 DEF FlattenSeq
  <2>2. seqs = <<>>
    BY <1>2, <1>3
  <2> QED
    BY <1>1, <1>3, <2>1, <2>2
<1>4. CASE m # 0
  <2>1. FlattenSeq(seqs) = flat[m]
    BY <1>2, <1>4 DEF FlattenSeq
  <2>2. A = R(A)
    <3>1. ASSUME NEW k \in 1 .. m PROVE A[k] = E(A, k)
      <4>1. A[k] = P[k] /\ P[k] = P[k - 1] \o seqs[k] /\ seqs[k] \in Seq(S)
        BY <1>1
      <4>2. CASE k = 1
        <5>1. k - 1 = 0
          BY <4>2
        <5>2. P[k - 1] = <<>> /\ <<>> \o seqs[k] = seqs[k]
          BY <1>1, <4>1, <5>1, ConcatEmptySeq
        <5> HIDE DEF A
        <5> QED
          BY <4>1, <4>2, <5>2, Zenon
      <4>3. CASE k # 1
        <5>1. k - 1 \in 1 .. m
          BY <1>1, <4>3
        <5>2. A[k - 1] = P[k - 1]
          BY <5>1
        <5> HIDE DEF A
        <5> QED
          BY <4>1, <4>3, <5>2
      <4> QED
        BY <4>2, <4>3
    <3>2. A = [k \in 1 .. m |-> A[k]]
      OBVIOUS
    <3> HIDE DEF A, E
    <3> QED
      BY <3>1, <3>2
  <2>3. flat = R(flat)
    <3> HIDE DEF R
    <3> QED
      BY <2>2
  <2>4. A[m] = P[m] /\ m \in 1 .. m
    BY <1>1, <1>4
  <2> HIDE DEF flat, A
  <2> DEFINE Bad == {k \in Nat : k \in 1 .. m /\ flat[k] # A[k]}
  <2>5. Bad = {}
    <3> SUFFICES ASSUME Bad # {} PROVE FALSE
      OBVIOUS
    <3>1. PICK k \in Bad : \A j \in Bad : k <= j
      <4>1. Bad \subseteq Nat
        OBVIOUS
      <4> HIDE DEF Bad
      <4> QED
        BY <4>1, LeastNat
    <3>2. flat[k] = E(flat, k) /\ A[k] = E(A, k)
      <4>1. k \in 1 .. m
        OBVIOUS
      <4> HIDE DEF E
      <4> QED
        BY <2>2, <2>3, <4>1
    <3>3. k # 1
      BY <3>1, <3>2
    <3>4. k - 1 \in Nat /\ k - 1 \in 1 .. m /\ ~(k <= k - 1)
      BY <1>1, <3>3
    <3>5. flat[k - 1] = A[k - 1]
      <4>1. k - 1 \notin Bad
        <5> HIDE DEF Bad
        <5> QED
          BY <3>1, <3>4
      <4> QED
        BY <3>4, <4>1
    <3>6. flat[k] = A[k]
      <4> HIDE DEF Bad, R
      <4> QED
        BY <3>2, <3>3, <3>5
    <3> QED
      BY <3>6
  <2>6. flat[m] = P[m]
    <3>1. m \notin Bad
      BY <2>5
    <3> QED
      BY <1>1, <2>4, <3>1
  <2> QED
    BY <2>1, <2>6
<1> QED
  BY <1>3, <1>4

\* The decoder lays the runs end to end.
LEMMA FlattenIs ==
    ASSUME NEW fields, NEW rows, NEW m, NEW P, Unpacks(fields, rows, m, P)
    PROVE  FlattenSeq([k \in 1 .. Len(fields) \div 2 |-> Rep(fields[2 * k - 1].v, fields[2 * k].v)]) = rows
<1> DEFINE G(k) == Rep(fields[2 * k - 1].v, fields[2 * k].v)
           seqs == [k \in 1 .. m |-> G(k)]
<1>1. /\ m \in Nat /\ fields \in Seq(FieldType) /\ Len(fields) = 2 * m
      /\ P \in [0 .. m -> Seq(Int)] /\ P[0] = <<>> /\ P[m] = rows
      /\ \A k \in 1 .. m : fields[2 * k].v \in Nat /\ P[k] = P[k - 1] \o G(k)
  BY DEF Unpacks
<1>2. Len(fields) \div 2 = m
  BY <1>1
<1>3. ASSUME NEW k \in 1 .. m PROVE G(k) \in Seq(Int)
  <2>1. 2 * k - 1 \in 1 .. Len(fields) /\ fields[2 * k].v \in Nat
    <3> DEFINE j == 2 * k - 1
    <3>1. j \in 1 .. 2 * m
      BY <1>1
    <3> QED
      BY <1>1, <3>1
  <2>2. fields[2 * k - 1] \in FieldType
    BY <1>1, <2>1, ElementOfSeq
  <2>3. fields[2 * k - 1].v \in Int
    BY <2>2 DEF FieldType
  <2> QED
    BY <2>1, <2>3, RepLonger
<1> HIDE DEF G
<1>4. seqs \in [1 .. m -> Seq(Int)] /\ \A k \in 1 .. m : seqs[k] = G(k)
  BY <1>3
<1> HIDE DEF seqs
<1>5. Chain(seqs, P, m, Int)
  BY <1>1, <1>4 DEF Chain
<1>6. FlattenSeq(seqs) = rows
  BY <1>1, <1>5, FlattenIsChain
<1> QED
  BY <1>2, <1>6 DEF seqs, G

\* The encoder's loop: A[k] after row k.
StepOf(t, s, v) ==
    IF v = s.current /\ s.run < MaxRun THEN [s EXCEPT !.run = @ + 1]
    ELSE [done |-> s.done \o PairOf(t, s.current, s.run), current |-> v, run |-> 1]
RunLoop(t, column, A, n) ==
    A = [k \in 1 .. n |-> IF k = 1 THEN [done |-> <<>>, current |-> column[1], run |-> 1]
                          ELSE StepOf(t, A[k - 1], column[k])]

\* What is written stands for the rows before the current run.
RunState(column, s, k) ==
    /\ s \in [done : Seq(FieldType), current : Int, run : Nat]
    /\ s.current = column[k]
    /\ \E rows, m, P : /\ Unpacks(s.done, rows, m, P)
                       /\ rows \o Rep(s.current, s.run) = FirstRows(column, k)

\* The encoder after its first row.
LEMMA FirstState ==
    ASSUME NEW column \in Seq(Int), Len(column) # 0
    PROVE  RunState(column, [done |-> <<>>, current |-> column[1], run |-> 1], 1)
<1> DEFINE s == [done |-> <<>>, current |-> column[1], run |-> 1]
           P == [k \in 0 .. 0 |-> <<>>]
           v == column[1]
<1>1. v \in Int
  <2>1. 1 \in 1 .. Len(column)
    BY LenProperties
  <2> QED
    BY <2>1, ElementOfSeq
<1>2. /\ s \in [done : Seq(FieldType), current : Int, run : Nat]
      /\ s.done = <<>> /\ s.current = v /\ s.run = 1
  BY <1>1
<1>3. /\ <<>> \in Seq(FieldType) /\ Len(<<>>) = 2 * 0 /\ P \in [0 .. 0 -> Seq(Int)] /\ P[0] = <<>>
  OBVIOUS
<1> HIDE DEF s, P
<1>4. Unpacks(s.done, <<>>, 0, P)
  BY <1>2, <1>3 DEF Unpacks
<1>5. <<>> \o Rep(v, 1) = FirstRows(column, 1)
  <2>1. Rep(v, 1) \in Seq(Int)
    BY <1>1, RepLonger
  <2>2. <<>> \o Rep(v, 1) = Rep(v, 1)
    BY <2>1, ConcatEmptySeq
  <2>3. Rep(v, 1) = FirstRows(column, 1)
    <3>1. \A i \in 1 .. 1 : i = 1
      OBVIOUS
    <3> QED
      BY <3>1 DEF Rep, FirstRows
  <2> QED
    BY <2>2, <2>3
<1>6. RunState(column, s, 1)
  BY <1>2, <1>4, <1>5 DEF RunState
<1> QED
  BY <1>6 DEF s

\* The encoder after one row more: the run goes on, or is written and another begins.
LEMMA NextState ==
    ASSUME NEW column \in Seq(Int), NEW k \in 2 .. Len(column), NEW t, NEW s,
           RunState(column, s, k - 1)
    PROVE  RunState(column, StepOf(t, s, column[k]), k)
<1> DEFINE v == column[k]
           z == StepOf(t, s, v)
           c == s.current
           r == s.run
<1>1. /\ s \in [done : Seq(FieldType), current : Int, run : Nat] /\ c \in Int /\ r \in Nat
      /\ s.done \in Seq(FieldType)
  BY DEF RunState
<1>2. PICK rows, m, P : /\ Unpacks(s.done, rows, m, P) /\ rows \o Rep(c, r) = FirstRows(column, k - 1)
  BY DEF RunState
<1>3. v \in Int /\ k \in 1 .. Len(column) /\ Len(column) \in Nat /\ k \in Nat
  BY LenProperties, ElementOfSeq
<1>4. /\ FirstRows(column, k - 1) \in Seq(Int) /\ FirstRows(column, k - 1) \o <<v>> = FirstRows(column, k)
  BY <1>3, FirstRowsLonger
<1>5. rows \in Seq(Int)
  <2>1. P \in [0 .. m -> Seq(Int)] /\ m \in 0 .. m /\ P[m] = rows
    BY <1>2 DEF Unpacks
  <2> QED
    BY <2>1
<1> HIDE DEF v, c, r
<1>6. CASE v = c /\ r < MaxRun
  <2>1. z = [s EXCEPT !.run = @ + 1]
    BY <1>6 DEF StepOf, c, r, v
  <2> HIDE DEF z
  <2>2. /\ z \in [done : Seq(FieldType), current : Int, run : Nat]
        /\ z.done = s.done /\ z.current = c /\ z.run = r + 1
    <3>1. s \in [done : Seq(FieldType), current : Int, run : Nat] /\ s.run \in Nat
      BY <1>1 DEF r
    <3>2. s.run + 1 \in Nat
      BY <3>1
    <3>3. z = [s EXCEPT !.run = s.run + 1]
      BY <2>1
    <3> QED
      BY <3>1, <3>2, <3>3 DEF c, r
  <2>3. rows \o Rep(c, r + 1) = FirstRows(column, k)
    <3> DEFINE u == <<c>>
               q == Rep(c, r)
    <3>0. c \in Int /\ r \in Nat
      BY <1>1
    <3>1. q \in Seq(Int) /\ q \o u = Rep(c, r + 1)
      BY <3>0, RepLonger, Zenon
    <3>4. q \in Seq(Int) /\ u \in Seq(Int) /\ rows \in Seq(Int)
      BY <1>5, <3>0, <3>1
    <3>2. FirstRows(column, k - 1) \o u = FirstRows(column, k) /\ rows \o q = FirstRows(column, k - 1)
      BY <1>2, <1>4, <1>6
    <3> HIDE DEF u, q
    <3>3. (rows \o q) \o u = rows \o (q \o u)
      BY <3>4, ConcatInts, Zenon
    <3> QED
      BY <3>1, <3>2, <3>3, Zenon
  <2>4. z.current = column[k] /\ Unpacks(z.done, rows, m, P) /\ rows \o Rep(z.current, z.run) = FirstRows(column, k)
    BY <1>2, <1>6, <2>2, <2>3 DEF v
  <2>5. RunState(column, z, k)
    BY <2>2, <2>4 DEF RunState
  <2> QED
    BY <2>5 DEF z, v
<1>7. CASE ~(v = c /\ r < MaxRun)
  <2> DEFINE f == s.done \o PairOf(t, c, r)
  <2>1. z = [done |-> f, current |-> v, run |-> 1]
    BY <1>7 DEF StepOf, c, r, v
  <2>2. PICK Q : Unpacks(f, rows \o Rep(c, r), m + 1, Q)
    BY <1>1, <1>2, UnpacksMore
  <2>3. f \in Seq(FieldType)
    BY <2>2 DEF Unpacks
  <2> HIDE DEF f
  <2>4. /\ z \in [done : Seq(FieldType), current : Int, run : Nat]
        /\ z.done = f /\ z.current = v /\ z.run = 1
    BY <1>3, <2>1, <2>3
  <2>5. (rows \o Rep(c, r)) \o Rep(v, 1) = FirstRows(column, k)
    <3>1. Rep(v, 1) = <<v>>
      BY DEF Rep
    <3> QED
      BY <1>2, <1>4, <3>1
  <2> HIDE DEF z
  <2>6. /\ z.current = column[k] /\ Unpacks(z.done, rows \o Rep(c, r), m + 1, Q)
        /\ (rows \o Rep(c, r)) \o Rep(z.current, z.run) = FirstRows(column, k)
    BY <2>2, <2>4, <2>5 DEF v
  <2>7. RunState(column, z, k)
    BY <2>4, <2>6 DEF RunState
  <2> QED
    BY <2>7 DEF z, v
<1> QED
  BY <1>6, <1>7

\* The loop runs over any number of rows.
LEMMA RunLoopExists ==
    ASSUME NEW column \in Seq(Int), Len(column) # 0, NEW t
    PROVE  \E A : RunLoop(t, column, A, Len(column)) /\ RunState(column, A[Len(column)], Len(column))
<1> DEFINE n == Len(column)
           first == [done |-> <<>>, current |-> column[1], run |-> 1]
           Good(k) == \E A : RunLoop(t, column, A, k) /\ RunState(column, A[k], k)
           Bad == {k \in Nat : k \in 1 .. n /\ ~Good(k)}
<1>1. n \in Nat /\ n \in 1 .. n
  BY LenProperties
<1> SUFFICES ASSUME Bad # {} PROVE FALSE
  <2>1. n \notin Bad
    OBVIOUS
  <2> HIDE DEF Good
  <2>2. Good(n)
    BY <1>1, <2>1
  <2> QED
    BY <2>2 DEF Good
<1> HIDE DEF n
<1>2. PICK k \in Bad : \A j \in Bad : k <= j
  <2>1. Bad \subseteq Nat
    OBVIOUS
  <2> HIDE DEF Bad
  <2> QED
    BY <2>1, LeastNat
<1>3. k \in 1 .. n /\ ~Good(k)
  <2> HIDE DEF Good
  <2> QED
    BY <1>2
<1>4. CASE k = 1
  <2> DEFINE A == [j \in 1 .. 1 |-> first]
  <2>1. A[1] = first /\ \A j \in 1 .. 1 : j = 1
    OBVIOUS
  <2>2. RunLoop(t, column, A, 1)
    BY <2>1 DEF RunLoop
  <2>3. RunState(column, A[1], 1)
    BY <2>1, FirstState
  <2> HIDE DEF A
  <2> QED
    BY <1>3, <1>4, <2>2, <2>3
<1>5. CASE k # 1
  <2>1. k \in 2 .. n /\ k - 1 \in Nat /\ k - 1 \in 1 .. n /\ ~(k <= k - 1)
    BY <1>1, <1>3, <1>5
  <2>2. Good(k - 1)
    <3>1. k - 1 \notin Bad
      <4> HIDE DEF Bad
      <4> QED
        BY <1>2, <2>1
    <3> HIDE DEF Good
    <3> QED
      BY <2>1, <3>1
  <2>3. PICK A : RunLoop(t, column, A, k - 1) /\ RunState(column, A[k - 1], k - 1)
    BY <2>2
  <2> DEFINE z == StepOf(t, A[k - 1], column[k])
             B == [j \in 1 .. k |-> IF j = k THEN z ELSE A[j]]
             E(f, j) == IF j = 1 THEN first ELSE StepOf(t, f[j - 1], column[j])
  <2>4. RunState(column, z, k)
    BY <2>1, <2>3, NextState DEF n
  <2> HIDE DEF z, first
  <2>5. A = [j \in 1 .. k - 1 |-> E(A, j)]
    BY <2>3 DEF RunLoop, first
  <2>6. ASSUME NEW j \in 1 .. k PROVE B[j] = E(B, j)
    <3>1. CASE j = k
      <4>1. B[j] = z /\ B[j - 1] = A[k - 1]
        BY <2>1, <3>1
      <4> HIDE DEF B
      <4> QED
        BY <1>5, <3>1, <4>1 DEF z
    <3>2. CASE j # k
      <4>1. j \in 1 .. k - 1 /\ B[j] = A[j] /\ (j # 1 => B[j - 1] = A[j - 1])
        BY <2>1, <3>2
      <4>2. A[j] = E(A, j)
        <5> HIDE DEF E
        <5> QED
          BY <2>5, <4>1
      <4> HIDE DEF B
      <4> QED
        BY <4>1, <4>2
    <3> QED
      BY <3>1, <3>2
  <2>7. B = [j \in 1 .. k |-> B[j]] /\ B[k] = z
    BY <2>1
  <2> HIDE DEF B
  <2>8. B = [j \in 1 .. k |-> E(B, j)]
    <3> HIDE DEF E
    <3> QED
      BY <2>6, <2>7
  <2>9. RunLoop(t, column, B, k)
    BY <2>8 DEF RunLoop, first
  <2> QED
    BY <1>3, <2>4, <2>7, <2>9
<1> QED
  BY <1>4, <1>5

\* What the loop computes is settled row by row.
LEMMA RLEEncodeIs ==
    ASSUME NEW column \in Seq(Int), Len(column) # 0, NEW t,
           NEW A, RunLoop(t, column, A, Len(column)), NEW last, last = A[Len(column)]
    PROVE  RLEEncode(t, column) = last.done \o PairOf(t, last.current, last.run)
<1> DEFINE n == Len(column)
           first == [done |-> <<>>, current |-> column[1], run |-> 1]
           E(f, k) == IF k = 1 THEN first ELSE StepOf(t, f[k - 1], column[k])
           R(f) == [k \in 1 .. n |-> E(f, k)]
           state == CHOOSE f : f = R(f)
<1>1. n \in Nat /\ n \in 1 .. n /\ column # <<>>
  BY LenProperties
<1>2. RLEEncode(t, column) = state[n].done \o PairOf(t, state[n].current, state[n].run)
  BY <1>1 DEF RLEEncode, StepOf, PairOf
<1>3. A = R(A)
  BY DEF RunLoop
<1>4. state = R(state)
  <2> HIDE DEF R
  <2> QED
    BY <1>3
<1> HIDE DEF state
<1> DEFINE Bad == {k \in Nat : k \in 1 .. n /\ state[k] # A[k]}
<1>5. Bad = {}
  <2> SUFFICES ASSUME Bad # {} PROVE FALSE
    OBVIOUS
  <2>1. PICK k \in Bad : \A j \in Bad : k <= j
    <3>1. Bad \subseteq Nat
      OBVIOUS
    <3> HIDE DEF Bad
    <3> QED
      BY <3>1, LeastNat
  <2>2. state[k] = E(state, k) /\ A[k] = E(A, k)
    <3>1. k \in 1 .. n
      OBVIOUS
    <3> HIDE DEF E
    <3> QED
      BY <1>3, <1>4, <3>1
  <2>3. k # 1
    BY <2>1, <2>2
  <2>4. k - 1 \in Nat /\ k - 1 \in 1 .. n /\ ~(k <= k - 1)
    BY <1>1, <2>3
  <2>5. state[k - 1] = A[k - 1]
    <3>1. k - 1 \notin Bad
      <4> HIDE DEF Bad
      <4> QED
        BY <2>1, <2>4
    <3> QED
      BY <2>4, <3>1
  <2>6. state[k] = A[k]
    <3> HIDE DEF Bad, R
    <3> QED
      BY <2>2, <2>3, <2>5
  <2> QED
    BY <2>6
<1>6. state[n] = last
  <2>1. n \notin Bad
    BY <1>5
  <2> QED
    BY <1>1, <2>1
<1> QED
  BY <1>2, <1>6

\* The encoder's fields unpack to the column.
LEMMA RunsUnpack ==
    ASSUME NEW column \in Seq(Int), NEW t
    PROVE  \E m, P : Unpacks(RLEEncode(t, column), column, m, P)
<1> DEFINE n == Len(column)
           buf == RLEEncode(t, column)
<1>1. n \in Nat /\ column = [i \in 1 .. n |-> column[i]]
  BY LenProperties
<1>3. CASE n = 0
  <2>1. column = <<>>
    BY <1>3, EmptySeq
  <2>2. buf = <<>>
    BY <2>1 DEF RLEEncode
  <2>3. buf \in Seq(FieldType) /\ Len(buf) = 0 /\ 2 * 0 = 0
    BY <2>2
  <2> DEFINE P == [k \in 0 .. 0 |-> <<>>]
  <2>4. Unpacks(buf, <<>>, 0, P)
    <3>1. P \in [0 .. 0 -> Seq(Int)] /\ P[0] = <<>>
      OBVIOUS
    <3>2. \A k \in 1 .. 0 : FALSE
      OBVIOUS
    <3> HIDE DEF P, buf
    <3> QED
      BY <2>3, <3>1, <3>2 DEF Unpacks
  <2> HIDE DEF buf, P
  <2> QED
    BY <2>1, <2>4 DEF buf
<1>4. CASE n # 0
  <2>1. PICK A : RunLoop(t, column, A, n) /\ RunState(column, A[n], n)
    BY <1>4, RunLoopExists
  <2> DEFINE s == A[n]
  <2>2. buf = s.done \o PairOf(t, s.current, s.run)
    BY <1>4, <2>1, RLEEncodeIs
  <2>3. s.current \in Int /\ s.run \in Nat
    BY <2>1 DEF RunState
  <2>4. PICK rows, m, P : /\ Unpacks(s.done, rows, m, P)
                          /\ rows \o Rep(s.current, s.run) = FirstRows(column, n)
    BY <2>1 DEF RunState
  <2> DEFINE d == s.done
             c == s.current
             r == s.run
  <2> HIDE DEF d, c, r
  <2>5. PICK Q : Unpacks(buf, FirstRows(column, n), m + 1, Q)
    <3>1. Unpacks(d, rows, m, P) /\ c \in Int /\ r \in Nat
      BY <2>3, <2>4 DEF d, c, r
    <3>2. PICK Q : Unpacks(d \o PairOf(t, c, r), rows \o Rep(c, r), m + 1, Q)
      BY <3>1, UnpacksMore
    <3>3. d \o PairOf(t, c, r) = buf /\ rows \o Rep(c, r) = FirstRows(column, n)
      BY <2>2, <2>4 DEF d, c, r
    <3> QED
      BY <3>2, <3>3
  <2> HIDE DEF buf
  <2>6. FirstRows(column, n) = column
    BY <1>1 DEF FirstRows
  <2> QED
    BY <2>5, <2>6 DEF buf
<1> QED
  BY <1>3, <1>4

\* The runs of an encoded column, end to end, are the column.
LEMMA RunsAre ==
    ASSUME NEW column \in Seq(Int), NEW t
    PROVE  LET buf == RLEEncode(t, column)
               runs == FlattenSeq([k \in 1 .. Len(buf) \div 2 |-> Rep(buf[2 * k - 1].v, buf[2 * k].v)])
           IN buf \in Seq(FieldType) /\ runs = column
<1> DEFINE buf == RLEEncode(t, column)
<1>1. PICK m, P : Unpacks(buf, column, m, P)
  BY RunsUnpack
<1> HIDE DEF buf
<1>2. FlattenSeq([k \in 1 .. Len(buf) \div 2 |-> Rep(buf[2 * k - 1].v, buf[2 * k].v)]) = column
  BY <1>1, FlattenIs
<1>3. buf \in Seq(FieldType)
  BY <1>1 DEF Unpacks
<1> QED
  BY <1>2, <1>3 DEF buf

\* The decoder takes as many rows of the runs as it is asked for.
LEMMA RLEDecodeIs ==
    ASSUME NEW column \in Seq(Int), NEW t, NEW old, NEW count
    PROVE  RLEDecode(RLEEncode(t, column), old, count)
               = [i \in 1 .. count |-> IF i <= Len(column) THEN column[i] ELSE old[i]]
<1> DEFINE buf == RLEEncode(t, column)
           runs == FlattenSeq([k \in 1 .. Len(buf) \div 2 |-> Rep(buf[2 * k - 1].v, buf[2 * k].v)])
<1>1. RLEDecode(buf, old, count) = [i \in 1 .. count |-> IF i <= Len(runs) THEN runs[i] ELSE old[i]]
  BY DEF RLEDecode, Rep
<1>2. runs = column
  BY RunsAre
<1> HIDE DEF buf, runs
<1> QED
  BY <1>1, <1>2 DEF buf

\* Told the number of rows, it gives the column back.
LEMMA RLERestores ==
    ASSUME NEW column \in Seq(Int), NEW t, NEW old
    PROVE  RLEDecode(RLEEncode(t, column), old, Len(column)) = column
<1> DEFINE n == Len(column)
<1>1. n \in Nat /\ column = [i \in 1 .. n |-> column[i]]
  BY LenProperties
<1>2. RLEDecode(RLEEncode(t, column), old, n) = [i \in 1 .. n |-> IF i <= n THEN column[i] ELSE old[i]]
  BY RLEDecodeIs
<1> HIDE DEF n
<1>3. [i \in 1 .. n |-> IF i <= n THEN column[i] ELSE old[i]] = [i \in 1 .. n |-> column[i]]
  BY <1>1
<1> QED
  BY <1>1, <1>2, <1>3 DEF n
-----------------------------------------------------------------------------
(* From a column to a buffer and back *)

\* The rows' values.
ValuesOf(rows) == [i \in DOMAIN rows |-> rows[i].value]

\* What Data() and Size() give of a column are the values of its rows.
LEMMA ContentsAre ==
    ASSUME NEW col, NEW rows, Agrees(col, rows)
    PROVE  /\ Contents(col) = ValuesOf(rows) /\ ValuesOf(rows) \in Seq(Int)
           /\ Len(ValuesOf(rows)) = Len(rows) /\ Len(rows) \in Nat
<1> DEFINE n == Len(rows)
           d == col.data
<1>1. /\ rows \in Seq(RowType) /\ d \in Seq(Int) /\ Len(d) = n /\ col.size = n
      /\ \A i \in 1 .. n : d[i] = rows[i].value
  BY DEF Agrees
<1>2. n \in Nat /\ DOMAIN rows = 1 .. n /\ d = [i \in 1 .. n |-> d[i]]
  BY <1>1, LenProperties
<1>3. Contents(col) = SubSeq(d, 1, n)
  BY <1>1, <1>2 DEF Contents, ReadValues
<1> HIDE DEF d, n
<1>4. SubSeq(d, 1, n) = d
  BY <1>1, <1>2
<1>5. ValuesOf(rows) = [i \in 1 .. n |-> d[i]]
  BY <1>1, <1>2 DEF ValuesOf
<1>6. ValuesOf(rows) = d
  BY <1>2, <1>5
<1> QED
  BY <1>1, <1>2, <1>3, <1>4, <1>6 DEF n

\* The arms of CreateEncoder for these three.
LEMMA EncodeArms ==
    ASSUME NEW t, NEW e \in {"Plain", "RLE", "Delta"}, t = "Double" => e # "Delta",
           NEW column, NEW wide
    PROVE  /\ e = "Plain" => EncodeColumn(e, t, column, wide) = PlainEncode(t, column)
           /\ e = "RLE" => EncodeColumn(e, t, column, wide) = RLEEncode(t, column)
           /\ e = "Delta" => EncodeColumn(e, t, column, wide) = DeltaEncode(t, column)
<1>1. ~FallsBack(e, t)
  BY DEF FallsBack
<1>2. CASE e = "Plain"
  BY <1>1, <1>2 DEF EncodeColumn
<1>3. CASE e = "RLE"
  BY <1>1, <1>3 DEF EncodeColumn
<1>4. CASE e = "Delta"
  BY <1>1, <1>4 DEF EncodeColumn
<1> QED
  BY <1>2, <1>3, <1>4

\* The arms of CreateDecoder.
DecodesAs(e, t, buf, old, count) ==
    /\ e = "Plain" => DecodeColumn(e, t, buf, old, count) = PlainDecode(buf, count)
    /\ e = "RLE" => DecodeColumn(e, t, buf, old, count) = RLEDecode(buf, old, count)
    /\ e = "Delta" => DecodeColumn(e, t, buf, old, count)
                         = IF count = 0 THEN <<>> ELSE DeltaDecode(t, buf, count)

\* They are taken as CreateDecoder's switch takes them.
LEMMA DecodeArms ==
    ASSUME NEW t, NEW e \in {"Plain", "RLE", "Delta"}, t = "Double" => e # "Delta",
           NEW buf, NEW old, NEW count \in Nat
    PROVE  DecodesAs(e, t, buf, old, count)
<1>1. ~FallsBack(e, t)
  BY DEF FallsBack
<1>2. CASE e = "Plain"
  BY <1>1, <1>2 DEF DecodesAs, DecodeColumn
<1>3. CASE e = "RLE"
  BY <1>1, <1>3 DEF DecodesAs, DecodeColumn
<1>4. CASE e = "Delta"
  <2>1. t # "Double"
    BY <1>4
  <2>2. CASE count = 0
    BY <1>1, <1>4, <2>1, <2>2 DEF DecodesAs, DecodeColumn
  <2>3. CASE count > 0
    BY <1>1, <1>4, <2>1, <2>3 DEF DecodesAs, DecodeColumn
  <2> QED
    BY <2>2, <2>3
<1> QED
  BY <1>2, <1>3, <1>4

\* Told the number of rows, the decoder gives the column back.
LEMMA DecodeRestores ==
    ASSUME NEW t, NEW e \in {"Plain", "RLE", "Delta"}, t = "Double" => e # "Delta",
           NEW column \in Seq(Int), \A i \in 1 .. Len(column) : column[i] \in Natives(t),
           NEW wide, NEW old
    PROVE  DecodeColumn(e, t, EncodeColumn(e, t, column, wide), old, Len(column)) = column
<1> DEFINE n == Len(column)
           buf == EncodeColumn(e, t, column, wide)
<1>0. n \in Nat
  BY LenProperties
<1> HIDE DEF buf, n
<1>4. DecodesAs(e, t, buf, old, n)
  BY <1>0, DecodeArms
<1>1. CASE e = "Plain"
  <2>1. buf = PlainEncode(t, column) /\ DecodeColumn(e, t, buf, old, n) = PlainDecode(buf, n)
    <3>1. buf = PlainEncode(t, column)
      BY <1>0, <1>1, EncodeArms DEF buf
    <3>2. DecodeColumn(e, t, buf, old, n) = PlainDecode(buf, n)
      BY <1>4, <1>1 DEF DecodesAs
    <3> QED
      BY <1>1, <3>1, <3>2
  <2> QED
    BY <2>1, PlainRestores DEF buf, n
<1>2. CASE e = "RLE"
  <2>1. buf = RLEEncode(t, column) /\ DecodeColumn(e, t, buf, old, n) = RLEDecode(buf, old, n)
    <3>1. buf = RLEEncode(t, column)
      BY <1>0, <1>2, EncodeArms DEF buf
    <3>2. DecodeColumn(e, t, buf, old, n) = RLEDecode(buf, old, n)
      BY <1>4, <1>2 DEF DecodesAs
    <3> QED
      BY <1>2, <3>1, <3>2
  <2> QED
    BY <2>1, RLERestores DEF buf, n
<1>3. CASE e = "Delta"
  <2>1. /\ buf = DeltaEncode(t, column) /\ t # "Double"
        /\ DecodeColumn(e, t, buf, old, n) = IF n = 0 THEN <<>> ELSE DeltaDecode(t, buf, n)
    <3>1. buf = DeltaEncode(t, column)
      BY <1>0, <1>3, EncodeArms DEF buf
    <3>2. DecodeColumn(e, t, buf, old, n) = IF n = 0 THEN <<>> ELSE DeltaDecode(t, buf, n)
      BY <1>4, <1>3 DEF DecodesAs
    <3> QED
      BY <1>3, <3>1, <3>2
  <2>2. CASE n = 0
    <3>1. column = <<>>
      BY <2>2, EmptySeq DEF n
    <3> QED
      BY <2>1, <2>2, <3>1 DEF buf, n
  <2>3. CASE n # 0
    BY <2>1, <2>3, DeltaRestores DEF buf, n
  <2> QED
    BY <2>2, <2>3
<1> QED
  BY <1>1, <1>2, <1>3

\* For Plain and Delta the encoded size tells the number of rows.
LEMMA SizeTellsRows ==
    ASSUME NEW t, NEW e \in {"Plain", "Delta"}, t = "Double" => e # "Delta",
           NEW column \in Seq(Int), NEW wide
    PROVE  Size(EncodeColumn(e, t, column, wide)) \div NativeBytes(t) = Len(column)
<1> DEFINE buf == EncodeColumn(e, t, column, wide)
<1>1. buf = PlainEncode(t, column) \/ buf = DeltaEncode(t, column)
  <2>1. 0 \in Nat /\ e \in {"Plain", "RLE", "Delta"}
    OBVIOUS
  <2>2. CASE e = "Plain"
    BY <2>1, <2>2, EncodeArms
  <2>3. CASE e = "Delta"
    BY <2>1, <2>3, EncodeArms
  <2> QED
    BY <2>2, <2>3
<1> HIDE DEF buf
<1>2. Size(buf) \div NativeBytes(t) = Len(column)
  BY <1>1, EncodedSize
<1> QED
  BY <1>2 DEF buf

\* The column a decoder fills is what it decodes.
LEMMA DecodedContents ==
    ASSUME NEW column \in Seq(Int), NEW count, count = Len(column),
           DecodeColumn(enc, type, buffer, Resize(out, count).data, count) = column
    PROVE  Contents(Decoded(count)) = column
<1> DEFINE c == Decoded(count)
           old == Resize(out, count)
<1>1. count \in Nat /\ column = [i \in 1 .. count |-> column[i]]
  BY LenProperties
<1>2. /\ old = [data |-> old.data, nulls |-> old.nulls, size |-> count]
  BY DEF Resize
<1>3. c = [old EXCEPT !.data = DecodeColumn(enc, type, buffer, old.data, count)]
  BY DEF Decoded
<1> HIDE DEF old, c
<1>4. c.data = column /\ c.size = count
  BY <1>2, <1>3 DEF old
<1>5. SubSeq(column, 1, count) = column
  BY <1>1
<1> QED
  BY <1>1, <1>4, <1>5 DEF Contents, ReadValues, c

\* An encoded column: the buffer is what the encoder made of it.  A decoded one
\* is the column again, by whichever reader these encodings allow.
EncodedAs(e, t, column, buf) == \E wide \in BOOLEAN : buf = EncodeColumn(e, t, column, wide)
CodecInv ==
    /\ FillInv
    /\ phase \in {"looping", "crashed", "encoded", "decoded", "read"} => enc \in Encodings[type]
    /\ phase \in {"looping", "crashed"} => enc \in {"FOR", "BitPack"}
    /\ phase = "encoded" => EncodedAs(enc, type, ValuesOf(held), buffer)
    /\ phase = "decoded" /\ enc \in {"Plain", "RLE", "Delta"} => Contents(out) = ValuesOf(held)
    /\ phase = "read" /\ enc \in {"Plain", "Delta"} => Contents(out) = ValuesOf(held)

\* No Delta for doubles: CreateEncoder has no such codec.
NoDoubleDelta == \A t \in Types : t = "Double" => "Delta" \notin Encodings[t]

\* Every step keeps it: Encode, Decode and ReadColumn, and all that leave the codecs' phases.
LEMMA CodecInvNext ==
    ASSUME NoDoubleDelta, CodecInv, [Next]_vars PROVE CodecInv'
<1>1. FillInv /\ FillInv'
  BY FillInvNext DEF CodecInv
<1>2. /\ type \in Types /\ Agrees(src, held) /\ Fits(held, type)
  BY <1>1 DEF FillInv
<1> DEFINE column == ValuesOf(held)
<1>3. /\ Contents(src) = column /\ column \in Seq(Int) /\ Len(column) = Len(held) /\ Len(held) \in Nat
  BY <1>2, ContentsAre
<1>4. \A i \in 1 .. Len(column) : column[i] \in Natives(type)
  <2>1. DOMAIN held = 1 .. Len(held)
    BY <1>2, LenProperties DEF Agrees
  <2> QED
    BY <1>2, <1>3, <2>1 DEF Fits, ValuesOf
<1> HIDE DEF column
<1>5. ASSUME phase = "encoded", enc \in {"Plain", "RLE", "Delta"},
             NEW old
      PROVE  DecodeColumn(enc, type, buffer, old, Len(column)) = column
  <2>1. PICK wide \in BOOLEAN : buffer = EncodeColumn(enc, type, column, wide)
    BY <1>5 DEF CodecInv, EncodedAs, column
  <2>2. type = "Double" => enc # "Delta"
    BY <1>2, <1>5 DEF CodecInv, NoDoubleDelta
  <2>3. DecodeColumn(enc, type, EncodeColumn(enc, type, column, wide), old, Len(column)) = column
    BY <1>3, <1>4, <1>5, <2>2, DecodeRestores
  <2> QED
    BY <2>1, <2>3
<1>6. CASE enc = NoEncoding /\ Encode
  <2>1. PICK e \in Encodings[type], wide \in BOOLEAN :
           /\ enc' = e
           /\ \/ /\ Loops(e, Contents(src)) \/ Crashes(e, Contents(src))
                 /\ phase' \in {"looping", "crashed"}
              \/ phase' = "encoded" /\ buffer' = EncodeColumn(e, type, Contents(src), wide)
    BY <1>6 DEF Encode
  <2>2. type' = type /\ held' = held
    BY <1>6 DEF Encode
  <2>3. CASE /\ Loops(e, Contents(src)) \/ Crashes(e, Contents(src))
             /\ phase' \in {"looping", "crashed"}
    <3>1. phase' \in {"looping", "crashed"} /\ enc' \in {"FOR", "BitPack"} /\ enc' \in Encodings[type']
      BY <2>1, <2>2, <2>3 DEF Loops, Crashes
    <3> QED
      BY <1>1, <3>1 DEF CodecInv
  <2>4. CASE phase' = "encoded" /\ buffer' = EncodeColumn(e, type, Contents(src), wide)
    <3>1. phase' = "encoded" /\ enc' \in Encodings[type'] /\ enc' = e
      BY <2>1, <2>2, <2>4
    <3>2. buffer' = EncodeColumn(enc', type', ValuesOf(held'), wide)
      BY <1>3, <2>1, <2>2, <2>4 DEF column
    <3>3. EncodedAs(enc, type, ValuesOf(held), buffer)'
      BY <3>2 DEF EncodedAs
    <3> QED
      BY <1>1, <3>1, <3>3 DEF CodecInv
  <2> QED
    BY <2>1, <2>3, <2>4
<1>7. CASE Decode
  <2>1. /\ phase = "encoded" /\ out' = Decoded(Len(held)) /\ phase' = "decoded"
        /\ type' = type /\ enc' = enc /\ held' = held
    BY <1>7 DEF Decode
  <2>2. ASSUME enc \in {"Plain", "RLE", "Delta"} PROVE Contents(out') = column
    <3>1. DecodeColumn(enc, type, buffer, Resize(out, Len(column)).data, Len(column)) = column
      BY <1>5, <2>1, <2>2
    <3>2. Contents(Decoded(Len(column))) = column
      BY <1>3, <3>1, DecodedContents
    <3> QED
      BY <1>3, <2>1, <3>2
  <2>3. enc' \in Encodings[type']
    BY <2>1 DEF CodecInv
  <2>4. enc' \in {"Plain", "RLE", "Delta"} => Contents(out') = ValuesOf(held')
    BY <2>1, <2>2 DEF column
  <2> QED
    BY <1>1, <2>1, <2>3, <2>4 DEF CodecInv
<1>8. CASE ReadColumn
  <2>1. /\ phase = "encoded" /\ out' = Decoded(RowCount) /\ phase' = "read"
        /\ type' = type /\ enc' = enc /\ held' = held
    BY <1>8 DEF ReadColumn
  <2>2. ASSUME enc \in {"Plain", "Delta"} PROVE Contents(out') = column
    <3>1. PICK wide \in BOOLEAN : buffer = EncodeColumn(enc, type, column, wide)
      BY <2>1 DEF CodecInv, EncodedAs, column
    <3>2. type = "Double" => enc # "Delta"
      BY <1>2, <2>1 DEF CodecInv, NoDoubleDelta
    <3>3. Size(EncodeColumn(enc, type, column, wide)) \div NativeBytes(type) = Len(column)
      BY <1>3, <2>2, <3>2, SizeTellsRows
    <3>4. RowCount = Len(column)
      BY <3>1, <3>3 DEF RowCount
    <3>5. DecodeColumn(enc, type, buffer, Resize(out, Len(column)).data, Len(column)) = column
      BY <1>5, <2>1, <2>2
    <3>6. Contents(Decoded(Len(column))) = column
      BY <1>3, <3>5, DecodedContents
    <3> QED
      BY <2>1, <3>4, <3>6
  <2>3. enc' \in Encodings[type']
    BY <2>1 DEF CodecInv
  <2>4. enc' \in {"Plain", "Delta"} => Contents(out') = ValuesOf(held')
    BY <2>1, <2>2 DEF column
  <2> QED
    BY <1>1, <2>1, <2>3, <2>4 DEF CodecInv
<1>9. ASSUME phase' \notin {"looping", "crashed", "encoded", "decoded", "read"} PROVE CodecInv'
  BY <1>1, <1>9 DEF CodecInv
<1>10. CASE AppendOne \/ AppendMany \/ AppendNull \/ \E i \in DOMAIN held, null \in BOOLEAN : MarkNull(i, null)
  <2>1. phase' = "filled"
    BY <1>10 DEF AppendOne, AppendMany, AppendNull, MarkNull, Fill
  <2> QED
    BY <1>9, <2>1
<1>11. CASE FilterInto \/ CopyInto
  <2>1. phase' = "picking"
    BY <1>11 DEF FilterInto, CopyInto, Pick
  <2> QED
    BY <1>9, <2>1
<1>12. ASSUME NEW kind, NEW modulo, ObjectEncode(kind, modulo) PROVE CodecInv'
  <2>1. phase' \in {"written", "taken"}
    BY <1>12 DEF ObjectEncode
  <2> QED
    BY <1>9, <2>1
<1>13. CASE ObjectWrite
  BY <1>9, <1>13 DEF ObjectWrite
<1>14. ASSUME NEW keep, ObjectRead(keep) PROVE CodecInv'
  BY <1>9, <1>14 DEF ObjectRead
<1>15. CASE Refill
  BY <1>9, <1>15 DEF Refill
<1>16. CASE UNCHANGED vars
  <2>1. UNCHANGED <<type, enc, buffer, out, phase, held>>
    BY <1>16 DEF vars
  <2> QED
    BY <1>1, <2>1 DEF CodecInv
<1> QED
  BY <1>6, <1>7, <1>8, <1>10, <1>11, <1>12, <1>13, <1>14, <1>15, <1>16 DEF Next, Done

\* The first state has it.
LEMMA CodecInvInit ==
    ASSUME Capacities \subseteq {0}, Init PROVE CodecInv
  BY FillInvInit DEF CodecInv, Init

\* SegmentReadsBack, whatever the length of the column and the widths of the types.
THEOREM SegmentsReadBack ==
    ASSUME Capacities \subseteq {0}, NoDoubleDelta PROVE Spec => []SegmentReadsBack
<1>1. Appended = ValuesOf(held)
  BY DEF Appended, ValuesOf
<1>2. CodecInv => SegmentReadsBack
  BY <1>1 DEF CodecInv, SegmentReadsBack
<1> QED
  BY <1>2, CodecInvInit, CodecInvNext, PTL DEF Spec

\* RoundTrip, and that the encoder returns, where the encoding is Plain, RLE or
\* Delta: the decoder gives the column back, whatever its values.
THEOREM PlainRunsAndDeltasRoundTrip ==
    ASSUME Capacities \subseteq {0}, NoDoubleDelta
    PROVE  Spec => [](enc \in {"Plain", "RLE", "Delta"} =>
                         RoundTrip /\ EncoderReturns /\ EncoderStaysInBounds)
<1>1. Appended = ValuesOf(held)
  BY DEF Appended, ValuesOf
<1>2. CodecInv => (enc \in {"Plain", "RLE", "Delta"} =>
                       RoundTrip /\ EncoderReturns /\ EncoderStaysInBounds)
  BY <1>1 DEF CodecInv, RoundTrip, EncoderReturns, EncoderStaysInBounds
<1> QED
  BY <1>2, CodecInvInit, CodecInvNext, PTL DEF Spec
-----------------------------------------------------------------------------
(* Segments and merges *)

\* A row of a table, and a column of rows.
TableRow == [1 .. NumColumns -> Natives("Int32")]
ColumnOf(rows, c) == [i \in DOMAIN rows |-> rows[i][c]]

\* What GetColumn decodes from the column's own bytes.  The encoded size gives
\* the row count, so that a column of short runs reads shorter than it is.
Reading(e, column) ==
    LET buf == EncodeColumn(e, "Int32", column, TRUE)
        count == Size(buf) \div NativeBytes("Int32")
    IN DecodeColumn(e, "Int32", buf, [i \in 1 .. count |-> 0], count)

\* Statistics that hold of column c of the rows, of which some were declared null.
Bounds(s, rows, nulls, c) ==
    LET shown == DOMAIN rows \ nulls IN
    /\ \A i \in shown : s.min <= rows[i][c] /\ rows[i][c] <= s.max
    /\ rows # <<>> => {s.min, s.max} \subseteq {rows[i][c] : i \in shown \cup {1}}

\* A segment object made of these rows: the header counts and bounds them, and
\* what it has cached is what it read from its own file.
MadeOf(s, rows) ==
    /\ rows \in Seq(TableRow) /\ s.numRows = Len(rows)
    /\ s.enc \in {"Plain", "RLE", "Delta"}
    /\ s.cache = [c \in DOMAIN s.cache |-> s.cache[c]]
    /\ DOMAIN s.cache = 1 .. NumColumns \/ (DOMAIN s.cache = {} /\ rows = <<>>)
    /\ \A c \in DOMAIN s.cache : /\ s.cache[c] \in {NotLoaded, Reading(s.enc, ColumnOf(rows, c))}
                                 /\ Bounds(s.stats[c], rows, s.declared, c)

\* The file holds the rows, column by column.
StoredIn(buffers, s, rows) ==
    \A c \in DOMAIN s.cache : buffers[c] = EncodeColumn(s.enc, "Int32", ColumnOf(rows, c), TRUE)

IsFile(f) == f = [version |-> f.version, buffers |-> f.buffers] /\ f.version \in Nat
IsSegment(s) ==
    /\ s = [path |-> s.path, version |-> s.version, enc |-> s.enc, createdTs |-> s.createdTs,
            numRows |-> s.numRows, stats |-> s.stats, declared |-> s.declared, cache |-> s.cache]
    /\ s.path \in Paths /\ s.version \in Nat /\ s.createdTs = 0

\* An object's version was its file's once; as long as it still is, the file
\* holds the rows the object was made of.
ObjectInv(o) ==
    /\ IsSegment(segments[o])
    /\ segments[o].version <= files[segments[o].path].version
    /\ holds[o] # Unknown =>
          /\ MadeOf(segments[o], holds[o])
          /\ Current(o) => StoredIn(files[segments[o].path].buffers, segments[o], holds[o])

\* The size of every column's encoding covers the rows.
Whole(s, rows) ==
    \A c \in 1 .. NumColumns : Len(Reading(s.enc, ColumnOf(rows, c))) >= Len(rows)

\* The output file belongs to no object yet.  As long as no input is lost the
\* task's rows are those of the inputs, and all of them can be read.
TaskInv ==
    task # Idle =>
        /\ task.path \in Paths
        /\ \A o \in Objects : segments[o].path = task.path
                                  => segments[o].version < files[task.path].version
        /\ task.inputs \in Seq(Objects)
        /\ \A k \in DOMAIN task.inputs : segments[task.inputs[k]].path # task.path
        /\ task.rows # Unknown /\ (\A k \in DOMAIN task.inputs : StillHolds(task.inputs[k]) # Unknown) =>
              /\ \A k \in DOMAIN task.inputs :
                     LET o == task.inputs[k] IN
                     DOMAIN segments[o].cache = 1 .. NumColumns /\ Whole(segments[o], holds[o])
              /\ task.rows = FlattenSeq([k \in DOMAIN task.inputs |-> holds[task.inputs[k]]])

IsSequence(s) == \E S : s \in Seq(S)

MergeInv ==
    /\ DOMAIN files = Paths /\ \A p \in Paths : IsFile(files[p])
    /\ IsSequence(segments) /\ IsSequence(holds) /\ Len(holds) = Len(segments)
    /\ \A o \in Objects : ObjectInv(o)
    /\ TaskInv
-----------------------------------------------------------------------------
(* Reading a segment *)

\* The sum of the first k widths of a buffer, for k up to n.
SizeLoop(buf, A, n) ==
    /\ A \in [0 .. n -> Nat]
    /\ \A k \in 0 .. n : A[k] = IF k = 0 THEN 0 ELSE A[k - 1] + buf[k].w

\* There are such sums.
LEMMA SizeLoopExists ==
    ASSUME NEW buf \in Seq(FieldType), NEW m \in Nat, m <= Len(buf)
    PROVE  \E A : SizeLoop(buf, A, m)
<1>1. Len(buf) \in Nat /\ \A k \in 1 .. Len(buf) : buf[k].w \in Nat
  <2>1. \A k \in 1 .. Len(buf) : buf[k] \in FieldType
    BY ElementOfSeq
  <2> QED
    BY <2>1, LenProperties DEF FieldType
<1> DEFINE Bad == {k \in Nat : k <= Len(buf) /\ ~(\E A : SizeLoop(buf, A, k))}
<1>2. Bad = {}
  <2> SUFFICES ASSUME Bad # {} PROVE FALSE
    OBVIOUS
  <2>1. PICK k \in Bad : \A j \in Bad : k <= j
    <3>1. Bad \subseteq Nat
      OBVIOUS
    <3> HIDE DEF Bad
    <3> QED
      BY <3>1, LeastNat
  <2>2. CASE k = 0
    <3> DEFINE A == [i \in 0 .. 0 |-> 0]
    <3>1. SizeLoop(buf, A, 0)
      BY DEF SizeLoop
    <3> QED
      BY <2>2, <3>1
  <2>3. CASE k # 0
    <3>1. k - 1 \in Nat /\ k \in Nat /\ k \in 1 .. Len(buf) /\ k - 1 <= Len(buf) /\ ~(k <= k - 1)
      BY <1>1, <2>3
    <3>2. k - 1 \notin Bad
      <4> HIDE DEF Bad
      <4> QED
        BY <2>1, <3>1
    <3>3. PICK A : SizeLoop(buf, A, k - 1)
      BY <3>1, <3>2
    <3> DEFINE B == [i \in 0 .. k |-> IF i = k THEN A[k - 1] + buf[k].w ELSE A[i]]
    <3>4. A \in [0 .. k - 1 -> Nat] /\ A[k - 1] \in Nat /\ buf[k].w \in Nat
      BY <1>1, <3>1, <3>3 DEF SizeLoop
    <3>5. B \in [0 .. k -> Nat]
      BY <3>1, <3>4
    <3>6. ASSUME NEW i \in 0 .. k PROVE B[i] = IF i = 0 THEN 0 ELSE B[i - 1] + buf[i].w
      <4>1. CASE i = k
        <5>1. k # 0 /\ k - 1 \in 0 .. k /\ k - 1 # k
          BY <3>1
        <5> QED
          BY <4>1, <5>1
      <4>2. CASE i # k
        <5>1. i \in 0 .. k - 1 /\ (i # 0 => i - 1 \in 0 .. k /\ i - 1 # k)
          BY <3>1, <4>2
        <5>2. A[i] = IF i = 0 THEN 0 ELSE A[i - 1] + buf[i].w
          BY <3>3, <5>1 DEF SizeLoop
        <5> QED
          BY <4>2, <5>1, <5>2
      <4> QED
        BY <4>1, <4>2
    <3> HIDE DEF B
    <3>7. SizeLoop(buf, B, k)
      BY <3>5, <3>6 DEF SizeLoop
    <3> QED
      BY <3>7
  <2> QED
    BY <2>2, <2>3
<1> QED
  BY <1>2

\* A buffer's size is a natural number.
LEMMA SizeNatural ==
    ASSUME NEW buf \in Seq(FieldType) PROVE Size(buf) \in Nat
<1> DEFINE n == Len(buf)
           E(f, k) == IF k = 0 THEN 0 ELSE f[k - 1] + buf[k].w
           R(f) == [k \in 0 .. n |-> E(f, k)]
           size == CHOOSE f : f = R(f)
<1>1. Size(buf) = size[n] /\ n \in Nat
  BY LenProperties DEF Size
<1>2. PICK A : SizeLoop(buf, A, n)
  BY <1>1, SizeLoopExists
<1>3. A = R(A)
  <2>1. A \in [0 .. n -> Nat] /\ \A k \in 0 .. n : A[k] = E(A, k)
    BY <1>2 DEF SizeLoop
  <2>2. A = [k \in 0 .. n |-> A[k]]
    BY <2>1
  <2> HIDE DEF E
  <2> QED
    BY <2>1, <2>2
<1>4. size = R(size)
  <2> HIDE DEF R
  <2> QED
    BY <1>3
<1> HIDE DEF size
<1> DEFINE Bad == {k \in Nat : k <= n /\ size[k] # A[k]}
<1>5. Bad = {}
  <2> SUFFICES ASSUME Bad # {} PROVE FALSE
    OBVIOUS
  <2>1. PICK k \in Bad : \A j \in Bad : k <= j
    <3>1. Bad \subseteq Nat
      OBVIOUS
    <3> HIDE DEF Bad
    <3> QED
      BY <3>1, LeastNat
  <2>2. size[k] = E(size, k) /\ A[k] = E(A, k)
    <3>1. k \in 0 .. n
      BY <1>1
    <3> HIDE DEF E
    <3> QED
      BY <1>3, <1>4, <3>1
  <2>3. k # 0
    BY <2>2
  <2>4. k - 1 \in Nat /\ k - 1 <= n /\ ~(k <= k - 1)
    BY <1>1, <2>3
  <2>5. size[k - 1] = A[k - 1]
    <3>1. k - 1 \notin Bad
      <4> HIDE DEF Bad
      <4> QED
        BY <2>1, <2>4
    <3> QED
      BY <2>4, <3>1
  <2>6. size[k] = A[k]
    <3> HIDE DEF Bad, R
    <3> QED
      BY <2>2, <2>3, <2>5
  <2> QED
    BY <2>6
<1>6. size[n] = A[n]
  BY <1>1, <1>5
<1>7. A[n] \in Nat
  BY <1>1, <1>2 DEF SizeLoop
<1> QED
  BY <1>1, <1>6, <1>7

\* A column that these encodings can hold, and its way to a buffer and back.
Encodable(e, t, column) ==
    /\ e \in {"Plain", "RLE", "Delta"} /\ (t = "Double" => e # "Delta")
    /\ column \in Seq(Int) /\ \A i \in 1 .. Len(column) : column[i] \in Natives(t)
GivesBack(e, t, column, wide, old) ==
    DecodeColumn(e, t, EncodeColumn(e, t, column, wide), old, Len(column)) = column

\* DecodeRestores of such a column.
LEMMA EncodableGivenBack ==
    ASSUME NEW e, NEW t, NEW column, Encodable(e, t, column), NEW wide \in BOOLEAN, NEW old \in Seq(Int)
    PROVE  GivesBack(e, t, column, wide, old)
  BY DecodeRestores DEF Encodable, GivesBack

\* Read from its own bytes a column is itself, as far as the reader's row count
\* goes; past the last run lie the zeros of a fresh column.
LEMMA ReadingIs ==
    ASSUME NEW e \in {"Plain", "RLE", "Delta"}, NEW column \in Seq(Int),
           \A i \in 1 .. Len(column) : column[i] \in Natives("Int32")
    PROVE  /\ Reading(e, column) \in Seq(Int)
           /\ Len(Reading(e, column)) >= Len(column)
                  => \A i \in 1 .. Len(column) : /\ i \in DOMAIN Reading(e, column)
                                                 /\ Reading(e, column)[i] = column[i]
<1> DEFINE buf == EncodeColumn(e, "Int32", column, TRUE)
           count == Size(buf) \div NativeBytes("Int32")
           zeros == [i \in 1 .. count |-> 0]
           reading == Reading(e, column)
           n == Len(column)
<1>1. n \in Nat /\ DOMAIN column = 1 .. n
  BY LenProperties
<1>2. reading = DecodeColumn(e, "Int32", buf, zeros, count)
  BY DEF Reading
<1>3. CASE e \in {"Plain", "Delta"}
  <2>1. count = n
    BY <1>3, SizeTellsRows
  <2> HIDE DEF buf, zeros, count
  <2>2. DecodeColumn(e, "Int32", buf, zeros, n) = column
    <3>1. Encodable(e, "Int32", column)
      BY DEF Encodable
    <3>2. zeros \in Seq(Int)
      BY <1>1, <2>1 DEF zeros
    <3>3. GivesBack(e, "Int32", column, TRUE, zeros)
      BY <3>1, <3>2, EncodableGivenBack
    <3> QED
      BY <3>3 DEF GivesBack, buf
  <2>3. reading = column
    BY <1>2, <2>1, <2>2
  <2> QED
    BY <1>1, <2>3
<1>4. CASE e = "RLE"
  <2>1. buf = RLEEncode("Int32", column)
    BY <1>4, EncodeArms
  <2>2. count \in Nat
    <3>1. buf \in Seq(FieldType)
      BY <2>1, RunsAre
    <3> HIDE DEF buf
    <3>2. Size(buf) \in Nat
      BY <3>1, SizeNatural
    <3> QED
      BY <3>2 DEF NativeBytes
  <2> HIDE DEF buf, count
  <2>3. DecodesAs(e, "Int32", buf, zeros, count)
    <3> HIDE DEF zeros
    <3> QED
      BY <2>2, DecodeArms
  <2>4. reading = RLEDecode(buf, zeros, count)
    BY <1>2, <1>4, <2>3 DEF DecodesAs
  <2>5. reading = [i \in 1 .. count |-> IF i <= n THEN column[i] ELSE zeros[i]]
    <3> HIDE DEF zeros
    <3> QED
      BY <2>1, <2>4, RLEDecodeIs
  <2> HIDE DEF reading
  <2>6. ASSUME NEW i \in 1 .. count PROVE (IF i <= n THEN column[i] ELSE zeros[i]) \in Int
    <3>1. CASE i <= n
      BY <1>1, <3>1, ElementOfSeq
    <3>2. CASE ~(i <= n)
      BY <3>2
    <3> QED
      BY <3>1, <3>2
  <2>7. reading \in Seq(Int) /\ Len(reading) = count /\ DOMAIN reading = 1 .. count
    <3> HIDE DEF n, zeros
    <3> QED
      BY <2>2, <2>5, <2>6
  <2>8. ASSUME count >= n, NEW i \in 1 .. n PROVE i \in DOMAIN reading /\ reading[i] = column[i]
    <3>1. i \in 1 .. count /\ i <= n
      BY <1>1, <2>2, <2>8
    <3> QED
      BY <2>5, <2>7, <3>1
  <2> QED
    BY <2>7, <2>8 DEF reading
<1> QED
  BY <1>3, <1>4

\* A column of rows.
LEMMA ColumnOfRows ==
    ASSUME NEW rows \in Seq(TableRow), NEW c \in 1 .. NumColumns
    PROVE  /\ ColumnOf(rows, c) \in Seq(Int) /\ Len(ColumnOf(rows, c)) = Len(rows)
           /\ DOMAIN ColumnOf(rows, c) = 1 .. Len(rows) /\ DOMAIN rows = 1 .. Len(rows)
           /\ Len(rows) \in Nat
           /\ \A i \in 1 .. Len(rows) : /\ ColumnOf(rows, c)[i] = rows[i][c]
                                        /\ ColumnOf(rows, c)[i] \in Natives("Int32")
<1> DEFINE n == Len(rows)
<1>1. n \in Nat /\ DOMAIN rows = 1 .. n
  BY LenProperties
<1>2. ASSUME NEW i \in 1 .. n PROVE rows[i][c] \in Natives("Int32") /\ rows[i][c] \in Int
  <2>1. rows[i] \in TableRow
    BY <1>1, ElementOfSeq
  <2>2. rows[i][c] \in Natives("Int32")
    BY <2>1 DEF TableRow
  <2> QED
    BY <2>2, NativesAreIntegers
<1> HIDE DEF n
<1>3. ColumnOf(rows, c) = [i \in 1 .. n |-> rows[i][c]]
  BY <1>1 DEF ColumnOf
<1>4. ColumnOf(rows, c) \in [1 .. n -> Int]
  BY <1>2, <1>3
<1> QED
  BY <1>1, <1>2, <1>3, <1>4 DEF n

\* A set of values of one type has a least and a greatest one.
LEMMA BoundsExist ==
    ASSUME NEW S, S \subseteq Natives("Int32"), S # {}
    PROVE  /\ Min(S) \in S /\ Max(S) \in S
           /\ \A v \in S : Min(S) <= v /\ v <= Max(S)
<1> DEFINE h == HalfRange("Int32")
           Up == {v + h : v \in S}
           Down == {h - 1 - v : v \in S}
<1>1. h \in Nat
  BY HalfRangePositive
<1>2. Natives("Int32") = -h .. h - 1
  BY DEF Natives
<1> HIDE DEF h
<1>3. \A v \in S : v \in Int /\ -h <= v /\ v <= h - 1
  BY <1>1, <1>2
<1>4. \E x \in S : \A y \in S : x =< y
  <2>1. Up \subseteq Nat /\ Up # {}
    BY <1>1, <1>3
  <2> HIDE DEF Up
  <2>2. PICK u \in Up : \A w \in Up : u <= w
    BY <2>1, LeastNat
  <2> USE DEF Up
  <2>3. PICK x \in S : u = x + h
    OBVIOUS
  <2>4. ASSUME NEW y \in S PROVE x =< y
    <3>1. u <= y + h
      BY <2>2
    <3> QED
      BY <1>1, <1>3, <2>3, <3>1
  <2> QED
    BY <2>4
<1>5. \E x \in S : \A y \in S : x >= y
  <2>1. Down \subseteq Nat /\ Down # {}
    BY <1>1, <1>3
  <2> HIDE DEF Down
  <2>2. PICK u \in Down : \A w \in Down : u <= w
    BY <2>1, LeastNat
  <2> USE DEF Down
  <2>3. PICK x \in S : u = h - 1 - x
    OBVIOUS
  <2>4. ASSUME NEW y \in S PROVE x >= y
    <3>1. u <= h - 1 - y
      BY <2>2
    <3> QED
      BY <1>1, <1>3, <2>3, <3>1
  <2> QED
    BY <2>4
<1>6. Min(S) \in S /\ \A y \in S : Min(S) =< y
  BY <1>4 DEF Min
<1>7. Max(S) \in S /\ \A y \in S : Max(S) >= y
  BY <1>5 DEF Max
<1> QED
  BY <1>3, <1>6, <1>7

\* The writer's statistics bound the rows of a column that are not null; a first
\* row that is null counts too.
LEMMA StatsBound ==
    ASSUME NEW rows \in Seq(TableRow), NEW c \in 1 .. NumColumns, NEW nulls
    PROVE  Bounds(Stats(ColumnOf(rows, c), nulls), rows, nulls, c)
<1> DEFINE column == ColumnOf(rows, c)
           n == Len(rows)
           s == Stats(column, nulls)
           kept == {j \in DOMAIN column : j = 1 \/ j \notin nulls}
           known == {column[i] : i \in kept}
           shown == DOMAIN rows \ nulls
           values == {rows[i][c] : i \in shown \cup {1}}
<1>1. /\ n \in Nat /\ DOMAIN rows = 1 .. n /\ DOMAIN column = 1 .. n /\ column \in Seq(Int)
      /\ \A i \in 1 .. n : column[i] = rows[i][c] /\ column[i] \in Natives("Int32")
      /\ Len(column) = n
  BY ColumnOfRows
<1>2. /\ s.min = (IF column = <<>> THEN 0 ELSE Min(known))
      /\ s.max = (IF column = <<>> THEN 0 ELSE Max(known))
  BY DEF Stats
<1> HIDE DEF column, s, n
<1>3. known \subseteq Natives("Int32")
  BY <1>1
<1>4. CASE n = 0
  <2>1. rows = <<>> /\ shown = {}
    BY <1>1, <1>4, EmptySeq, LenProperties DEF n
  <2> QED
    BY <2>1 DEF Bounds
<1>5. CASE n # 0
  <2>1. column # <<>> /\ 1 \in 1 .. n
    BY <1>1, <1>5
  <2>2. /\ known # {} /\ known \subseteq values
        /\ \A i \in shown : rows[i][c] \in known
    BY <1>1, <2>1
  <2> HIDE DEF known
  <2>3. /\ Min(known) \in known /\ Max(known) \in known
        /\ \A v \in known : Min(known) <= v /\ v <= Max(known)
    BY <1>3, <2>2, BoundsExist
  <2>4. s.min = Min(known) /\ s.max = Max(known)
    BY <1>2, <2>1
  <2>5. {s.min, s.max} \subseteq values
    BY <2>2, <2>3, <2>4
  <2>6. \A i \in shown : s.min <= rows[i][c] /\ rows[i][c] <= s.max
    BY <2>2, <2>3, <2>4
  <2> QED
    BY <2>5, <2>6 DEF Bounds, s, column
<1> QED
  BY <1>4, <1>5

\* The columns of an object whose promise stands, cached or read now.
LEMMA PromisedColumn ==
    ASSUME NEW o, ObjectInv(o), StillHolds(o) # Unknown, NEW c \in DOMAIN segments[o].cache, NEW junk
    PROVE  /\ holds[o] # Unknown /\ StillHolds(o) = holds[o]
           /\ GetColumn(o, c, junk) = Reading(segments[o].enc, ColumnOf(holds[o], c))
<1> DEFINE s == segments[o]
           buf == files[s.path].buffers[c]
           reading == Reading(s.enc, ColumnOf(holds[o], c))
<1>1. holds[o] # Unknown /\ StillHolds(o) = holds[o] /\ (Current(o) \/ NotLoaded \notin ToSet(s.cache))
  BY DEF StillHolds
<1>2. MadeOf(s, holds[o]) /\ (Current(o) => StoredIn(files[s.path].buffers, s, holds[o]))
  BY <1>1 DEF ObjectInv
<1>3. CASE s.cache[c] # NotLoaded
  <2>1. s.cache[c] = reading
    BY <1>2, <1>3 DEF MadeOf
  <2>2. GetColumn(o, c, junk) = s.cache[c]
    BY <1>3 DEF GetColumn
  <2> QED
    BY <1>1, <2>1, <2>2
<1>4. CASE s.cache[c] = NotLoaded
  <2>1. NotLoaded \in ToSet(s.cache)
    BY <1>4 DEF ToSet
  <2>2. Current(o)
    BY <1>1, <2>1
  <2>3. buf = EncodeColumn(s.enc, "Int32", ColumnOf(holds[o], c), TRUE)
    BY <1>2, <2>2 DEF StoredIn
  <2> DEFINE count == Size(buf) \div NativeBytes("Int32")
  <2>4. GetColumn(o, c, junk) = DecodeColumn(s.enc, "Int32", buf, [i \in 1 .. count |-> 0], count)
    BY <1>4, <2>2 DEF GetColumn
  <2> HIDE DEF buf
  <2>5. reading = DecodeColumn(s.enc, "Int32", buf, [i \in 1 .. count |-> 0], count)
    BY <2>3, Zenon DEF Reading
  <2> QED
    BY <1>1, <2>4, <2>5
<1> QED
  BY <1>3, <1>4

\* Where the row count suffices, a merge copies the rows.
LEMMA PromisedData ==
    ASSUME NEW o, ObjectInv(o), StillHolds(o) # Unknown, NEW c \in 1 .. NumColumns,
           c \in DOMAIN segments[o].cache,
           Len(Reading(segments[o].enc, ColumnOf(holds[o], c))) >= Len(holds[o]), NEW junk
    PROVE  GetColumnData(o, c, junk) = ColumnOf(holds[o], c)
<1> DEFINE rows == holds[o]
           s == segments[o]
           n == Len(rows)
           column == ColumnOf(rows, c)
           reading == Reading(s.enc, column)
           got == GetColumn(o, c, junk)
<1>1. holds[o] # Unknown /\ got = reading
  BY PromisedColumn
<1>2. rows \in Seq(TableRow) /\ s.numRows = n /\ s.enc \in {"Plain", "RLE", "Delta"}
  BY <1>1 DEF ObjectInv, MadeOf
<1>3. GetColumnData(o, c, junk)
          = [i \in 1 .. s.numRows |-> IF i \in DOMAIN got /\ got[i] # Garbage THEN got[i] ELSE junk]
  BY DEF GetColumnData
<1> HIDE DEF rows, got
<1>4. /\ n \in Nat /\ column \in Seq(Int) /\ Len(column) = n /\ DOMAIN column = 1 .. n
      /\ \A i \in 1 .. n : column[i] \in Natives("Int32")
  BY <1>2, ColumnOfRows
<1>5. Len(reading) >= n
  BY DEF rows
<1> HIDE DEF column, n, s
<1>6. \A i \in 1 .. n : i \in DOMAIN reading /\ reading[i] = column[i]
  BY <1>2, <1>4, <1>5, ReadingIs
<1> HIDE DEF reading
<1>7. ASSUME NEW i \in 1 .. n
      PROVE  (IF i \in DOMAIN got /\ got[i] # Garbage THEN got[i] ELSE junk) = column[i]
  <2>1. column[i] \in Int
    BY <1>4, NativesAreIntegers
  <2>2. column[i] # Garbage
    BY <2>1, MergeAssumption
  <2> QED
    BY <1>1, <1>6, <2>2
<1>8. column = [i \in 1 .. n |-> column[i]]
  BY <1>4, LenProperties
<1>9. GetColumnData(o, c, junk) = [i \in 1 .. n |-> column[i]]
  BY <1>2, <1>3, <1>7
<1> QED
  BY <1>8, <1>9 DEF column, rows

\* Reading all columns of an object leaves its header alone, and caches what it
\* was made of if the promise stands.
LEMMA LoadedIs ==
    ASSUME NEW o, ObjectInv(o), NEW junk
    PROVE  /\ IsSegment(Loaded(o, junk))
           /\ Loaded(o, junk).path = segments[o].path /\ Loaded(o, junk).version = segments[o].version
           /\ Loaded(o, junk).enc = segments[o].enc
           /\ DOMAIN Loaded(o, junk).cache = DOMAIN segments[o].cache
           /\ StillHolds(o) # Unknown => StillHolds(o) = holds[o] /\ MadeOf(Loaded(o, junk), holds[o])
<1> DEFINE s == segments[o]
           t == Loaded(o, junk)
           new == [c \in DOMAIN s.cache |-> GetColumn(o, c, junk)]
<1>1. IsSegment(s)
  BY DEF ObjectInv
<1>2. t = [s EXCEPT !.cache = new]
  BY DEF Loaded
<1> HIDE DEF s, t, new
<1>3. /\ t = [path |-> s.path, version |-> s.version, enc |-> s.enc, createdTs |-> s.createdTs,
              numRows |-> s.numRows, stats |-> s.stats, declared |-> s.declared, cache |-> new]
  BY <1>1, <1>2 DEF IsSegment
<1>4. /\ t.path = s.path /\ t.version = s.version /\ t.enc = s.enc /\ t.numRows = s.numRows
      /\ t.stats = s.stats /\ t.declared = s.declared /\ t.cache = new /\ t.createdTs = s.createdTs
  BY <1>3
<1>5. IsSegment(t)
  BY <1>1, <1>3, <1>4 DEF IsSegment
<1>6. DOMAIN t.cache = DOMAIN s.cache /\ t.cache = [c \in DOMAIN t.cache |-> t.cache[c]]
  BY <1>4 DEF new
<1>7. ASSUME StillHolds(o) # Unknown
      PROVE  StillHolds(o) = holds[o] /\ MadeOf(t, holds[o])
  <2>1. StillHolds(o) = holds[o] /\ holds[o] # Unknown
    BY <1>7 DEF StillHolds
  <2>2. MadeOf(s, holds[o])
    BY <2>1 DEF ObjectInv, s
  <2>3. ASSUME NEW c \in DOMAIN t.cache
        PROVE  /\ t.cache[c] \in {NotLoaded, Reading(t.enc, ColumnOf(holds[o], c))}
               /\ Bounds(t.stats[c], holds[o], t.declared, c)
    <3>1. t.cache[c] = GetColumn(o, c, junk)
      BY <1>4, <1>6 DEF new
    <3>2. c \in DOMAIN segments[o].cache
      BY <1>6 DEF s
    <3>3. GetColumn(o, c, junk) = Reading(s.enc, ColumnOf(holds[o], c))
      BY <1>7, <3>2, PromisedColumn DEF s
    <3>4. Bounds(s.stats[c], holds[o], s.declared, c)
      BY <1>6, <2>2 DEF MadeOf
    <3> QED
      BY <1>4, <3>1, <3>3, <3>4
  <2> QED
    BY <1>4, <1>6, <2>1, <2>2, <2>3 DEF MadeOf
<1> QED
  BY <1>4, <1>5, <1>6, <1>7 DEF s, t
-----------------------------------------------------------------------------
(* Sequences of segments, and the columns of a merge *)

\* Sequences can be put end to end one after the other.
LEMMA ChainExists ==
    ASSUME NEW S, NEW m \in Nat, NEW seqs \in [1 .. m -> Seq(S)]
    PROVE  \E P : Chain(seqs, P, m, S)
<1> DEFINE Links(P, n) == /\ P \in [0 .. n -> Seq(S)] /\ P[0] = <<>>
                          /\ \A k \in 1 .. n : P[k] = P[k - 1] \o seqs[k]
           Bad == {n \in Nat : n <= m /\ ~(\E P : Links(P, n))}
<1>1. Bad = {}
  <2> SUFFICES ASSUME Bad # {} PROVE FALSE
    OBVIOUS
  <2>1. PICK n \in Bad : \A j \in Bad : n <= j
    <3>1. Bad \subseteq Nat
      OBVIOUS
    <3> HIDE DEF Bad
    <3> QED
      BY <3>1, LeastNat
  <2>2. CASE n = 0
    <3> DEFINE P == [i \in 0 .. 0 |-> <<>>]
    <3>1. <<>> \in Seq(S)
      OBVIOUS
    <3>2. P \in [0 .. 0 -> Seq(S)] /\ P[0] = <<>> /\ \A k \in 1 .. 0 : FALSE
      BY <3>1
    <3> HIDE DEF P
    <3>3. Links(P, 0)
      BY <3>2
    <3> QED
      BY <2>2, <3>3
  <2>3. CASE n # 0
    <3>1. n - 1 \in Nat /\ n \in Nat /\ n \in 1 .. m /\ n - 1 <= m /\ ~(n <= n - 1)
      BY <2>3
    <3>2. n - 1 \notin Bad
      <4> HIDE DEF Bad
      <4> QED
        BY <2>1, <3>1
    <3>3. PICK P : Links(P, n - 1)
      BY <3>1, <3>2
    <3> DEFINE last == P[n - 1] \o seqs[n]
               Q == [i \in 0 .. n |-> IF i = n THEN last ELSE P[i]]
    <3>4. P \in [0 .. n - 1 -> Seq(S)] /\ P[n - 1] \in Seq(S) /\ seqs[n] \in Seq(S)
      BY <3>1, <3>3
    <3>5. last \in Seq(S)
      BY <3>4, ConcatProperties
    <3>6. Q \in [0 .. n -> Seq(S)] /\ Q[0] = <<>>
      <4> HIDE DEF last
      <4>1. Q \in [0 .. n -> Seq(S)]
        BY <3>1, <3>4, <3>5
      <4>2. 0 \in 0 .. n /\ 0 # n /\ P[0] = <<>>
        BY <3>1, <3>3
      <4> QED
        BY <4>1, <4>2
    <3>7. ASSUME NEW k \in 1 .. n PROVE Q[k] = Q[k - 1] \o seqs[k]
      <4>1. k \in 0 .. n /\ k - 1 \in 0 .. n /\ k - 1 # n
        BY <3>1
      <4>2. Q[k - 1] = P[k - 1]
        BY <4>1
      <4>3. CASE k = n
        <5>1. Q[k] = last
          BY <4>1, <4>3
        <5> HIDE DEF Q
        <5> QED
          BY <4>2, <4>3, <5>1
      <4>4. CASE k # n
        <5>1. k \in 1 .. n - 1
          BY <3>1, <4>4
        <5>2. Q[k] = P[k] /\ P[k] = P[k - 1] \o seqs[k]
          BY <3>3, <4>1, <4>4, <5>1
        <5> HIDE DEF Q
        <5> QED
          BY <4>2, <5>2
      <4> QED
        BY <4>3, <4>4
    <3> HIDE DEF Q
    <3>8. Links(Q, n)
      BY <3>6, <3>7
    <3> QED
      BY <3>8
  <2> QED
    BY <2>2, <2>3
<1>2. PICK P : Links(P, m)
  <2>1. m \in Nat /\ m <= m
    OBVIOUS
  <2>2. m \notin Bad
    <3> HIDE DEF Bad
    <3> QED
      BY <1>1
  <2> HIDE DEF Links
  <2> QED
    BY <2>1, <2>2
<1> QED
  BY <1>2 DEF Chain

\* Taking a column distributes over concatenation.
LEMMA ColumnOfConcat ==
    ASSUME NEW a \in Seq(TableRow), NEW b \in Seq(TableRow), NEW c \in 1 .. NumColumns
    PROVE  ColumnOf(a \o b, c) = ColumnOf(a, c) \o ColumnOf(b, c)
<1> DEFINE n == Len(a)
           m == Len(b)
           u == ColumnOf(a, c)
           v == ColumnOf(b, c)
           w == a \o b
           x == ColumnOf(w, c)
           y == u \o v
<1>1. n \in Nat /\ m \in Nat /\ w \in Seq(TableRow) /\ Len(w) = n + m
  BY ConcatProperties, LenProperties
<1>2. /\ u \in Seq(Int) /\ Len(u) = n /\ v \in Seq(Int) /\ Len(v) = m
      /\ \A i \in 1 .. n : u[i] = a[i][c]
      /\ \A i \in 1 .. m : v[i] = b[i][c]
  BY ColumnOfRows
<1>3. x \in Seq(Int) /\ Len(x) = n + m /\ \A i \in 1 .. n + m : x[i] = w[i][c]
  <2> HIDE DEF w
  <2> QED
    BY <1>1, ColumnOfRows
<1>4. y \in Seq(Int) /\ Len(y) = n + m
  <2> HIDE DEF u, v
  <2>1. u \o v \in Seq(Int) /\ Len(u \o v) = Len(u) + Len(v)
    BY <1>2, ConcatProperties, Zenon
  <2> QED
    BY <1>2, <2>1
<1>5. ASSUME NEW i \in 1 .. n + m PROVE x[i] = y[i]
  <2>1. \/ i \in 1 .. n /\ w[i] = a[i]
        \/ i - n \in 1 .. m /\ ~(i \in 1 .. n) /\ w[i] = b[i - n]
    BY ConcatAt
  <2> HIDE DEF u, v
  <2>2. \/ i \in 1 .. n /\ y[i] = u[i]
        \/ i - n \in 1 .. m /\ ~(i \in 1 .. n) /\ y[i] = v[i - n]
    <3>1. i \in 1 .. Len(u) + Len(v) /\ u \in Seq(Int) /\ v \in Seq(Int)
      BY <1>2
    <3>2. \/ i \in 1 .. Len(u) /\ (u \o v)[i] = u[i]
          \/ i - Len(u) \in 1 .. Len(v) /\ ~(i \in 1 .. Len(u)) /\ (u \o v)[i] = v[i - Len(u)]
      BY <3>1, ConcatAt, Zenon
    <3> QED
      BY <1>2, <3>2, Zenon
  <2> HIDE DEF w, x, y
  <2> QED
    BY <1>2, <1>3, <2>1, <2>2
<1> HIDE DEF x, y
<1>6. x = y
  BY <1>1, <1>3, <1>4, <1>5, SeqEqual
<1> QED
  BY <1>6 DEF x, y, w, u, v

\* A column of segments end to end is their columns end to end.
LEMMA FlattenColumns ==
    ASSUME NEW m \in Nat, NEW parts \in [1 .. m -> Seq(TableRow)], NEW c \in 1 .. NumColumns
    PROVE  /\ FlattenSeq(parts) \in Seq(TableRow)
           /\ FlattenSeq([k \in 1 .. m |-> ColumnOf(parts[k], c)]) = ColumnOf(FlattenSeq(parts), c)
<1>1. PICK P : Chain(parts, P, m, TableRow)
  BY ChainExists
<1>2. /\ P \in [0 .. m -> Seq(TableRow)] /\ P[0] = <<>>
      /\ \A k \in 1 .. m : P[k] = P[k - 1] \o parts[k]
  BY <1>1 DEF Chain
<1>3. FlattenSeq(parts) = P[m] /\ P[m] \in Seq(TableRow)
  <2>1. FlattenSeq(parts) = P[m]
    BY <1>1, FlattenIsChain
  <2> QED
    BY <1>2, <2>1
<1> DEFINE Q == [k \in 0 .. m |-> ColumnOf(P[k], c)]
           cols == [k \in 1 .. m |-> ColumnOf(parts[k], c)]
<1>4. Q \in [0 .. m -> Seq(Int)]
  <2>1. ASSUME NEW k \in 0 .. m PROVE ColumnOf(P[k], c) \in Seq(Int)
    <3>1. P[k] \in Seq(TableRow)
      BY <1>2
    <3> QED
      BY <3>1, ColumnOfRows
  <2> QED
    BY <2>1
<1>5. cols \in [1 .. m -> Seq(Int)]
  <2>1. ASSUME NEW k \in 1 .. m PROVE ColumnOf(parts[k], c) \in Seq(Int)
    <3>1. parts[k] \in Seq(TableRow)
      OBVIOUS
    <3> QED
      BY <3>1, ColumnOfRows
  <2> QED
    BY <2>1
<1>6. Q[0] = <<>>
  <2>1. ColumnOf(<<>>, c) = <<>>
    BY DEF ColumnOf
  <2>2. Q[0] = ColumnOf(P[0], c)
    OBVIOUS
  <2> QED
    BY <1>2, <2>1, <2>2
<1>7. ASSUME NEW k \in 1 .. m PROVE Q[k] = Q[k - 1] \o cols[k]
  <2>1. k - 1 \in 0 .. m /\ k \in 0 .. m
    OBVIOUS
  <2>2. P[k - 1] \in Seq(TableRow) /\ parts[k] \in Seq(TableRow) /\ P[k] = P[k - 1] \o parts[k]
    BY <1>2, <2>1
  <2>3. Q[k] = ColumnOf(P[k], c) /\ Q[k - 1] = ColumnOf(P[k - 1], c) /\ cols[k] = ColumnOf(parts[k], c)
    BY <2>1
  <2> DEFINE a == P[k - 1]
             b == parts[k]
  <2> HIDE DEF Q, cols, a, b
  <2>4. ColumnOf(a \o b, c) = ColumnOf(a, c) \o ColumnOf(b, c)
    BY <2>2, ColumnOfConcat DEF a, b
  <2> QED
    BY <2>2, <2>3, <2>4 DEF a, b
<1> HIDE DEF Q, cols
<1>8. Chain(cols, Q, m, Int)
  BY <1>4, <1>5, <1>6, <1>7 DEF Chain
<1>9. FlattenSeq(cols) = Q[m]
  BY <1>8, FlattenIsChain
<1>10. Q[m] = ColumnOf(P[m], c)
  BY DEF Q
<1> QED
  BY <1>3, <1>9, <1>10 DEF cols

\* A sequence and one element more.
LEMMA AppendSequence ==
    ASSUME NEW s, IsSequence(s), NEW x
    PROVE  /\ IsSequence(Append(s, x))
           /\ Len(s) \in Nat /\ DOMAIN s = 1 .. Len(s)
           /\ Len(Append(s, x)) = Len(s) + 1 /\ DOMAIN Append(s, x) = 1 .. Len(s) + 1
           /\ \A i \in 1 .. Len(s) : Append(s, x)[i] = s[i]
           /\ Append(s, x)[Len(s) + 1] = x
<1>1. PICK S : s \in Seq(S)
  BY DEF IsSequence
<1> DEFINE T == S \cup {x}
<1>2. Len(s) \in Nat /\ DOMAIN s = 1 .. Len(s) /\ \A i \in 1 .. Len(s) : s[i] \in T
  BY <1>1, LenProperties, ElementOfSeq
<1>3. s \in Seq(T) /\ x \in T
  BY <1>1, <1>2, SeqDef, LenProperties
<1> HIDE DEF T
<1>4. /\ Append(s, x) \in Seq(T) /\ Len(Append(s, x)) = Len(s) + 1
      /\ DOMAIN Append(s, x) = 1 .. Len(s) + 1
      /\ \A i \in 1 .. Len(s) : Append(s, x)[i] = s[i]
      /\ Append(s, x)[Len(s) + 1] = x
  BY <1>3, AppendProperties
<1> QED
  BY <1>2, <1>4 DEF IsSequence

\* A function over the first naturals is a sequence.
LEMMA FunctionSequence ==
    ASSUME NEW n \in Nat, NEW f, f = [i \in 1 .. n |-> f[i]]
    PROVE  IsSequence(f) /\ Len(f) = n /\ DOMAIN f = 1 .. n
<1> DEFINE S == {f[i] : i \in 1 .. n}
<1>1. f \in [1 .. n -> S]
  OBVIOUS
<1> HIDE DEF S
<1>2. f \in Seq(S)
  BY <1>1, SeqDef
<1>3. DOMAIN f = 1 .. n
  BY <1>1
<1>4. Len(f) = n
  BY <1>2, <1>3, LenProperties
<1> QED
  BY <1>2, <1>3, <1>4 DEF IsSequence

\* A sequence of length 0 has no element, and every sequence is the function of
\* its elements.
LEMMA SequenceIs ==
    ASSUME NEW s, IsSequence(s)
    PROVE  Len(s) \in Nat /\ DOMAIN s = 1 .. Len(s) /\ s = [i \in 1 .. Len(s) |-> s[i]]
<1>1. PICK S : s \in Seq(S)
  BY DEF IsSequence
<1> QED
  BY <1>1, LenProperties

\* The header of a new segment, whatever its columns.
LEMMA HeaderIs ==
    ASSUME NEW path \in Paths, NEW version \in Nat, NEW columns, NEW nulls, NEW e
    PROVE  LET s == Header(path, version, columns, nulls, e) IN
           /\ IsSegment(s) /\ s.path = path /\ s.version = version /\ s.enc = e
           /\ s.numRows = Max({0} \cup {Len(columns[c]) : c \in DOMAIN columns})
           /\ s.stats = [c \in DOMAIN columns |-> Stats(columns[c], nulls)]
           /\ s.declared = nulls
           /\ s.cache = [c \in DOMAIN columns |-> NotLoaded]
  BY DEF Header, IsSegment

\* The header of a segment written from rows.
LEMMA HeaderMadeOf ==
    ASSUME NEW rows \in Seq(TableRow), NEW path \in Paths, NEW version \in Nat, NEW nulls,
           NEW e \in {"Plain", "RLE", "Delta"}
    PROVE  LET s == Header(path, version, ColumnsOf(rows), nulls, e) IN
           /\ MadeOf(s, rows) /\ StoredIn(Encoded(ColumnsOf(rows), e), s, rows)
           /\ DOMAIN s.cache = 1 .. NumColumns
<1> DEFINE columns == ColumnsOf(rows)
           s == Header(path, version, columns, nulls, e)
           n == Len(rows)
<1>1. NumColumns \in Nat \ {0}
  BY MergeAssumption
<1>2. DOMAIN columns = 1 .. NumColumns /\ \A c \in 1 .. NumColumns : columns[c] = ColumnOf(rows, c)
  BY DEF ColumnsOf, ColumnOf
<1>3. /\ s.enc = e
      /\ s.numRows = Max({0} \cup {Len(columns[c]) : c \in DOMAIN columns})
      /\ s.stats = [c \in DOMAIN columns |-> Stats(columns[c], nulls)]
      /\ s.declared = nulls
      /\ s.cache = [c \in DOMAIN columns |-> NotLoaded]
  <2> HIDE DEF columns
  <2> QED
    BY DEF Header
<1> HIDE DEF s, columns
<1>4. n \in Nat /\ \A c \in 1 .. NumColumns : Len(ColumnOf(rows, c)) = n
  BY LenProperties, ColumnOfRows
<1>5. s.numRows = n
  <2> DEFINE S == {0} \cup {Len(columns[c]) : c \in DOMAIN columns}
  <2>1. S = {0, n}
    <3>1. 1 \in 1 .. NumColumns
      BY <1>1
    <3>2. \A c \in DOMAIN columns : Len(columns[c]) = n
      BY <1>2, <1>4
    <3> HIDE DEF n
    <3> QED
      BY <1>2, <3>1, <3>2
  <2> HIDE DEF S
  <2>2. n \in S /\ \A y \in S : n >= y /\ y \in Int
    BY <1>4, <2>1
  <2>3. Max(S) \in S /\ \A y \in S : Max(S) >= y
    BY <2>2 DEF Max
  <2>4. Max(S) = n
    BY <2>2, <2>3
  <2> QED
    BY <1>3, <2>4 DEF S
<1>6. DOMAIN s.cache = 1 .. NumColumns /\ \A c \in 1 .. NumColumns : s.cache[c] = NotLoaded
  BY <1>2, <1>3
<1>7. ASSUME NEW c \in 1 .. NumColumns PROVE Bounds(s.stats[c], rows, s.declared, c)
  <2>1. s.stats[c] = Stats(ColumnOf(rows, c), nulls)
    BY <1>2, <1>3
  <2> QED
    BY <1>3, <2>1, StatsBound
<1>8. s.cache = [c \in DOMAIN s.cache |-> s.cache[c]]
  BY <1>3
<1>9. MadeOf(s, rows)
  BY <1>3, <1>5, <1>6, <1>7, <1>8 DEF MadeOf
<1>10. StoredIn(Encoded(columns, e), s, rows)
  <2>1. ASSUME NEW c \in 1 .. NumColumns
        PROVE  Encoded(columns, e)[c] = EncodeColumn(e, "Int32", ColumnOf(rows, c), TRUE)
    BY <1>2 DEF Encoded
  <2> QED
    BY <1>3, <1>6, <2>1 DEF StoredIn
<1> QED
  BY <1>6, <1>9, <1>10 DEF s, columns

\* A merge without inputs writes a segment with no column and no row.
LEMMA HeaderOfNothing ==
    ASSUME NEW path \in Paths, NEW version \in Nat, NEW nulls, NEW buffers
    PROVE  LET s == Header(path, version, <<>>, nulls, "Plain") IN
           MadeOf(s, <<>>) /\ StoredIn(buffers, s, <<>>)
<1> DEFINE s == Header(path, version, <<>>, nulls, "Plain")
           none == <<>>
<1>1. DOMAIN none = {}
  OBVIOUS
<1>2. /\ s.enc = "Plain"
      /\ s.numRows = Max({0} \cup {Len(none[c]) : c \in DOMAIN none})
      /\ s.cache = [c \in DOMAIN none |-> NotLoaded]
  <2> HIDE DEF none
  <2>1. LET q == Header(path, version, none, nulls, "Plain") IN
        /\ q.enc = "Plain"
        /\ q.numRows = Max({0} \cup {Len(none[c]) : c \in DOMAIN none})
        /\ q.cache = [c \in DOMAIN none |-> NotLoaded]
    BY DEF Header
  <2> QED
    BY <2>1 DEF none
<1> HIDE DEF s
<1>3. s.numRows = 0
  <2>1. {0} \cup {Len(none[c]) : c \in DOMAIN none} = {0}
    BY <1>1
  <2>2. Max({0}) = 0
    BY DEF Max
  <2> HIDE DEF none
  <2> QED
    BY <1>2, <2>1, <2>2
<1>4. DOMAIN s.cache = {} /\ s.cache = [c \in DOMAIN s.cache |-> s.cache[c]]
  BY <1>1, <1>2
<1>5. <<>> \in Seq(TableRow) /\ Len(<<>>) = 0
  OBVIOUS
<1>6. MadeOf(s, <<>>)
  BY <1>2, <1>3, <1>4, <1>5 DEF MadeOf
<1>7. StoredIn(buffers, s, <<>>)
  BY <1>4 DEF StoredIn
<1> QED
  BY <1>6, <1>7 DEF s
-----------------------------------------------------------------------------
(* The steps of the application and of a merge *)

\* What a step may do to an object's file: write over it, when its version goes
\* up or was ahead of the object's already.
FileKept(o) ==
    LET p == segments[o].path IN
    /\ files'[p].version >= files[p].version
    /\ files'[p].version = segments[o].version
          => Current(o) /\ files'[p].buffers = files[p].buffers

\* What a step may do to an object: read columns of it, and so lose its promise.
Carried(o) ==
    LET s == segments[o] IN
    /\ IsSegment(segments'[o]) /\ FileKept(o)
    /\ segments'[o].path = s.path /\ segments'[o].version = s.version /\ segments'[o].enc = s.enc
    /\ DOMAIN segments'[o].cache = DOMAIN s.cache
    /\ holds'[o] # Unknown => holds'[o] = holds[o] /\ MadeOf(segments'[o], holds[o])
    /\ StillHolds(o)' # Unknown => StillHolds(o) # Unknown /\ holds'[o] = holds[o]

\* The objects' steps: those in S are read, the others left alone.
Reads(o, S, junk) ==
    /\ segments'[o] = IF o \in S THEN Loaded(o, junk) ELSE segments[o]
    /\ holds'[o] = IF o \in S THEN StillHolds(o) ELSE holds[o]

\* Reading carries an object on.
LEMMA ReadsCarry ==
    ASSUME NEW o, ObjectInv(o), NEW S, NEW junk, Reads(o, S, junk), FileKept(o)
    PROVE  Carried(o)
<1> DEFINE s == segments[o]
           t == segments'[o]
<1>1. StillHolds(o) \in {holds[o], Unknown}
  BY DEF StillHolds
<1>2. StillHolds(o)' = IF files'[t.path].version = t.version \/ NotLoaded \notin ToSet(t.cache)
                       THEN holds'[o] ELSE Unknown
  BY DEF StillHolds, Current
<1>3. CASE o \in S
  <2>1. t = Loaded(o, junk) /\ holds'[o] = StillHolds(o)
    BY <1>3 DEF Reads
  <2>2. /\ IsSegment(t) /\ t.path = s.path /\ t.version = s.version /\ t.enc = s.enc
        /\ DOMAIN t.cache = DOMAIN s.cache
        /\ StillHolds(o) # Unknown => StillHolds(o) = holds[o] /\ MadeOf(t, holds[o])
    BY <2>1, LoadedIs
  <2>3. StillHolds(o)' # Unknown => holds'[o] # Unknown
    BY <1>2
  <2> QED
    BY <2>1, <2>2, <2>3 DEF Carried
<1>4. CASE o \notin S
  <2>1. t = s /\ holds'[o] = holds[o]
    BY <1>4 DEF Reads
  <2>2. IsSegment(s) /\ (holds[o] # Unknown => MadeOf(s, holds[o]))
    BY DEF ObjectInv
  <2>3. ASSUME StillHolds(o)' # Unknown PROVE StillHolds(o) # Unknown
    <3>1. /\ holds[o] # Unknown
          /\ files'[s.path].version = s.version \/ NotLoaded \notin ToSet(s.cache)
      BY <1>2, <2>1, <2>3
    <3>2. Current(o) \/ NotLoaded \notin ToSet(s.cache)
      BY <3>1 DEF FileKept
    <3> QED
      BY <3>1, <3>2 DEF StillHolds
  <2> QED
    BY <2>1, <2>2, <2>3 DEF Carried
<1> QED
  BY <1>3, <1>4

\* Such a step keeps what is known of the object.
LEMMA CarriedObject ==
    ASSUME NEW o, ObjectInv(o), Carried(o),
           IsFile(files[segments[o].path]), IsFile(files'[segments[o].path])
    PROVE  ObjectInv(o)'
<1> DEFINE s == segments[o]
           t == segments'[o]
           p == s.path
<1>1. /\ IsSegment(t) /\ t.path = p /\ t.version = s.version /\ t.enc = s.enc
      /\ DOMAIN t.cache = DOMAIN s.cache
      /\ holds'[o] # Unknown => holds'[o] = holds[o] /\ MadeOf(t, holds[o])
      /\ files'[p].version >= files[p].version
      /\ files'[p].version = s.version => Current(o) /\ files'[p].buffers = files[p].buffers
  BY DEF Carried, FileKept
<1>2. t.version <= files'[t.path].version
  <2>1. s.version <= files[p].version /\ s.version \in Nat
    BY DEF ObjectInv, IsSegment
  <2>2. files[p].version \in Nat /\ files'[p].version \in Nat
    BY DEF IsFile
  <2> QED
    BY <1>1, <2>1, <2>2
<1>3. ASSUME holds'[o] # Unknown, files'[t.path].version = t.version
      PROVE  StoredIn(files'[t.path].buffers, t, holds'[o])
  <2>1. holds[o] = holds'[o] /\ Current(o) /\ files'[p].buffers = files[p].buffers
    BY <1>1, <1>3
  <2>2. StoredIn(files[p].buffers, s, holds[o])
    BY <1>3, <2>1 DEF ObjectInv
  <2> QED
    BY <1>1, <2>1, <2>2 DEF StoredIn
<1> QED
  BY <1>1, <1>2, <1>3 DEF ObjectInv, Current

\* And of a task that goes on.
LEMMA CarriedTask ==
    ASSUME TaskInv, task' = task, \A o \in Objects : Carried(o),
           IsSequence(segments), IsSequence(segments'), Len(segments') >= Len(segments),
           task # Idle => files'[task.path].version = files[task.path].version,
           \A o \in Objects' \ Objects : task # Idle => segments'[o].path # task.path
    PROVE  TaskInv'
<1> SUFFICES ASSUME task # Idle PROVE TaskInv'
  BY DEF TaskInv
<1> DEFINE inputs == task.inputs
<1>1. /\ task.path \in Paths
      /\ \A o \in Objects : segments[o].path = task.path
                                => segments[o].version < files[task.path].version
      /\ inputs \in Seq(Objects)
      /\ \A k \in DOMAIN inputs : segments[inputs[k]].path # task.path
  BY DEF TaskInv
<1>2. Objects = 1 .. Len(segments) /\ Objects' = 1 .. Len(segments') /\ Objects \subseteq Objects'
  <2>1. Len(segments) \in Nat /\ Len(segments') \in Nat /\ DOMAIN segments = 1 .. Len(segments)
        /\ DOMAIN segments' = 1 .. Len(segments')
    BY SequenceIs
  <2> QED
    BY <2>1 DEF Objects
<1>3. \A o \in Objects' : segments'[o].path = task.path
                              => segments'[o].version < files'[task.path].version
  <2>1. ASSUME NEW o \in Objects', segments'[o].path = task.path
        PROVE  segments'[o].version < files'[task.path].version
    <3>1. o \in Objects
      BY <2>1
    <3>2. segments'[o].path = segments[o].path /\ segments'[o].version = segments[o].version
      BY <3>1 DEF Carried
    <3> QED
      BY <1>1, <2>1, <3>1, <3>2
  <2> QED
    BY <2>1
<1>4. \A k \in DOMAIN inputs : inputs[k] \in Objects
  <2>1. DOMAIN inputs = 1 .. Len(inputs)
    BY <1>1, LenProperties
  <2> HIDE DEF inputs
  <2> QED
    BY <1>1, <2>1, ElementOfSeq
<1>5. inputs \in Seq(Objects')
  BY <1>1, <1>2, <1>4, SeqDef, LenProperties
<1>6. \A k \in DOMAIN inputs : segments'[inputs[k]].path # task.path
  BY <1>1, <1>4 DEF Carried
<1>7. ASSUME task.rows # Unknown, \A k \in DOMAIN inputs : StillHolds(inputs[k])' # Unknown
      PROVE  /\ \A k \in DOMAIN inputs : /\ DOMAIN segments'[inputs[k]].cache = 1 .. NumColumns
                                         /\ Whole(segments'[inputs[k]], holds'[inputs[k]])
             /\ task.rows = FlattenSeq([k \in DOMAIN inputs |-> holds'[inputs[k]]])
  <2>1. ASSUME NEW k \in DOMAIN inputs
        PROVE  StillHolds(inputs[k]) # Unknown /\ holds'[inputs[k]] = holds[inputs[k]]
    BY <1>4, <1>7 DEF Carried
  <2>2. /\ \A k \in DOMAIN inputs : /\ DOMAIN segments[inputs[k]].cache = 1 .. NumColumns
                                    /\ Whole(segments[inputs[k]], holds[inputs[k]])
        /\ task.rows = FlattenSeq([k \in DOMAIN inputs |-> holds[inputs[k]]])
    BY <1>7, <2>1 DEF TaskInv
  <2>3. ASSUME NEW k \in DOMAIN inputs
        PROVE  /\ DOMAIN segments'[inputs[k]].cache = 1 .. NumColumns
               /\ Whole(segments'[inputs[k]], holds'[inputs[k]])
    <3>1. inputs[k] \in Objects
      BY <1>4
    <3>2. /\ segments'[inputs[k]].enc = segments[inputs[k]].enc
          /\ DOMAIN segments'[inputs[k]].cache = DOMAIN segments[inputs[k]].cache
      BY <3>1 DEF Carried
    <3> QED
      BY <2>1, <2>2, <3>2 DEF Whole
  <2>4. [k \in DOMAIN inputs |-> holds[inputs[k]]] = [k \in DOMAIN inputs |-> holds'[inputs[k]]]
    BY <2>1
  <2> QED
    BY <2>2, <2>3, <2>4
<1> QED
  BY <1>1, <1>3, <1>5, <1>6, <1>7 DEF TaskInv

\* The files of the invariant, and the file of an object.
LEMMA FilesOf ==
    ASSUME MergeInv
    PROVE  /\ DOMAIN files = Paths /\ \A p \in Paths : IsFile(files[p])
           /\ \A o \in Objects : ObjectInv(o) /\ segments[o].path \in Paths
           /\ Len(segments) \in Nat /\ Objects = 1 .. Len(segments)
           /\ IsSequence(segments) /\ IsSequence(holds) /\ Len(holds) = Len(segments)
  BY SequenceIs DEF MergeInv, ObjectInv, IsSegment, Objects

\* The objects of the next state are those of this one and new ones.
LEMMA InvGrows ==
    ASSUME MergeInv, DOMAIN files' = Paths, \A p \in Paths : IsFile(files'[p]),
           IsSequence(segments'), IsSequence(holds'), Len(holds') = Len(segments'),
           \A o \in Objects : Carried(o), \A o \in Objects' \ Objects : ObjectInv(o)', TaskInv'
    PROVE  MergeInv'
<1>1. ASSUME NEW o \in Objects' PROVE ObjectInv(o)'
  <2>1. CASE o \in Objects
    <3>1. ObjectInv(o) /\ Carried(o) /\ segments[o].path \in Paths /\ IsFile(files[segments[o].path])
      BY <2>1, FilesOf
    <3> QED
      BY <3>1, CarriedObject
  <2>2. CASE o \notin Objects
    BY <2>2
  <2> QED
    BY <2>1, <2>2
<1> QED
  BY <1>1 DEF MergeInv

\* Readers: Load and MergeColumns.
LEMMA ReadStep ==
    ASSUME MergeInv, NEW S, NEW junk, segments' = AfterReading(S, junk), holds' = PromisedAfter(S),
           UNCHANGED <<files, task>>
    PROVE  MergeInv'
<1>1. /\ DOMAIN files = Paths /\ \A p \in Paths : IsFile(files[p])
      /\ \A o \in Objects : ObjectInv(o) /\ segments[o].path \in Paths
      /\ Len(segments) \in Nat /\ Objects = 1 .. Len(segments) /\ IsSequence(segments)
  BY FilesOf
<1>2. ASSUME NEW o \in Objects PROVE Carried(o)
  <2>1. Reads(o, S, junk)
    BY DEF Reads, AfterReading, PromisedAfter
  <2>2. files[segments[o].path].version \in Nat
    BY <1>1 DEF IsFile
  <2>3. FileKept(o)
    BY <2>2 DEF FileKept, Current
  <2> QED
    BY <1>1, <2>1, <2>3, ReadsCarry
<1>3. /\ IsSequence(segments') /\ Len(segments') = Len(segments)
      /\ IsSequence(holds') /\ Len(holds') = Len(segments) /\ Objects' = Objects
  <2> DEFINE n == Len(segments)
  <2>1. segments' = [i \in 1 .. n |-> segments'[i]] /\ holds' = [i \in 1 .. n |-> holds'[i]]
    BY <1>1 DEF AfterReading, PromisedAfter
  <2>2. IsSequence(segments') /\ Len(segments') = n /\ DOMAIN segments' = 1 .. n
    <3> HIDE DEF n
    <3>1. n \in Nat
      BY <1>1 DEF n
    <3> QED
      BY <2>1, <3>1, FunctionSequence
  <2>3. IsSequence(holds') /\ Len(holds') = n
    <3> HIDE DEF n
    <3>1. n \in Nat
      BY <1>1 DEF n
    <3> QED
      BY <2>1, <3>1, FunctionSequence
  <2> QED
    BY <1>1, <2>2, <2>3 DEF Objects
<1>4. TaskInv'
  <2>1. TaskInv
    BY DEF MergeInv
  <2> QED
    BY <1>1, <1>2, <1>3, <2>1, CarriedTask
<1> QED
  BY <1>1, <1>2, <1>3, <1>4, InvGrows

\* An object added to the ones that were there.
LEMMA ObjectsGrow ==
    ASSUME NEW before, IsSequence(before), NEW known, IsSequence(known), Len(known) = Len(before),
           NEW s, NEW rows, segments' = Append(before, s), holds' = Append(known, rows)
    PROVE  /\ IsSequence(segments') /\ IsSequence(holds') /\ Len(holds') = Len(segments')
           /\ Len(before) \in Nat /\ Len(segments') = Len(before) + 1
           /\ Objects' = 1 .. Len(before) + 1
           /\ \A o \in 1 .. Len(before) : segments'[o] = before[o] /\ holds'[o] = known[o]
           /\ segments'[Len(before) + 1] = s /\ holds'[Len(before) + 1] = rows
<1>1. /\ IsSequence(segments') /\ Len(before) \in Nat /\ Len(segments') = Len(before) + 1
      /\ DOMAIN segments' = 1 .. Len(before) + 1
      /\ \A o \in 1 .. Len(before) : segments'[o] = before[o]
      /\ segments'[Len(before) + 1] = s
  BY AppendSequence
<1>2. /\ IsSequence(holds') /\ Len(holds') = Len(before) + 1
      /\ \A o \in 1 .. Len(before) : holds'[o] = known[o]
      /\ holds'[Len(before) + 1] = rows
  BY AppendSequence
<1> QED
  BY <1>1, <1>2 DEF Objects

\* A file written over, at a new version.
LEMMA FileReplaced ==
    ASSUME MergeInv, NEW path \in Paths, NEW buffers,
           files' = [files EXCEPT ![path] = [version |-> files[path].version + 1, buffers |-> buffers]]
    PROVE  /\ DOMAIN files' = Paths /\ \A p \in Paths : IsFile(files'[p])
           /\ files'[path].version = files[path].version + 1 /\ files'[path].buffers = buffers
           /\ \A p \in Paths \ {path} : files'[p] = files[p]
           /\ \A o \in Objects : FileKept(o)
<1>1. /\ DOMAIN files = Paths /\ \A p \in Paths : IsFile(files[p])
      /\ \A o \in Objects : ObjectInv(o) /\ segments[o].path \in Paths
  BY FilesOf
<1>2. /\ DOMAIN files' = Paths
      /\ files'[path] = [version |-> files[path].version + 1, buffers |-> buffers]
      /\ \A p \in Paths \ {path} : files'[p] = files[p]
  BY <1>1
<1>3. files[path].version \in Nat
  BY <1>1 DEF IsFile
<1>4. files'[path].version = files[path].version + 1 /\ files'[path].buffers = buffers
  BY <1>2
<1>5. ASSUME NEW p \in Paths PROVE IsFile(files'[p])
  <2>1. CASE p = path
    BY <1>2, <1>3, <1>4, <2>1 DEF IsFile
  <2>2. CASE p # path
    BY <1>1, <1>2, <2>2
  <2> QED
    BY <2>1, <2>2
<1>6. ASSUME NEW o \in Objects PROVE FileKept(o)
  <2>1. /\ segments[o].path \in Paths /\ segments[o].version \in Nat
        /\ segments[o].version <= files[segments[o].path].version
    BY <1>1 DEF ObjectInv, IsSegment
  <2>2. CASE segments[o].path = path
    <3>1. files'[path].version >= files[path].version /\ files'[path].version # segments[o].version
      BY <1>3, <1>4, <2>1, <2>2
    <3> QED
      BY <2>2, <3>1 DEF FileKept
  <2>3. CASE segments[o].path # path
    <3>1. files'[segments[o].path] = files[segments[o].path] /\ files[segments[o].path].version \in Nat
      BY <1>1, <1>2, <2>1, <2>3 DEF IsFile
    <3> QED
      BY <3>1 DEF FileKept, Current
  <2> QED
    BY <2>2, <2>3
<1> QED
  BY <1>2, <1>4, <1>5, <1>6

\* The application writes a segment.
LEMMA WriteStep ==
    ASSUME PlainMerges, MergeInv, NEW path \in Paths, NEW table \in Tables,
           NEW e \in SegmentEncodings, Write(path, table, e)
    PROVE  MergeInv'
<1> DEFINE n == Len(segments)
           rows == table.rows
           columns == ColumnsOf(rows)
           version == files[path].version + 1
           s == Header(path, version, columns, table.nulls, e)
<1>1. /\ DOMAIN files = Paths /\ \A p \in Paths : IsFile(files[p])
      /\ \A o \in Objects : ObjectInv(o) /\ segments[o].path \in Paths
      /\ n \in Nat /\ Objects = 1 .. n
      /\ IsSequence(segments) /\ IsSequence(holds) /\ Len(holds) = n
  BY FilesOf
<1>2. /\ task # Idle => task.path # path
      /\ files' = [files EXCEPT ![path] = [version |-> version, buffers |-> Encoded(columns, e)]]
      /\ segments' = Append(segments, s) /\ holds' = Append(holds, rows) /\ task' = task
  BY DEF Write
<1>3. rows \in Seq(TableRow) /\ e \in {"Plain", "RLE", "Delta"} /\ version \in Nat
  <2>1. files[path].version \in Nat
    BY <1>1 DEF IsFile
  <2>2. rows \in Seq(TableRow)
    BY MergeAssumption DEF TableRow
  <2>3. e \in {"Plain", "RLE", "Delta"}
    BY DEF PlainMerges
  <2> QED
    BY <2>1, <2>2, <2>3
<1>4. /\ DOMAIN files' = Paths /\ \A p \in Paths : IsFile(files'[p])
      /\ files'[path].version = version /\ files'[path].buffers = Encoded(columns, e)
      /\ \A p \in Paths \ {path} : files'[p] = files[p]
      /\ \A o \in Objects : FileKept(o)
  <2> DEFINE new == Encoded(columns, e)
  <2> HIDE DEF new, columns
  <2>1. files' = [files EXCEPT ![path] = [version |-> files[path].version + 1, buffers |-> new]]
    BY <1>2 DEF new
  <2> QED
    BY <2>1, FileReplaced DEF new
<1>5. /\ IsSegment(s) /\ s.path = path /\ s.version = version
      /\ MadeOf(s, rows) /\ StoredIn(Encoded(columns, e), s, rows)
  <2>1. IsSegment(s) /\ s.path = path /\ s.version = version
    <3> HIDE DEF version, columns
    <3> QED
      BY <1>3 DEF Header, IsSegment
  <2> DEFINE nulls0 == table.nulls
  <2> HIDE DEF nulls0, rows, version
  <2>2. LET h == Header(path, version, ColumnsOf(rows), nulls0, e) IN
        MadeOf(h, rows) /\ StoredIn(Encoded(ColumnsOf(rows), e), h, rows)
    BY <1>3, HeaderMadeOf, Zenon
  <2> QED
    BY <2>1, <2>2 DEF nulls0
<1> HIDE DEF s, rows, columns, version
<1>6. /\ IsSequence(segments') /\ IsSequence(holds') /\ Len(holds') = Len(segments')
      /\ Len(segments') = n + 1 /\ Objects' = 1 .. n + 1
      /\ \A o \in 1 .. n : segments'[o] = segments[o] /\ holds'[o] = holds[o]
      /\ segments'[n + 1] = s /\ holds'[n + 1] = rows
  BY <1>1, <1>2, ObjectsGrow
<1> HIDE DEF n
<1>7. ASSUME NEW o \in Objects PROVE Carried(o)
  <2>1. Reads(o, {}, 0)
    BY <1>1, <1>6 DEF Reads
  <2> QED
    BY <1>1, <1>4, <2>1, ReadsCarry
<1>8. PICK new \in Nat : new = n + 1
  BY <1>1
<1>9. Objects' \ Objects = {new}
  BY <1>1, <1>6, <1>8
<1>10. ObjectInv(new)'
  <2>1. version <= version
    BY <1>3
  <2> QED
    BY <1>4, <1>5, <1>6, <1>8, <2>1 DEF ObjectInv, Current
<1>11. TaskInv'
  <2>1. TaskInv
    BY DEF MergeInv
  <2>2. task # Idle => files'[task.path].version = files[task.path].version
    BY <1>2, <1>4, <2>1 DEF TaskInv
  <2>3. Len(segments') >= Len(segments)
    BY <1>1, <1>6 DEF n
  <2>4. \A o \in Objects' \ Objects : task # Idle => segments'[o].path # task.path
    BY <1>2, <1>5, <1>6, <1>9, <1>8
  <2> QED
    BY <1>1, <1>2, <1>6, <1>7, <2>1, <2>2, <2>3, <2>4, CarriedTask
<1>12. \A o \in Objects' \ Objects : ObjectInv(o)'
  BY <1>9, <1>10
<1> QED
  BY <1>4, <1>6, <1>7, <1>11, <1>12, InvGrows

\* The inputs of a merge are objects, with columns.
LEMMA InputsAre ==
    ASSUME PlainMerges, MergeInv, NEW inputs \in Inputs
    PROVE  /\ inputs \in Seq(Objects) /\ Len(inputs) \in Nat /\ DOMAIN inputs = 1 .. Len(inputs)
           /\ \A k \in DOMAIN inputs : inputs[k] \in Objects /\ segments[inputs[k]].cache # <<>>
<1>1. PICK n \in 0 .. MaxInputs : inputs \in [1 .. n -> Objects]
  BY DEF Inputs
<1>2. n \in Nat
  BY MergeAssumption
<1>3. inputs \in Seq(Objects) /\ DOMAIN inputs = 1 .. n
  BY <1>1, <1>2, SeqDef
<1>4. \A k \in DOMAIN inputs : segments[inputs[k]].cache # <<>>
  BY DEF Inputs, PlainMerges
<1> QED
  BY <1>1, <1>3, <1>4, LenProperties

\* Promised rows of the inputs: the rows of each, all of them readable.
LEMMA RowsOfInputsAre ==
    ASSUME PlainMerges, MergeInv, NEW inputs \in Inputs, RowsOfInputs(inputs) # Unknown
    PROVE  /\ \A k \in DOMAIN inputs : /\ StillHolds(inputs[k]) # Unknown
                                       /\ DOMAIN segments[inputs[k]].cache = 1 .. NumColumns
                                       /\ Whole(segments[inputs[k]], holds[inputs[k]])
           /\ RowsOfInputs(inputs) = FlattenSeq([k \in DOMAIN inputs |-> holds[inputs[k]]])
<1>1. /\ \A k \in DOMAIN inputs : StillHolds(inputs[k]) # Unknown /\ Covered(inputs[k])
      /\ RowsOfInputs(inputs) = FlattenSeq([k \in DOMAIN inputs |-> holds[inputs[k]]])
  BY DEF RowsOfInputs
<1>2. ASSUME NEW k \in DOMAIN inputs
      PROVE  /\ DOMAIN segments[inputs[k]].cache = 1 .. NumColumns
             /\ Whole(segments[inputs[k]], holds[inputs[k]])
  <2> DEFINE o == inputs[k]
             s == segments[o]
  <2>1. o \in Objects /\ s.cache # <<>>
    BY InputsAre
  <2>2. StillHolds(o) # Unknown /\ Covered(o) /\ ObjectInv(o)
    BY <1>1, <2>1, FilesOf
  <2> HIDE DEF o
  <2>3. holds[o] # Unknown
    BY <2>2 DEF StillHolds
  <2>4. MadeOf(s, holds[o])
    BY <2>2, <2>3 DEF ObjectInv
  <2>5. DOMAIN s.cache = 1 .. NumColumns
    <3>1. s.cache = [c \in DOMAIN s.cache |-> s.cache[c]]
      BY <2>4 DEF MadeOf
    <3> DEFINE cache == s.cache
    <3> HIDE DEF cache
    <3>2. cache = [c \in DOMAIN cache |-> cache[c]] /\ cache # <<>>
      BY <2>1, <3>1 DEF cache
    <3>3. DOMAIN cache # {}
      <4> SUFFICES ASSUME DOMAIN cache = {} PROVE cache = <<>>
        BY <3>2
      <4>1. cache = [c \in 1 .. 0 |-> cache[c]] /\ 0 \in Nat
        BY <3>2
      <4>2. IsSequence(cache) /\ Len(cache) = 0
        BY <4>1, FunctionSequence
      <4> QED
        BY <4>2, EmptySeq DEF IsSequence
    <3> QED
      BY <2>4, <3>3 DEF MadeOf, cache
  <2>6. Whole(s, holds[o])
    <3>1. ASSUME NEW c \in 1 .. NumColumns
          PROVE  Len(Reading(s.enc, ColumnOf(holds[o], c))) >= Len(holds[o])
      <4>1. c \in DOMAIN segments[o].cache
        BY <2>5
      <4>2. GetColumn(o, c, 0) = Reading(s.enc, ColumnOf(holds[o], c))
        BY <2>2, <4>1, PromisedColumn
      <4>3. Len(GetColumn(o, c, 0)) >= s.numRows
        BY <2>2, <4>1 DEF Covered
      <4>4. s.numRows = Len(holds[o])
        BY <2>4 DEF MadeOf
      <4> QED
        BY <4>2, <4>3, <4>4
    <3> QED
      BY <3>1 DEF Whole
  <2> QED
    BY <2>5, <2>6 DEF o
<1> QED
  BY <1>1, <1>2

\* A worker opens the output of a merge.
LEMMA OpenStep ==
    ASSUME PlainMerges, MergeInv, NEW inputs \in Inputs, NEW path \in Paths,
           \A k \in DOMAIN inputs : segments[inputs[k]].path # path, OpenOutput(inputs, path)
    PROVE  MergeInv'
<1>1. /\ \A o \in Objects : ObjectInv(o) /\ segments[o].path \in Paths
      /\ IsSequence(segments) /\ IsSequence(holds) /\ Len(holds) = Len(segments)
      /\ \A p \in Paths : IsFile(files[p]) /\ DOMAIN files = Paths
  BY FilesOf
<1>2. /\ task' = [inputs |-> inputs, path |-> path, rows |-> RowsOfInputs(inputs)]
      /\ files' = [files EXCEPT ![path] = [version |-> files[path].version + 1, buffers |-> <<>>]]
      /\ segments' = segments /\ holds' = holds
  BY <1>1 DEF OpenOutput
<1>3. /\ DOMAIN files' = Paths /\ \A p \in Paths : IsFile(files'[p])
      /\ files'[path].version = files[path].version + 1
      /\ \A o \in Objects : FileKept(o)
  BY <1>2, FileReplaced
<1>4. ASSUME NEW o \in Objects PROVE Carried(o)
  <2>1. Reads(o, {}, 0)
    BY <1>2 DEF Reads
  <2> QED
    BY <1>1, <1>3, <2>1, ReadsCarry
<1>5. Objects' = Objects
  BY <1>2 DEF Objects
<1>6. TaskInv'
  <2>1. /\ task'.path = path /\ task'.inputs = inputs /\ task'.rows = RowsOfInputs(inputs)
    BY <1>2
  <2>2. ASSUME NEW o \in Objects, segments[o].path = path
        PROVE  segments[o].version < files'[path].version
    <3>1. segments[o].version \in Nat /\ segments[o].version <= files[path].version
      BY <1>1, <2>2 DEF ObjectInv, IsSegment
    <3>2. files[path].version \in Nat
      BY <1>1 DEF IsFile
    <3> QED
      BY <1>3, <3>1, <3>2
  <2>3. inputs \in Seq(Objects)
    BY InputsAre
  <2>4. ASSUME RowsOfInputs(inputs) # Unknown
        PROVE  /\ \A k \in DOMAIN inputs : /\ DOMAIN segments[inputs[k]].cache = 1 .. NumColumns
                                           /\ Whole(segments[inputs[k]], holds[inputs[k]])
               /\ RowsOfInputs(inputs) = FlattenSeq([k \in DOMAIN inputs |-> holds[inputs[k]]])
    BY <2>4, RowsOfInputsAre
  <2> QED
    BY <1>2, <1>5, <2>1, <2>2, <2>3, <2>4 DEF TaskInv
<1>7. \A o \in Objects' \ Objects : ObjectInv(o)'
  BY <1>5
<1> QED
  BY <1>1, <1>2, <1>3, <1>4, <1>6, <1>7, InvGrows

\* A merge whose rows are promised writes them, column by column: each input
\* still gives all its rows, and the columns of the inputs end to end are the
\* columns of their rows end to end.
LEMMA MergedTable ==
    ASSUME MergeInv, task # Idle, PromisedRows # Unknown, NEW junk
    PROVE  \/ task.inputs = <<>> /\ PromisedRows = <<>>
           \/ /\ task.inputs # <<>> /\ PromisedRows \in Seq(TableRow)
              /\ segments[task.inputs[1]].enc \in {"Plain", "RLE", "Delta"}
              /\ [c \in DOMAIN segments[task.inputs[1]].cache |-> MergedColumn(task.inputs, c, junk)]
                     = ColumnsOf(PromisedRows)
<1> DEFINE inputs == task.inputs
           m == Len(inputs)
           parts == [k \in 1 .. m |-> holds[inputs[k]]]
<1>1. /\ inputs \in Seq(Objects)
      /\ \A k \in DOMAIN inputs : segments[inputs[k]].path # task.path
  BY DEF MergeInv, TaskInv
<1>2. PromisedRows = task.rows /\ \A k \in DOMAIN inputs : StillHolds(inputs[k]) # Unknown
  BY <1>1 DEF PromisedRows
<1>3. /\ \A k \in DOMAIN inputs : /\ DOMAIN segments[inputs[k]].cache = 1 .. NumColumns
                                  /\ Whole(segments[inputs[k]], holds[inputs[k]])
      /\ task.rows = FlattenSeq([k \in DOMAIN inputs |-> holds[inputs[k]]])
  BY <1>2 DEF MergeInv, TaskInv
<1>4. m \in Nat /\ DOMAIN inputs = 1 .. m /\ \A k \in 1 .. m : inputs[k] \in Objects
  <2> HIDE DEF inputs
  <2> QED
    BY <1>1, LenProperties, ElementOfSeq
<1> HIDE DEF inputs, m
<1>5. ASSUME NEW k \in 1 .. m
      PROVE  /\ ObjectInv(inputs[k]) /\ holds[inputs[k]] \in Seq(TableRow)
             /\ segments[inputs[k]].enc \in {"Plain", "RLE", "Delta"}
             /\ StillHolds(inputs[k]) # Unknown /\ holds[inputs[k]] # Unknown
  <2>1. inputs[k] \in Objects /\ StillHolds(inputs[k]) # Unknown
    BY <1>2, <1>4
  <2>2. ObjectInv(inputs[k]) /\ holds[inputs[k]] # Unknown
    BY <2>1 DEF MergeInv, StillHolds
  <2>3. MadeOf(segments[inputs[k]], holds[inputs[k]])
    BY <2>2 DEF ObjectInv
  <2> QED
    BY <2>1, <2>2, <2>3 DEF MadeOf
<1>6. parts \in [1 .. m -> Seq(TableRow)] /\ task.rows = FlattenSeq(parts)
  BY <1>3, <1>4, <1>5
<1>7. CASE m = 0
  <2>1. parts = <<>> /\ Len(parts) = 0
    BY <1>7
  <2>2. FlattenSeq(parts) = parts
    <3> HIDE DEF parts
    <3> QED
      BY <2>1 DEF FlattenSeq
  <2>3. inputs = <<>>
    BY <1>1, <1>7, EmptySeq DEF m, inputs
  <2> QED
    BY <1>2, <1>6, <2>1, <2>2, <2>3 DEF inputs
<1>8. CASE m # 0
  <2>1. 1 \in 1 .. m /\ inputs # <<>>
    BY <1>4, <1>8 DEF m
  <2>2. FlattenSeq(parts) \in Seq(TableRow)
    <3>1. 1 \in 1 .. NumColumns
      BY MergeAssumption
    <3> HIDE DEF parts
    <3> QED
      BY <1>4, <1>6, <3>1, FlattenColumns
  <2>3. ASSUME NEW c \in 1 .. NumColumns
        PROVE  MergedColumn(inputs, c, junk) = ColumnOf(FlattenSeq(parts), c)
    <3>1. ASSUME NEW k \in 1 .. m PROVE GetColumnData(inputs[k], c, junk) = ColumnOf(parts[k], c)
      <4> DEFINE o == inputs[k]
      <4>1. ObjectInv(o) /\ StillHolds(o) # Unknown /\ parts[k] = holds[o]
        BY <1>5
      <4>2. DOMAIN segments[o].cache = 1 .. NumColumns /\ Whole(segments[o], holds[o])
        BY <1>3, <1>4
      <4> HIDE DEF o, parts
      <4>3. Len(Reading(segments[o].enc, ColumnOf(holds[o], c))) >= Len(holds[o])
        BY <4>2 DEF Whole
      <4>4. GetColumnData(o, c, junk) = ColumnOf(holds[o], c)
        BY <4>1, <4>2, <4>3, PromisedData
      <4> QED
        BY <4>1, <4>4 DEF o
    <3>2. [k \in DOMAIN inputs |-> GetColumnData(inputs[k], c, junk)]
              = [k \in 1 .. m |-> ColumnOf(parts[k], c)]
      <4> HIDE DEF parts
      <4> QED
        BY <1>4, <3>1
    <3>3. FlattenSeq([k \in 1 .. m |-> ColumnOf(parts[k], c)]) = ColumnOf(FlattenSeq(parts), c)
      <4> HIDE DEF parts
      <4> QED
        BY <1>4, <1>6, FlattenColumns
    <3> QED
      BY <3>2, <3>3, Zenon DEF MergedColumn
  <2>4. DOMAIN segments[inputs[1]].cache = 1 .. NumColumns
    BY <1>3, <1>4, <2>1
  <2>5. [c \in DOMAIN segments[inputs[1]].cache |-> MergedColumn(inputs, c, junk)]
            = ColumnsOf(FlattenSeq(parts))
    <3> HIDE DEF parts
    <3>1. ColumnsOf(FlattenSeq(parts)) = [c \in 1 .. NumColumns |-> ColumnOf(FlattenSeq(parts), c)]
      BY DEF ColumnsOf, ColumnOf
    <3> QED
      BY <2>3, <2>4, <3>1
  <2>6. segments[inputs[1]].enc \in {"Plain", "RLE", "Delta"}
    BY <1>5, <2>1
  <2> QED
    BY <1>2, <1>6, <2>1, <2>2, <2>5, <2>6 DEF inputs
<1> QED
  BY <1>7, <1>8

\* A worker writes the merged segment.
LEMMA ExecuteStep ==
    ASSUME MergeInv, NEW junk, ExecuteMerge(junk) PROVE MergeInv'
<1> DEFINE n == Len(segments)
           inputs == task.inputs
           path == task.path
           version == files[path].version
           none == inputs = <<>>
           e == IF none THEN "Plain" ELSE segments[inputs[1]].enc
           columns == IF none THEN <<>>
                      ELSE [c \in DOMAIN segments[inputs[1]].cache |-> MergedColumn(inputs, c, junk)]
           buffers == Encoded(columns, e)
           before == AfterReading(ToSet(inputs), junk)
           known == PromisedAfter(ToSet(inputs))
           s == Header(path, version, columns, {}, e)
           rows == PromisedRows
<1>1. /\ DOMAIN files = Paths /\ \A p \in Paths : IsFile(files[p])
      /\ \A o \in Objects : ObjectInv(o) /\ segments[o].path \in Paths
      /\ n \in Nat /\ Objects = 1 .. n
  BY FilesOf
<1>2. /\ task # Idle /\ files' = [files EXCEPT ![path].buffers = buffers]
      /\ segments' = Append(before, s) /\ holds' = Append(known, rows) /\ task' = Idle
  BY DEF ExecuteMerge
<1>3. /\ path \in Paths /\ version \in Nat
      /\ \A o \in Objects : segments[o].path = path => segments[o].version < version
  BY <1>1, <1>2 DEF MergeInv, TaskInv, IsFile
<1>4. rows # Unknown => MadeOf(s, rows) /\ StoredIn(buffers, s, rows)
  <2> SUFFICES ASSUME rows # Unknown PROVE MadeOf(s, rows) /\ StoredIn(buffers, s, rows)
    OBVIOUS
  <2>1. \/ inputs = <<>> /\ rows = <<>>
        \/ /\ inputs # <<>> /\ rows \in Seq(TableRow)
           /\ segments[inputs[1]].enc \in {"Plain", "RLE", "Delta"}
           /\ [c \in DOMAIN segments[inputs[1]].cache |-> MergedColumn(inputs, c, junk)]
                  = ColumnsOf(rows)
    BY <1>2, MergedTable
  <2> HIDE DEF path, version, rows
  <2>2. CASE inputs = <<>> /\ rows = <<>>
    <3>1. e = "Plain" /\ columns = <<>>
      BY <2>2
    <3> DEFINE nulls0 == {}
    <3> HIDE DEF e, columns, buffers, nulls0
    <3>2. LET h == Header(path, version, <<>>, nulls0, "Plain") IN
          MadeOf(h, <<>>) /\ StoredIn(buffers, h, <<>>)
      BY <1>3, HeaderOfNothing, Zenon
    <3> QED
      BY <2>2, <3>1, <3>2 DEF nulls0
  <2>3. CASE inputs # <<>>
    <3>1. e \in {"Plain", "RLE", "Delta"} /\ columns = ColumnsOf(rows) /\ rows \in Seq(TableRow)
      BY <2>1, <2>3
    <3> DEFINE nulls0 == {}
    <3> HIDE DEF e, columns, nulls0
    <3>2. LET h == Header(path, version, ColumnsOf(rows), nulls0, e) IN
          MadeOf(h, rows) /\ StoredIn(Encoded(ColumnsOf(rows), e), h, rows)
      BY <1>3, <3>1, HeaderMadeOf, Zenon
    <3> QED
      BY <3>1, <3>2 DEF nulls0
  <2> QED
    BY <2>1, <2>2, <2>3
<1> HIDE DEF rows, buffers, columns, e
<1>5. IsSegment(s) /\ s.path = path /\ s.version = version
  <2> HIDE DEF path, version
  <2> QED
    BY <1>3 DEF Header, IsSegment
<1>6. /\ DOMAIN files' = Paths /\ \A p \in Paths : IsFile(files'[p])
      /\ files'[path].version = version /\ files'[path].buffers = buffers
      /\ \A p \in Paths \ {path} : files'[p] = files[p]
  <2> DEFINE f == files[path]
  <2>1. IsFile(f)
    BY <1>1, <1>3
  <2>2. /\ DOMAIN files' = Paths /\ files'[path] = [f EXCEPT !.buffers = buffers]
        /\ \A p \in Paths \ {path} : files'[p] = files[p]
    BY <1>1, <1>2, <1>3
  <2>3. files'[path] = [version |-> f.version, buffers |-> buffers]
    <3> HIDE DEF f
    <3> QED
      BY <2>1, <2>2 DEF IsFile
  <2>4. files'[path].version = version /\ files'[path].buffers = buffers
    BY <2>3
  <2>5. IsFile(files'[path])
    BY <1>3, <2>3, <2>4 DEF IsFile
  <2> QED
    BY <1>1, <2>2, <2>4, <2>5
<1>7. /\ IsSequence(before) /\ Len(before) = n /\ IsSequence(known) /\ Len(known) = n
      /\ \A o \in 1 .. n : /\ before[o] = (IF o \in ToSet(inputs) THEN Loaded(o, junk) ELSE segments[o])
                           /\ known[o] = (IF o \in ToSet(inputs) THEN StillHolds(o) ELSE holds[o])
  <2>1. /\ before = [o \in 1 .. n |-> before[o]] /\ known = [o \in 1 .. n |-> known[o]]
        /\ \A o \in 1 .. n : /\ before[o] = (IF o \in ToSet(inputs) THEN Loaded(o, junk) ELSE segments[o])
                             /\ known[o] = (IF o \in ToSet(inputs) THEN StillHolds(o) ELSE holds[o])
    BY <1>1 DEF AfterReading, PromisedAfter
  <2> HIDE DEF before, known, n
  <2>2. IsSequence(before) /\ Len(before) = n
    BY <1>1, <2>1, FunctionSequence
  <2>3. IsSequence(known) /\ Len(known) = n
    BY <1>1, <2>1, FunctionSequence
  <2> QED
    BY <2>1, <2>2, <2>3
<1> HIDE DEF before, known, s
<1>8. /\ IsSequence(segments') /\ IsSequence(holds') /\ Len(holds') = Len(segments')
      /\ Objects' = 1 .. n + 1
      /\ \A o \in 1 .. n : segments'[o] = before[o] /\ holds'[o] = known[o]
      /\ segments'[n + 1] = s /\ holds'[n + 1] = rows
  <2> HIDE DEF n
  <2> QED
    BY <1>2, <1>7, ObjectsGrow
<1>9. ASSUME NEW o \in Objects PROVE Carried(o)
  <2>1. Reads(o, ToSet(inputs), junk)
    BY <1>1, <1>7, <1>8 DEF Reads
  <2>2. FileKept(o)
    <3>1. segments[o].path \in Paths /\ segments[o].version \in Nat /\ ObjectInv(o)
      BY <1>1 DEF ObjectInv, IsSegment
    <3>2. CASE segments[o].path = path
      <4>1. files'[path].version >= files[path].version /\ files'[path].version # segments[o].version
        BY <1>3, <1>6, <3>1, <3>2
      <4> QED
        BY <3>2, <4>1 DEF FileKept
    <3>3. CASE segments[o].path # path
      <4>1. files'[segments[o].path] = files[segments[o].path] /\ files[segments[o].path].version \in Nat
        BY <1>1, <1>6, <3>1, <3>3 DEF IsFile
      <4> QED
        BY <4>1 DEF FileKept, Current
    <3> QED
      BY <3>2, <3>3
  <2> QED
    BY <1>1, <2>1, <2>2, ReadsCarry
<1>10. PICK new \in Nat : new = n + 1
  BY <1>1
<1>11. Objects' \ Objects = {new}
  BY <1>1, <1>8, <1>10
<1>12. ObjectInv(new)'
  <2>1. segments'[new] = s /\ holds'[new] = rows
    BY <1>8, <1>10
  <2>2. version <= version
    BY <1>3
  <2> HIDE DEF version
  <2>3. s.version <= files'[s.path].version
    BY <1>5, <1>6, <2>2
  <2> QED
    BY <1>4, <1>5, <1>6, <2>1, <2>3 DEF ObjectInv
<1>13. TaskInv'
  BY <1>2 DEF TaskInv
<1>14. \A o \in Objects' \ Objects : ObjectInv(o)'
  BY <1>11, <1>12
<1> QED
  BY <1>6, <1>8, <1>9, <1>13, <1>14, InvGrows

\* There is nothing at first.
LEMMA MergeInvInit ==
    ASSUME MergeInit PROVE MergeInv
<1>1. /\ files = [p \in Paths |-> [version |-> 0, buffers |-> <<>>]]
      /\ segments = <<>> /\ holds = <<>> /\ task = Idle
  BY DEF MergeInit
<1>2. DOMAIN files = Paths /\ \A p \in Paths : IsFile(files[p])
  BY <1>1 DEF IsFile
<1>3. <<>> \in Seq({}) /\ Len(<<>>) = 0 /\ DOMAIN <<>> = {}
  OBVIOUS
<1>4. IsSequence(segments) /\ IsSequence(holds) /\ Len(holds) = Len(segments) /\ Objects = {}
  BY <1>1, <1>3 DEF IsSequence, Objects
<1> QED
  BY <1>1, <1>2, <1>4 DEF MergeInv, TaskInv

\* Every step of an application and its merges.
LEMMA MergeInvNext ==
    ASSUME PlainMerges, MergeInv, [MergeNext]_mergeVars PROVE MergeInv'
<1>1. ASSUME NEW path \in Paths, NEW table \in Tables, NEW e \in SegmentEncodings, Write(path, table, e)
      PROVE  MergeInv'
  BY <1>1, WriteStep
<1>2. ASSUME NEW o \in Objects, NEW junk \in Data, Load(o, junk) PROVE MergeInv'
  <2> DEFINE S == {o}
  <2>1. segments' = AfterReading(S, junk) /\ holds' = PromisedAfter(S) /\ UNCHANGED <<files, task>>
    BY <1>2 DEF Load
  <2> HIDE DEF S
  <2> QED
    BY <2>1, ReadStep
<1>3. ASSUME NEW inputs \in Inputs, NEW path \in Paths,
             OutputOverInput \/ \A k \in DOMAIN inputs : segments[inputs[k]].path # path,
             OpenOutput(inputs, path)
      PROVE  MergeInv'
  <2>1. \A k \in DOMAIN inputs : segments[inputs[k]].path # path
    BY <1>3 DEF PlainMerges
  <2> QED
    BY <1>3, <2>1, OpenStep
<1>4. ASSUME NEW junk \in Data, ExecuteMerge(junk) PROVE MergeInv'
  BY <1>4, ExecuteStep
<1>5. ASSUME NEW inputs \in Inputs, NEW history \in Histories, NEW junk \in Data,
             MergeColumns(inputs, history, junk)
      PROVE  MergeInv'
  <2> DEFINE S == ToSet(inputs)
  <2>1. segments' = AfterReading(S, junk) /\ holds' = PromisedAfter(S) /\ UNCHANGED <<files, task>>
    BY <1>5 DEF MergeColumns
  <2> HIDE DEF S
  <2> QED
    BY <2>1, ReadStep
<1>6. CASE UNCHANGED mergeVars
  BY <1>6 DEF mergeVars, MergeInv, ObjectInv, TaskInv, Objects, Current, StillHolds
<1> QED
  BY <1>1, <1>2, <1>3, <1>4, <1>5, <1>6, Zenon DEF MergeNext

(***************************************************************************)
(* MergeKeepsEveryRow, for every table, number of columns, path, encoding  *)
(* among Plain, RLE and Delta, and every sequence of writes, reads and     *)
(* merges in plain use: a segment reads back the rows it was made of.      *)
(***************************************************************************)
THEOREM MergesKeepEveryRow ==
    ASSUME PlainMerges PROVE MergeSpec => []MergeKeepsEveryRow
<1>1. MergeInit => MergeInv
  BY MergeInvInit
<1>2. MergeInv /\ [MergeNext]_mergeVars => MergeInv'
  BY MergeInvNext
<1>3. MergeInv => MergeKeepsEveryRow
  <2> SUFFICES ASSUME MergeInv, NEW o \in Objects, StillHolds(o) # Unknown, Covered(o)
               PROVE  \/ ColumnsRead(o) = ColumnsOf(holds[o])
                      \/ ColumnsRead(o) = <<>> /\ holds[o] = <<>>
    BY DEF MergeKeepsEveryRow
  <2> DEFINE s == segments[o]
  <2>1. ObjectInv(o) /\ holds[o] # Unknown
    BY DEF MergeInv, StillHolds
  <2>2. MadeOf(s, holds[o])
    BY <2>1 DEF ObjectInv
  <2>3. CASE DOMAIN s.cache = {} /\ holds[o] = <<>>
    <3>1. ColumnsRead(o) = [c \in {} |-> GetColumnData(o, c, 0)]
      BY <2>3 DEF ColumnsRead
    <3>2. [c \in {} |-> GetColumnData(o, c, 0)] = <<>>
      <4> DEFINE f == [c \in {} |-> GetColumnData(o, c, 0)]
      <4>1. f = [c \in 1 .. 0 |-> f[c]] /\ 0 \in Nat
        OBVIOUS
      <4> HIDE DEF f
      <4>2. IsSequence(f) /\ Len(f) = 0
        BY <4>1, FunctionSequence
      <4>3. f = <<>>
        BY <4>2, EmptySeq DEF IsSequence
      <4> QED
        BY <4>3 DEF f
    <3> QED
      BY <2>3, <3>1, <3>2
  <2>4. CASE DOMAIN s.cache = 1 .. NumColumns
    <3>1. ASSUME NEW c \in 1 .. NumColumns PROVE GetColumnData(o, c, 0) = ColumnOf(holds[o], c)
      <4>1. c \in DOMAIN segments[o].cache
        BY <2>4
      <4>2. Len(GetColumn(o, c, 0)) >= s.numRows /\ s.numRows = Len(holds[o])
        BY <2>2, <4>1 DEF Covered, MadeOf
      <4>3. GetColumn(o, c, 0) = Reading(s.enc, ColumnOf(holds[o], c))
        BY <2>1, <4>1, PromisedColumn
      <4>4. Len(Reading(segments[o].enc, ColumnOf(holds[o], c))) >= Len(holds[o])
        BY <4>2, <4>3
      <4> QED
        BY <2>1, <4>1, <4>4, PromisedData
    <3>2. ColumnsRead(o) = [c \in 1 .. NumColumns |-> GetColumnData(o, c, 0)]
      BY <2>4 DEF ColumnsRead
    <3>3. ColumnsOf(holds[o]) = [c \in 1 .. NumColumns |-> ColumnOf(holds[o], c)]
      BY DEF ColumnsOf, ColumnOf
    <3> QED
      BY <3>1, <3>2, <3>3
  <2> QED
    BY <2>2, <2>3, <2>4 DEF MadeOf
<1> QED
  BY <1>1, <1>2, <1>3, PTL DEF MergeSpec

(***************************************************************************)
(* StatsBoundTheColumn, likewise: the bounds in the header of a segment    *)
(* bound every row that was not declared null, and are the values of such  *)
(* rows or of the first.                                                   *)
(***************************************************************************)
THEOREM StatsBoundEveryColumn ==
    ASSUME PlainMerges PROVE MergeSpec => []StatsBoundTheColumn
<1>1. MergeInit => MergeInv
  BY MergeInvInit
<1>2. MergeInv /\ [MergeNext]_mergeVars => MergeInv'
  BY MergeInvNext
<1>3. MergeInv => StatsBoundTheColumn
  <2> SUFFICES ASSUME MergeInv, NEW o \in Objects, StillHolds(o) # Unknown,
                      NEW c \in DOMAIN segments[o].cache
               PROVE  LET shown == DOMAIN holds[o] \ segments[o].declared
                          s == segments[o].stats[c]
                      IN /\ \A i \in shown : s.min <= holds[o][i][c] /\ holds[o][i][c] <= s.max
                         /\ holds[o] # <<>> =>
                                {s.min, s.max} \subseteq {holds[o][i][c] : i \in shown \cup {1}}
    BY Zenon DEF StatsBoundTheColumn
  <2>1. ObjectInv(o) /\ holds[o] # Unknown
    BY DEF MergeInv, StillHolds
  <2>2. Bounds(segments[o].stats[c], holds[o], segments[o].declared, c)
    BY <2>1 DEF ObjectInv, MadeOf
  <2> QED
    BY <2>2, Zenon DEF Bounds
<1> QED
  BY <1>1, <1>2, <1>3, PTL DEF MergeSpec
-----------------------------------------------------------------------------
(* Sets in order *)

\* A strict total order of a finite set, given as its pairs.
StrictOrder(S, R) ==
    /\ IsFiniteSet(S)
    /\ \A x \in S : <<x, x>> \notin R
    /\ \A x, y, z \in S : <<x, y>> \in R /\ <<y, z>> \in R => <<x, z>> \in R
    /\ \A x, y \in S : x # y => <<x, y>> \in R \/ <<y, x>> \in R

Preceding(S, R, x) == {y \in S : <<y, x>> \in R}
Rank(S, R, x) == Cardinality(Preceding(S, R, x))

\* The rank tells the members apart, and grows along the order.
LEMMA RankGrows ==
    ASSUME NEW S, NEW R, StrictOrder(S, R)
    PROVE  /\ Cardinality(S) \in Nat
           /\ \A x \in S : Rank(S, R, x) \in 0 .. Cardinality(S) - 1
           /\ \A x, y \in S : <<x, y>> \in R => Rank(S, R, x) < Rank(S, R, y)
<1>1. IsFiniteSet(S) /\ Cardinality(S) \in Nat
  BY FS_CardinalityType DEF StrictOrder
<1>2. ASSUME NEW x \in S
      PROVE  /\ IsFiniteSet(Preceding(S, R, x)) /\ Rank(S, R, x) \in Nat
             /\ Rank(S, R, x) \in 0 .. Cardinality(S) - 1
  <2> DEFINE P == Preceding(S, R, x)
  <2>1. P \in SUBSET S /\ x \notin P
    BY DEF Preceding, StrictOrder
  <2>2. P # S
    BY <2>1
  <2> HIDE DEF P
  <2>3. IsFiniteSet(P) /\ Cardinality(P) <= Cardinality(S) /\ Cardinality(S) # Cardinality(P)
    BY <1>1, <2>1, <2>2, FS_Subset
  <2>4. Cardinality(P) \in Nat
    BY <2>3, FS_CardinalityType
  <2>5. Cardinality(P) \in 0 .. Cardinality(S) - 1
    BY <1>1, <2>3, <2>4
  <2> QED
    BY <2>3, <2>4, <2>5 DEF P, Rank
<1>3. ASSUME NEW x \in S, NEW y \in S, <<x, y>> \in R PROVE Rank(S, R, x) < Rank(S, R, y)
  <2> DEFINE P == Preceding(S, R, x)
             Q == Preceding(S, R, y)
  <2>1. P \in SUBSET Q /\ x \in Q /\ x \notin P
    BY <1>3 DEF Preceding, StrictOrder
  <2>2. IsFiniteSet(Q) /\ Cardinality(P) \in Nat /\ Cardinality(Q) \in Nat
    BY <1>2 DEF Rank
  <2> HIDE DEF P, Q
  <2>3. Cardinality(P) <= Cardinality(Q) /\ Cardinality(Q) # Cardinality(P)
    BY <2>1, <2>2, FS_Subset
  <2>4. Cardinality(P) < Cardinality(Q)
    BY <2>2, <2>3
  <2> QED
    BY <2>4 DEF P, Q, Rank
<1> QED
  BY <1>1, <1>2, <1>3

\* So every rank is taken.
LEMMA RankTaken ==
    ASSUME NEW S, NEW R, StrictOrder(S, R)
    PROVE  \A j \in 0 .. Cardinality(S) - 1 : \E x \in S : Rank(S, R, x) = j
<1> DEFINE n == Cardinality(S)
           T == 0 .. n - 1
           f == [x \in S |-> Rank(S, R, x)]
<1>1. n \in Nat /\ f \in [S -> T] /\ IsFiniteSet(S)
  BY RankGrows DEF StrictOrder
<1>2. \A x, y \in S : f[x] = f[y] => x = y
  <2> SUFFICES ASSUME NEW x \in S, NEW y \in S, x # y PROVE Rank(S, R, x) # Rank(S, R, y)
    OBVIOUS
  <2>1. <<x, y>> \in R \/ <<y, x>> \in R
    BY DEF StrictOrder
  <2>2. Rank(S, R, x) < Rank(S, R, y) \/ Rank(S, R, y) < Rank(S, R, x)
    BY <2>1, RankGrows
  <2>3. Rank(S, R, x) \in Int /\ Rank(S, R, y) \in Int
    BY RankGrows
  <2> QED
    BY <2>2, <2>3
<1> HIDE DEF f
<1>3. f \in Injection(S, T)
  BY <1>1, <1>2 DEF Injection, IsInjective
<1>4. IsFiniteSet(T) /\ Cardinality(T) = n
  <2>1. 0 \in Int /\ n - 1 \in Int
    BY <1>1
  <2>2. IsFiniteSet(0 .. n - 1) /\ Cardinality(0 .. n - 1) = IF 0 > n - 1 THEN 0 ELSE n - 1 - 0 + 1
    <3> HIDE DEF n
    <3> QED
      BY <2>1, FS_Interval
  <2> HIDE DEF n
  <2> QED
    BY <1>1, <2>2
<1> HIDE DEF n, T
<1>5. f \in Surjection(S, T)
  BY <1>3, <1>4, FS_Injection DEF n
<1>6. \A j \in T : \E x \in S : f[x] = j
  BY <1>5 DEF Surjection
<1> QED
  BY <1>6 DEF f, T, n

\* Ordered lists the members by their rank.
LEMMA OrderedAt ==
    ASSUME NEW S, NEW R, StrictOrder(S, R), NEW x \in S, NEW k \in 1 .. Cardinality(S),
           Rank(S, R, x) = k - 1
    PROVE  Ordered(S, R)[k] = x
<1> DEFINE A(z) == Cardinality({y \in S : <<y, z>> \in R}) = k - 1
<1>1. A(x)
  BY DEF Rank, Preceding
<1>2. ASSUME NEW z \in S, A(z), z # x PROVE FALSE
  <2>1. Rank(S, R, z) = k - 1
    BY <1>2 DEF Rank, Preceding
  <2>2. <<x, z>> \in R \/ <<z, x>> \in R
    BY <1>2 DEF StrictOrder
  <2>3. Rank(S, R, x) < Rank(S, R, z) \/ Rank(S, R, z) < Rank(S, R, x)
    BY <1>2, <2>2, RankGrows
  <2>4. Rank(S, R, x) \in Int
    BY RankGrows
  <2> QED
    BY <2>1, <2>3, <2>4
<1>3. Ordered(S, R)[k] = CHOOSE z \in S : A(z)
  BY Zenon DEF Ordered
<1> HIDE DEF A
<1> QED
  BY <1>1, <1>2, <1>3, Zenon

\* It is a function over the first numbers.
LEMMA OrderedFunction ==
    ASSUME NEW S, NEW R
    PROVE  Ordered(S, R) = [k \in 1 .. Cardinality(S) |-> Ordered(S, R)[k]]
<1> DEFINE pick(k) == CHOOSE x \in S : Cardinality({y \in S : <<y, x>> \in R}) = k - 1
<1>1. Ordered(S, R) = [k \in 1 .. Cardinality(S) |-> pick(k)]
  BY Zenon DEF Ordered
<1> HIDE DEF pick
<1> QED
  BY <1>1

\* Ordered is a sequence of all the members, each before the next.
Listed(S, R, q, n) ==
    /\ n \in Nat /\ q \in [1 .. n -> S]
    /\ \A x \in S : \E k \in 1 .. n : q[k] = x
    /\ \A j, k \in 1 .. n : j < k => <<q[j], q[k]>> \in R

LEMMA OrderedIs ==
    ASSUME NEW S, NEW R, StrictOrder(S, R)
    PROVE  Listed(S, R, Ordered(S, R), Cardinality(S))
<1> DEFINE n == Cardinality(S)
           q == Ordered(S, R)
<1>1. n \in Nat
  BY RankGrows
<1>2. ASSUME NEW k \in 1 .. n PROVE q[k] \in S /\ Rank(S, R, q[k]) = k - 1
  <2>1. k - 1 \in 0 .. n - 1
    BY <1>1
  <2>2. PICK x \in S : Rank(S, R, x) = k - 1
    BY <2>1, RankTaken
  <2>3. q[k] = x
    BY <2>2, OrderedAt
  <2> QED
    BY <2>2, <2>3
<1>3. q = [k \in 1 .. n |-> q[k]]
  BY OrderedFunction
<1> HIDE DEF q, n
<1>4. q \in [1 .. n -> S]
  BY <1>2, <1>3
<1>5. ASSUME NEW x \in S PROVE \E k \in 1 .. n : q[k] = x
  <2> DEFINE k == Rank(S, R, x) + 1
  <2>1. k \in 1 .. n /\ Rank(S, R, x) = k - 1
    <3>1. Rank(S, R, x) \in 0 .. n - 1
      BY RankGrows DEF n
    <3> QED
      BY <1>1, <3>1
  <2> HIDE DEF k
  <2>2. Ordered(S, R)[k] = x
    BY <2>1, OrderedAt DEF n
  <2> QED
    BY <2>1, <2>2 DEF q
<1>6. ASSUME NEW j \in 1 .. n, NEW k \in 1 .. n, j < k PROVE <<q[j], q[k]>> \in R
  <2>1. q[j] \in S /\ q[k] \in S /\ Rank(S, R, q[j]) = j - 1 /\ Rank(S, R, q[k]) = k - 1
    BY <1>2
  <2>2. j - 1 < k - 1 /\ ~(k - 1 < j - 1) /\ j - 1 # k - 1
    BY <1>1, <1>6
  <2>3. q[j] # q[k]
    BY <2>1, <2>2
  <2>4. ~(<<q[k], q[j]>> \in R)
    BY <2>1, <2>2, RankGrows
  <2> QED
    BY <2>1, <2>3, <2>4 DEF StrictOrder
<1> QED
  BY <1>1, <1>4, <1>5, <1>6 DEF Listed, q, n

\* And there is only one such sequence.
LEMMA OrderedUnique ==
    ASSUME NEW S, NEW R, StrictOrder(S, R), NEW q, NEW n, Listed(S, R, q, n)
    PROVE  Ordered(S, R) = q /\ Cardinality(S) = n
<1>1. n \in Nat /\ q \in [1 .. n -> S] /\ \A x \in S : \E k \in 1 .. n : q[k] = x
  BY DEF Listed
<1>2. \A j, k \in 1 .. n : j < k => <<q[j], q[k]>> \in R
  BY DEF Listed
<1>3. \A j, k \in 1 .. n : j # k => q[j] # q[k]
  <2>1. \A x \in S : <<x, x>> \notin R
    BY DEF StrictOrder
  <2> SUFFICES ASSUME NEW j \in 1 .. n, NEW k \in 1 .. n, j # k PROVE q[j] # q[k]
    OBVIOUS
  <2>2. j < k \/ k < j
    BY <1>1
  <2>3. q[j] \in S /\ q[k] \in S
    BY <1>1
  <2> QED
    BY <1>2, <2>1, <2>2, <2>3, Zenon
<1>4. ASSUME NEW k \in 0 .. n, NEW T, T = {q[j] : j \in 1 .. k} PROVE Cardinality(T) = k
  <2> DEFINE f == [j \in 1 .. k |-> q[j]]
  <2>1. k \in Nat /\ \A j \in 1 .. k : j \in 1 .. n
    BY <1>1
  <2>2. f \in [1 .. k -> T] /\ \A i, j \in 1 .. k : f[i] = f[j] => i = j
    BY <1>3, <1>4, <2>1
  <2>3. \A x \in T : \E j \in 1 .. k : f[j] = x
    BY <1>4
  <2> HIDE DEF f
  <2>4. f \in Bijection(1 .. k, T)
    BY <2>2, <2>3 DEF Bijection, Injection, Surjection, IsInjective
  <2>5. ExistsBijection(1 .. k, T)
    BY <2>4 DEF ExistsBijection
  <2> QED
    BY <2>1, <2>5, FS_CountingElements
<1>5. Cardinality(S) = n
  <2>1. S = {q[j] : j \in 1 .. n} /\ n \in 0 .. n
    BY <1>1
  <2> QED
    BY <1>4, <2>1
<1>6. ASSUME NEW k \in 1 .. n PROVE Ordered(S, R)[k] = q[k]
  <2> DEFINE T == Preceding(S, R, q[k])
  <2>1. T = {q[j] : j \in 1 .. k - 1}
    <3>1. ASSUME NEW j \in 1 .. k - 1 PROVE q[j] \in T
      <4>1. j \in 1 .. n /\ j < k
        BY <1>1
      <4> QED
        BY <1>1, <1>2, <4>1 DEF Preceding
    <3>2. ASSUME NEW x \in T PROVE \E j \in 1 .. k - 1 : x = q[j]
      <4>1. x \in S /\ <<x, q[k]>> \in R
        BY DEF Preceding
      <4>2. PICK j \in 1 .. n : q[j] = x
        BY <1>1, <4>1
      <4>3. j # k
        <5>1. <<q[k], q[k]>> \notin R
          BY <1>1 DEF StrictOrder
        <5> QED
          BY <4>1, <4>2, <5>1
      <4>4. ~(k < j)
        <5> SUFFICES ASSUME k < j PROVE FALSE
          OBVIOUS
        <5>1. <<q[k], q[j]>> \in R /\ q[k] \in S /\ q[j] \in S
          BY <1>1, <1>2
        <5>2. <<q[k], q[k]>> \in R
          BY <4>1, <4>2, <5>1 DEF StrictOrder
        <5> QED
          BY <5>1, <5>2 DEF StrictOrder
      <4>5. j \in 1 .. k - 1
        BY <1>1, <4>3, <4>4
      <4> QED
        BY <4>2, <4>5
    <3> HIDE DEF T
    <3> QED
      BY <3>1, <3>2
  <2>2. k - 1 \in 0 .. n
    BY <1>1
  <2> HIDE DEF T
  <2>3. Cardinality(T) = k - 1
    BY <1>4, <2>1, <2>2
  <2>4. q[k] \in S /\ k \in 1 .. Cardinality(S) /\ Rank(S, R, q[k]) = k - 1
    BY <1>1, <1>5, <2>3 DEF Rank, T
  <2> QED
    BY <2>4, OrderedAt
<1>7. Ordered(S, R) = [k \in 1 .. n |-> Ordered(S, R)[k]]
  BY <1>5, OrderedFunction
<1>8. Ordered(S, R) = q
  BY <1>1, <1>6, <1>7
<1> QED
  BY <1>5, <1>8
-----------------------------------------------------------------------------
(* A delta store's column *)

InsertOf(call, r) == call.kind = "insert" /\ call.row = r

\* The column has the last insert of row r among the first n calls, if any.
Inserted(column, h, n, r, c) ==
    \/ column.inserts[r] = Absent /\ \A g \in 1 .. n : ~InsertOf(h[g], r)
    \/ \E g \in 1 .. n : /\ InsertOf(h[g], r) /\ \A f \in 1 .. n : f > g => ~InsertOf(h[f], r)
                         /\ column.inserts[r] = [ts |-> h[g].ts, data |-> h[g].data[c]]

\* The column after each of the first n calls.
DeltaLoop(h, c, A, n) ==
    A = [k \in 0 .. n |-> IF k = 0 THEN EmptyColumn ELSE AfterCall(A[k - 1], h[k], c)]
DeltaRun(h, c, A, n) ==
    /\ DeltaLoop(h, c, A, n)
    /\ \A k \in 0 .. n : A[k] \in Column /\ \A r \in Rows : Inserted(A[k], h, k, r, c)

\* What a call of a whole history holds.
LEMMA WholeCall ==
    ASSUME NEW call \in WholeCalls
    PROVE  /\ call.kind \in {"insert", "delete"} /\ call.row \in Rows /\ call.ts \in Nat /\ call.ts # 0
           /\ call.kind = "insert" => call.data \in [1 .. NumColumns -> Data] /\ Len(call.data) = NumColumns
<1>1. CASE call \in [kind : {"insert"}, row : Rows, ts : Nat \ {0}, data : [1 .. NumColumns -> Data]]
  <2>1. /\ call.kind = "insert" /\ call.row \in Rows /\ call.ts \in Nat \ {0}
        /\ call.data \in [1 .. NumColumns -> Data]
    BY <1>1
  <2>2. NumColumns \in Nat
    BY MergeAssumption
  <2>3. Len(call.data) = NumColumns
    <3> DEFINE d == call.data
    <3>1. d \in Seq(Data) /\ DOMAIN d = 1 .. NumColumns
      BY <2>1, <2>2, SeqDef
    <3> QED
      BY <2>2, <3>1, LenProperties
  <2> QED
    BY <2>1, <2>3
<1>2. CASE call \in [kind : {"delete"}, row : Rows, ts : Nat \ {0}]
  BY <1>2
<1> QED
  BY <1>1, <1>2 DEF WholeCalls

\* One call more.
LEMMA OneCall ==
    ASSUME NEW h \in Seq(WholeCalls), NEW k \in 1 .. Len(h), NEW c \in 1 .. NumColumns,
           NEW column \in Column, \A r \in Rows : Inserted(column, h, k - 1, r, c)
    PROVE  /\ AfterCall(column, h[k], c) \in Column
           /\ \A r \in Rows : Inserted(AfterCall(column, h[k], c), h, k, r, c)
<1> DEFINE call == h[k]
           new == AfterCall(column, call, c)
<1>0. k \in Nat /\ k # 0 /\ Len(h) \in Nat
  BY LenProperties
<1>1. call \in WholeCalls
  BY ElementOfSeq
<1>2. /\ call.kind \in {"insert", "delete"} /\ call.row \in Rows /\ call.ts \in Nat /\ call.ts # 0
      /\ call.kind = "insert" => call.data \in [1 .. NumColumns -> Data] /\ Len(call.data) = NumColumns
  BY <1>1, WholeCall
<1>3. column = [inserts |-> column.inserts, deletes |-> column.deletes]
  BY DEF Column
<1>4. column.inserts \in [Rows -> Version] /\ column.deletes \in [Rows -> Nat]
  BY DEF Column
<1> HIDE DEF call
<1>5. CASE call.kind = "delete"
  <2>1. new = [inserts |-> column.inserts, deletes |-> [column.deletes EXCEPT ![call.row] = call.ts]]
    BY <1>3, <1>5 DEF AfterCall, PutDelete
  <2>2. new \in Column /\ new.inserts = column.inserts
    BY <1>2, <1>4, <2>1 DEF Column
  <2> HIDE DEF new
  <2>3. ASSUME NEW r \in Rows PROVE Inserted(new, h, k, r, c)
    <3>1. ~InsertOf(h[k], r)
      BY <1>5 DEF InsertOf, call
    <3>2. Inserted(column, h, k - 1, r, c)
      OBVIOUS
    <3>3. \A g \in 1 .. k : g \in 1 .. k - 1 \/ g = k
      BY <1>0
    <3>4. \A g \in 1 .. k - 1 : g \in 1 .. k
      BY <1>0
    <3>5. CASE column.inserts[r] = Absent /\ \A g \in 1 .. k - 1 : ~InsertOf(h[g], r)
      <4>1. new.inserts[r] = Absent /\ \A g \in 1 .. k : ~InsertOf(h[g], r)
        BY <2>2, <3>1, <3>3, <3>5
      <4> QED
        BY <4>1 DEF Inserted
    <3>6. ASSUME NEW g \in 1 .. k - 1, InsertOf(h[g], r),
                 \A f \in 1 .. k - 1 : f > g => ~InsertOf(h[f], r),
                 column.inserts[r] = [ts |-> h[g].ts, data |-> h[g].data[c]]
          PROVE  Inserted(new, h, k, r, c)
      <4>1. g \in 1 .. k /\ \A f \in 1 .. k : f > g => ~InsertOf(h[f], r)
        BY <3>1, <3>3, <3>4, <3>6
      <4>2. new.inserts[r] = [ts |-> h[g].ts, data |-> h[g].data[c]]
        BY <2>2, <3>6
      <4> QED
        BY <3>6, <4>1, <4>2 DEF Inserted
    <3> QED
      BY <3>2, <3>5, <3>6 DEF Inserted
  <2> QED
    BY <2>2, <2>3 DEF new, call
<1>6. CASE call.kind # "delete"
  <2>1. call.kind = "insert" /\ c <= Len(call.data) /\ call.data[c] \in Data
    <3>1. NumColumns \in Nat
      BY MergeAssumption
    <3> QED
      BY <1>2, <1>6, <3>1
  <2> DEFINE version == [ts |-> call.ts, data |-> call.data[c]]
  <2>2. new = [inserts |-> [column.inserts EXCEPT ![call.row] = version], deletes |-> column.deletes]
    BY <1>3, <1>6, <2>1 DEF AfterCall, PutInsert
  <2>3. version \in Version
    BY <1>2, <2>1 DEF Version
  <2>4. new \in Column /\ new.inserts = [column.inserts EXCEPT ![call.row] = version]
    BY <1>2, <1>4, <2>2, <2>3 DEF Column
  <2> HIDE DEF new
  <2>5. ASSUME NEW r \in Rows PROVE Inserted(new, h, k, r, c)
    <3>2. Inserted(column, h, k - 1, r, c)
      OBVIOUS
    <3>3. \A g \in 1 .. k : g \in 1 .. k - 1 \/ g = k
      BY <1>0
    <3>4. \A g \in 1 .. k - 1 : g \in 1 .. k
      BY <1>0
    <3>7. CASE r = call.row
      <4>1. InsertOf(h[k], r) /\ k \in 1 .. k /\ \A f \in 1 .. k : ~(f > k)
        BY <1>0, <2>1, <3>7 DEF InsertOf, call
      <4>2. new.inserts[r] = [ts |-> h[k].ts, data |-> h[k].data[c]]
        BY <1>4, <2>4, <3>7 DEF call
      <4> QED
        BY <4>1, <4>2 DEF Inserted
    <3>8. CASE r # call.row
      <4>1. ~InsertOf(h[k], r) /\ new.inserts[r] = column.inserts[r]
        BY <1>4, <2>4, <3>8 DEF InsertOf, call
      <4>5. CASE column.inserts[r] = Absent /\ \A g \in 1 .. k - 1 : ~InsertOf(h[g], r)
        <5>1. new.inserts[r] = Absent /\ \A g \in 1 .. k : ~InsertOf(h[g], r)
          BY <3>3, <4>1, <4>5
        <5> QED
          BY <5>1 DEF Inserted
      <4>6. ASSUME NEW g \in 1 .. k - 1, InsertOf(h[g], r),
                   \A f \in 1 .. k - 1 : f > g => ~InsertOf(h[f], r),
                   column.inserts[r] = [ts |-> h[g].ts, data |-> h[g].data[c]]
            PROVE  Inserted(new, h, k, r, c)
        <5>1. g \in 1 .. k /\ \A f \in 1 .. k : f > g => ~InsertOf(h[f], r)
          BY <3>3, <3>4, <4>1, <4>6
        <5>2. new.inserts[r] = [ts |-> h[g].ts, data |-> h[g].data[c]]
          BY <4>1, <4>6
        <5> QED
          BY <4>6, <5>1, <5>2 DEF Inserted
      <4> QED
        BY <3>2, <4>5, <4>6 DEF Inserted
    <3> QED
      BY <3>7, <3>8
  <2> QED
    BY <2>4, <2>5 DEF new, call
<1> QED
  BY <1>5, <1>6

\* The loop over the calls runs.
LEMMA DeltaRunExists ==
    ASSUME NEW h \in Seq(WholeCalls), NEW c \in 1 .. NumColumns, NEW m \in 0 .. Len(h)
    PROVE  \E A : DeltaRun(h, c, A, m)
<1>1. Len(h) \in Nat
  BY LenProperties
<1> DEFINE Bad == {k \in Nat : k <= Len(h) /\ ~(\E A : DeltaRun(h, c, A, k))}
<1>2. Bad = {}
  <2> SUFFICES ASSUME Bad # {} PROVE FALSE
    OBVIOUS
  <2>1. PICK k \in Bad : \A j \in Bad : k <= j
    <3>1. Bad \subseteq Nat
      OBVIOUS
    <3> HIDE DEF Bad
    <3> QED
      BY <3>1, LeastNat
  <2>2. CASE k = 0
    <3> DEFINE A == [i \in 0 .. 0 |-> EmptyColumn]
    <3>1. DeltaLoop(h, c, A, 0)
      BY DEF DeltaLoop
    <3>2. EmptyColumn \in Column /\ \A r \in Rows : EmptyColumn.inserts[r] = Absent
      BY DEF EmptyColumn, Column, Version, Absent
    <3>3. \A i \in 0 .. 0 : A[i] = EmptyColumn /\ i = 0
      OBVIOUS
    <3> HIDE DEF A
    <3>4. \A r \in Rows : Inserted(EmptyColumn, h, 0, r, c)
      BY <3>2 DEF Inserted
    <3>5. DeltaRun(h, c, A, 0)
      BY <3>1, <3>2, <3>3, <3>4 DEF DeltaRun
    <3> QED
      BY <2>2, <3>5
  <2>3. CASE k # 0
    <3>1. k - 1 \in Nat /\ k \in Nat /\ k \in 1 .. Len(h) /\ k - 1 <= Len(h) /\ ~(k <= k - 1)
      BY <1>1, <2>3
    <3>2. k - 1 \notin Bad
      <4> HIDE DEF Bad
      <4> QED
        BY <2>1, <3>1
    <3>3. PICK A : DeltaRun(h, c, A, k - 1)
      BY <3>1, <3>2
    <3> HIDE DEF Bad
    <3> DEFINE next == AfterCall(A[k - 1], h[k], c)
               B == [i \in 0 .. k |-> IF i = k THEN next ELSE A[i]]
    <3>4. A[k - 1] \in Column /\ \A r \in Rows : Inserted(A[k - 1], h, k - 1, r, c)
      <4>1. k - 1 \in 0 .. k - 1
        BY <3>1
      <4> QED
        BY <3>3, <4>1 DEF DeltaRun
    <3>5. next \in Column /\ \A r \in Rows : Inserted(next, h, k, r, c)
      BY <3>1, <3>4, OneCall
    <3>6. ASSUME NEW i \in 0 .. k
          PROVE  B[i] = IF i = 0 THEN EmptyColumn ELSE AfterCall(B[i - 1], h[i], c)
      <4>1. CASE i = k
        <5>1. k # 0 /\ k - 1 \in 0 .. k /\ k - 1 # k
          BY <3>1
        <5> QED
          BY <4>1, <5>1
      <4>2. CASE i # k
        <5>1. i \in 0 .. k - 1 /\ (i # 0 => i - 1 \in 0 .. k /\ i - 1 # k)
          BY <3>1, <4>2
        <5>2. A[i] = IF i = 0 THEN EmptyColumn ELSE AfterCall(A[i - 1], h[i], c)
          BY <3>3, <5>1 DEF DeltaRun, DeltaLoop
        <5> HIDE DEF next
        <5> QED
          BY <4>2, <5>1, <5>2
      <4> QED
        BY <4>1, <4>2
    <3>7. ASSUME NEW i \in 0 .. k PROVE B[i] \in Column /\ \A r \in Rows : Inserted(B[i], h, i, r, c)
      <4>1. CASE i = k
        <5>1. B[i] = next
          BY <4>1
        <5> HIDE DEF B, next
        <5> QED
          BY <3>5, <4>1, <5>1
      <4>2. CASE i # k
        <5>1. i \in 0 .. k - 1 /\ B[i] = A[i]
          BY <3>1, <4>2
        <5> HIDE DEF B
        <5> QED
          BY <3>3, <5>1 DEF DeltaRun
      <4> QED
        BY <4>1, <4>2
    <3>8. B = [i \in 0 .. k |-> B[i]]
      OBVIOUS
    <3> HIDE DEF B
    <3>9. DeltaLoop(h, c, B, k)
      BY <3>6, <3>8 DEF DeltaLoop
    <3>10. DeltaRun(h, c, B, k)
      BY <3>7, <3>9 DEF DeltaRun
    <3> QED
      BY <3>10 DEF Bad
  <2> QED
    BY <2>2, <2>3
<1>3. m \in Nat /\ m <= Len(h)
  BY <1>1
<1> QED
  BY <1>2, <1>3

\* A column after a history has the last insert of each row.
LEMMA DeltaColumnIs ==
    ASSUME NEW h \in Seq(WholeCalls), NEW c \in 1 .. NumColumns
    PROVE  DeltaColumn(h, c) \in Column /\ \A r \in Rows : Inserted(DeltaColumn(h, c), h, Len(h), r, c)
<1> DEFINE n == Len(h)
           E(f, k) == IF k = 0 THEN EmptyColumn ELSE AfterCall(f[k - 1], h[k], c)
           R(f) == [k \in 0 .. n |-> E(f, k)]
           after == CHOOSE f : f = R(f)
<1>0. n \in Nat
  BY LenProperties
<1>1. DeltaColumn(h, c) = after[n]
  BY DEF DeltaColumn
<1>2. PICK A : DeltaRun(h, c, A, n)
  BY <1>0, DeltaRunExists
<1>3. A = R(A)
  BY <1>2 DEF DeltaRun, DeltaLoop
<1>4. after = R(after)
  <2> HIDE DEF R
  <2> QED
    BY <1>3
<1> HIDE DEF after
<1> DEFINE Bad == {k \in Nat : k <= n /\ after[k] # A[k]}
<1>5. Bad = {}
  <2> SUFFICES ASSUME Bad # {} PROVE FALSE
    OBVIOUS
  <2>1. PICK k \in Bad : \A j \in Bad : k <= j
    <3>1. Bad \subseteq Nat
      OBVIOUS
    <3> HIDE DEF Bad
    <3> QED
      BY <3>1, LeastNat
  <2>2. after[k] = E(after, k) /\ A[k] = E(A, k)
    <3>1. k \in 0 .. n
      BY <1>0
    <3> HIDE DEF E
    <3> QED
      BY <1>3, <1>4, <3>1
  <2>3. k # 0
    BY <2>1, <2>2
  <2>4. k - 1 \in Nat /\ k - 1 <= n /\ ~(k <= k - 1)
    BY <1>0, <2>3
  <2>5. after[k - 1] = A[k - 1]
    <3>1. k - 1 \notin Bad
      <4> HIDE DEF Bad
      <4> QED
        BY <2>1, <2>4
    <3> QED
      BY <2>4, <3>1
  <2>6. after[k] = A[k]
    <3> HIDE DEF Bad, R
    <3> QED
      BY <2>2, <2>3, <2>5
  <2> QED
    BY <2>6
<1>6. after[n] = A[n] /\ n \in 0 .. n
  BY <1>0, <1>5
<1> HIDE DEF n
<1>7. A[n] \in Column /\ \A r \in Rows : Inserted(A[n], h, n, r, c)
  BY <1>2, <1>6 DEF DeltaRun
<1> QED
  BY <1>1, <1>6, <1>7 DEF n
-----------------------------------------------------------------------------
(* The sort of MergeColumn *)

\* The order of numbers.
Less(K) == {p \in K \X K : p[1] < p[2]}

LEMMA LessOrder ==
    ASSUME NEW K, K \subseteq Nat, IsFiniteSet(K) PROVE StrictOrder(K, Less(K))
<1>1. \A x, y \in K : <<x, y>> \in Less(K) <=> x < y
  BY DEF Less
<1>2. \A x \in K : x \in Int
  OBVIOUS
<1> QED
  BY <1>1, <1>2 DEF StrictOrder

\* The order of a stable sort.
LEMMA StampOrder ==
    ASSUME NEW n \in Nat, NEW stamps \in [1 .. n -> Nat]
    PROVE  /\ StrictOrder(1 .. n, ByStamp(stamps))
           /\ \A i, j \in 1 .. n : <<i, j>> \in ByStamp(stamps) <=>
                  stamps[i] < stamps[j] \/ (stamps[i] = stamps[j] /\ i < j)
<1>1. \A i, j \in 1 .. n : <<i, j>> \in ByStamp(stamps) <=>
          stamps[i] < stamps[j] \/ (stamps[i] = stamps[j] /\ i < j)
  BY DEF ByStamp
<1>2. \A i \in 1 .. n : stamps[i] \in Int /\ i \in Int
  OBVIOUS
<1>3. IsFiniteSet(1 .. n)
  BY FS_Interval
<1> DEFINE R == ByStamp(stamps)
<1> HIDE DEF R
<1>4. \A i, j \in 1 .. n : <<i, j>> \in R <=> stamps[i] < stamps[j] \/ (stamps[i] = stamps[j] /\ i < j)
  BY <1>1 DEF R
<1>5. StrictOrder(1 .. n, R)
  BY <1>2, <1>3, <1>4 DEF StrictOrder
<1> QED
  BY <1>1, <1>5 DEF R

\* n rows without a timestamp and m with one: the n stay in front, and the
\* others come as `pos` lists them, if it lists them by timestamp.
Arranged(n, m, l, stamps, pos) ==
    /\ n \in Nat /\ m \in Nat /\ l \in Nat /\ stamps \in [1 .. n + m -> Nat] /\ pos \in [1 .. l -> 1 .. m]
    /\ \A i \in 1 .. n : stamps[i] = 0
    /\ \A j \in 1 .. m : stamps[n + j] # 0
    /\ \A j \in 1 .. m : \E k \in 1 .. l : pos[k] = j
    /\ \A j, k \in 1 .. l : j < k => \/ stamps[n + pos[j]] < stamps[n + pos[k]]
                                     \/ stamps[n + pos[j]] = stamps[n + pos[k]] /\ pos[j] < pos[k]

LEMMA SortedRows ==
    ASSUME NEW n, NEW m, NEW l, NEW stamps, NEW pos, Arranged(n, m, l, stamps, pos)
    PROVE  Ordered(1 .. n + m, ByStamp(stamps)) = [p \in 1 .. n + l |-> IF p <= n THEN p ELSE n + pos[p - n]]
<1> DEFINE S == 1 .. n + m
           N == n + l
           q == [p \in 1 .. N |-> IF p <= n THEN p ELSE n + pos[p - n]]
<1>1. /\ n \in Nat /\ m \in Nat /\ l \in Nat /\ stamps \in [1 .. n + m -> Nat] /\ pos \in [1 .. l -> 1 .. m]
      /\ \A i \in 1 .. n : stamps[i] = 0
      /\ \A j \in 1 .. m : stamps[n + j] # 0
      /\ \A j \in 1 .. m : \E k \in 1 .. l : pos[k] = j
  BY DEF Arranged
<1>2. \A j, k \in 1 .. l : j < k => \/ stamps[n + pos[j]] < stamps[n + pos[k]]
                                    \/ stamps[n + pos[j]] = stamps[n + pos[k]] /\ pos[j] < pos[k]
  BY DEF Arranged
<1>3. /\ StrictOrder(S, ByStamp(stamps))
      /\ \A i, j \in S : <<i, j>> \in ByStamp(stamps) <=>
             stamps[i] < stamps[j] \/ (stamps[i] = stamps[j] /\ i < j)
  <2>1. n + m \in Nat
    BY <1>1
  <2> QED
    BY <1>1, <2>1, StampOrder
<1>4. ASSUME NEW p \in 1 .. N, p <= n PROVE q[p] = p /\ p \in S /\ stamps[p] = 0 /\ p \in 1 .. n
  BY <1>1, <1>4
<1>5. ASSUME NEW p \in 1 .. N, ~(p <= n)
      PROVE  /\ p - n \in 1 .. l /\ pos[p - n] \in 1 .. m /\ q[p] = n + pos[p - n]
             /\ n + pos[p - n] \in S /\ stamps[n + pos[p - n]] # 0 /\ stamps[n + pos[p - n]] \in Nat
  <2>1. p - n \in 1 .. l
    BY <1>1, <1>5
  <2>2. pos[p - n] \in 1 .. m
    BY <1>1, <2>1
  <2>3. n + pos[p - n] \in S
    <3>1. \A x \in 1 .. m : n + x \in 1 .. n + m
      BY <1>1
    <3> QED
      BY <2>2, <3>1
  <2> QED
    BY <1>1, <1>5, <2>1, <2>2, <2>3
<1>6. q \in [1 .. N -> S]
  <2>1. ASSUME NEW p \in 1 .. N PROVE q[p] \in S
    <3>1. CASE p <= n
      BY <1>4, <3>1
    <3>2. CASE ~(p <= n)
      BY <1>5, <3>2
    <3> QED
      BY <3>1, <3>2
  <2>2. q = [p \in 1 .. N |-> q[p]]
    OBVIOUS
  <2> HIDE DEF q, S, N
  <2> QED
    BY <2>1, <2>2
<1>7. ASSUME NEW i \in S PROVE \E p \in 1 .. N : q[p] = i
  <2>1. CASE i <= n
    <3>1. i \in 1 .. N /\ q[i] = i
      BY <1>1, <1>4, <2>1
    <3> QED
      BY <3>1
  <2>2. CASE ~(i <= n)
    <3>1. i - n \in 1 .. m
      BY <1>1, <2>2
    <3>2. PICK k \in 1 .. l : pos[k] = i - n
      BY <1>1, <3>1
    <3>3. n + k \in 1 .. N /\ ~(n + k <= n) /\ (n + k) - n = k /\ n + (i - n) = i
      BY <1>1
    <3>4. q[n + k] = n + pos[(n + k) - n]
      BY <1>5, <3>3
    <3>5. q[n + k] = i
      <4> HIDE DEF q
      <4> QED
        BY <3>2, <3>3, <3>4
    <3> QED
      BY <3>3, <3>5
  <2> QED
    BY <2>1, <2>2
<1>8. ASSUME NEW j \in 1 .. N, NEW k \in 1 .. N, j < k PROVE <<q[j], q[k]>> \in ByStamp(stamps)
  <2> DEFINE a == q[j]
             b == q[k]
  <2>0. a \in S /\ b \in S
    <3> HIDE DEF q
    <3> QED
      BY <1>6
  <2>1. CASE k <= n
    <3>1. j <= n
      BY <1>1, <1>8, <2>1
    <3>2. a = j /\ b = k /\ stamps[j] = 0 /\ stamps[k] = 0
      BY <1>4, <2>1, <3>1
    <3>3. stamps[a] = stamps[b] /\ a < b
      <4> HIDE DEF a, b
      <4> QED
        BY <1>8, <3>2
    <3> HIDE DEF a, b
    <3>4. <<a, b>> \in ByStamp(stamps)
      BY <1>3, <2>0, <3>3
    <3> QED
      BY <3>4 DEF a, b
  <2>2. CASE j <= n /\ ~(k <= n)
    <3>1. a = j /\ stamps[j] = 0
      BY <1>4, <2>2
    <3>2. b = n + pos[k - n] /\ stamps[n + pos[k - n]] # 0 /\ stamps[n + pos[k - n]] \in Nat
      BY <1>5, <2>2
    <3> HIDE DEF a, b
    <3>3. stamps[a] < stamps[b]
      BY <3>1, <3>2
    <3>4. <<a, b>> \in ByStamp(stamps)
      BY <1>3, <2>0, <3>3
    <3> QED
      BY <3>4 DEF a, b
  <2>3. CASE ~(j <= n)
    <3>1. ~(k <= n) /\ j - n < k - n
      BY <1>1, <1>8, <2>3
    <3>2. a = n + pos[j - n] /\ j - n \in 1 .. l /\ pos[j - n] \in 1 .. m
      BY <1>5, <2>3
    <3>3. b = n + pos[k - n] /\ k - n \in 1 .. l /\ pos[k - n] \in 1 .. m
      BY <1>5, <3>1
    <3>4. \/ stamps[n + pos[j - n]] < stamps[n + pos[k - n]]
          \/ stamps[n + pos[j - n]] = stamps[n + pos[k - n]] /\ pos[j - n] < pos[k - n]
      BY <1>2, <3>1, <3>2, <3>3
    <3>5. pos[j - n] < pos[k - n] => n + pos[j - n] < n + pos[k - n]
      BY <1>1, <3>2, <3>3
    <3> HIDE DEF a, b
    <3>6. stamps[a] < stamps[b] \/ (stamps[a] = stamps[b] /\ a < b)
      BY <3>2, <3>3, <3>4, <3>5
    <3>7. <<a, b>> \in ByStamp(stamps)
      BY <1>3, <2>0, <3>6
    <3> QED
      BY <3>7 DEF a, b
  <2> QED
    BY <2>1, <2>2, <2>3
<1>9. N \in Nat
  BY <1>1
<1> HIDE DEF q, S, N
<1>10. Listed(S, ByStamp(stamps), q, N)
  BY <1>6, <1>7, <1>8, <1>9 DEF Listed
<1>11. Ordered(S, ByStamp(stamps)) = q
  BY <1>3, <1>10, OrderedUnique
<1> QED
  BY <1>11 DEF S, q, N
-----------------------------------------------------------------------------
(* The inserts that MergeColumn visits *)

LEMMA LatestCalls ==
    ASSUME NEW h \in Seq(WholeCalls)
    PROVE  /\ IsFiniteSet(LatestRows(h)) /\ LatestRows(h) \subseteq 1 .. Len(h)
           /\ \A g \in LatestRows(h) :
                  /\ h[g].kind = "insert" /\ h[g].row \in Rows /\ h[g].ts \in Nat /\ h[g].ts # 0
                  /\ h[g].data \in [1 .. NumColumns -> Data] /\ Len(h[g].data) = NumColumns
           /\ \A f, g \in LatestRows(h) : h[f].row = h[g].row => f = g
<1>1. DOMAIN h = 1 .. Len(h) /\ Len(h) \in Nat /\ \A g \in 1 .. Len(h) : h[g] \in WholeCalls
  BY LenProperties, ElementOfSeq
<1>2. LatestRows(h) \subseteq 1 .. Len(h)
  BY <1>1 DEF LatestRows
<1>3. IsFiniteSet(LatestRows(h))
  <2>1. IsFiniteSet(1 .. Len(h))
    BY <1>1, FS_Interval
  <2> QED
    BY <1>2, <2>1, FS_Subset
<1>4. ASSUME NEW g \in LatestRows(h)
      PROVE  /\ h[g].kind = "insert" /\ h[g].row \in Rows /\ h[g].ts \in Nat /\ h[g].ts # 0
             /\ h[g].data \in [1 .. NumColumns -> Data] /\ Len(h[g].data) = NumColumns
  <2>1. h[g].kind = "insert" /\ h[g] \in WholeCalls
    BY <1>1, <1>2 DEF LatestRows
  <2> QED
    BY <2>1, WholeCall
<1>5. ASSUME NEW f \in LatestRows(h), NEW g \in LatestRows(h), h[f].row = h[g].row PROVE f = g
  <2>1. f \in DOMAIN h /\ g \in DOMAIN h /\ f \in Int /\ g \in Int
    BY <1>1, <1>2
  <2>2. h[f].kind # "delete" /\ h[g].kind # "delete"
    BY <1>4
  <2>3. ~(g > f) /\ ~(f > g)
    <3>1. \A e \in LatestRows(h), d \in DOMAIN h :
              d > e => h[d].kind = "delete" \/ h[d].row # h[e].row
      BY DEF LatestRows
    <3> QED
      BY <1>5, <2>1, <2>2, <3>1
  <2> QED
    BY <2>1, <2>3
<1> QED
  BY <1>2, <1>3, <1>4, <1>5

\* The column holds the latest insert of every row, and nothing else.
RowsInserted(h) == {h[g].row : g \in LatestRows(h)}

LEMMA VisitedRows ==
    ASSUME NEW h \in Seq(WholeCalls), NEW c \in 1 .. NumColumns
    PROVE  /\ {r \in Rows : DeltaColumn(h, c).inserts[r].ts # 0} = RowsInserted(h)
           /\ \A g \in LatestRows(h) :
                  DeltaColumn(h, c).inserts[h[g].row] = [ts |-> h[g].ts, data |-> h[g].data[c]]
<1> DEFINE col == DeltaColumn(h, c)
           n == Len(h)
<1>1. \A r \in Rows : Inserted(col, h, n, r, c)
  BY DeltaColumnIs
<1> HIDE DEF col
<1>2. DOMAIN h = 1 .. n /\ n \in Nat /\ \A g \in 1 .. n : h[g] \in WholeCalls
  BY LenProperties, ElementOfSeq
<1>3. ASSUME NEW g \in LatestRows(h) PROVE col.inserts[h[g].row] = [ts |-> h[g].ts, data |-> h[g].data[c]]
  <2>1. h[g].kind = "insert" /\ h[g].row \in Rows /\ g \in 1 .. n
    BY LatestCalls
  <2>2. Inserted(col, h, n, h[g].row, c) /\ InsertOf(h[g], h[g].row)
    BY <1>1, <2>1 DEF InsertOf
  <2>3. PICK f \in 1 .. n : /\ InsertOf(h[f], h[g].row) /\ \A e \in 1 .. n : e > f => ~InsertOf(h[e], h[g].row)
                            /\ col.inserts[h[g].row] = [ts |-> h[f].ts, data |-> h[f].data[c]]
    BY <2>1, <2>2 DEF Inserted
  <2>4. ~(g > f)
    BY <2>1, <2>2, <2>3
  <2>5. ~(f > g)
    <3>1. h[f].kind # "delete" /\ h[f].row = h[g].row
      BY <2>3 DEF InsertOf
    <3>2. \A d \in DOMAIN h : d > g => h[d].kind = "delete" \/ h[d].row # h[g].row
      BY DEF LatestRows
    <3> QED
      BY <1>2, <3>1, <3>2
  <2>6. f = g
    BY <1>2, <2>1, <2>4, <2>5
  <2> QED
    BY <2>3, <2>6
<1>4. ASSUME NEW r \in Rows, col.inserts[r].ts # 0 PROVE r \in RowsInserted(h)
  <2>1. col.inserts[r] # Absent
    BY <1>4 DEF Absent
  <2>2. PICK g \in 1 .. n : InsertOf(h[g], r) /\ \A f \in 1 .. n : f > g => ~InsertOf(h[f], r)
    BY <1>1, <2>1 DEF Inserted
  <2>3. ASSUME NEW f \in DOMAIN h, f > g PROVE h[f].kind = "delete" \/ h[f].row # h[g].row
    <3>1. h[f].kind \in {"insert", "delete"} /\ ~InsertOf(h[f], r) /\ h[g].row = r
      BY <1>2, <2>2, <2>3, WholeCall DEF InsertOf
    <3> QED
      BY <3>1 DEF InsertOf
  <2>4. g \in LatestRows(h) /\ h[g].row = r
    BY <1>2, <2>2, <2>3 DEF LatestRows, InsertOf
  <2> QED
    BY <2>4 DEF RowsInserted
<1>5. ASSUME NEW r \in RowsInserted(h) PROVE r \in Rows /\ col.inserts[r].ts # 0
  <2>1. PICK g \in LatestRows(h) : r = h[g].row
    BY DEF RowsInserted
  <2>2. h[g].row \in Rows /\ h[g].ts # 0
    BY LatestCalls
  <2>3. col.inserts[r] = [ts |-> h[g].ts, data |-> h[g].data[c]]
    BY <1>3, <2>1
  <2> QED
    BY <2>1, <2>2, <2>3
<1>6. {r \in Rows : col.inserts[r].ts # 0} = RowsInserted(h)
  BY <1>4, <1>5
<1> QED
  BY <1>3, <1>6 DEF col

\* The order of the latest inserts.
LEMMA LatestOrder ==
    ASSUME NEW h \in Seq(WholeCalls)
    PROVE  /\ StrictOrder(LatestRows(h), ByStampAndRow(h))
           /\ \A f, g \in LatestRows(h) : <<f, g>> \in ByStampAndRow(h) <=>
                  h[f].ts < h[g].ts \/ (h[f].ts = h[g].ts /\ h[f].row < h[g].row)
<1> DEFINE L == LatestRows(h)
           R == ByStampAndRow(h)
<1>1. \A f, g \in L : <<f, g>> \in R <=> h[f].ts < h[g].ts \/ (h[f].ts = h[g].ts /\ h[f].row < h[g].row)
  BY DEF ByStampAndRow
<1>2. IsFiniteSet(L) /\ \A g \in L : h[g].ts \in Int /\ h[g].row \in Int
  <2>1. \A r \in Rows : r \in Int
    BY RowsAssumption
  <2> QED
    BY <2>1, LatestCalls
<1>3. \A f, g \in L : h[f].row = h[g].row => f = g
  BY LatestCalls
<1> HIDE DEF L, R
<1> DEFINE t == [g \in L |-> h[g].ts]
           w == [g \in L |-> h[g].row]
<1>4. \A f, g \in L : /\ t[f] \in Int /\ w[f] \in Int /\ (w[f] = w[g] => f = g)
                      /\ <<f, g>> \in R <=> t[f] < t[g] \/ (t[f] = t[g] /\ w[f] < w[g])
  BY <1>1, <1>2, <1>3
<1> HIDE DEF t, w
<1>5. \A x \in L : <<x, x>> \notin R
  BY <1>4
<1>6. \A x, y \in L : x # y => <<x, y>> \in R \/ <<y, x>> \in R
  BY <1>4
<1>7. ASSUME NEW x \in L, NEW y \in L, NEW z \in L, <<x, y>> \in R, <<y, z>> \in R PROVE <<x, z>> \in R
  <2>1. t[x] \in Int /\ t[y] \in Int /\ t[z] \in Int /\ w[x] \in Int /\ w[y] \in Int /\ w[z] \in Int
    BY <1>4
  <2>2. /\ t[x] < t[y] \/ (t[x] = t[y] /\ w[x] < w[y])
        /\ t[y] < t[z] \/ (t[y] = t[z] /\ w[y] < w[z])
    BY <1>4, <1>7
  <2>3. t[x] < t[z] \/ (t[x] = t[z] /\ w[x] < w[z])
    BY <2>1, <2>2
  <2> QED
    BY <1>4, <2>3
<1>8. StrictOrder(L, R)
  BY <1>2, <1>5, <1>6, <1>7 DEF StrictOrder
<1> QED
  BY <1>1, <1>8 DEF L, R

\* The rows inserted, by row id, and where in this order a latest insert is.
Ids(h) == Ordered(RowsInserted(h), Less(RowsInserted(h)))
NumInserted(h) == Cardinality(RowsInserted(h))
Latest(h) == Ordered(LatestRows(h), ByStampAndRow(h))
NumLatest(h) == Cardinality(LatestRows(h))
Place(h, g) == CHOOSE j \in 1 .. NumInserted(h) : Ids(h)[j] = h[g].row

LEMMA IdsAre ==
    ASSUME NEW h \in Seq(WholeCalls)
    PROVE  /\ Listed(RowsInserted(h), Less(RowsInserted(h)), Ids(h), NumInserted(h))
           /\ Listed(LatestRows(h), ByStampAndRow(h), Latest(h), NumLatest(h))
<1> DEFINE L == LatestRows(h)
           K == RowsInserted(h)
           f == [g \in L |-> h[g].row]
<1>1. IsFiniteSet(L) /\ K \subseteq Nat
  <2>1. \A g \in L : h[g].row \in Nat
    BY LatestCalls, RowsAssumption
  <2> QED
    BY <2>1, LatestCalls DEF RowsInserted
<1>2. f \in [L -> K] /\ \A r \in K : \E g \in L : f[g] = r
  BY DEF RowsInserted
<1> HIDE DEF f, L, K
<1>3. f \in Surjection(L, K)
  BY <1>2 DEF Surjection
<1>4. IsFiniteSet(K)
  BY <1>1, <1>3, FS_Surjection
<1>5. StrictOrder(K, Less(K))
  BY <1>1, <1>4, LessOrder
<1>6. Listed(K, Less(K), Ids(h), NumInserted(h))
  BY <1>5, OrderedIs DEF Ids, NumInserted, K
<1>7. Listed(LatestRows(h), ByStampAndRow(h), Latest(h), NumLatest(h))
  BY LatestOrder, OrderedIs DEF Latest, NumLatest
<1> QED
  BY <1>6, <1>7 DEF K

\* Every latest insert has a place, and the places are ordered like the rows.
LEMMA PlacesAre ==
    ASSUME NEW h \in Seq(WholeCalls)
    PROVE  /\ NumInserted(h) \in Nat /\ NumLatest(h) \in Nat
           /\ Ids(h) \in [1 .. NumInserted(h) -> RowsInserted(h)]
           /\ Latest(h) \in [1 .. NumLatest(h) -> LatestRows(h)]
           /\ \A g \in LatestRows(h) : Place(h, g) \in 1 .. NumInserted(h) /\ Ids(h)[Place(h, g)] = h[g].row
           /\ \A j \in 1 .. NumInserted(h) : \E g \in LatestRows(h) : Place(h, g) = j
           /\ \A f, g \in LatestRows(h) : h[f].row < h[g].row => Place(h, f) < Place(h, g)
<1> DEFINE L == LatestRows(h)
           K == RowsInserted(h)
           m == NumInserted(h)
           ids == Ids(h)
<1>1. /\ m \in Nat /\ ids \in [1 .. m -> K] /\ \A r \in K : \E k \in 1 .. m : ids[k] = r
      /\ \A j, k \in 1 .. m : j < k => <<ids[j], ids[k]>> \in Less(K)
  BY IdsAre DEF Listed
<1>2. NumLatest(h) \in Nat /\ Latest(h) \in [1 .. NumLatest(h) -> L]
  BY IdsAre DEF Listed
<1>3. \A g \in L : h[g].row \in K
  BY DEF RowsInserted
<1>4. \A r \in K : \E g \in L : h[g].row = r
  BY DEF RowsInserted
<1>5. \A g \in L : h[g].row \in Int
  <2>1. \A r \in Rows : r \in Int
    BY RowsAssumption
  <2> QED
    BY <2>1, LatestCalls
<1>6. ASSUME NEW j \in 1 .. m, NEW k \in 1 .. m, j < k PROVE ids[j] < ids[k]
  <2>1. <<ids[j], ids[k]>> \in Less(K)
    BY <1>1, <1>6
  <2> QED
    BY <2>1 DEF Less
<1>7. ASSUME NEW j \in 1 .. m PROVE ids[j] \in Int
  BY <1>1, <1>4, <1>5
<1>8. ASSUME NEW g \in L PROVE Place(h, g) \in 1 .. m /\ ids[Place(h, g)] = h[g].row
  <2> DEFINE A(j) == Ids(h)[j] = h[g].row
  <2>1. \E j \in 1 .. m : A(j)
    BY <1>1, <1>3
  <2>2. Place(h, g) = CHOOSE j \in 1 .. m : A(j)
    BY DEF Place
  <2>3. Place(h, g) \in 1 .. m /\ A(Place(h, g))
    <3> HIDE DEF A, m
    <3> QED
      BY <2>1, <2>2, Zenon
  <2> QED
    BY <2>3
<1> HIDE DEF m, ids, L
<1>9. ASSUME NEW j \in 1 .. m PROVE \E g \in L : Place(h, g) = j
  <2>1. PICK g \in L : h[g].row = ids[j]
    BY <1>1, <1>4
  <2>2. Place(h, g) \in 1 .. m /\ ids[Place(h, g)] = ids[j]
    BY <1>8, <2>1
  <2>3. ~(Place(h, g) < j) /\ ~(j < Place(h, g))
    <3>1. ids[j] \in Int
      BY <1>7
    <3>2. ~(ids[j] < ids[j])
      BY <3>1
    <3> QED
      BY <1>6, <2>2, <3>2
  <2>4. Place(h, g) = j
    BY <1>1, <2>2, <2>3
  <2> QED
    BY <2>4
<1>10. ASSUME NEW f \in L, NEW g \in L, h[f].row < h[g].row PROVE Place(h, f) < Place(h, g)
  <2>1. Place(h, f) \in 1 .. m /\ Place(h, g) \in 1 .. m
    BY <1>8
  <2>2. ids[Place(h, f)] < ids[Place(h, g)] /\ ids[Place(h, f)] \in Int /\ ids[Place(h, g)] \in Int
    BY <1>5, <1>8, <1>10
  <2>3. ~(Place(h, g) < Place(h, f))
    <3> SUFFICES ASSUME Place(h, g) < Place(h, f) PROVE FALSE
      OBVIOUS
    <3>1. ids[Place(h, g)] < ids[Place(h, f)]
      BY <1>6, <2>1
    <3> QED
      BY <2>2, <3>1
  <2>4. Place(h, g) # Place(h, f)
    BY <2>2
  <2> QED
    BY <1>1, <2>1, <2>3, <2>4
<1> QED
  BY <1>1, <1>2, <1>8, <1>9, <1>10 DEF m, ids, L

\* What VisitInserts visits.
LEMMA VisitsAre ==
    ASSUME NEW h \in Seq(WholeCalls), NEW c \in 1 .. NumColumns
    PROVE  /\ VisitInserts(DeltaColumn(h, c))
                  = [i \in 1 .. NumInserted(h) |-> VisitInserts(DeltaColumn(h, c))[i]]
           /\ \A g \in LatestRows(h) : VisitInserts(DeltaColumn(h, c))[Place(h, g)]
                                           = [ts |-> h[g].ts, data |-> h[g].data[c]]
<1> DEFINE col == DeltaColumn(h, c)
           visited == {r \in Rows : col.inserts[r].ts # 0}
           m == NumInserted(h)
           v == VisitInserts(col)
<1>1. /\ visited = RowsInserted(h)
      /\ \A g \in LatestRows(h) : col.inserts[h[g].row] = [ts |-> h[g].ts, data |-> h[g].data[c]]
  BY VisitedRows
<1>2. /\ m \in Nat /\ Ids(h) \in [1 .. m -> RowsInserted(h)]
      /\ \A g \in LatestRows(h) : Place(h, g) \in 1 .. m /\ Ids(h)[Place(h, g)] = h[g].row
  BY PlacesAre
<1> HIDE DEF col
<1>3. v = [i \in DOMAIN Ids(h) |-> col.inserts[Ids(h)[i]]]
  <2> DEFINE ids == Ordered(visited, {p \in visited \X visited : p[1] < p[2]})
  <2>1. v = [i \in DOMAIN ids |-> col.inserts[ids[i]]]
    BY DEF VisitInserts
  <2>2. ids = Ids(h)
    BY <1>1 DEF Ids, Less
  <2> HIDE DEF ids, v
  <2> QED
    BY <2>1, <2>2
<1> HIDE DEF v, m
<1>4. v = [i \in 1 .. m |-> col.inserts[Ids(h)[i]]]
  BY <1>2, <1>3
<1>5. v = [i \in 1 .. m |-> v[i]]
  BY <1>4
<1>6. ASSUME NEW g \in LatestRows(h) PROVE v[Place(h, g)] = [ts |-> h[g].ts, data |-> h[g].data[c]]
  <2>1. v[Place(h, g)] = col.inserts[Ids(h)[Place(h, g)]]
    BY <1>2, <1>4
  <2> QED
    BY <1>1, <1>2, <2>1
<1> QED
  BY <1>5, <1>6 DEF v, m, col

\* A sequence as the function of its places, two of them joined, and a column
\* of a merge: what the next proofs keep folded.
IsTable(u, n) == u = [i \in 1 .. n |-> u[i]]
JoinOf(u, w, n, m) == [i \in 1 .. n + m |-> IF i <= n THEN u[i] ELSE w[i - n]]
ZeroStamps(n) == [i \in 1 .. n |-> 0]
UnsortedData(u, v) == u \o [i \in DOMAIN v |-> v[i].data]
UnsortedStamps(z, v) == z \o [i \in DOMAIN v |-> v[i].ts]
SortedIs(h, c, n, u) ==
    [p \in 1 .. n + NumLatest(h) |-> IF p <= n THEN u[p] ELSE h[Latest(h)[p - n]].data[c]]
MergedRows(inputs, h) ==
    RowsOfInputs(inputs) \o [i \in DOMAIN Latest(h) |-> h[Latest(h)[i]].data]

\* Two sequences end to end, as a function.
LEMMA JoinTables ==
    ASSUME NEW n \in Nat, NEW m \in Nat, NEW u, IsTable(u, n), NEW w, IsTable(w, m)
    PROVE  u \o w = JoinOf(u, w, n, m)
<1> SUFFICES ASSUME u = [i \in 1 .. n |-> u[i]], w = [i \in 1 .. m |-> w[i]]
             PROVE  u \o w = [i \in 1 .. n + m |-> IF i <= n THEN u[i] ELSE w[i - n]]
  BY Zenon DEF IsTable, JoinOf
<1> DEFINE S == {u[i] : i \in 1 .. n} \cup {w[i] : i \in 1 .. m}
<1>1. u \in [1 .. n -> S] /\ w \in [1 .. m -> S]
  OBVIOUS
<1> HIDE DEF S
<1>2. u \in Seq(S) /\ w \in Seq(S) /\ DOMAIN u = 1 .. n /\ DOMAIN w = 1 .. m
  BY <1>1, SeqDef
<1>3. Len(u) = n /\ Len(w) = m
  BY <1>2, LenProperties
<1>4. /\ u \o w \in Seq(S) /\ Len(u \o w) = n + m
      /\ \A i \in 1 .. n + m : (u \o w)[i] = IF i <= n THEN u[i] ELSE w[i - n]
  BY <1>2, <1>3, ConcatProperties
<1> DEFINE x == u \o w
<1> HIDE DEF x
<1>5. x = [i \in 1 .. n + m |-> x[i]]
  <2>1. x \in Seq(S) /\ Len(x) = n + m
    BY <1>4 DEF x
  <2> QED
    BY <2>1, SeqDef, LenProperties
<1>6. \A i \in 1 .. n + m : x[i] = IF i <= n THEN u[i] ELSE w[i - n]
  BY <1>4 DEF x
<1>7. x = [i \in 1 .. n + m |-> IF i <= n THEN u[i] ELSE w[i - n]]
  BY <1>5, <1>6
<1> QED
  BY <1>7 DEF x

LEMMA Joined ==
    ASSUME NEW n \in Nat, NEW m \in Nat, NEW u, u = [i \in 1 .. n |-> u[i]],
           NEW w, w = [i \in 1 .. m |-> w[i]]
    PROVE  u \o w = [i \in 1 .. n + m |-> IF i <= n THEN u[i] ELSE w[i - n]]
<1>1. IsTable(u, n) /\ IsTable(w, m)
  BY Zenon DEF IsTable
<1>2. u \o w = JoinOf(u, w, n, m)
  BY <1>1, JoinTables
<1> QED
  BY <1>2, Zenon DEF JoinOf

\* MergeColumn's sort leaves the rows of the segments in front and puts the
\* latest inserts behind them, by timestamp and row id: the same for all columns.
LEMMA SortedColumn ==
    ASSUME NEW h \in Seq(WholeCalls), NEW c \in 1 .. NumColumns, NEW n \in Nat, NEW u, IsTable(u, n),
           NEW z, z = ZeroStamps(n), NEW v, v = VisitInserts(DeltaColumn(h, c))
    PROVE  StableSort(UnsortedData(u, v), UnsortedStamps(z, v)) = SortedIs(h, c, n, u)
<1> SUFFICES ASSUME u = [i \in 1 .. n |-> u[i]], z = [i \in 1 .. n |-> 0]
    PROVE  StableSort(u \o [i \in DOMAIN v |-> v[i].data], z \o [i \in DOMAIN v |-> v[i].ts])
               = [p \in 1 .. n + NumLatest(h) |-> IF p <= n THEN u[p] ELSE h[Latest(h)[p - n]].data[c]]
  BY Zenon DEF IsTable, ZeroStamps, UnsortedData, UnsortedStamps, SortedIs
<1> DEFINE m == NumInserted(h)
           l == NumLatest(h)
           latest == Latest(h)
           L == LatestRows(h)
           data == [i \in DOMAIN v |-> v[i].data]
           ts == [i \in DOMAIN v |-> v[i].ts]
           values == u \o data
           stamps == z \o ts
           pos == [k \in 1 .. l |-> Place(h, latest[k])]
<1>1. /\ m \in Nat /\ l \in Nat /\ latest \in [1 .. l -> L]
      /\ \A g \in L : Place(h, g) \in 1 .. m
      /\ \A j \in 1 .. m : \E g \in L : Place(h, g) = j
      /\ \A f, g \in L : h[f].row < h[g].row => Place(h, f) < Place(h, g)
  BY PlacesAre
<1>2. DOMAIN v = 1 .. m /\ \A g \in L : v[Place(h, g)] = [ts |-> h[g].ts, data |-> h[g].data[c]]
  <2>1. v = [i \in 1 .. m |-> v[i]]
    BY VisitsAre
  <2>2. DOMAIN v = 1 .. m
    <3> HIDE DEF m
    <3> QED
      BY <2>1
  <2> QED
    BY <2>2, VisitsAre
<1>3. \A g \in L : h[g].ts \in Nat /\ h[g].ts # 0
  BY LatestCalls
<1>4. /\ \A g \in L : <<g, g>> \notin ByStampAndRow(h)
      /\ \A x \in L : \E k \in 1 .. l : latest[k] = x
      /\ \A j, k \in 1 .. l : j < k => <<latest[j], latest[k]>> \in ByStampAndRow(h)
  BY IdsAre, LatestOrder DEF Listed, StrictOrder
<1>5. \A f, g \in L : <<f, g>> \in ByStampAndRow(h) =>
          h[f].ts < h[g].ts \/ (h[f].ts = h[g].ts /\ h[f].row < h[g].row)
  BY LatestOrder
<1> HIDE DEF m, l, latest, L
<1>6. values = [i \in 1 .. n + m |-> IF i <= n THEN u[i] ELSE data[i - n]]
  <2>1. data = [i \in 1 .. m |-> data[i]]
    BY <1>2
  <2> HIDE DEF data
  <2> QED
    BY <1>1, <2>1, Joined
<1>7. stamps = [i \in 1 .. n + m |-> IF i <= n THEN z[i] ELSE ts[i - n]]
  <2>1. ts = [i \in 1 .. m |-> ts[i]] /\ z = [i \in 1 .. n |-> z[i]]
    BY <1>2
  <2> HIDE DEF ts
  <2> QED
    BY <1>1, <2>1, Joined
<1> HIDE DEF values, stamps
<1>8. \A j \in 1 .. m : ts[j] \in Nat /\ ts[j] # 0
  <2> SUFFICES ASSUME NEW j \in 1 .. m PROVE ts[j] \in Nat /\ ts[j] # 0
    OBVIOUS
  <2>1. PICK g \in L : Place(h, g) = j
    BY <1>1
  <2>2. v[j] = [ts |-> h[g].ts, data |-> h[g].data[c]]
    BY <1>2, <2>1
  <2>3. ts[j] = v[j].ts
    BY <1>2
  <2> QED
    BY <1>3, <2>2, <2>3
<1>9. \A g \in L : ts[Place(h, g)] = h[g].ts /\ data[Place(h, g)] = h[g].data[c]
  <2> SUFFICES ASSUME NEW g \in L PROVE ts[Place(h, g)] = h[g].ts /\ data[Place(h, g)] = h[g].data[c]
    OBVIOUS
  <2>1. Place(h, g) \in 1 .. m /\ v[Place(h, g)] = [ts |-> h[g].ts, data |-> h[g].data[c]]
    BY <1>1, <1>2
  <2>2. ts[Place(h, g)] = v[Place(h, g)].ts /\ data[Place(h, g)] = v[Place(h, g)].data
    BY <1>2, <2>1
  <2> QED
    BY <2>1, <2>2
<1> HIDE DEF ts, data
<1>10. \A j \in 1 .. m : stamps[n + j] = ts[j] /\ values[n + j] = data[j]
  <2> SUFFICES ASSUME NEW j \in 1 .. m PROVE stamps[n + j] = ts[j] /\ values[n + j] = data[j]
    OBVIOUS
  <2>1. n + j \in 1 .. n + m /\ ~(n + j <= n) /\ (n + j) - n = j
    BY <1>1
  <2> QED
    BY <1>6, <1>7, <2>1
<1>11. pos \in [1 .. l -> 1 .. m] /\ \A k \in 1 .. l : latest[k] \in L /\ pos[k] = Place(h, latest[k])
  BY <1>1
<1> HIDE DEF pos
<1>12. Arranged(n, m, l, stamps, pos)
  <2>1. stamps \in [1 .. n + m -> Nat]
    <3>1. ASSUME NEW i \in 1 .. n + m PROVE (IF i <= n THEN z[i] ELSE ts[i - n]) \in Nat
      <4>1. CASE i <= n
        BY <4>1
      <4>2. CASE ~(i <= n)
        <5>1. i - n \in 1 .. m
          BY <1>1, <4>2
        <5> QED
          BY <1>8, <4>2, <5>1
      <4> QED
        BY <4>1, <4>2
    <3> QED
      BY <1>7, <3>1
  <2>2. \A i \in 1 .. n : stamps[i] = 0
    BY <1>1, <1>7
  <2>3. \A j \in 1 .. m : stamps[n + j] # 0
    BY <1>8, <1>10
  <2>4. ASSUME NEW j \in 1 .. m PROVE \E k \in 1 .. l : pos[k] = j
    <3>1. PICK g \in L : Place(h, g) = j
      BY <1>1
    <3>2. PICK k \in 1 .. l : latest[k] = g
      BY <1>4
    <3> QED
      BY <1>11, <3>1, <3>2
  <2>5. ASSUME NEW j \in 1 .. l, NEW k \in 1 .. l, j < k
        PROVE  \/ stamps[n + pos[j]] < stamps[n + pos[k]]
               \/ stamps[n + pos[j]] = stamps[n + pos[k]] /\ pos[j] < pos[k]
    <3> DEFINE f == latest[j]
               g == latest[k]
    <3>1. f \in L /\ g \in L /\ pos[j] = Place(h, f) /\ pos[k] = Place(h, g)
      BY <1>11
    <3>2. <<f, g>> \in ByStampAndRow(h)
      BY <1>4, <2>5
    <3> HIDE DEF f, g
    <3>3. h[f].ts < h[g].ts \/ (h[f].ts = h[g].ts /\ Place(h, f) < Place(h, g))
      BY <1>1, <1>5, <3>1, <3>2
    <3>4. stamps[n + pos[j]] = h[f].ts /\ stamps[n + pos[k]] = h[g].ts
      <4>1. pos[j] \in 1 .. m /\ pos[k] \in 1 .. m
        BY <1>11
      <4>2. stamps[n + pos[j]] = ts[pos[j]] /\ stamps[n + pos[k]] = ts[pos[k]]
        BY <1>10, <4>1
      <4> QED
        BY <1>9, <3>1, <4>2
    <3> QED
      BY <3>1, <3>3, <3>4
  <2> QED
    BY <1>1, <1>11, <2>1, <2>2, <2>3, <2>4, <2>5 DEF Arranged
<1> DEFINE order == Ordered(1 .. n + m, ByStamp(stamps))
<1>13. order = [p \in 1 .. n + l |-> IF p <= n THEN p ELSE n + pos[p - n]]
  BY <1>12, SortedRows
<1>14. StableSort(values, stamps) = [i \in DOMAIN order |-> values[order[i]]]
  <2>1. DOMAIN stamps = 1 .. n + m
    BY <1>7
  <2> QED
    BY <2>1 DEF StableSort
<1> HIDE DEF order
<1>15. DOMAIN order = 1 .. n + l
  BY <1>13
<1>16. ASSUME NEW p \in 1 .. n + l
       PROVE  values[order[p]] = IF p <= n THEN u[p] ELSE h[latest[p - n]].data[c]
  <2>1. CASE p <= n
    <3>1. order[p] = p /\ p \in 1 .. n + m
      BY <1>1, <1>13, <2>1
    <3> QED
      BY <1>6, <2>1, <3>1
  <2>2. CASE ~(p <= n)
    <3>1. p - n \in 1 .. l /\ order[p] = n + pos[p - n]
      BY <1>1, <1>13, <2>2
    <3>2. latest[p - n] \in L /\ pos[p - n] = Place(h, latest[p - n]) /\ pos[p - n] \in 1 .. m
      BY <1>11, <3>1
    <3>3. values[n + pos[p - n]] = data[pos[p - n]]
      BY <1>10, <3>2
    <3>4. data[Place(h, latest[p - n])] = h[latest[p - n]].data[c]
      BY <1>9, <3>2
    <3> QED
      BY <2>2, <3>1, <3>2, <3>3, <3>4
  <2> QED
    BY <2>1, <2>2
<1>17. StableSort(values, stamps) = [p \in 1 .. n + l |-> IF p <= n THEN u[p] ELSE h[latest[p - n]].data[c]]
  BY <1>14, <1>15, <1>16
<1> QED
  BY <1>17 DEF values, stamps, data, ts, l, latest

\* The timestamps of segments end to end.
LEMMA FlattenStamps ==
    ASSUME NEW m \in Nat, NEW parts \in [1 .. m -> Seq(TableRow)]
    PROVE  FlattenSeq([k \in 1 .. m |-> [i \in 1 .. Len(parts[k]) |-> 0]])
               = [i \in 1 .. Len(FlattenSeq(parts)) |-> 0]
<1> DEFINE Zeros(n) == [i \in 1 .. n |-> 0]
<1>1. PICK P : Chain(parts, P, m, TableRow)
  BY ChainExists
<1>2. /\ P \in [0 .. m -> Seq(TableRow)] /\ P[0] = <<>>
      /\ \A k \in 1 .. m : P[k] = P[k - 1] \o parts[k]
  BY <1>1 DEF Chain
<1>3. FlattenSeq(parts) = P[m] /\ m \in 0 .. m
  BY <1>1, FlattenIsChain
<1>4. \A n \in Nat : Zeros(n) \in Seq(Int)
  BY SeqDef
<1>5. \A k \in 0 .. m : P[k] \in Seq(TableRow) /\ Len(P[k]) \in Nat
  BY <1>2, LenProperties
<1>6. \A k \in 1 .. m : parts[k] \in Seq(TableRow) /\ Len(parts[k]) \in Nat
  BY LenProperties
<1> DEFINE Q == [k \in 0 .. m |-> Zeros(Len(P[k]))]
           zeros == [k \in 1 .. m |-> Zeros(Len(parts[k]))]
<1>7. Q \in [0 .. m -> Seq(Int)] /\ zeros \in [1 .. m -> Seq(Int)]
  <2> HIDE DEF Zeros
  <2> QED
    BY <1>4, <1>5, <1>6
<1>8. Q[0] = <<>>
  <2>1. Len(P[0]) = 0
    BY <1>2
  <2>2. Zeros(0) = <<>>
    OBVIOUS
  <2>3. Q[0] = Zeros(Len(P[0]))
    OBVIOUS
  <2> HIDE DEF Q, Zeros
  <2> QED
    BY <2>1, <2>2, <2>3
<1>9. ASSUME NEW k \in 1 .. m PROVE Q[k] = Q[k - 1] \o zeros[k]
  <2> DEFINE a == Len(P[k - 1])
             b == Len(parts[k])
  <2>1. k - 1 \in 0 .. m /\ k \in 0 .. m
    OBVIOUS
  <2>2. a \in Nat /\ b \in Nat /\ Len(P[k]) = a + b
    <3>1. P[k - 1] \in Seq(TableRow) /\ parts[k] \in Seq(TableRow) /\ a \in Nat /\ b \in Nat
      BY <1>5, <1>6, <2>1
    <3>2. P[k] = P[k - 1] \o parts[k]
      BY <1>2
    <3>3. Len(P[k - 1] \o parts[k]) = a + b
      BY <3>1, ConcatProperties
    <3> HIDE DEF a, b
    <3> QED
      BY <3>1, <3>2, <3>3
  <2>3. Q[k] = Zeros(Len(P[k])) /\ Q[k - 1] = Zeros(a) /\ zeros[k] = Zeros(b)
    BY <2>1
  <2> HIDE DEF Q, zeros, a, b
  <2>4. Zeros(a) \o Zeros(b) = [i \in 1 .. a + b |-> IF i <= a THEN Zeros(a)[i] ELSE Zeros(b)[i - a]]
    <3>1. Zeros(a) = [i \in 1 .. a |-> Zeros(a)[i]] /\ Zeros(b) = [i \in 1 .. b |-> Zeros(b)[i]]
      OBVIOUS
    <3> HIDE DEF Zeros
    <3> QED
      BY <2>2, <3>1, Joined
  <2>5. \A i \in 1 .. a + b : (IF i <= a THEN Zeros(a)[i] ELSE Zeros(b)[i - a]) = 0
    <3> SUFFICES ASSUME NEW i \in 1 .. a + b PROVE (IF i <= a THEN Zeros(a)[i] ELSE Zeros(b)[i - a]) = 0
      OBVIOUS
    <3>1. CASE i <= a
      <4>1. i \in 1 .. a
        BY <2>2, <3>1
      <4> QED
        BY <3>1, <4>1
    <3>2. CASE ~(i <= a)
      <4>1. i - a \in 1 .. b
        BY <2>2, <3>2
      <4> QED
        BY <3>2, <4>1
    <3> QED
      BY <3>1, <3>2
  <2>6. Zeros(a) \o Zeros(b) = Zeros(a + b)
    <3>1. Zeros(a + b) = [i \in 1 .. a + b |-> 0]
      OBVIOUS
    <3> HIDE DEF Zeros
    <3> QED
      BY <2>4, <2>5, <3>1
  <2> HIDE DEF Zeros
  <2> QED
    BY <2>2, <2>3, <2>6
<1>10. Q[m] = Zeros(Len(P[m]))
  BY <1>3
<1> HIDE DEF Q, zeros
<1>11. Chain(zeros, Q, m, Int)
  BY <1>7, <1>8, <1>9 DEF Chain
<1>12. FlattenSeq(zeros) = Q[m]
  BY <1>11, FlattenIsChain
<1> QED
  BY <1>3, <1>10, <1>12 DEF zeros

\* What MergeColumn reads from inputs whose rows are promised.
LEMMA ReadInputs ==
    ASSUME PlainMerges, MergeInv, NEW inputs \in Inputs, RowsOfInputs(inputs) # Unknown, NEW junk
    PROVE  /\ RowsOfInputs(inputs) \in Seq(TableRow)
           /\ \A c \in 1 .. NumColumns :
                  MergedColumn(inputs, c, junk) = ColumnOf(RowsOfInputs(inputs), c)
           /\ FlattenSeq([k \in DOMAIN inputs |->
                  [i \in 1 .. segments[inputs[k]].numRows |-> segments[inputs[k]].createdTs]])
                  = [i \in 1 .. Len(RowsOfInputs(inputs)) |-> 0]
<1> DEFINE m == Len(inputs)
           parts == [k \in 1 .. m |-> holds[inputs[k]]]
<1>1. /\ m \in Nat /\ DOMAIN inputs = 1 .. m
      /\ \A k \in 1 .. m : inputs[k] \in Objects
  BY InputsAre
<1>2. /\ \A k \in DOMAIN inputs : /\ StillHolds(inputs[k]) # Unknown
                                  /\ DOMAIN segments[inputs[k]].cache = 1 .. NumColumns
                                  /\ Whole(segments[inputs[k]], holds[inputs[k]])
      /\ RowsOfInputs(inputs) = FlattenSeq([k \in DOMAIN inputs |-> holds[inputs[k]]])
  BY RowsOfInputsAre
<1> HIDE DEF m
<1>3. ASSUME NEW k \in 1 .. m
      PROVE  /\ ObjectInv(inputs[k]) /\ holds[inputs[k]] \in Seq(TableRow)
             /\ segments[inputs[k]].numRows = Len(holds[inputs[k]])
             /\ segments[inputs[k]].createdTs = 0
  <2>1. inputs[k] \in Objects /\ StillHolds(inputs[k]) # Unknown
    BY <1>1, <1>2
  <2>2. ObjectInv(inputs[k]) /\ holds[inputs[k]] # Unknown
    BY <2>1 DEF MergeInv, StillHolds
  <2>3. MadeOf(segments[inputs[k]], holds[inputs[k]]) /\ IsSegment(segments[inputs[k]])
    BY <2>2 DEF ObjectInv
  <2> QED
    BY <2>2, <2>3 DEF MadeOf, IsSegment
<1>4. parts \in [1 .. m -> Seq(TableRow)] /\ RowsOfInputs(inputs) = FlattenSeq(parts)
  BY <1>1, <1>2, <1>3
<1>5. FlattenSeq(parts) \in Seq(TableRow)
  <2>1. 1 \in 1 .. NumColumns
    BY MergeAssumption
  <2> HIDE DEF parts
  <2> QED
    BY <1>1, <1>4, <2>1, FlattenColumns
<1>6. ASSUME NEW c \in 1 .. NumColumns
      PROVE  MergedColumn(inputs, c, junk) = ColumnOf(FlattenSeq(parts), c)
  <2>1. ASSUME NEW k \in 1 .. m PROVE GetColumnData(inputs[k], c, junk) = ColumnOf(parts[k], c)
    <3> DEFINE o == inputs[k]
    <3>1. ObjectInv(o) /\ StillHolds(o) # Unknown /\ parts[k] = holds[o]
      BY <1>1, <1>2, <1>3
    <3>2. DOMAIN segments[o].cache = 1 .. NumColumns /\ Whole(segments[o], holds[o])
      BY <1>1, <1>2
    <3> HIDE DEF o, parts
    <3>3. Len(Reading(segments[o].enc, ColumnOf(holds[o], c))) >= Len(holds[o])
      BY <3>2 DEF Whole
    <3>4. GetColumnData(o, c, junk) = ColumnOf(holds[o], c)
      BY <3>1, <3>2, <3>3, PromisedData
    <3> QED
      BY <3>1, <3>4 DEF o
  <2>2. [k \in DOMAIN inputs |-> GetColumnData(inputs[k], c, junk)]
            = [k \in 1 .. m |-> ColumnOf(parts[k], c)]
    <3> HIDE DEF parts
    <3> QED
      BY <1>1, <2>1
  <2>3. FlattenSeq([k \in 1 .. m |-> ColumnOf(parts[k], c)]) = ColumnOf(FlattenSeq(parts), c)
    <3> HIDE DEF parts
    <3> QED
      BY <1>1, <1>4, FlattenColumns
  <2> QED
    BY <2>2, <2>3, Zenon DEF MergedColumn
<1>7. FlattenSeq([k \in DOMAIN inputs |->
          [i \in 1 .. segments[inputs[k]].numRows |-> segments[inputs[k]].createdTs]])
          = [i \in 1 .. Len(FlattenSeq(parts)) |-> 0]
  <2>1. ASSUME NEW k \in 1 .. m
        PROVE  [i \in 1 .. segments[inputs[k]].numRows |-> segments[inputs[k]].createdTs]
                   = [i \in 1 .. Len(parts[k]) |-> 0]
    <3>1. parts[k] = holds[inputs[k]]
      OBVIOUS
    <3> HIDE DEF parts
    <3> QED
      BY <1>3, <3>1
  <2> HIDE DEF parts
  <2>2. [k \in DOMAIN inputs |->
            [i \in 1 .. segments[inputs[k]].numRows |-> segments[inputs[k]].createdTs]]
            = [k \in 1 .. m |-> [i \in 1 .. Len(parts[k]) |-> 0]]
    BY <1>1, <2>1
  <2>3. FlattenSeq([k \in 1 .. m |-> [i \in 1 .. Len(parts[k]) |-> 0]])
            = [i \in 1 .. Len(FlattenSeq(parts)) |-> 0]
    BY <1>1, <1>4, FlattenStamps
  <2> QED
    BY <2>2, <2>3, Zenon
<1> HIDE DEF parts
<1> QED
  BY <1>4, <1>5, <1>6, <1>7

\* Every column of a merge is that column of the same rows.
LEMMA MergedTogether ==
    ASSUME PlainMerges, WholeHistories, MergeInv, NEW inputs \in Inputs, NEW h \in Histories, NEW junk,
           RowsOfInputs(inputs) # Unknown, NEW c \in 1 .. NumColumns
    PROVE  /\ MergeColumn(inputs, h, c, junk) = ColumnOf(MergedRows(inputs, h), c)
           /\ Len(MergeColumn(inputs, h, c, junk)) = Len(MergedRows(inputs, h))
<1> DEFINE rows == RowsOfInputs(inputs)
           expected == MergedRows(inputs, h)
           n == Len(rows)
           l == NumLatest(h)
           latest == Latest(h)
           last == [i \in DOMAIN latest |-> h[latest[i]].data]
           v == VisitInserts(DeltaColumn(h, c))
           u == ColumnOf(rows, c)
           z == [i \in 1 .. n |-> 0]
           found == MergeColumn(inputs, h, c, junk)
<1>1. h \in Seq(WholeCalls)
  BY DEF WholeHistories
<1>2. rows \in Seq(TableRow) /\ MergedColumn(inputs, c, junk) = u
  BY ReadInputs
<1>3. FlattenSeq([k \in DOMAIN inputs |->
          [i \in 1 .. segments[inputs[k]].numRows |-> segments[inputs[k]].createdTs]]) = z
  BY ReadInputs
<1>4. found = StableSort(u \o [i \in DOMAIN v |-> v[i].data], z \o [i \in DOMAIN v |-> v[i].ts])
  <2> HIDE DEF u, z, v
  <2>1. found = StableSort(MergedColumn(inputs, c, junk) \o [i \in DOMAIN v |-> v[i].data],
                  FlattenSeq([k \in DOMAIN inputs |->
                      [i \in 1 .. segments[inputs[k]].numRows |-> segments[inputs[k]].createdTs]])
                  \o [i \in DOMAIN v |-> v[i].ts])
    BY Zenon DEF MergeColumn, v
  <2> QED
    BY <1>2, <1>3, <2>1, Zenon
<1> HIDE DEF rows, found
<1>5. n \in Nat /\ DOMAIN rows = 1 .. n /\ rows = [i \in 1 .. n |-> rows[i]]
  BY <1>2, LenProperties
<1>6. u = [i \in 1 .. n |-> rows[i][c]] /\ u = [i \in 1 .. n |-> u[i]]
  BY <1>5 DEF ColumnOf
<1> HIDE DEF u, n
<1>7. found = [p \in 1 .. n + l |-> IF p <= n THEN u[p] ELSE h[latest[p - n]].data[c]]
  <2>1. IsTable(u, n)
    BY <1>6, Zenon DEF IsTable
  <2>2. StableSort(UnsortedData(u, v), UnsortedStamps(ZeroStamps(n), v)) = SortedIs(h, c, n, u)
    BY <1>1, <1>5, <2>1, SortedColumn
  <2>3. found = SortedIs(h, c, n, u)
    BY <1>4, <2>2, Zenon DEF UnsortedData, UnsortedStamps, ZeroStamps
  <2> QED
    BY <2>3, Zenon DEF SortedIs
<1>8. l \in Nat /\ DOMAIN latest = 1 .. l
  BY <1>1, PlacesAre
<1> HIDE DEF l, latest, expected
<1>9. expected = [i \in 1 .. n + l |-> IF i <= n THEN rows[i] ELSE last[i - n]]
  <2>1. last = [i \in 1 .. l |-> last[i]]
    BY <1>8
  <2>2. expected = rows \o last
    BY Zenon DEF rows, latest, expected, MergedRows
  <2> HIDE DEF last
  <2>3. IsTable(rows, n) /\ IsTable(last, l)
    BY <1>5, <2>1, Zenon DEF IsTable
  <2>4. rows \o last = JoinOf(rows, last, n, l)
    BY <1>5, <1>8, <2>3, JoinTables
  <2> QED
    BY <2>2, <2>4, Zenon DEF JoinOf
<1>10. \A p \in 1 .. n + l : expected[p][c] = IF p <= n THEN u[p] ELSE h[latest[p - n]].data[c]
  <2> SUFFICES ASSUME NEW p \in 1 .. n + l
               PROVE  expected[p][c] = IF p <= n THEN u[p] ELSE h[latest[p - n]].data[c]
    OBVIOUS
  <2>1. CASE p <= n
    <3> HIDE DEF last
    <3>1. p \in 1 .. n /\ expected[p] = rows[p]
      BY <1>5, <1>8, <1>9, <2>1
    <3> QED
      BY <1>6, <2>1, <3>1
  <2>2. CASE ~(p <= n)
    <3>1. p - n \in 1 .. l
      BY <1>5, <1>8, <2>2
    <3>2. expected[p] = last[p - n]
      <4> HIDE DEF last
      <4> QED
        BY <1>9, <2>2
    <3>3. last[p - n] = h[latest[p - n]].data
      BY <1>8, <3>1
    <3> HIDE DEF last
    <3> QED
      BY <2>2, <3>2, <3>3
  <2> QED
    BY <2>1, <2>2
<1>11. DOMAIN expected = 1 .. n + l
  <2> HIDE DEF last
  <2> QED
    BY <1>9
<1>12. found = ColumnOf(expected, c)
  <2>1. ColumnOf(expected, c) = [p \in 1 .. n + l |-> expected[p][c]]
    BY <1>11 DEF ColumnOf
  <2> HIDE DEF last
  <2> QED
    BY <1>7, <1>10, <2>1
<1>13. Len(found) = n + l /\ Len(expected) = n + l
  <2>1. n + l \in Nat
    BY <1>5, <1>8
  <2>2. found = [p \in 1 .. n + l |-> found[p]]
    BY <1>7
  <2>3. expected = [p \in 1 .. n + l |-> expected[p]]
    <3> HIDE DEF last
    <3> QED
      BY <1>9
  <2> DEFINE N == n + l
  <2> HIDE DEF N
  <2>4. N \in Nat /\ found = [p \in 1 .. N |-> found[p]] /\ expected = [p \in 1 .. N |-> expected[p]]
    BY <2>1, <2>2, <2>3 DEF N
  <2>5. Len(found) = N /\ Len(expected) = N
    BY <2>4, FunctionSequence
  <2> QED
    BY <2>5 DEF N
<1> QED
  BY <1>12, <1>13 DEF found, expected

(***************************************************************************)
(* RowsStayTogether, for every number of columns, every set of segments    *)
(* and every delta store whose inserts give whole rows: the columns that   *)
(* MergeColumn sorts one by one still line up as rows, those of the        *)
(* segments first, then the latest insert of each row by timestamp and row *)
(* id.                                                                     *)
(***************************************************************************)
THEOREM MergedRowsStayTogether ==
    ASSUME PlainMerges, WholeHistories PROVE MergeSpec => []RowsStayTogether
<1> DEFINE Inv == MergeInv /\ RowsStayTogether
<1>1. MergeInit => Inv
  BY MergeInvInit DEF RowsStayTogether, MergeInit
<1>2. Inv /\ [MergeNext]_mergeVars => Inv'
  <2> SUFFICES ASSUME MergeInv, RowsStayTogether, [MergeNext]_mergeVars PROVE RowsStayTogether'
    BY MergeInvNext
  <2>1. CASE UNCHANGED merged
    BY <2>1 DEF RowsStayTogether
  <2>2. ASSUME NEW inputs \in Inputs, NEW h \in Histories, NEW junk \in Data,
               MergeColumns(inputs, h, junk)
        PROVE  RowsStayTogether'
    <3> DEFINE rows == RowsOfInputs(inputs)
               columns == [c \in 1 .. NumColumns |-> MergeColumn(inputs, h, c, junk)]
               last == [i \in DOMAIN Latest(h) |-> h[Latest(h)[i]].data]
               expected == MergedRows(inputs, h)
    <3>1. merged' = [columns |-> columns, history |-> h, rows |-> rows]
      BY <2>2, Zenon DEF MergeColumns
    <3>2. ASSUME rows # Unknown
          PROVE  /\ \A c \in 1 .. NumColumns : Len(columns[c]) = Len(expected)
                 /\ columns = ColumnsOf(expected)
      <4>1. ASSUME NEW c \in 1 .. NumColumns
            PROVE  /\ MergeColumn(inputs, h, c, junk) = ColumnOf(expected, c)
                   /\ Len(MergeColumn(inputs, h, c, junk)) = Len(expected)
        BY <3>2, MergedTogether
      <4>2. ColumnsOf(expected) = [c \in 1 .. NumColumns |-> ColumnOf(expected, c)]
        BY DEF ColumnsOf, ColumnOf
      <4> HIDE DEF expected
      <4> QED
        BY <4>1, <4>2
    <3> HIDE DEF columns
    <3>3. merged'.columns = columns /\ merged'.history = h /\ merged'.rows = rows
      <4> HIDE DEF rows
      <4> QED
        BY <3>1
    <3> QED
      BY <3>2, <3>3, Zenon DEF RowsStayTogether, MergedRows, Latest
  <2>3. CASE MergeNext
    <3>1. \/ UNCHANGED merged
          \/ \E inputs \in Inputs, h \in Histories, junk \in Data : MergeColumns(inputs, h, junk)
      BY <2>3 DEF MergeNext, Write, Load, OpenOutput, ExecuteMerge
    <3> QED
      BY <2>1, <2>2, <3>1
  <2>4. CASE UNCHANGED mergeVars
    BY <2>1, <2>4 DEF mergeVars
  <2> QED
    BY <2>3, <2>4
<1>3. Inv => RowsStayTogether
  OBVIOUS
<1> QED
  BY <1>1, <1>2, <1>3, PTL DEF MergeSpec
-----------------------------------------------------------------------------
(* The loops of VectorOps and of the SIMD predicates *)

\* Multiples of a width are in the order of their factors.
LEMMA TimesOrder ==
    ASSUME NEW w \in Nat \ {0}, NEW a \in Int, NEW b \in Int
    PROVE  /\ a * w \in Int /\ b * w \in Int
           /\ a < b => a * w + w <= b * w
           /\ a <= b => a * w <= b * w
<1>1. a * w \in Int /\ b * w \in Int
  OBVIOUS
<1>2. (b - a) * w = b * w - a * w /\ (b - a) * w \in Int
  OBVIOUS
<1>3. a < b => (b - a) * w >= w
  <2> DEFINE d == b - a
  <2>1. d \in Int /\ (a < b => d >= 1)
    OBVIOUS
  <2> HIDE DEF d
  <2>2. d >= 1 => d * w >= w
    BY <2>1
  <2> QED
    BY <2>1, <2>2 DEF d
<1> QED
  BY <1>1, <1>2, <1>3

\* Where a number lies between the multiples of a width.
LEMMA Between ==
    ASSUME NEW w \in Nat \ {0}, NEW n \in Nat
    PROVE  /\ n \div w \in Nat /\ (n \div w) * w \in Nat
           /\ n % w \in 0 .. w - 1 /\ n = (n \div w) * w + (n % w)
<1> DEFINE q == n \div w
           r == n % w
<1>1. q \in Int /\ r \in 0 .. w - 1 /\ n = q * w + r
  OBVIOUS
<1> HIDE DEF q, r
<1>2. q * w \in Int /\ (q < 0 => q * w + w <= 0 * w) /\ (0 <= q => 0 * w <= q * w)
  BY <1>1, TimesOrder
<1>3. 0 * w = 0
  OBVIOUS
<1>4. q \in Nat /\ q * w \in Nat
  BY <1>1, <1>2, <1>3
<1> QED
  BY <1>1, <1>4 DEF q, r

\* The loop over whole vectors takes the rows up to the last multiple of the
\* width, and the other loop the rest: every row once.
LEMMA LoopRows ==
    ASSUME NEW n \in Nat, NEW w \in Nat \ {0}
    PROVE  /\ VectorRows(n, w) \cup TailRows(n, w) = 1 .. n
           /\ VectorRows(n, w) \cap TailRows(n, w) = {}
<1> DEFINE q == n \div w
           r == n % w
           V == VectorRows(n, w)
           T == TailRows(n, w)
<1>1. q \in Nat /\ q * w \in Nat /\ r \in 0 .. w - 1 /\ n = q * w + r
  BY Between
<1>2. \A i : i \in V <=> \E k \in 0 .. n : k * w + w <= n /\ i \in k * w + 1 .. k * w + w
  BY Zenon DEF VectorRows
<1>3. \A i : i \in T <=> \E j \in (n - r) .. n - 1 : i = j + 1
  BY Zenon DEF TailRows
<1> HIDE DEF q, r, V, T
<1>4. ASSUME NEW i \in V PROVE i \in 1 .. q * w
  <2>1. PICK k \in 0 .. n : k * w + w <= n /\ i \in k * w + 1 .. k * w + w
    BY <1>2
  <2>2. k * w \in Int /\ (q <= k => q * w <= k * w) /\ (k < q => k * w + w <= q * w)
    BY <1>1, <2>1, TimesOrder
  <2>3. 0 * w <= k * w /\ 0 * w = 0
    BY <2>1, TimesOrder
  <2>4. k < q
    BY <1>1, <2>1, <2>2
  <2> QED
    BY <1>1, <2>1, <2>2, <2>3, <2>4
<1>5. ASSUME NEW i \in 1 .. q * w PROVE i \in V
  <2> DEFINE m == i - 1
             k == m \div w
             s == m % w
  <2>1. m \in Nat /\ m < q * w
    BY <1>1
  <2>2. k \in Nat /\ k * w \in Nat /\ s \in 0 .. w - 1 /\ m = k * w + s
    BY <2>1, Between
  <2> HIDE DEF k, s
  <2>3. (q <= k => q * w <= k * w) /\ (k < q => k * w + w <= q * w)
    BY <1>1, <2>2, TimesOrder
  <2>4. k < q /\ k * w + w <= n
    BY <1>1, <2>1, <2>2, <2>3
  <2>5. k <= q * w
    <3>1. q * w >= q
      BY <1>1
    <3> QED
      BY <1>1, <2>2, <2>4, <3>1
  <2>6. k \in 0 .. n /\ i \in k * w + 1 .. k * w + w
    BY <1>1, <2>1, <2>2, <2>5
  <2> QED
    BY <1>2, <2>4, <2>6
<1>6. V = 1 .. q * w
  BY <1>4, <1>5
<1>7. T = (q * w + 1) .. n
  <2>1. n - r = q * w
    BY <1>1
  <2>2. ASSUME NEW i \in (q * w + 1) .. n PROVE i \in T
    <3>1. i - 1 \in (n - r) .. n - 1 /\ i = (i - 1) + 1
      BY <1>1, <2>1, <2>2
    <3> QED
      BY <1>3, <3>1
  <2>3. ASSUME NEW i \in T PROVE i \in (q * w + 1) .. n
    BY <1>1, <1>3, <2>1
  <2> QED
    BY <2>2, <2>3
<1> DEFINE e == q * w
<1>8. e \in Nat /\ e <= n /\ V = 1 .. e /\ T = (e + 1) .. n
  BY <1>1, <1>6, <1>7
<1> HIDE DEF e
<1>9. V \cup T = 1 .. n /\ V \cap T = {}
  BY <1>8
<1> QED
  BY <1>9 DEF V, T

\* A vector compares as the scalar code does.
LEMMA LaneCompares ==
    ASSUME NEW pred \in ComparisonOps, NEW a \in Int, NEW b \in Int
    PROVE  Lane(pred, a, b) = Compare(pred, a, b)
<1>1. /\ pred = "Equal" => Lane(pred, a, b) = (a = b) /\ Compare(pred, a, b) = (a = b)
      /\ pred = "NotEqual" => Lane(pred, a, b) = (~(a = b)) /\ Compare(pred, a, b) = (a # b)
      /\ pred = "LessThan" => Lane(pred, a, b) = (a < b) /\ Compare(pred, a, b) = (a < b)
      /\ pred = "LessEqual" => Lane(pred, a, b) = (a <= b) /\ Compare(pred, a, b) = (a <= b)
      /\ pred = "GreaterThan" => Lane(pred, a, b) = (b < a) /\ Compare(pred, a, b) = (a > b)
      /\ pred = "GreaterEqual" => Lane(pred, a, b) = (b <= a) /\ Compare(pred, a, b) = (a >= b)
  BY DEF Lane, Compare
<1>2. (b < a) = (a > b) /\ (b <= a) = (a >= b) /\ (~(a = b)) = (a # b)
  OBVIOUS
<1> QED
  BY <1>1, <1>2 DEF ComparisonOps

\* A[k] is the sum of the first k numbers.
Sums(q, A, n) ==
    /\ n \in Nat /\ q = [k \in 1 .. n |-> q[k]] /\ A \in [0 .. n -> Int] /\ A[0] = 0
    /\ \A k \in 1 .. n : A[k] = A[k - 1] + q[k]

\* Total is the last of them.
LEMMA TotalIs ==
    ASSUME NEW q, NEW A, NEW n, Sums(q, A, n)
    PROVE  Total(q) = A[n]
<1> DEFINE E(f, k) == IF k = 0 THEN 0 ELSE f[k - 1] + q[k]
           R(f) == [k \in 0 .. n |-> E(f, k)]
           sum == CHOOSE f : f = R(f)
<1>1. /\ n \in Nat /\ q = [k \in 1 .. n |-> q[k]] /\ A \in [0 .. n -> Int] /\ A[0] = 0
      /\ \A k \in 1 .. n : A[k] = A[k - 1] + q[k]
  BY DEF Sums
<1>2. Len(q) = n
  BY <1>1, FunctionSequence
<1>3. Total(q) = sum[n]
  BY <1>2 DEF Total
<1>4. A = R(A)
  <2>1. \A k \in 0 .. n : A[k] = E(A, k)
    BY <1>1
  <2>2. A = [k \in 0 .. n |-> A[k]]
    BY <1>1
  <2> HIDE DEF E
  <2> QED
    BY <2>1, <2>2
<1>5. sum = R(sum)
  <2> HIDE DEF R
  <2> QED
    BY <1>4
<1> HIDE DEF sum
<1> DEFINE Bad == {k \in Nat : k <= n /\ sum[k] # A[k]}
<1>6. Bad = {}
  <2> SUFFICES ASSUME Bad # {} PROVE FALSE
    OBVIOUS
  <2>1. PICK k \in Bad : \A j \in Bad : k <= j
    <3>1. Bad \subseteq Nat
      OBVIOUS
    <3> HIDE DEF Bad
    <3> QED
      BY <3>1, LeastNat
  <2>2. sum[k] = E(sum, k) /\ A[k] = E(A, k)
    <3>1. k \in 0 .. n
      BY <1>1
    <3> HIDE DEF E
    <3> QED
      BY <1>4, <1>5, <3>1
  <2>3. k # 0
    BY <2>2
  <2>4. k - 1 \in Nat /\ k - 1 <= n /\ ~(k <= k - 1)
    BY <1>1, <2>3
  <2>5. sum[k - 1] = A[k - 1]
    <3>1. k - 1 \notin Bad
      <4> HIDE DEF Bad
      <4> QED
        BY <2>1, <2>4
    <3> QED
      BY <2>4, <3>1
  <2>6. sum[k] = A[k]
    <3> HIDE DEF Bad, R
    <3> QED
      BY <2>2, <2>3, <2>5
  <2> QED
    BY <2>6
<1> QED
  BY <1>1, <1>3, <1>6

\* There are such sums.
LEMMA SumsExist ==
    ASSUME NEW n \in Nat, NEW q \in [1 .. n -> Int]
    PROVE  \E A : Sums(q, A, n)
<1> DEFINE Upto(A, m) == /\ A \in [0 .. m -> Int] /\ A[0] = 0
                         /\ \A k \in 1 .. m : A[k] = A[k - 1] + q[k]
           Bad == {k \in Nat : k <= n /\ ~(\E A : Upto(A, k))}
<1>1. Bad = {}
  <2> SUFFICES ASSUME Bad # {} PROVE FALSE
    OBVIOUS
  <2>1. PICK k \in Bad : \A j \in Bad : k <= j
    <3>1. Bad \subseteq Nat
      OBVIOUS
    <3> HIDE DEF Bad
    <3> QED
      BY <3>1, LeastNat
  <2>2. CASE k = 0
    <3> DEFINE A == [i \in 0 .. 0 |-> 0]
    <3>1. Upto(A, 0)
      OBVIOUS
    <3> QED
      BY <2>2, <3>1
  <2>3. CASE k # 0
    <3>1. k - 1 \in Nat /\ k \in Nat /\ k \in 1 .. n /\ k - 1 <= n /\ ~(k <= k - 1)
      BY <2>3
    <3>2. k - 1 \notin Bad
      <4> HIDE DEF Bad
      <4> QED
        BY <2>1, <3>1
    <3>3. PICK A : Upto(A, k - 1)
      BY <3>1, <3>2
    <3> DEFINE B == [i \in 0 .. k |-> IF i = k THEN A[k - 1] + q[k] ELSE A[i]]
    <3>4. A \in [0 .. k - 1 -> Int] /\ A[k - 1] \in Int /\ q[k] \in Int
      BY <3>1, <3>3
    <3>5. B \in [0 .. k -> Int] /\ B[0] = 0
      BY <3>1, <3>3, <3>4
    <3>6. ASSUME NEW i \in 1 .. k PROVE B[i] = B[i - 1] + q[i]
      <4>1. CASE i = k
        <5>1. k - 1 \in 0 .. k /\ k - 1 # k
          BY <3>1
        <5> QED
          BY <4>1, <5>1
      <4>2. CASE i # k
        <5>1. i \in 1 .. k - 1 /\ i - 1 \in 0 .. k /\ i - 1 # k
          BY <3>1, <4>2
        <5>2. A[i] = A[i - 1] + q[i]
          BY <3>3, <5>1
        <5> QED
          BY <4>2, <5>1, <5>2
      <4> QED
        BY <4>1, <4>2
    <3> HIDE DEF B
    <3>7. Upto(B, k)
      BY <3>5, <3>6
    <3> QED
      BY <3>7
  <2> QED
    BY <2>2, <2>3
<1>2. PICK A : Upto(A, n)
  <2>1. n \notin Bad
    <3> HIDE DEF Bad
    <3> QED
      BY <1>1
  <2> HIDE DEF Upto
  <2> QED
    BY <2>1
<1>3. q = [k \in 1 .. n |-> q[k]]
  OBVIOUS
<1> QED
  BY <1>2, <1>3 DEF Sums

\* Two loops that share the rows out add up to all of them.
Part(q, n, rows) == [i \in 1 .. n |-> IF i \in rows THEN q[i] ELSE 0]
LEMMA TotalSplits ==
    ASSUME NEW n \in Nat, NEW q \in [1 .. n -> Int], NEW V, NEW T, V \cup T = 1 .. n, V \cap T = {}
    PROVE  Total(Part(q, n, V)) + Total(Part(q, n, T)) = Total(q)
<1> DEFINE v == Part(q, n, V)
           t == Part(q, n, T)
<1>1. v \in [1 .. n -> Int] /\ t \in [1 .. n -> Int] /\ \A i \in 1 .. n : q[i] = v[i] + t[i]
  BY DEF Part
<1> HIDE DEF v, t
<1>2. PICK A : Sums(q, A, n)
  BY SumsExist
<1>3. PICK B : Sums(v, B, n)
  BY <1>1, SumsExist
<1> DEFINE C == [k \in 0 .. n |-> A[k] - B[k]]
<1>4. /\ A \in [0 .. n -> Int] /\ A[0] = 0 /\ \A k \in 1 .. n : A[k] = A[k - 1] + q[k]
      /\ B \in [0 .. n -> Int] /\ B[0] = 0 /\ \A k \in 1 .. n : B[k] = B[k - 1] + v[k]
  BY <1>2, <1>3 DEF Sums
<1>5. C \in [0 .. n -> Int] /\ C[0] = 0
  BY <1>4
<1>6. ASSUME NEW k \in 1 .. n PROVE C[k] = C[k - 1] + t[k]
  <2>1. k \in 0 .. n /\ k - 1 \in 0 .. n
    OBVIOUS
  <2>2. C[k] = A[k] - B[k] /\ C[k - 1] = A[k - 1] - B[k - 1]
    BY <2>1
  <2>3. A[k] = A[k - 1] + q[k] /\ B[k] = B[k - 1] + v[k] /\ q[k] = v[k] + t[k]
    BY <1>1, <1>4
  <2>4. A[k - 1] \in Int /\ B[k - 1] \in Int /\ v[k] \in Int /\ t[k] \in Int
    BY <1>1, <1>4, <2>1
  <2> HIDE DEF C
  <2> QED
    BY <2>2, <2>3, <2>4
<1>7. C[n] = A[n] - B[n] /\ A[n] \in Int /\ B[n] \in Int
  BY <1>4
<1> HIDE DEF C
<1>8. t = [k \in 1 .. n |-> t[k]]
  BY <1>1
<1>9. Sums(t, C, n)
  BY <1>5, <1>6, <1>8 DEF Sums
<1>10. Total(q) = A[n] /\ Total(v) = B[n] /\ Total(t) = C[n]
  BY <1>2, <1>3, <1>9, TotalIs
<1> QED
  BY <1>7, <1>10 DEF v, t

\* The two loops of each kernel take every row of a column once.
LEMMA FillsAgree ==
    ASSUME FillInv PROVE LoopsAgree
<1> SUFFICES ASSUME phase = "filled", NEW w \in Widths
    PROVE  /\ \A pred \in ComparisonOps, v \in Values[type] :
                  FilterVector(pred, Contents(src), v, w) = Mask(pred, v)
           /\ SumVector(Contents(src), type, w) = Signed(Total(Appended), type)
           /\ Len(held) > 0 => /\ MinVector(Contents(src), w) = Min(ToSet(Appended))
                               /\ MaxVector(Contents(src), w) = Max(ToSet(Appended))
           /\ \A op \in {"Add", "Sub", "Mul"} :
                  MapVector(op, Contents(src), Reverse(Contents(src)), type, w)
                      = [i \in 1 .. Len(held) |->
                            Arithmetic(op, Appended[i], Appended[Len(held) + 1 - i], type)]
  BY Zenon DEF LoopsAgree, EvaluateVector
<1> DEFINE n == Len(held)
           a == Appended
           V == VectorRows(n, w)
           T == TailRows(n, w)
<1>1. w \in Nat \ {0} /\ type \in Types /\ Agrees(src, held)
  BY ColumnAssumption DEF FillInv
<1>2. Contents(src) = a /\ a \in Seq(Int) /\ Len(a) = n /\ n \in Nat
  BY <1>1, ContentsAre DEF ValuesOf, Appended
<1>3. V \cup T = 1 .. n /\ V \cap T = {}
  BY <1>1, <1>2, LoopRows
<1>4. DOMAIN a = 1 .. n /\ \A i \in 1 .. n : a[i] \in Int
  BY <1>2, LenProperties, ElementOfSeq
<1> HIDE DEF n, a, V, T
<1>5. ASSUME NEW pred \in ComparisonOps, NEW v \in Values[type]
      PROVE  FilterVector(pred, Contents(src), v, w) = Mask(pred, v)
  <2>1. v \in Int
    BY <1>1, ColumnAssumption, NativesAreIntegers
  <2>2. FilterVector(pred, a, v, w)
            = [i \in V \cup T |-> IF i \in T THEN Compare(pred, a[i], v) ELSE Lane(pred, a[i], v)]
    BY <1>2, Zenon DEF FilterVector, V, T
  <2>3. \A i \in 1 .. n : Lane(pred, a[i], v) = Compare(pred, a[i], v)
    BY <1>4, <2>1, LaneCompares
  <2>4. FilterVector(pred, a, v, w) = [i \in 1 .. n |-> Compare(pred, a[i], v)]
    BY <1>3, <2>2, <2>3
  <2>5. Mask(pred, v) = [i \in 1 .. n |-> Compare(pred, a[i], v)]
    BY Zenon DEF Mask, n, a
  <2> QED
    BY <1>2, <2>4, <2>5, Zenon
<1>6. ASSUME n > 0
      PROVE  MinVector(a, w) = Min(ToSet(a)) /\ MaxVector(a, w) = Max(ToSet(a))
  <2>1. {1} \cup V \cup T = 1 .. n
    BY <1>2, <1>3, <1>6
  <2>2. ToSet(a) = {a[i] : i \in {1} \cup V \cup T}
    BY <1>4, <2>1, Zenon DEF ToSet
  <2>3. MinVector(a, w) = Min({a[i] : i \in {1} \cup V \cup T}) /\ MaxVector(a, w) = Max({a[i] : i \in {1} \cup V \cup T})
    BY <1>2, Zenon DEF MinVector, MaxVector, V, T
  <2> QED
    BY <2>2, <2>3, Zenon
<1>7. ASSUME NEW op
      PROVE  MapVector(op, a, Reverse(a), type, w)
                 = [i \in 1 .. n |-> Arithmetic(op, a[i], a[n + 1 - i], type)]
  <2> DEFINE b == Reverse(a)
  <2>1. b = [i \in 1 .. n |-> a[(n - i) + 1]]
    BY <1>2, Zenon DEF Reverse
  <2>2. \A i \in 1 .. n : (n - i) + 1 = n + 1 - i
    BY <1>2
  <2>3. \A i \in 1 .. n : b[i] = a[n + 1 - i]
    BY <2>1, <2>2
  <2> HIDE DEF b
  <2>4. MapVector(op, a, b, type, w) = [i \in V \cup T |-> Arithmetic(op, a[i], b[i], type)]
    BY <1>2, Zenon DEF MapVector, V, T
  <2>5. MapVector(op, a, b, type, w) = [i \in 1 .. n |-> Arithmetic(op, a[i], a[n + 1 - i], type)]
    BY <1>3, <2>3, <2>4
  <2> QED
    BY <2>5 DEF b
<1>8. SumVector(a, type, w) = Signed(Total(a), type)
  <2>1. a \in [1 .. n -> Int]
    <3>1. a = [i \in 1 .. n |-> a[i]]
      BY <1>2, <1>4
    <3> QED
      BY <1>4, <3>1
  <2>2. SumVector(a, type, w) = Signed(Total(Part(a, n, V)) + Total(Part(a, n, T)), type)
    BY <1>2, Zenon DEF SumVector, Part, V, T
  <2>3. Total(Part(a, n, V)) + Total(Part(a, n, T)) = Total(a)
    BY <1>2, <1>3, <2>1, TotalSplits
  <2> QED
    BY <2>2, <2>3
<1> QED
  BY <1>2, <1>5, <1>6, <1>7, <1>8 DEF n, a

\* The part of KernelsAgree about the kernels that walk a column in two loops,
\* for columns of every length and vectors of every width.
THEOREM KernelLoopsAgree ==
    ASSUME Capacities \subseteq {0} PROVE Spec => []LoopsAgree
  BY FillsAgree, FillInvInit, FillInvNext, PTL DEF Spec
-----------------------------------------------------------------------------
(* The runs of an RLE object *)

-----------------------------------------------------------------------------
(* The RLE object *)

\* A run is as long as its field says.
RunsOf(fields, m, P) ==
    /\ m \in Nat /\ Len(fields) \div 2 = m
    /\ \A k \in 1 .. m : /\ fields[2 * k].v \in Nat /\ fields[2 * k - 1].v \in Int
                         /\ P[k] \in Seq(Int) /\ P[k - 1] \in Seq(Int)
                         /\ P[k] = P[k - 1] \o Rep(fields[2 * k - 1].v, fields[2 * k].v)
LEMMA UnpackedRuns ==
    ASSUME NEW fields, NEW rows, NEW m, NEW P, Unpacks(fields, rows, m, P)
    PROVE  RunsOf(fields, m, P)
<1>1. /\ m \in Nat /\ fields \in Seq(FieldType) /\ Len(fields) = 2 * m
      /\ P \in [0 .. m -> Seq(Int)] /\ P[0] = <<>> /\ P[m] = rows
      /\ \A k \in 1 .. m : /\ fields[2 * k].v \in Nat
                           /\ P[k] = P[k - 1] \o Rep(fields[2 * k - 1].v, fields[2 * k].v)
  BY DEF Unpacks
<1>2. Len(fields) \div 2 = m
  BY <1>1
<1>3. ASSUME NEW k \in 1 .. m
      PROVE  fields[2 * k - 1].v \in Int /\ P[k] \in Seq(Int) /\ P[k - 1] \in Seq(Int)
  <2>1. 2 * k - 1 \in 1 .. Len(fields) /\ k \in 0 .. m /\ k - 1 \in 0 .. m
    BY <1>1
  <2>2. fields[2 * k - 1] \in FieldType
    BY <1>1, <2>1, ElementOfSeq
  <2> QED
    BY <1>1, <2>1, <2>2 DEF FieldType
<1> QED
  BY <1>1, <1>2, <1>3 DEF RunsOf

\* The lengths of the runs add up to the rows.
LEMMA RunRowsAre ==
    ASSUME NEW o, NEW rows, NEW m, NEW P, Unpacks(o.runs, rows, m, P)
    PROVE  RunRows(o) = Len(rows)
<1> DEFINE f == o.runs
           q == [k \in 1 .. m |-> f[2 * k].v]
           A == [k \in 0 .. m |-> Len(P[k])]
<1>1. /\ m \in Nat /\ Len(f) \div 2 = m
      /\ \A k \in 1 .. m : /\ f[2 * k].v \in Nat /\ f[2 * k - 1].v \in Int
                           /\ P[k] \in Seq(Int) /\ P[k - 1] \in Seq(Int)
                           /\ P[k] = P[k - 1] \o Rep(f[2 * k - 1].v, f[2 * k].v)
  <2>1. RunsOf(f, m, P)
    <3>1. Unpacks(f, rows, m, P)
      OBVIOUS
    <3> HIDE DEF f
    <3> QED
      BY <3>1, UnpackedRuns
  <2> QED
    BY <2>1, Zenon DEF RunsOf
<1>2. P \in [0 .. m -> Seq(Int)] /\ P[0] = <<>> /\ P[m] = rows
  BY DEF Unpacks
<1>3. RunRows(o) = Total(q)
  BY <1>1 DEF RunRows
<1>4. A \in [0 .. m -> Int] /\ A[0] = 0 /\ A[m] = Len(rows)
  <2>1. \A k \in 0 .. m : Len(P[k]) \in Int
    BY <1>2, LenProperties
  <2>2. Len(P[0]) = 0
    BY <1>2
  <2> QED
    BY <1>1, <1>2, <2>1, <2>2
<1>5. ASSUME NEW k \in 1 .. m PROVE A[k] = A[k - 1] + q[k]
  <2> DEFINE a == P[k - 1]
             b == Rep(f[2 * k - 1].v, f[2 * k].v)
  <2>1. a \in Seq(Int) /\ b \in Seq(Int) /\ Len(b) = f[2 * k].v /\ P[k] = a \o b
    BY <1>1, RepLonger
  <2>2. A[k] = Len(P[k]) /\ A[k - 1] = Len(a) /\ q[k] = f[2 * k].v
    BY <1>1
  <2> HIDE DEF a, b, A, q, f
  <2>3. Len(a \o b) = Len(a) + Len(b)
    BY <2>1, ConcatProperties
  <2> QED
    BY <2>1, <2>2, <2>3
<1>6. q = [k \in 1 .. m |-> q[k]]
  OBVIOUS
<1> HIDE DEF q, A
<1>7. Sums(q, A, m)
  BY <1>1, <1>4, <1>5, <1>6 DEF Sums
<1> QED
  BY <1>3, <1>4, <1>7, TotalIs

\* A function of every row, of sequences end to end.
MapOf(s, g) == [i \in DOMAIN s |-> g[s[i]]]
LEMMA MapConcat ==
    ASSUME NEW S, NEW g \in [Int -> S], NEW a \in Seq(Int), NEW b \in Seq(Int)
    PROVE  MapOf(a \o b, g) = MapOf(a, g) \o MapOf(b, g)
<1> DEFINE n == Len(a)
           m == Len(b)
           u == MapOf(a, g)
           v == MapOf(b, g)
           c == a \o b
<1>1. n \in Nat /\ m \in Nat /\ DOMAIN a = 1 .. n /\ DOMAIN b = 1 .. m
  BY LenProperties
<1>2. /\ c \in Seq(Int) /\ Len(c) = n + m
      /\ \A i \in 1 .. n + m : c[i] = IF i <= n THEN a[i] ELSE b[i - n]
  BY ConcatProperties
<1>3. IsTable(u, n) /\ IsTable(v, m)
  BY <1>1 DEF MapOf, IsTable
<1>4. u \o v = JoinOf(u, v, n, m)
  <2> HIDE DEF u, v
  <2> QED
    BY <1>1, <1>3, JoinTables
<1>5. DOMAIN c = 1 .. n + m
  <2> HIDE DEF c
  <2> QED
    BY <1>2, LenProperties
<1>6. ASSUME NEW i \in 1 .. n + m PROVE g[c[i]] = IF i <= n THEN u[i] ELSE v[i - n]
  <2>1. CASE i <= n
    <3>1. i \in 1 .. n
      BY <1>1, <2>1
    <3>2. u[i] = g[a[i]]
      BY <1>1, <3>1 DEF MapOf
    <3> HIDE DEF u, v, c
    <3> QED
      BY <1>2, <2>1, <3>2
  <2>2. CASE ~(i <= n)
    <3>1. i - n \in 1 .. m
      BY <1>1, <2>2
    <3>2. v[i - n] = g[b[i - n]]
      BY <1>1, <3>1 DEF MapOf
    <3> HIDE DEF u, v, c
    <3> QED
      BY <1>2, <2>2, <3>2
  <2> QED
    BY <2>1, <2>2
<1> HIDE DEF u, v, c
<1>7. MapOf(c, g) = [i \in 1 .. n + m |-> IF i <= n THEN u[i] ELSE v[i - n]]
  BY <1>5, <1>6 DEF MapOf
<1>8. MapOf(c, g) = u \o v
  BY <1>4, <1>7, Zenon DEF JoinOf
<1> QED
  BY <1>8 DEF u, v, c

\* A test of every run, spread over its rows, is the test of every row.
RunsMapped(fields, m, g) ==
    FlattenSeq([k \in 1 .. m |-> [i \in 1 .. fields[2 * k].v |-> g[fields[2 * k - 1].v]]])
LEMMA FilterRuns ==
    ASSUME NEW fields, NEW rows, NEW m, NEW P, Unpacks(fields, rows, m, P), NEW S, NEW g \in [Int -> S]
    PROVE  RunsMapped(fields, m, g) = MapOf(rows, g)
<1> DEFINE r(k) == Rep(fields[2 * k - 1].v, fields[2 * k].v)
           x(k) == [i \in 1 .. fields[2 * k].v |-> g[fields[2 * k - 1].v]]
           seqs == [k \in 1 .. m |-> x(k)]
           Q == [k \in 0 .. m |-> MapOf(P[k], g)]
<1>1. /\ m \in Nat
      /\ \A k \in 1 .. m : /\ fields[2 * k].v \in Nat /\ fields[2 * k - 1].v \in Int
                           /\ P[k] \in Seq(Int) /\ P[k - 1] \in Seq(Int)
                           /\ P[k] = P[k - 1] \o r(k)
  <2>1. RunsOf(fields, m, P)
    BY UnpackedRuns
  <2> QED
    BY <2>1, Zenon DEF RunsOf
<1>2. P \in [0 .. m -> Seq(Int)] /\ P[0] = <<>> /\ P[m] = rows
  BY DEF Unpacks
<1>3. ASSUME NEW k \in 1 .. m PROVE r(k) \in Seq(Int) /\ x(k) = MapOf(r(k), g) /\ x(k) \in Seq(S)
  <2>1. r(k) \in Seq(Int)
    BY <1>1, RepLonger
  <2> DEFINE c == fields[2 * k].v
             d == fields[2 * k - 1].v
  <2>2. c \in Nat /\ d \in Int
    BY <1>1
  <2> HIDE DEF c, d
  <2>3. [i \in 1 .. c |-> g[d]] = MapOf(Rep(d, c), g)
    BY <2>2 DEF MapOf, Rep
  <2>4. [i \in 1 .. c |-> g[d]] \in Seq(S)
    BY <2>2
  <2> QED
    BY <2>1, <2>3, <2>4 DEF c, d
<1>4. \A s \in Seq(Int) : MapOf(s, g) \in Seq(S)
  <2> SUFFICES ASSUME NEW s \in Seq(Int) PROVE MapOf(s, g) \in Seq(S)
    OBVIOUS
  <2>1. Len(s) \in Nat /\ DOMAIN s = 1 .. Len(s) /\ \A i \in 1 .. Len(s) : s[i] \in Int
    BY LenProperties, ElementOfSeq
  <2>2. MapOf(s, g) \in [1 .. Len(s) -> S]
    BY <2>1 DEF MapOf
  <2> HIDE DEF MapOf
  <2> QED
    BY <2>1, <2>2, SeqDef
<1> HIDE DEF r, x
<1>5. seqs \in [1 .. m -> Seq(S)] /\ \A k \in 1 .. m : seqs[k] = x(k)
  BY <1>3
<1>6. /\ Q \in [0 .. m -> Seq(S)] /\ \A k \in 0 .. m : Q[k] = MapOf(P[k], g)
  BY <1>2, <1>4
<1>7. Q[0] = <<>>
  <2>1. MapOf(<<>>, g) = <<>>
    BY DEF MapOf
  <2> QED
    BY <1>1, <1>2, <1>6, <2>1
<1> HIDE DEF seqs, Q
<1>8. ASSUME NEW k \in 1 .. m PROVE Q[k] = Q[k - 1] \o seqs[k]
  <2>1. k - 1 \in 0 .. m /\ k \in 0 .. m
    BY <1>1
  <2> DEFINE a == P[k - 1]
             b == r(k)
  <2>2. a \in Seq(Int) /\ b \in Seq(Int) /\ P[k] = a \o b
    BY <1>1, <1>3
  <2>3. Q[k] = MapOf(P[k], g) /\ Q[k - 1] = MapOf(a, g) /\ seqs[k] = MapOf(b, g)
    BY <1>3, <1>5, <1>6, <2>1
  <2> HIDE DEF a, b
  <2>4. MapOf(a \o b, g) = MapOf(a, g) \o MapOf(b, g)
    BY <2>2, MapConcat
  <2> QED
    BY <2>2, <2>3, <2>4
<1>9. Chain(seqs, Q, m, S)
  BY <1>1, <1>5, <1>6, <1>7, <1>8 DEF Chain
<1>10. FlattenSeq(seqs) = Q[m]
  BY <1>9, FlattenIsChain
<1>11. Q[m] = MapOf(rows, g)
  BY <1>1, <1>2, <1>6
<1> QED
  BY <1>10, <1>11, Zenon DEF seqs, x, RunsMapped

\* An object whose runs are the encoder's of a column: what it decodes to, in
\* scalar and in vector code, what its filter gives and what it writes.
LEMMA RunObject ==
    ASSUME NEW column \in Seq(Int), NEW t, NEW o, o.runs = RLEEncode(t, column)
    PROVE  /\ RleRows(o) = column
           /\ \A w \in Nat \ {0} : RleRowsVector(o, w) = column
           /\ \A pred, v : RleFilter(o, pred, v) = [i \in DOMAIN column |-> Compare(pred, column[i], v)]
           /\ RleRead(RleWrite(o)).runs = o.runs
<1> DEFINE f == o.runs
<1>1. PICK m, P : Unpacks(f, column, m, P)
  BY RunsUnpack
<1>2. /\ m \in Nat /\ Len(f) \div 2 = m
      /\ \A k \in 1 .. m : f[2 * k].v \in Nat /\ f[2 * k - 1].v \in Int
  <2>1. RunsOf(f, m, P)
    <3> HIDE DEF f
    <3> QED
      BY <1>1, UnpackedRuns
  <2> QED
    BY <2>1, Zenon DEF RunsOf
<1>3. RleRows(o) = column
  <2>1. RunRows(o) = Len(column)
    BY <1>1, RunRowsAre
  <2>2. RleRows(o) = RLEDecode(RLEEncode(t, column), [i \in 1 .. Len(column) |-> 0], Len(column))
    BY <2>1, Zenon DEF RleRows
  <2> DEFINE old == [i \in 1 .. Len(column) |-> 0]
  <2> HIDE DEF old
  <2>3. RLEDecode(RLEEncode(t, column), old, Len(column)) = column
    BY RLERestores
  <2> QED
    BY <2>2, <2>3 DEF old
<1>4. ASSUME NEW w \in Nat \ {0} PROVE RleRowsVector(o, w) = column
  <2> DEFINE G(k) == [i \in VectorRows(f[2 * k].v, w) \cup TailRows(f[2 * k].v, w) |-> f[2 * k - 1].v]
  <2>1. RleRowsVector(o, w) = FlattenSeq([k \in 1 .. m |-> G(k)])
    BY <1>2, Zenon DEF RleRowsVector
  <2>2. ASSUME NEW k \in 1 .. m PROVE G(k) = Rep(f[2 * k - 1].v, f[2 * k].v)
    <3> DEFINE n == f[2 * k].v
    <3>1. n \in Nat
      BY <1>2
    <3> HIDE DEF n
    <3>2. VectorRows(n, w) \cup TailRows(n, w) = 1 .. n
      BY <3>1, LoopRows
    <3> QED
      BY <3>2, Zenon DEF n, Rep
  <2> HIDE DEF G, f
  <2>3. [k \in 1 .. m |-> G(k)] = [k \in 1 .. m |-> Rep(f[2 * k - 1].v, f[2 * k].v)]
    BY <2>2
  <2>4. FlattenSeq([k \in 1 .. m |-> Rep(f[2 * k - 1].v, f[2 * k].v)]) = column
    <3>1. FlattenSeq([k \in 1 .. Len(f) \div 2 |-> Rep(f[2 * k - 1].v, f[2 * k].v)]) = column
      BY <1>1, FlattenIs
    <3> QED
      BY <1>2, <3>1, Zenon
  <2> QED
    BY <2>1, <2>3, <2>4, Zenon
<1>5. ASSUME NEW pred, NEW v
      PROVE  RleFilter(o, pred, v) = [i \in DOMAIN column |-> Compare(pred, column[i], v)]
  <2> DEFINE S == {Compare(pred, y, v) : y \in Int}
             g == [y \in Int |-> Compare(pred, y, v)]
             c(k) == f[2 * k].v
             d(k) == f[2 * k - 1].v
  <2>1. g \in [Int -> S] /\ \A y \in Int : g[y] = Compare(pred, y, v)
    OBVIOUS
  <2> HIDE DEF S, g
  <2>2. RleFilter(o, pred, v) = FlattenSeq([k \in 1 .. m |-> [i \in 1 .. f[2 * k].v |-> Compare(pred, f[2 * k - 1].v, v)]])
    BY <1>2, Zenon DEF RleFilter
  <2>3. [k \in 1 .. m |-> [i \in 1 .. f[2 * k].v |-> Compare(pred, f[2 * k - 1].v, v)]]
            = [k \in 1 .. m |-> [i \in 1 .. f[2 * k].v |-> g[f[2 * k - 1].v]]]
    <3>1. \A k \in 1 .. m : Compare(pred, f[2 * k - 1].v, v) = g[f[2 * k - 1].v]
      BY <1>2, <2>1
    <3> QED
      BY <3>1
  <2>4. FlattenSeq([k \in 1 .. m |-> [i \in 1 .. f[2 * k].v |-> g[f[2 * k - 1].v]]]) = MapOf(column, g)
    <3> HIDE DEF f
    <3>1. RunsMapped(f, m, g) = MapOf(column, g)
      BY <1>1, <2>1, FilterRuns
    <3> QED
      BY <3>1, Zenon DEF RunsMapped
  <2>5. MapOf(column, g) = [i \in DOMAIN column |-> Compare(pred, column[i], v)]
    <3>1. \A i \in DOMAIN column : column[i] \in Int
      BY LenProperties, ElementOfSeq
    <3> QED
      BY <2>1, <3>1 DEF MapOf
  <2> QED
    BY <2>2, <2>3, <2>4, <2>5, Zenon
<1>6. RleRead(RleWrite(o)).runs = o.runs
  <2> DEFINE h == <<Field(4, m)>>
             b == h \o f
  <2>1. f \in Seq(FieldType) /\ Len(f) = 2 * m
    BY <1>1 DEF Unpacks
  <2>2. h \in Seq(FieldType) /\ Len(h) = 1 /\ h[1].v = m
    BY <1>2 DEF Field, FieldType
  <2>3. RleWrite(o) = b
    BY <1>2 DEF RleWrite
  <2> HIDE DEF h, f
  <2>4. /\ b \in Seq(FieldType) /\ Len(b) = 1 + 2 * m
        /\ b[1] = h[1] /\ \A i \in 1 .. 2 * m : b[i + 1] = f[i]
    <3>1. /\ b \in Seq(FieldType) /\ Len(b) = Len(h) + Len(f)
          /\ \A i \in 1 .. Len(h) + Len(f) : b[i] = IF i <= Len(h) THEN h[i] ELSE f[i - Len(h)]
      BY <2>1, <2>2, ConcatProperties
    <3>2. /\ b \in Seq(FieldType) /\ Len(b) = 1 + 2 * m
          /\ \A i \in 1 .. 1 + 2 * m : b[i] = IF i <= 1 THEN h[i] ELSE f[i - 1]
      BY <2>1, <2>2, <3>1
    <3> HIDE DEF b
    <3>3. b[1] = h[1]
      BY <1>2, <3>2
    <3>4. ASSUME NEW i \in 1 .. 2 * m PROVE b[i + 1] = f[i]
      <4>1. i + 1 \in 1 .. 1 + 2 * m /\ ~(i + 1 <= 1) /\ (i + 1) - 1 = i
        BY <1>2
      <4> QED
        BY <3>2, <4>1
    <3> QED
      BY <3>2, <3>3, <3>4
  <2> HIDE DEF b
  <2>5. RleRead(b).runs = SubSeq(b, 2, 2 * m + 1)
    <3>1. b[1].v = m
      BY <2>2, <2>4
    <3>2. RleRead(b) = [NewObject EXCEPT !.runs = SubSeq(b, 2, 2 * m + 1)]
      BY <3>1, Zenon DEF RleRead
    <3> DEFINE z == SubSeq(b, 2, 2 * m + 1)
    <3> HIDE DEF z
    <3>3. [NewObject EXCEPT !.runs = z].runs = z
      BY DEF NewObject
    <3> QED
      BY <3>2, <3>3 DEF z
  <2>6. SubSeq(b, 2, 2 * m + 1) = [i \in 1 .. 2 * m |-> b[i + 1]]
    <3>1. SubSeq(b, 2, 2 * m + 1) = [i \in 1 .. (1 + (2 * m + 1) - 2) |-> b[i + 2 - 1]]
      BY <1>2, <2>4
    <3>2. 1 + (2 * m + 1) - 2 = 2 * m /\ \A i \in 1 .. 2 * m : i + 2 - 1 = i + 1
      BY <1>2
    <3> QED
      BY <3>1, <3>2
  <2>7. f = [i \in 1 .. 2 * m |-> f[i]]
    BY <2>1, LenProperties
  <2>8. SubSeq(b, 2, 2 * m + 1) = f
    BY <2>4, <2>6, <2>7
  <2> QED
    BY <2>3, <2>5, <2>8 DEF f
<1> QED
  BY <1>3, <1>4, <1>5, <1>6
-----------------------------------------------------------------------------
(* An RLE object through the steps of the specification *)

\* The fields of a codec object.
IsObject(o) == o = [runs |-> o.runs, dict |-> o.dict, ids |-> o.ids, indices |-> o.indices, frame |-> o.frame]

\* An RLE object has the runs of the column it took last, and so has its buffer.
RunInv ==
    /\ FillInv
    /\ enc \in {NoEncoding, "RLE"} => IsObject(obj)
    /\ phase \in {"taken", "written", "restored"} => enc # NoEncoding
    /\ enc = "RLE" =>
           /\ phase \in {"taken", "written"} => /\ obj.runs = RLEEncode(type, ValuesOf(held))
                                                /\ "data" \in DOMAIN out
           /\ phase = "written" => buffer = RleWrite(obj)
           /\ phase = "restored" => out.data = ValuesOf(held)

\* An RLE object that takes a column.
LEMMA RunTaken ==
    ASSUME ~ReuseForEmpty, RunInv, NEW kind, kind = "RLE", NEW modulo,
           ObjectEncode(kind, modulo), FillInv'
    PROVE  RunInv'
<1> DEFINE column == ValuesOf(held)
<1>1. /\ phase = "filled" /\ kind \in KindsNow /\ enc' = kind
      /\ type' = type /\ held' = held /\ seen' = seen
      /\ kind = "RLE" /\ Contents(src) = <<>> => ReuseForEmpty \/ obj.runs = <<>>
      /\ kind = "RLE" => obj' = RleEncode(obj, type, Contents(src))
      /\ phase' = IF kind \in Direct THEN "written" ELSE "taken"
      /\ out' = out
  <2>1. phase = "filled" /\ kind \in KindsNow /\ enc' = kind
    BY Zenon DEF ObjectEncode
  <2>2. type' = type /\ held' = held /\ seen' = seen /\ out' = out
    BY Zenon DEF ObjectEncode
  <2>3. kind = "RLE" /\ Contents(src) = <<>> => ReuseForEmpty \/ obj.runs = <<>>
    BY Zenon DEF ObjectEncode
  <2>4. phase' = IF kind \in Direct THEN "written" ELSE "taken"
    BY Zenon DEF ObjectEncode
  <2>5. ASSUME kind = "RLE" PROVE obj' = RleEncode(obj, type, Contents(src))
    <3> DEFINE a == RleEncode(obj, type, Contents(src))
               b == Build(obj, Contents(src))
               c == BuildSorted(obj, Contents(src))
               d == BitPackFrame(obj, Contents(src), type, modulo)
    <3>1. obj' = CASE kind = "RLE"         -> a
                   [] kind = "Build"       -> b
                   [] kind = "BuildSorted" -> c
                   [] kind = "BitPack"     -> d
                   [] kind \in Direct      -> obj
      BY Zenon DEF ObjectEncode
    <3>2. kind \notin Direct
      BY <2>5 DEF Direct
    <3> HIDE DEF a, b, c, d
    <3>3. obj' = a
      BY <2>5, <3>1, <3>2
    <3> QED
      BY <3>3 DEF a
  <2> QED
    BY <2>1, <2>2, <2>3, <2>4, <2>5
<1>2. enc \in {NoEncoding, "RLE"}
  BY <1>1 DEF KindsNow
<1>3. type \in Types /\ Agrees(src, held) /\ Agrees(out, picked) /\ IsObject(obj)
  BY <1>1, <1>2 DEF RunInv, FillInv
<1>4. phase' = "taken" /\ enc' = "RLE"
  BY <1>1 DEF Direct
<1>5. Contents(src) = column /\ column \in Seq(Int)
  BY <1>3, ContentsAre
<1>6. obj' = RleEncode(obj, type, column) /\ (column = <<>> => obj.runs = <<>>)
  BY <1>1, <1>5
<1> HIDE DEF column
<1>7. IsObject(obj') /\ obj'.runs = RLEEncode(type, column)
  <2>1. CASE column = <<>>
    <3>1. obj' = obj /\ RLEEncode(type, column) = <<>>
      BY <1>6, <2>1 DEF RleEncode, RLEEncode
    <3> QED
      BY <1>3, <1>6, <2>1, <3>1
  <2>2. CASE column # <<>>
    <3> DEFINE z == RLEEncode(type, column)
    <3>1. obj' = [obj EXCEPT !.runs = z]
      BY <1>6, <2>2 DEF RleEncode
    <3> HIDE DEF z
    <3>2. obj' = [runs |-> z, dict |-> obj.dict, ids |-> obj.ids, indices |-> obj.indices, frame |-> obj.frame]
      BY <1>3, <3>1 DEF IsObject
    <3>3. IsObject(obj') /\ obj'.runs = z
      BY <3>2 DEF IsObject
    <3> QED
      BY <3>3 DEF z
  <2> QED
    BY <2>1, <2>2
<1>8. obj'.runs = RLEEncode(type', ValuesOf(held'))
  BY <1>1, <1>7 DEF column
<1>9. phase' \notin {"filled", "picking", "written", "restored"}
  BY <1>4
<1>10. "data" \in DOMAIN out'
  BY <1>1, <1>3 DEF Agrees
<1>11. enc' # NoEncoding
  BY <1>4, ColumnAssumption DEF ObjectKinds
<1> QED
  BY <1>4, <1>7, <1>8, <1>9, <1>10, <1>11 DEF RunInv

\* An object read back from what it wrote.
LEMMA RunRestored ==
    ASSUME RunInv, enc = "RLE", NEW keep, ObjectRead(keep), FillInv'
    PROVE  RunInv'
<1> DEFINE column == ValuesOf(held)
<1>1. phase = "written" /\ phase' = "restored" /\ enc' = enc /\ held' = held /\ type' = type /\ seen' = seen
  BY DEF ObjectRead
<1>2. /\ Agrees(src, held) /\ enc = "RLE" /\ obj.runs = RLEEncode(type, column)
      /\ buffer = RleWrite(obj) /\ IsObject(obj)
  BY <1>1 DEF RunInv, FillInv
<1>3. column \in Seq(Int)
  BY <1>2, ContentsAre
<1> DEFINE z == RleRead(buffer)
<1>4. z.runs = RLEEncode(type, column)
  <2> HIDE DEF column
  <2>1. RleRead(RleWrite(obj)).runs = obj.runs
    BY <1>2, <1>3, RunObject
  <2> QED
    BY <1>2, <2>1
<1>5. IsObject(z)
  <2> DEFINE s == SubSeq(buffer, 2, 2 * buffer[1].v + 1)
  <2>1. z = [NewObject EXCEPT !.runs = s]
    BY Zenon DEF RleRead
  <2> HIDE DEF s, z
  <2>2. z = [runs |-> s, dict |-> NewObject.dict, ids |-> NewObject.ids, indices |-> NewObject.indices,
             frame |-> NewObject.frame]
    BY <2>1 DEF NewObject
  <2> QED
    BY <2>2 DEF IsObject
<1>6. RleRows(z) = column
  <2> HIDE DEF z, column
  <2> QED
    BY <1>3, <1>4, RunObject
<1>7. Restored = z
  BY <1>2 DEF Restored
<1>8. RowsOf(Restored) = column
  BY <1>2, <1>6, <1>7 DEF RowsOf
<1>9. obj' \in {obj, z}
  BY <1>7 DEF ObjectRead
<1>10. out' = [out EXCEPT !.data = RowsOf(Restored)]
  BY <1>2 DEF ObjectRead
<1>11. out'.data = column
  <2>1. "data" \in DOMAIN out
    BY <1>1 DEF RunInv
  <2> QED
    BY <1>8, <1>10, <2>1
<1>12. IsObject(obj')
  BY <1>2, <1>5, <1>9
<1>13. out'.data = ValuesOf(held')
  BY <1>1, <1>11
<1> QED
  BY <1>1, <1>2, <1>12, <1>13 DEF RunInv

\* Every step keeps it; those that leave the phases of an object alone trivially.
LEMMA RunInvNext ==
    ASSUME ~ReuseForEmpty, RunInv, [Next]_vars PROVE RunInv'
<1>1. FillInv /\ FillInv'
  BY FillInvNext DEF RunInv
<1>2. ASSUME phase' \notin {"taken", "written", "restored"}, obj' = obj,
             enc' = enc \/ enc = NoEncoding
      PROVE  RunInv'
  BY <1>1, <1>2 DEF RunInv
<1>3. CASE enc = NoEncoding /\ Encode
  <2>1. phase' \in {"looping", "crashed", "encoded"} /\ obj' = obj
    BY <1>3 DEF Encode
  <2> QED
    BY <1>2, <1>3, <2>1
<1>4. CASE Decode \/ ReadColumn
  BY <1>2, <1>4 DEF Decode, ReadColumn
<1>5. ASSUME phase' \in {"filled", "picking"}, UNCHANGED <<enc, obj>> PROVE RunInv'
  BY <1>2, <1>5
<1>6. CASE AppendOne \/ AppendMany \/ AppendNull \/ \E i \in DOMAIN held, null \in BOOLEAN : MarkNull(i, null)
  BY <1>5, <1>6 DEF AppendOne, AppendMany, AppendNull, MarkNull, Fill
<1>7. CASE FilterInto \/ CopyInto
  BY <1>5, <1>7 DEF FilterInto, CopyInto, Pick
<1>8. ASSUME NEW kind \in ObjectKinds, NEW modulo, ObjectEncode(kind, modulo) PROVE RunInv'
  <2>1. CASE kind = "RLE"
    BY <1>1, <1>8, <2>1, RunTaken
  <2>2. CASE kind # "RLE"
    <3>1. enc' = kind
      BY <1>8, Zenon DEF ObjectEncode
    <3>2. enc' \notin {NoEncoding, "RLE"}
      BY <2>2, <3>1, ColumnAssumption
    <3> QED
      BY <1>1, <3>2 DEF RunInv
  <2> QED
    BY <2>1, <2>2
<1>9. CASE ObjectWrite
  <2>1. /\ phase = "taken" /\ phase' = "written"
        /\ enc' = enc /\ obj' = obj /\ type' = type /\ held' = held /\ out' = out
    BY <1>9 DEF ObjectWrite
  <2>2. enc # NoEncoding
    BY <2>1 DEF RunInv
  <2>3. CASE enc = "RLE"
    <3>1. obj.runs = RLEEncode(type, ValuesOf(held)) /\ IsObject(obj) /\ "data" \in DOMAIN out
      BY <2>1, <2>3 DEF RunInv
    <3>2. buffer' = RleWrite(obj')
      BY <1>9, <2>1, <2>3 DEF ObjectWrite
    <3> QED
      BY <1>1, <2>1, <2>2, <2>3, <3>1, <3>2 DEF RunInv
  <2>4. CASE enc # "RLE"
    BY <1>1, <2>1, <2>2, <2>4 DEF RunInv
  <2> QED
    BY <2>3, <2>4
<1>10. ASSUME NEW keep, ObjectRead(keep) PROVE RunInv'
  <2>1. phase = "written" /\ enc' = enc
    BY <1>10 DEF ObjectRead
  <2>2. enc # NoEncoding
    BY <2>1 DEF RunInv
  <2>3. CASE enc = "RLE"
    BY <1>1, <1>10, <2>3, RunRestored
  <2>4. CASE enc # "RLE"
    BY <1>1, <2>1, <2>2, <2>4 DEF RunInv
  <2> QED
    BY <2>3, <2>4
<1>11. CASE Refill
  BY <1>5, <1>11 DEF Refill
<1>12. CASE UNCHANGED vars
  <2>1. UNCHANGED <<type, enc, buffer, out, obj, phase, held, seen>>
    BY <1>12 DEF vars
  <2> QED
    BY <1>1, <2>1 DEF RunInv
<1> QED
  BY <1>3, <1>4, <1>6, <1>7, <1>8, <1>9, <1>10, <1>11, <1>12 DEF Next, Done

\* A new object has no runs, and no column has been given to it.
LEMMA RunInvInit ==
    ASSUME Capacities \subseteq {0}, Init PROVE RunInv
<1>1. FillInv /\ obj = NewObject /\ enc = NoEncoding /\ phase = "filled"
  BY FillInvInit DEF Init
<1>2. IsObject(NewObject)
  BY DEF IsObject, NewObject
<1>3. enc # "RLE"
  BY <1>1, ColumnAssumption DEF ObjectKinds
<1> QED
  BY <1>1, <1>2, <1>3 DEF RunInv

\* ObjectRoundTrip for RleEncoder and RleDecoder: one object that takes one
\* column after the other, and is kept or restored from its bytes in between.
\* The condition is on its use: Encode of an empty column leaves the runs of the
\* column before.
THEOREM RunObjectsRoundTrip ==
    ASSUME Capacities \subseteq {0}, ~ReuseForEmpty
    PROVE  Spec => [](enc = "RLE" => ObjectRoundTrip)
<1>1. ASSUME RunInv, enc = "RLE" PROVE ObjectRoundTrip
  <2>1. Appended = ValuesOf(held)
    BY DEF Appended, ValuesOf
  <2>2. ASSUME phase = "taken" PROVE RowsOf(obj) = ValuesOf(held)
    <3>1. Agrees(src, held) /\ enc = "RLE" /\ obj.runs = RLEEncode(type, ValuesOf(held))
      BY <1>1, <2>2 DEF RunInv, FillInv
    <3>2. ValuesOf(held) \in Seq(Int)
      BY <3>1, ContentsAre
    <3>3. RleRows(obj) = ValuesOf(held)
      BY <3>1, <3>2, RunObject
    <3> QED
      BY <3>1, <3>3 DEF RowsOf
  <2>3. phase = "restored" => out.data = ValuesOf(held)
    BY <1>1 DEF RunInv
  <2> QED
    BY <1>1, <2>1, <2>2, <2>3 DEF ObjectRoundTrip
<1> QED
  BY <1>1, RunInvInit, RunInvNext, PTL DEF Spec

\* KernelsAgree where the codec object, if any, is RLE: the loops over a column, and
\* the filter and the vectorised decoder over runs.
THEOREM RunKernelsAgree ==
    ASSUME Capacities \subseteq {0}, ~ReuseForEmpty
    PROVE  Spec => [](enc \in {NoEncoding, "RLE"} => KernelsAgree)
<1>1. ASSUME RunInv, LoopsAgree, enc \in {NoEncoding, "RLE"} PROVE KernelsAgree
  <2>1. Appended = ValuesOf(held)
    BY DEF Appended, ValuesOf
  <2>2. ASSUME phase = "taken"
        PROVE  /\ enc = "RLE"
               /\ \A pred \in ComparisonOps, v \in Values[type] : RleFilter(obj, pred, v) = Mask(pred, v)
               /\ \A w \in Widths : RleRowsVector(obj, w) = Appended
    <3> DEFINE column == ValuesOf(held)
    <3>1. Agrees(src, held) /\ enc = "RLE" /\ obj.runs = RLEEncode(type, column)
      <4>1. enc = "RLE"
        BY <1>1, <2>2 DEF RunInv
      <4> QED
        BY <1>1, <2>2, <4>1 DEF RunInv, FillInv
    <3>2. column \in Seq(Int) /\ Len(column) = Len(held)
      BY <3>1, ContentsAre
    <3>3. DOMAIN column = 1 .. Len(held)
      <4> HIDE DEF column
      <4> QED
        BY <3>2, LenProperties
    <3> HIDE DEF column
    <3>4. ASSUME NEW pred, NEW v PROVE RleFilter(obj, pred, v) = Mask(pred, v)
      <4>1. RleFilter(obj, pred, v) = [i \in DOMAIN column |-> Compare(pred, column[i], v)]
        BY <3>1, <3>2, RunObject
      <4>2. Mask(pred, v) = [i \in 1 .. Len(held) |-> Compare(pred, column[i], v)]
        BY <2>1, Zenon DEF Mask, column
      <4> QED
        BY <3>3, <4>1, <4>2, Zenon
    <3>5. ASSUME NEW w \in Widths PROVE RleRowsVector(obj, w) = Appended
      <4>1. w \in Nat \ {0}
        BY ColumnAssumption
      <4> QED
        BY <2>1, <3>1, <3>2, <4>1, RunObject DEF column
    <3> QED
      BY <3>1, <3>4, <3>5
  <2> QED
    BY <1>1, <2>2, Zenon DEF KernelsAgree
<1>2. FillInv => LoopsAgree
  BY FillsAgree
<1>3. RunInv => (enc \in {NoEncoding, "RLE"} => KernelsAgree)
  BY <1>1, <1>2 DEF RunInv
<1> QED
  BY <1>3, RunInvInit, RunInvNext, PTL DEF Spec
=============================================================================
