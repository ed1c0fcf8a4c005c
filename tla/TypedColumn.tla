----------------------------- MODULE TypedColumn -----------------------------
(***************************************************************************)
(* ColumnVector, TypedColumn and VectorOps                                 *)
(* (include/columnar/column/column.h): a column in memory as data_, nulls_ *)
(* and size_, the operations that fill and copy it, and the kernels that   *)
(* walk it a vector of lanes at a time.                                    *)
(***************************************************************************)
EXTENDS Codecs, Predicates

\* ColumnVector(capacity): the vectors are made with that many elements.
New(capacity) == [data  |-> [i \in 1 .. capacity |-> 0],
                  nulls |-> [i \in 1 .. capacity |-> FALSE], size |-> 0]

AppendArray(col, values, nulls) ==
    [data |-> col.data \o values, nulls |-> col.nulls \o nulls, size |-> col.size + Len(values)]

AppendValue(col, value, null) == AppendArray(col, <<value>>, <<null>>)

AppendNulls(col, count) ==
    AppendArray(col, [i \in 1 .. count |-> 0], [i \in 1 .. count |-> TRUE])

SetNull(col, i, null) == [col EXCEPT !.nulls[i] = null]

Clear(col) == [data |-> <<>>, nulls |-> <<>>, size |-> 0]

Resize(col, n) ==
    [data  |-> [i \in 1 .. n |-> IF i \in DOMAIN col.data THEN col.data[i] ELSE 0],
     nulls |-> [i \in 1 .. n |-> i \in DOMAIN col.nulls /\ col.nulls[i]], size |-> n]

\* Data() and Size(), as Encode, ReadValues and the kernels use them.
ReadValues(col, offset, count) == SubSeq(col.data, offset + 1, offset + count)
Contents(col) == ReadValues(col, 0, col.size)

\* A faulty filter that drops the null flags.
FilterToPlain(col, mask, out) ==
    FoldLeft(LAMBDA o, i : IF mask[i] THEN AppendValue(o, col.data[i], FALSE) ELSE o,
             out, [i \in DOMAIN mask |-> i])

\* ColumnBase::Filter: the rows of the mask, after what out holds.
FilterTo(col, mask, out) ==
    LET after[n \in 0 .. Len(mask)] ==
            IF n = 0 THEN out
            ELSE IF mask[n] THEN AppendValue(after[n - 1], col.data[n], col.nulls[n])
            ELSE after[n - 1]
    IN after[Len(mask)]

CopyTo(col, dest, offset, count) ==
    AppendArray(dest, ReadValues(col, offset, count), SubSeq(col.nulls, offset + 1, offset + count))
-----------------------------------------------------------------------------
(* VectorOps: whole vectors of w lanes, then the rows left over.  The      *)
(* loops are the sets of rows they visit; a row in both is added twice.    *)

\* A faulty vector loop that stops one vector early.
VectorRowsShort(n, w) == UNION {i + 1 .. i + w : i \in {k * w : k \in {j \in 0 .. n : j * w + w < n}}}

\* for (i = 0; i + Width <= n; i += Width), all lanes.
VectorRows(n, w) == UNION {i + 1 .. i + w : i \in {k * w : k \in {j \in 0 .. n : j * w + w <= n}}}

\* for (i = n - n % Width; i < n; ++i).
TailRows(n, w) == {i + 1 : i \in (n - (n % w)) .. n - 1}

\* The comparisons a vector has, and what the others are made of.
Lane(pred, v, value) ==
    CASE pred = "Equal"        -> v = value
      [] pred = "NotEqual"     -> ~(v = value)
      [] pred = "LessThan"     -> v < value
      [] pred = "LessEqual"    -> v <= value
      [] pred = "GreaterThan"  -> value < v
      [] pred = "GreaterEqual" -> value <= v

\* The rows the mask is written for, and what is written.
FilterVector(pred, data, value, w) ==
    [i \in VectorRows(Len(data), w) \cup TailRows(Len(data), w) |->
        IF i \in TailRows(Len(data), w) THEN Compare(pred, data[i], value)
        ELSE Lane(pred, data[i], value)]

\* SimdPredicateEvaluator::EvaluateVector has the same two loops.
EvaluateVector(pred, data, value, w) == FilterVector(pred, data, value, w)

SumVector(data, type, w) ==
    LET n == Len(data)
        Over(rows) == Total([i \in 1 .. n |-> IF i \in rows THEN data[i] ELSE 0])
    IN Signed(Over(VectorRows(n, w)) + Over(TailRows(n, w)), type)

\* min_val starts at data[0].
MinVector(data, w) == Min({data[i] : i \in {1} \cup VectorRows(Len(data), w) \cup TailRows(Len(data), w)})
MaxVector(data, w) == Max({data[i] : i \in {1} \cup VectorRows(Len(data), w) \cup TailRows(Len(data), w)})

\* Add, Sub and Mul of two columns; lanes and leftover rows wrap alike.
Arithmetic(op, a, b, type) ==
    Signed(CASE op = "Add" -> a + b [] op = "Sub" -> a - b [] op = "Mul" -> a * b, type)
MapVector(op, a, b, type, w) ==
    [i \in VectorRows(Len(a), w) \cup TailRows(Len(a), w) |-> Arithmetic(op, a[i], b[i], type)]
=============================================================================
