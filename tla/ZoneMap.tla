------------------------------ MODULE ZoneMap ------------------------------
(***************************************************************************)
(* struct ZoneMapEntry and class ZoneMap (include/columnar/zone_map.h).    *)
(*                                                                         *)
(* A block is a sequence of values with the null flags of its rows.  The   *)
(* loops of Update compute the least and the greatest non-null value and   *)
(* count the nulls behind the first non-null row; they are written here as *)
(* Min, Max and a cardinality.  The floating-point fields and template     *)
(* instances repeat the integer ones with min_fp and max_fp, and Write and *)
(* Read copy each field to its place and back, so an entry here has one    *)
(* min and one max.                                                        *)
(***************************************************************************)
EXTENDS Predicates, FiniteSets, FiniteSetsExt

\* ZoneMapEntry()
EmptyEntry == [min |-> 0, max |-> 0, nullCount |-> 0, rowCount |-> 0,
               hasMinMax |-> FALSE, hasNulls |-> FALSE]

\* The rows of a block that hold a value.  Without a null array all do.
Valid(data, nulls) == {i \in DOMAIN data : ~nulls[i]}

FirstValid(data, nulls) == Min(Valid(data, nulls))

\* The counts after a block with a value: null_count grows from what the
\* entry held, by the nulls after the first valid row only.
Counted(entry, data, nulls) ==
    LET later == {i \in DOMAIN data : nulls[i] /\ i > FirstValid(data, nulls)}
        count == entry.nullCount + Cardinality(later)
    IN  [entry EXCEPT !.nullCount = count, !.rowCount = Len(data), !.hasNulls = count > 0]

AllNull(entry, data) ==
    [entry EXCEPT !.nullCount = Len(data), !.rowCount = Len(data), !.hasNulls = TRUE]

\* A faulty Update that looks at later rows for the maximum only.
UpdateFirstMin(entry, data, nulls) ==
    IF Valid(data, nulls) = {}
    THEN AllNull(entry, data)
    ELSE [Counted(entry, data, nulls) EXCEPT
            !.min = data[FirstValid(data, nulls)],
            !.max = Max({data[i] : i \in Valid(data, nulls)}),
            !.hasMinMax = TRUE]

\* A faulty Update that lets the values under null flags into min and max.
UpdateAllRows(entry, data, nulls) ==
    IF Valid(data, nulls) = {}
    THEN AllNull(entry, data)
    ELSE [Counted(entry, data, nulls) EXCEPT
            !.min = Min({data[i] : i \in DOMAIN data}),
            !.max = Max({data[i] : i \in DOMAIN data}),
            !.hasMinMax = TRUE]

\* A faulty Update that sets has_nulls only for a block of nulls.
UpdateNoHasNulls(entry, data, nulls) ==
    IF Valid(data, nulls) = {}
    THEN AllNull(entry, data)
    ELSE LET values == {data[i] : i \in Valid(data, nulls)} IN
         [Counted(entry, data, nulls) EXCEPT !.min = Min(values), !.max = Max(values),
                                             !.hasMinMax = TRUE, !.hasNulls = FALSE]

\* Update on a block of at least one row.
Update(entry, data, nulls) ==
    IF Valid(data, nulls) = {}
    THEN AllNull(entry, data)
    ELSE LET values == {data[i] : i \in Valid(data, nulls)} IN
         [Counted(entry, data, nulls) EXCEPT !.min = Min(values), !.max = Max(values),
                                             !.hasMinMax = TRUE]

\* CanMatch<T, Pred> of the comparisons.
CanMatchValue(entry, pred, value) ==
    \/ ~entry.hasMinMax
    \/ /\ entry.rowCount > 0
       /\ CASE pred = "Equal"        -> entry.min <= value /\ value <= entry.max
            [] pred = "NotEqual"     -> ~(entry.min = value /\ entry.max = value)
            [] pred = "LessThan"     -> entry.min < value
            [] pred = "LessEqual"    -> entry.min <= value
            [] pred = "GreaterThan"  -> entry.max > value
            [] pred = "GreaterEqual" -> entry.max >= value

\* CanMatch(type, pred, value), and ShouldScanBlock for an entry in range:
\* null tests look at the counts, even of an entry without min and max.
CanMatch(entry, pred, value) ==
    CASE pred = "IsNull"    -> entry.hasNulls
      [] pred = "IsNotNull" -> entry.rowCount > entry.nullCount
      [] OTHER              -> CanMatchValue(entry, pred, value)

\* Blocks are numbered from 0, the entries of the model from 1.
ShouldScanBlock(entries, block, pred, value) ==
    \/ block >= Len(entries)
    \/ CanMatch(entries[block + 1], pred, value)

\* Predicate::CanMatchZoneMap over the maps of the columns, column 0 first: no
\* block may be unable to match any of the tests, whatever joins them.  Tests
\* and constants are paired by position, and a null test has no constant.
CanMatchZoneMap(calls, maps) ==
    LET preds == ColumnPredicates(calls)
        cols  == ColumnIndices(calls)
        vals  == Constants(calls)
        BlockMay(entry, i) ==
            \/ entry.rowCount = 0
            \/ preds[i] = "IsNull"
            \/ preds[i] = "IsNotNull" /\ entry.rowCount > entry.nullCount
            \/ preds[i] \in ComparisonOps /\ (i \in DOMAIN vals => CanMatchValue(entry, preds[i], vals[i]))
    IN \A i \in DOMAIN preds : i <= Len(maps) /\ cols[i] < Len(maps) =>
           \A b \in DOMAIN maps[cols[i] + 1] : BlockMay(maps[cols[i] + 1][b], i)

NumBlocks(count, blockRows) == (count + blockRows - 1) \div blockRows

\* Rows of block b of a column of count rows, numbered from 1.
BlockRange(b, blockRows, count) ==
    [from |-> b * blockRows + 1,
     to   |-> IF (b + 1) * blockRows < count THEN (b + 1) * blockRows ELSE count]

\* BuildFromColumn: resize keeps the entries there are and adds empty ones.
BuildFromColumn(entries, data, nulls, blockRows) ==
    [k \in 1 .. NumBlocks(Len(data), blockRows) |->
        LET r == BlockRange(k - 1, blockRows, Len(data))
        IN  Update(IF k <= Len(entries) THEN entries[k] ELSE EmptyEntry,
                   SubSeq(data, r.from, r.to), SubSeq(nulls, r.from, r.to))]
=============================================================================
