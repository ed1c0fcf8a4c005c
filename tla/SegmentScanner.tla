--------------------------- MODULE SegmentScanner ---------------------------
(***************************************************************************)
(* class SegmentScanner and ColumnScanner (include/columnar/scanner.h):    *)
(* the Scans of a segment, block by block.  A block is pruned by the zone  *)
(* map or by the Bloom filter of the predicate's first column, or its rows *)
(* are filtered, by one vectorised comparison when the predicate is a      *)
(* single comparison and by the interpreter otherwise, and the survivors   *)
(* are handed to the caller in runs of consecutive rows.                   *)
(*                                                                         *)
(* The segment is a table of integers chosen at the start.  Its zone maps  *)
(* and filters are what ColumnScanner::Initialize reads back: those the    *)
(* writer attached, else a default-constructed one.  The vectorised and    *)
(* the scalar bodies of VectorFilter compare the same elements and are one *)
(* comparison here; rows and columns keep their order in the file.         *)
(***************************************************************************)
EXTENDS ZoneMap, BloomFilter

CONSTANTS NumColumns, NumRows,
          ColumnType,    \* "Int32", "Int64" or "Double", by column
          ColumnValues,  \* the values a column may hold
          Programs,      \* the predicates scanned with, as builder calls
          Rescans,       \* the predicates of later Scans of the same object
          MaxScans,      \* bound: Scans of one object
          BlockSize,     \* context_.block_size
          MaxRun,        \* kMaxRun
          ZoneColumns,   \* the columns with a zone map in the segment
          ZoneRows,      \* block_rows_ of those zone maps
          BloomColumns,  \* the columns with a Bloom filter in the segment
          BloomBits, BloomHashes  \* the shape of those filters and of a default one

Columns == 0 .. NumColumns - 1

ASSUME ScannerAssumption ==
    /\ NumColumns \in Nat \ {0} /\ NumRows \in Nat
    /\ ColumnType \in [Columns -> {"Int32", "Int64", "Double"}]
    /\ \A c \in Columns : ColumnValues[c] \subseteq Int
    /\ MaxScans \in Nat \ {0}
    /\ BlockSize \in Nat \ {0} /\ MaxRun \in Nat \ {0} /\ ZoneRows \in Nat \ {0}
    /\ ZoneColumns \subseteq Columns /\ BloomColumns \subseteq Columns
    /\ BloomBits \in Nat \ {0} /\ BloomHashes \in Nat \ {0}

VARIABLES table,      \* the segment's rows
          calls,      \* the predicate
          block,      \* the block loop's counter
          phase,      \* "block": at the head of the loop; "deliver": handing out runs
          matchRows,  \* match_rows from pos on, as row numbers of the segment
          delivered,  \* rows delivered from this block
          output,     \* rows the callbacks have received, in order
          stats,      \* stats_
          past        \* history: the predicates of the Scans that returned

vars == <<table, calls, block, phase, matchRows, delivered, output, stats, past>>

BlockCount == NumBlocks(NumRows, BlockSize)

RowsIn(b) == LET r == BlockRange(b, BlockSize, NumRows) IN r.from .. r.to

Tables == {t \in [1 .. NumRows -> [Columns -> UNION {ColumnValues[c] : c \in Columns}]] :
              \A i \in 1 .. NumRows, c \in Columns : t[i][c] \in ColumnValues[c]}

Init ==
    /\ table \in Tables
    /\ calls \in Programs
    /\ block = 0
    /\ phase = "block"
    /\ matchRows = <<>>
    /\ delivered = 0
    /\ output = <<>>
    /\ stats = [blocks |-> 0, zonePruned |-> 0, bloomPruned |-> 0,
                scanned |-> 0, filtered |-> 0, returned |-> 0]
    /\ past = <<>>
-----------------------------------------------------------------------------
(* What Initialize loads.                                                  *)

ColumnData(c) == [i \in 1 .. NumRows |-> table[i][c]]

\* The example and the benchmarks build zone maps without a null array.
GetZoneMap(c) ==
    IF c \in ZoneColumns
    THEN BuildFromColumn(<<>>, ColumnData(c), [i \in 1 .. NumRows |-> FALSE], ZoneRows)
    ELSE <<>>

\* Filters are filled with the column's own type; a missing one is empty.
GetBloomFilter(c) ==
    LET none == EmptyFilter(BloomBits, BloomHashes) IN
    IF c \in BloomColumns
    THEN [none EXCEPT !.bits = UNION {Add(none, ColumnType[c], table[i][c]).bits : i \in 1 .. NumRows}]
    ELSE none
-----------------------------------------------------------------------------
(* The decisions of one iteration of the block loop.                       *)

\* static_cast<int32_t>(constant), and the low half of it that ScanBlock reads.
ToInt32(v) == ((v + Modulus32 \div 2) % Modulus32) - Modulus32 \div 2

FirstColumn   == ColumnIndices(calls)[1]
FirstPred     == ColumnPredicates(calls)[1]
FirstConstant == Constants(calls)[1]

\* !preds.empty() && !constants.empty()
Prunable == ColumnPredicates(calls) # <<>> /\ Constants(calls) # <<>>

\* The first constant as the first column's type.
Narrowed == IF ColumnType[FirstColumn] = "Int32" THEN ToInt32(FirstConstant) ELSE FirstConstant

\* A faulty pruning test that looks one block ahead.
ZoneMapPrunesNext(b) ==
    /\ Prunable
    /\ ColumnType[FirstColumn] \in {"Int32", "Int64"}
    /\ ~ShouldScanBlock(GetZoneMap(FirstColumn), b + 1, FirstPred, Narrowed)

ZoneMapPrunes(b) ==
    /\ Prunable
    /\ ColumnType[FirstColumn] \in {"Int32", "Int64"}
    /\ ~ShouldScanBlock(GetZoneMap(FirstColumn), b, FirstPred, Narrowed)

\* The filter covers the whole column and is asked with an int64_t.
BloomPrunes ==
    /\ Prunable
    /\ FirstPred = "Equal"
    /\ ~MightContain(GetBloomFilter(FirstColumn), "Int64", FirstConstant)

FastPath == /\ Len(ColumnPredicates(calls)) = 1
            /\ Len(ColumnIndices(calls)) = 1
            /\ Len(Constants(calls)) = 1

\* The three comparisons VectorFilter offers, on one element.
VectorFilter(pred, v, value) ==
    CASE pred = "Equal"     -> v = value
      [] pred = "LessThan"  -> v < value
      [] pred = "LessEqual" -> v <= value

\* ScanBlock's mask: the other comparisons negate one of the three, and
\* columns of other types leave every row in.
ScanBlock(i) ==
    LET v == table[i][FirstColumn] IN
    ColumnType[FirstColumn] \in {"Int32", "Int64"} =>
        CASE FirstPred = "NotEqual"     -> ~VectorFilter("Equal", v, Narrowed)
          [] FirstPred = "GreaterThan"  -> ~VectorFilter("LessEqual", v, Narrowed)
          [] FirstPred = "GreaterEqual" -> ~VectorFilter("LessThan", v, Narrowed)
          [] OTHER                      -> VectorFilter(FirstPred, v, Narrowed)

Survives(i) == IF FastPath THEN ScanBlock(i) ELSE EvaluateRow(calls, table[i])

\* The numbers of a set in ascending order: the k-th has k - 1 below it.
Ascending(S) ==
    [k \in 1 .. Cardinality(S) |-> CHOOSE x \in S : Cardinality({y \in S : y < x}) = k - 1]
-----------------------------------------------------------------------------
\* Every iteration first counts the block and its rows.
CountBlock ==
    [stats EXCEPT !.blocks = @ + 1, !.scanned = @ + Cardinality(RowsIn(block))]

PruneByZoneMap ==
    /\ phase = "block" /\ block < BlockCount
    /\ ZoneMapPrunes(block)
    /\ stats' = [CountBlock EXCEPT !.zonePruned = @ + 1]
    /\ block' = block + 1
    /\ UNCHANGED <<table, calls, phase, matchRows, delivered, output, past>>

PruneByBloom ==
    /\ phase = "block" /\ block < BlockCount
    /\ ~ZoneMapPrunes(block)
    /\ BloomPrunes
    /\ stats' = [CountBlock EXCEPT !.bloomPruned = @ + 1]
    /\ block' = block + 1
    /\ UNCHANGED <<table, calls, phase, matchRows, delivered, output, past>>

FilterBlock ==
    /\ phase = "block" /\ block < BlockCount
    /\ ~ZoneMapPrunes(block) /\ ~BloomPrunes
    /\ stats' = CountBlock
    /\ matchRows' = Ascending({i \in RowsIn(block) : Survives(i)})
    /\ delivered' = 0
    /\ phase' = "deliver"
    /\ UNCHANGED <<table, calls, block, output, past>>

\* run_end - pos: consecutive rows, no more than kMaxRun of them.
RunLength ==
    Max({n \in 1 .. Len(matchRows) :
            /\ n <= MaxRun
            /\ \A k \in 2 .. n : matchRows[k] = matchRows[k - 1] + 1})

\* One callback: n rows read from row0 on.
DeliverRun ==
    /\ phase = "deliver" /\ matchRows # <<>>
    /\ output' = output \o [k \in 1 .. RunLength |-> matchRows[1] + k - 1]
    /\ delivered' = delivered + RunLength
    /\ matchRows' = SubSeq(matchRows, RunLength + 1, Len(matchRows))
    /\ UNCHANGED <<table, calls, block, phase, stats, past>>

\* A faulty end of the loop that counts the block's rows as filtered.
EndBlockAllFiltered ==
    /\ phase = "deliver" /\ matchRows = <<>>
    /\ stats' = [stats EXCEPT !.filtered = @ + Cardinality(RowsIn(block)),
                              !.returned = @ + delivered]
    /\ block' = block + 1
    /\ phase' = "block"
    /\ UNCHANGED <<table, calls, matchRows, delivered, output, past>>

EndBlock ==
    /\ phase = "deliver" /\ matchRows = <<>>
    /\ stats' = [stats EXCEPT !.filtered = @ + Cardinality(RowsIn(block)) - delivered,
                              !.returned = @ + delivered]
    /\ block' = block + 1
    /\ phase' = "block"
    /\ UNCHANGED <<table, calls, matchRows, delivered, output, past>>

\* Scan has returned and is called again: its locals are new, stats_ is not.
ScanAgain(program) ==
    /\ phase = "block" /\ block = BlockCount
    /\ Len(past) < MaxScans - 1
    /\ past' = Append(past, calls)
    /\ calls' = program
    /\ block' = 0
    /\ UNCHANGED <<table, phase, matchRows, delivered, output, stats>>

Next ==
    \/ PruneByZoneMap \/ PruneByBloom \/ FilterBlock \/ DeliverRun \/ EndBlock
    \/ \E program \in Rescans : ScanAgain(program)

Spec == Init /\ [][Next]_vars
-----------------------------------------------------------------------------
\* The rows that satisfy a predicate, in order.
Matches(program, rows) == Ascending({i \in rows : EvaluateRow(program, table[i])})

\* The rows of the blocks before b.
RowsBefore(b) == {i \in 1 .. NumRows : (i - 1) \div BlockSize < b}

\* The rows all Scans so far should have delivered, in order.
Expected ==
    FlattenSeq([k \in DOMAIN past |-> Matches(past[k], 1 .. NumRows)])
        \o Matches(calls, RowsBefore(block))

(***************************************************************************)
(* DeliversTheMatches: after every block the caller has received exactly   *)
(* the rows so far that satisfy the predicate, each once and in order.     *)
(* Pruning looks at the first comparison only, the fast path skips the     *)
(* interpreter and runs are cut at kMaxRun; none of it may show.           *)
(***************************************************************************)
DeliversTheMatches == phase = "block" => output = Expected

(***************************************************************************)
(* StatsAddUp: the counters account for every row and every block of all   *)
(* the Scans of the object: what the blocks done held was returned,        *)
(* filtered out or pruned with its block, and rows_returned is what the    *)
(* callbacks received.                                                     *)
(***************************************************************************)
StatsAddUp ==
    phase = "block" =>
        /\ stats.blocks = Len(past) * BlockCount + block
        /\ stats.returned = Len(output)
        /\ stats.scanned = Len(past) * NumRows + Cardinality(RowsBefore(block))
        /\ stats.zonePruned + stats.bloomPruned = 0 => stats.returned + stats.filtered = stats.scanned
        /\ stats.returned + stats.filtered <= stats.scanned
        /\ stats.scanned <= stats.returned + stats.filtered
                              + BlockSize * (stats.zonePruned + stats.bloomPruned)
-----------------------------------------------------------------------------
(***************************************************************************)
(* The uses for which pruning and the fast path may decide alone.  The     *)
(* scan looks at the first test of a predicate only, whatever joins it to  *)
(* the others:                                                             *)
(*   - it may prune by a comparison with an integer column that every row  *)
(*     the predicate accepts satisfies; an equality needs a Bloom filter   *)
(*     in the segment, and an Int32 constant must survive its narrowing    *)
(*     and, for the filter's 8-byte key, not be negative;                  *)
(*   - it never prunes by IsNotNull, nor without zone map and equality;    *)
(*   - the fast path may take one comparison for the predicate if the      *)
(*     predicate is just that.                                             *)
(* Zone maps are made of the blocks the scan visits.                       *)
(***************************************************************************)
Rows == {r \in [Columns -> UNION {ColumnValues[c] : c \in Columns}] :
            \A c \in Columns : r[c] \in ColumnValues[c]}

\* A comparison of an integer column that the scan carries out as it is.
Comparable(col, pred, const) ==
    /\ pred \in ComparisonOps /\ const \in Int
    /\ ColumnType[col] \in {"Int32", "Int64"}
    /\ ColumnType[col] = "Int32" => ToInt32(const) = const

Decides(p, col, pred, const) ==
    \/ pred = "IsNotNull"
    \/ pred # "Equal" /\ col \notin ZoneColumns
    \/ /\ Comparable(col, pred, const)
       /\ pred = "Equal" => /\ col \in BloomColumns
                            /\ ColumnType[col] = "Int32" => const \in 0 .. Modulus32 - 1
       /\ \A r \in Rows : EvaluateRow(p, r) => Compare(pred, r[col], const)

FirstTestDecides(p) ==
    ColumnPredicates(p) # <<>> /\ Constants(p) # <<>> =>
        /\ ColumnIndices(p)[1] \in Columns
        /\ Decides(p, ColumnIndices(p)[1], ColumnPredicates(p)[1], Constants(p)[1])

OneTestDecides(p) ==
    (Len(ColumnPredicates(p)) = 1 /\ Len(ColumnIndices(p)) = 1 /\ Len(Constants(p)) = 1) =>
        /\ ColumnIndices(p)[1] \in Columns
        /\ Comparable(ColumnIndices(p)[1], ColumnPredicates(p)[1], Constants(p)[1])
        /\ \A r \in Rows : EvaluateRow(p, r) <=>
                               Compare(ColumnPredicates(p)[1], r[ColumnIndices(p)[1]], Constants(p)[1])

PlainUse ==
    /\ \A p \in Programs \cup Rescans : FirstTestDecides(p) /\ OneTestDecides(p)
    /\ ZoneColumns # {} => ZoneRows = BlockSize
=============================================================================
