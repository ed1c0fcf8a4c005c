---------------------------- MODULE ZoneMapBuild ----------------------------
(***************************************************************************)
(* A ZoneMap over the life of a column: rows are appended, BuildFromColumn *)
(* summarises what is there, and may be called again after more rows.      *)
(* Queries ask ShouldScanBlock.                                            *)
(***************************************************************************)
EXTENDS ZoneMap

CONSTANTS Values,      \* the values a row may hold
          Probes,      \* the constants queries compare with
          BlockRows,   \* block_rows_
          HelperBlocks,  \* bound: blocks of a map that CanMatchZoneMap is asked about
          MaxRows,     \* bound: rows of the column
          MaxBuilds    \* bound: calls of BuildFromColumn

ASSUME BuildAssumption ==
    /\ Values \subseteq Int /\ Probes \subseteq Int
    /\ BlockRows \in Nat \ {0} /\ MaxRows \in Nat /\ MaxBuilds \in Nat
    /\ HelperBlocks \in Nat

VARIABLES data, nulls,  \* the column
          entries,      \* entries_
          covered,      \* how many rows the last BuildFromColumn saw
          builds        \* number of calls of BuildFromColumn

buildVars == <<data, nulls, entries, covered, builds>>

BuildInit ==
    /\ data = <<>> /\ nulls = <<>>
    /\ entries = <<>>
    /\ covered = 0
    /\ builds = 0

AppendRow(v, null) ==
    /\ Len(data) < MaxRows
    /\ builds < MaxBuilds
    /\ data' = Append(data, v)
    /\ nulls' = Append(nulls, null)
    /\ UNCHANGED <<entries, covered, builds>>

Build ==
    /\ data # <<>>
    /\ builds < MaxBuilds
    /\ builds' = builds + 1
    /\ entries' = BuildFromColumn(entries, data, nulls, BlockRows)
    /\ covered' = Len(data)
    /\ UNCHANGED <<data, nulls>>

BuildNext == (\E v \in Values, null \in BOOLEAN : AppendRow(v, null)) \/ Build

BuildSpec == BuildInit /\ [][BuildNext]_buildVars
-----------------------------------------------------------------------------
\* The rows of a block that the zone map has seen.
RowsOfBlock(b) ==
    LET r == BlockRange(b, BlockRows, covered) IN r.from .. r.to

Satisfies(i, pred, value) ==
    CASE pred = "IsNull"    -> nulls[i]
      [] pred = "IsNotNull" -> ~nulls[i]
      [] OTHER              -> ~nulls[i] /\ Compare(pred, data[i], value)

\* A block that ShouldScanBlock skips holds no row that satisfies the comparison.
BlocksPruneOnlyMisses ==
    \A b \in 0 .. Len(entries) - 1, pred \in ComparisonOps, value \in Probes :
        (\E i \in RowsOfBlock(b) : Satisfies(i, pred, value))
            => ShouldScanBlock(entries, b, pred, value)

\* A map that CanMatchZoneMap denies for two comparisons has no row of both.
MapPrunesOnlyMisses ==
    Len(entries) <= HelperBlocks =>
        \A p \in BuilderOps, q \in BuilderOps, v \in Probes, w \in Probes :
            (\E i \in 1 .. covered : Satisfies(i, p, v) /\ Satisfies(i, q, w))
                => CanMatchZoneMap(<<Comparison(p, 0, v), Connective("And"), Comparison(q, 0, w)>>,
                                   <<entries>>)

(***************************************************************************)
(* PrunesOnlyMisses: when ShouldScanBlock says no, none of the block's     *)
(* rows satisfies the comparison.  "We cannot prove a non-match, so scan   *)
(* it" is how the code states its side of this.  The same of the map as a  *)
(* whole and CanMatchZoneMap with two comparisons, which denies the map as *)
(* soon as it denies one block: it holds for a map of one block.           *)
(***************************************************************************)
PrunesOnlyMisses == BlocksPruneOnlyMisses /\ MapPrunesOnlyMisses

\* The nulls before a block's first value, which Update skips uncounted.
SkippedNulls(b) ==
    {i \in RowsOfBlock(b) :
        /\ \A j \in RowsOfBlock(b) : j <= i => nulls[j]
        /\ \E j \in RowsOfBlock(b) : ~nulls[j]}

(***************************************************************************)
(* NullTestsPruneOnlyMisses: IsNull and IsNotNull are decided from         *)
(* has_nulls, null_count and row_count.  As far as the counts go they skip *)
(* no matching row either: IsNull in a block without skipped nulls,        *)
(* however often the map is rebuilt; IsNotNull after the first build,      *)
(* since null_count keeps growing at every later one.                      *)
(***************************************************************************)
NullTestsPruneOnlyMisses ==
    \A b \in 0 .. Len(entries) - 1 :
        /\ SkippedNulls(b) = {} /\ (\E i \in RowsOfBlock(b) : Satisfies(i, "IsNull", 0))
               => ShouldScanBlock(entries, b, "IsNull", 0)
        /\ builds = 1 /\ (\E i \in RowsOfBlock(b) : Satisfies(i, "IsNotNull", 0))
               => ShouldScanBlock(entries, b, "IsNotNull", 0)

(***************************************************************************)
(* BoundsAreTight: a block with a value has a minimum and a maximum that   *)
(* some non-null row of it attains, so that a probe outside of the block's *)
(* values on either side is pruned.                                        *)
(***************************************************************************)
BoundsAreTight ==
    \A b \in 0 .. Len(entries) - 1 :
        LET held == {data[i] : i \in {j \in RowsOfBlock(b) : ~nulls[j]}} IN
        held # {} => /\ entries[b + 1].hasMinMax
                     /\ {entries[b + 1].min, entries[b + 1].max} \subseteq held
=============================================================================
