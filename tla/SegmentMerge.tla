---------------------------- MODULE SegmentMerge ----------------------------
(***************************************************************************)
(* The data side of compaction (include/columnar/merger.h): which rows     *)
(* SegmentMerger::ExecuteMerge writes and ColumnMerger::MergeColumn puts   *)
(* out, over the segments SegmentWriter made and Segment reads             *)
(* (include/columnar/segment.h).  MergePool has the threads of it.         *)
(*                                                                         *)
(* A row is a sequence of values, one per column; columns are Int32 and go *)
(* through the codecs of Codecs.  A Segment object remembers the header it *)
(* was opened with and caches the columns it has decoded, while its file   *)
(* may be written over: version tells the two apart.                       *)
(*                                                                         *)
(* files     what lies at each path: how often it was written, and the     *)
(*           encoded columns                                               *)
(* segments  the Segment objects handed out, oldest first                  *)
(* task      the merge under way, its output file open, or Idle            *)
(* merged    the columns of the last MergeColumn calls, or NoOutput        *)
(* calls     the calls made so far                                         *)
(* holds     history: the rows each segment was made of, or Unknown        *)
(***************************************************************************)
EXTENDS Codecs, ColumnDelta

CONSTANTS NumColumns,
          Tables,       \* what a writer is given: rows, and which of them are null
          SegmentEncodings,  \* the encodings of a segment's columns
          Paths,
          Histories,    \* calls of Insert and Delete that filled a delta store
          MaxSegments,  \* bound: segments written or merged
          MaxCalls,     \* bound: calls of the application
          MaxInputs,    \* bound: input_segments of a merge
          OutputOverInput,  \* may a merge write to the path of an input?
          EmptyInputs,      \* may a segment with no column be merged?
          Idle, NotLoaded, Unknown, NoOutput

ASSUME MergeAssumption ==
    /\ NumColumns \in Nat \ {0}
    /\ {MaxSegments, MaxCalls, MaxInputs} \subseteq Nat
    /\ \A t \in Tables : /\ t.rows \in Seq([1 .. NumColumns -> Natives("Int32")])
                         /\ t.nulls \subseteq DOMAIN t.rows
    /\ SegmentEncodings \subseteq EncodingTypes
    /\ {OutputOverInput, EmptyInputs} \subseteq BOOLEAN
    /\ Garbage \notin Int /\ NotLoaded \notin Seq(Int)

VARIABLES files, segments, task, merged, calls, holds
mergeVars == <<files, segments, task, merged, calls, holds>>

MergeInit ==
    /\ files = [p \in Paths |-> [version |-> 0, buffers |-> <<>>]]
    /\ segments = <<>>
    /\ task = Idle
    /\ merged = NoOutput
    /\ calls = 0
    /\ holds = <<>>

Objects == DOMAIN segments

\* A call, within the bound: the columns of MergeColumn are the last thing asked.
Call == merged = NoOutput /\ calls < MaxCalls /\ calls' = calls + 1
-----------------------------------------------------------------------------
(* SegmentWriter: a column's statistics, and the file and object it makes. *)

\* A faulty writer that does not look at the null flags.
StatsWithNulls(values, nulls) ==
    [total |-> Len(values), nulls |-> Cardinality(nulls \cap DOMAIN values),
     distinct |-> Cardinality(ToSet(values)),
     hasMinMax |-> values # <<>>,
     min |-> IF values = <<>> THEN 0 ELSE Min(ToSet(values)),
     max |-> IF values = <<>> THEN 0 ELSE Max(ToSet(values))]

\* The first value counts whether it is null or not.
Stats(values, nulls) ==
    LET seen == {values[i] : i \in {j \in DOMAIN values : j = 1 \/ j \notin nulls}} IN
    [total |-> Len(values), nulls |-> Cardinality(nulls \cap DOMAIN values),
     distinct |-> Cardinality(ToSet(values)),
     hasMinMax |-> values # <<>>,
     min |-> IF values = <<>> THEN 0 ELSE Min(seen),
     max |-> IF values = <<>> THEN 0 ELSE Max(seen)]

\* The header as the constructor and Finish leave it.  created_ts is set from
\* timestamp_ in the constructor, before any SetTimestamp: it is always 0.
\* declared is history, the rows the writer was told are null; the file forgets them.
Header(path, version, columns, nulls, enc) ==
    [path |-> path, version |-> version, enc |-> enc, createdTs |-> 0,
     numRows |-> Max({0} \cup {Len(columns[c]) : c \in DOMAIN columns}),
     stats |-> [c \in DOMAIN columns |-> Stats(columns[c], nulls)],
     declared |-> nulls,
     cache |-> [c \in DOMAIN columns |-> NotLoaded]]

\* Finish.  No difference of two values overflows here, so the last argument
\* is free.
Encoded(columns, enc) ==
    [c \in DOMAIN columns |-> EncodeColumn(enc, "Int32", columns[c], TRUE)]

ColumnsOf(rows) == [c \in 1 .. NumColumns |-> [i \in DOMAIN rows |-> rows[i][c]]]

\* The application writes a segment: AddColumn for each column, then Finish.
Write(path, table, enc) ==
    LET version == files[path].version + 1
        columns == ColumnsOf(table.rows)
    IN
    /\ Call
    /\ Len(segments) < MaxSegments
    /\ task # Idle => task.path # path
    /\ files' = [files EXCEPT ![path] = [version |-> version, buffers |-> Encoded(columns, enc)]]
    /\ segments' = Append(segments, Header(path, version, columns, table.nulls, enc))
    /\ holds' = Append(holds, table.rows)
    /\ UNCHANGED <<task, merged>>
-----------------------------------------------------------------------------
(* Segment: a column is decoded once, from what the file holds then.       *)

Current(o) == files[segments[o].path].version = segments[o].version

\* What GetColumn delivers.  The row count is the one the encoded size gives;
\* from a file written over since it was opened come other bytes.
GetColumn(o, c, junk) ==
    LET s == segments[o]
        buffer == files[s.path].buffers[c]
        count == Size(buffer) \div NativeBytes("Int32")
    IN IF s.cache[c] # NotLoaded THEN s.cache[c]
       ELSE IF Current(o)
            THEN DecodeColumn(s.enc, "Int32", buffer, [i \in 1 .. count |-> 0], count)
            ELSE [i \in 1 .. s.numRows |-> junk]

\* GetColumnData(c, 0, NumRows()): memcpy of as many values as the header has
\* rows, past the end of a column that decoded to fewer.
GetColumnData(o, c, junk) ==
    LET column == GetColumn(o, c, junk) IN
    [i \in 1 .. segments[o].numRows |->
        IF i \in DOMAIN column /\ column[i] # Garbage THEN column[i] ELSE junk]

\* The object after all its columns have been asked for.
Loaded(o, junk) ==
    [segments[o] EXCEPT !.cache = [c \in DOMAIN @ |-> GetColumn(o, c, junk)]]

\* What is promised of an object once a column was read over a new file.
StillHolds(o) == IF Current(o) \/ NotLoaded \notin ToSet(segments[o].cache)
                 THEN holds[o] ELSE Unknown

\* The objects and their promises after those in S have been read.
AfterReading(S, junk) == [o \in Objects |-> IF o \in S THEN Loaded(o, junk) ELSE segments[o]]
PromisedAfter(S) == [o \in Objects |-> IF o \in S THEN StillHolds(o) ELSE holds[o]]

\* A reader asks for every column.
Load(o, junk) ==
    /\ Call
    /\ segments' = AfterReading({o}, junk)
    /\ holds' = PromisedAfter({o})
    /\ UNCHANGED <<files, task, merged>>

\* Every column decoded to at least the rows of the header.
Covered(o) == \A c \in DOMAIN segments[o].cache :
                  Len(GetColumn(o, c, 0)) >= segments[o].numRows

\* The rows that reading the inputs one after the other must give.
RowsOfInputs(inputs) ==
    IF \A k \in DOMAIN inputs : StillHolds(inputs[k]) # Unknown /\ Covered(inputs[k])
    THEN FlattenSeq([k \in DOMAIN inputs |-> holds[inputs[k]]])
    ELSE Unknown
-----------------------------------------------------------------------------
(* SegmentMerger::ExecuteMerge.                                            *)

\* A faulty merge that copies each segment's rows from the first one's column.
MergedColumnOfFirst(inputs, c, junk) ==
    LET data == GetColumnData(inputs[1], c, junk) IN
    FlattenSeq([k \in DOMAIN inputs |->
        [i \in 1 .. segments[inputs[k]].numRows |-> IF i \in DOMAIN data THEN data[i] ELSE junk]])

MergedColumn(inputs, c, junk) ==
    FlattenSeq([k \in DOMAIN inputs |-> GetColumnData(inputs[k], c, junk)])

\* A worker takes a task and opens the output, and so empties the file, before
\* it reads any input.  A task with one input is answered with that segment
\* itself and opens nothing.
OpenOutput(inputs, path) ==
    /\ Call
    /\ task = Idle /\ Len(inputs) # 1 /\ Len(segments) < MaxSegments
    /\ task' = [inputs |-> inputs, path |-> path, rows |-> RowsOfInputs(inputs)]
    /\ files' = [files EXCEPT ![path] = [version |-> @.version + 1, buffers |-> <<>>]]
    /\ UNCHANGED <<segments, merged, holds>>

\* The rows the inputs held when the task was taken, unless the application has
\* written over one of them since.
PromisedRows ==
    IF \E k \in DOMAIN task.inputs :
           LET o == task.inputs[k] IN StillHolds(o) = Unknown /\ segments[o].path # task.path
    THEN Unknown ELSE task.rows

\* Columns, types and encodings are those of the first segment, the null flags
\* are all false, no zone map or filter is attached, and the task's delta store
\* is not looked at.  Without inputs the segment has no columns.
ExecuteMerge(junk) ==
    LET inputs == task.inputs
        path == task.path
        none == inputs = <<>>
        enc == IF none THEN "Plain" ELSE segments[inputs[1]].enc
        columns == IF none THEN <<>>
                   ELSE [c \in DOMAIN segments[inputs[1]].cache |-> MergedColumn(inputs, c, junk)]
    IN
    /\ task # Idle /\ Len(segments) < MaxSegments
    /\ files' = [files EXCEPT ![path].buffers = Encoded(columns, enc)]
    /\ segments' = Append(AfterReading(ToSet(inputs), junk),
                          Header(path, files[path].version, columns, {}, enc))
    /\ holds' = Append(PromisedAfter(ToSet(inputs)), PromisedRows)
    /\ task' = Idle
    /\ UNCHANGED <<merged, calls>>
-----------------------------------------------------------------------------
(* ColumnMerger::MergeColumn over segments and a delta store at rest.      *)

\* The members of a finite set, least first, in the order `before` (its pairs).
Ordered(S, before) ==
    [k \in 1 .. Cardinality(S) |->
        CHOOSE x \in S : Cardinality({y \in S : <<y, x>> \in before}) = k - 1]

\* The maps of column c after one call, and after a history of calls.
AfterCall(column, call, c) ==
    IF call.kind = "delete" THEN PutDelete(column, call.row, call.ts)
    ELSE IF c <= Len(call.data) THEN PutInsert(column, call.row, call.ts, call.data[c])
    ELSE column
DeltaColumn(history, c) ==
    LET after[n \in 0 .. Len(history)] ==
            IF n = 0 THEN EmptyColumn ELSE AfterCall(after[n - 1], history[n], c)
    IN after[Len(history)]

\* DeltaStore::VisitInserts: in the order of row ids, tombstones or not.
VisitInserts(column) ==
    LET visited == {r \in Rows : column.inserts[r].ts # 0}
        ids == Ordered(visited, {p \in visited \X visited : p[1] < p[2]})
    IN [i \in DOMAIN ids |-> column.inserts[ids[i]]]

\* A faulty sort that breaks ties by value.
SortByValueToo(values, stamps) ==
    LET Before(p) == \/ stamps[p[1]] < stamps[p[2]]
                     \/ /\ stamps[p[1]] = stamps[p[2]]
                        /\ \/ values[p[1]] < values[p[2]]
                           \/ values[p[1]] = values[p[2]] /\ p[1] < p[2]
        indices == Ordered(DOMAIN stamps, {p \in (DOMAIN stamps) \X (DOMAIN stamps) : Before(p)})
    IN [i \in DOMAIN indices |-> values[indices[i]]]

\* The values in the order in which std::stable_sort leaves the indices: by
\* timestamp, and where these are equal as they were.
ByStamp(stamps) ==
    {p \in (DOMAIN stamps) \X (DOMAIN stamps) :
        \/ stamps[p[1]] < stamps[p[2]]
        \/ stamps[p[1]] = stamps[p[2]] /\ p[1] < p[2]}
StableSort(values, stamps) ==
    LET indices == Ordered(DOMAIN stamps, ByStamp(stamps))
    IN [i \in DOMAIN indices |-> values[indices[i]]]

\* all_values and all_timestamps: the rows of the segments, then those of the
\* delta store.
MergeColumn(inputs, history, c, junk) ==
    LET inserts == VisitInserts(DeltaColumn(history, c))
        values == MergedColumn(inputs, c, junk) \o [i \in DOMAIN inserts |-> inserts[i].data]
        stamps == FlattenSeq([k \in DOMAIN inputs |->
                      [i \in 1 .. segments[inputs[k]].numRows |-> segments[inputs[k]].createdTs]])
                  \o [i \in DOMAIN inserts |-> inserts[i].ts]
    IN StableSort(values, stamps)

\* One ColumnMerger per column, asked in turn.
MergeColumns(inputs, history, junk) ==
    /\ Call
    /\ merged' = [columns |-> [c \in 1 .. NumColumns |-> MergeColumn(inputs, history, c, junk)],
                  history |-> history, rows |-> RowsOfInputs(inputs)]
    /\ segments' = AfterReading(ToSet(inputs), junk)
    /\ holds' = PromisedAfter(ToSet(inputs))
    /\ UNCHANGED <<files, task>>
-----------------------------------------------------------------------------
\* The segments a task may list: any, in any order, one of them twice.
Inputs == {s \in UNION {[1 .. n -> Objects] : n \in 0 .. MaxInputs} :
               EmptyInputs \/ \A k \in DOMAIN s : segments[s[k]].cache # <<>>}

MergeNext ==
    \/ \E path \in Paths, table \in Tables, enc \in SegmentEncodings : Write(path, table, enc)
    \/ \E o \in Objects, junk \in Data : Load(o, junk)
    \/ \E inputs \in Inputs, path \in Paths :
           /\ OutputOverInput \/ \A k \in DOMAIN inputs : segments[inputs[k]].path # path
           /\ OpenOutput(inputs, path)
    \/ \E junk \in Data : ExecuteMerge(junk)
    \/ \E inputs \in Inputs, history \in Histories, junk \in Data :
           MergeColumns(inputs, history, junk)

MergeSpec == MergeInit /\ [][MergeNext]_mergeVars

\* Plain use: a merge has an output path of its own and inputs with columns, and
\* no segment is packed or has a dictionary.
PlainMerges ==
    /\ ~OutputOverInput /\ ~EmptyInputs
    /\ SegmentEncodings \subseteq {"Plain", "RLE", "Delta"}

\* Every insert gives all columns, and no call the timestamp 0.
WholeCalls == [kind : {"insert"}, row : Rows, ts : Nat \ {0}, data : [1 .. NumColumns -> Data]]
              \cup [kind : {"delete"}, row : Rows, ts : Nat \ {0}]
WholeHistories == \A history \in Histories : history \in Seq(WholeCalls)
-----------------------------------------------------------------------------
\* What a reader of segment o gets.
ColumnsRead(o) == [c \in DOMAIN segments[o].cache |-> GetColumnData(o, c, 0)]

(***************************************************************************)
(* MergeKeepsEveryRow: a segment reads back the rows it was made of, each  *)
(* once and whole, however many merges they went through: merges of merged *)
(* segments, of one segment twice, of segments with different encodings,   *)
(* of segments whose file has been written over after they were loaded.    *)
(* Nothing is claimed where the encoded size gives too small a row count.  *)
(***************************************************************************)
MergeKeepsEveryRow ==
    \A o \in Objects :
        StillHolds(o) # Unknown /\ Covered(o)
            => \/ ColumnsRead(o) = ColumnsOf(holds[o])
               \/ ColumnsRead(o) = <<>> /\ holds[o] = <<>>

(***************************************************************************)
(* StatsBoundTheColumn: of the rows a segment was made of, no value that   *)
(* its writer was not told is null lies outside the bounds the header      *)
(* records for its column, and the bounds are such values or the first     *)
(* row's, null or not: a null further down must not widen them.  A merge   *)
(* declares no row null, so its header bounds every row of its inputs.     *)
(***************************************************************************)
StatsBoundTheColumn ==
    \A o \in Objects : StillHolds(o) # Unknown =>
        \A c \in DOMAIN segments[o].cache :
            LET shown == DOMAIN holds[o] \ segments[o].declared
                s == segments[o].stats[c]
            IN /\ \A i \in shown : s.min <= holds[o][i][c] /\ holds[o][i][c] <= s.max
               /\ holds[o] # <<>> =>
                      {s.min, s.max} \subseteq {holds[o][i][c] : i \in shown \cup {1}}

\* The inserts of a history, one whole row each, older ones of a row replaced.
LatestRows(history) ==
    {h \in DOMAIN history :
        /\ history[h].kind = "insert"
        /\ \A g \in DOMAIN history :
               g > h => history[g].kind = "delete" \/ history[g].row # history[h].row}

ByStampAndRow(history) ==
    {p \in LatestRows(history) \X LatestRows(history) :
        LET a == history[p[1]]
            b == history[p[2]]
        IN a.ts < b.ts \/ (a.ts = b.ts /\ a.row < b.row)}

(***************************************************************************)
(* RowsStayTogether: MergeColumn sorts each column by itself, and still    *)
(* position i of every column belongs to one row: the rows of the segments *)
(* in their order, then the rows of the delta store by timestamp and row   *)
(* id, deleted or not.                                                     *)
(***************************************************************************)
RowsStayTogether ==
    merged # NoOutput /\ merged.rows # Unknown =>
        LET h == merged.history
            latest == Ordered(LatestRows(h), ByStampAndRow(h))
            expected == merged.rows \o [i \in DOMAIN latest |-> h[latest[i]].data]
        IN /\ \A c \in 1 .. NumColumns : Len(merged.columns[c]) = Len(expected)
           /\ merged.columns = ColumnsOf(expected)
=============================================================================
