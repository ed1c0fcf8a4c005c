# ColumnarStore in TLA+

A verification development for the ColumnarStore library: TLA+ modules that
model its parts, TLC configurations that check them on small instances, and
TLAPS proofs of the results that hold for every value of the parameters.
`PROJECT.json` lists the runs, the source lines of every definition, the
hazards, the findings and the theorems.

Run a model with `tlc -config <cfg> <module>`, check the proofs of a module with
`tlapm <module>.tla`: the eight modules whose names end in `Proofs`.

## 1. Inventory of the system

| Part | State | Operations | Talks to |
|---|---|---|---|
| `DeltaStore` (delta_store.h) | per column: a map row -> (timestamp, bytes), a map row -> tombstone, one mutex; a counter of pending rows; a flushing flag | Insert, Delete, Get, GetRange, BeginFlush, EndFlush, Clear, VisitInserts | writers, the flusher, the merger |
| `DeltaStoreManager` | a ring of stores, the active index (atomic), one mutex | CurrentStore, GetStoreForFlush, FinishFlush, CompactStores | writers take a bare pointer, flushers rotate |
| `SegmentMerger` (merger.h) | a queue of tasks, mutex, condition variable, stop flag, worker threads | SubmitMerge, WorkerLoop, destructor | futures to its callers |
| `ColumnMerger`, `ExecuteMerge` | none between tasks | merge segments and a delta into a new segment | segments, delta store |
| `BackgroundMerger` | a running flag and a thread that sleeps | Start, Stop, ScheduleMerge | forwards to SegmentMerger |
| `Predicate`, `PredicateBuilder`, `BytecodeInterpreter` (predicate.h) | the program; the interpreter's stack and two deferred connectives, kept across rows | builder calls, EvaluateRow | scanner |
| `ZoneMap` (zone_map.h) | one entry per block: bounds, null and row counts | BuildFromColumn, ShouldScanBlock | scanner, file |
| `BloomFilter` (bloom_filter.h) | a bit array | Add, MightContain, Merge, Clear | scanner, file |
| `SegmentScanner`, `ColumnScanner` (scanner.h) | block counter, block mask, statistics | Scan | zone maps, filters, interpreter, callback |
| `AggregateScanner` | sum, count, minimum and maximum per column, kept across Scans | Scan, Results | a callback of SegmentScanner |
| `ParallelScanner` | threads, cancel flag, statistics | Scan, Cancel | SegmentScanner, callback |
| `SegmentWriter` (segment.h) | buffers, file position, header | AddColumn, AddZoneMap, AddBloomFilter, Finish | file |
| `SegmentReader`, `Segment` | one ifstream, a column cache, two mutexes, ownership | GetColumn, GetZoneMap, GetBloomFilter, PrefetchColumns | file, scanner |
| `ColumnVector`, `TypedColumn`, `VectorOps` (column/column.h) | data, null flags, a size | Append, AppendNull, SetNull, Filter, CopyTo, Resize, Clear, Encode, Decode; vector kernels | codecs, writer, reader |
| codec classes (rle.h, dictionary.h, for.h, bitpack.h) | runs; a dictionary with its ids and indices; packed words | Encode, Build, BuildSorted, Write, Read, Decode, Filter | the application |
| encoders and decoders (encoding/encoding.h) | none | Encode, Decode, CreateEncoder, CreateDecoder, TypedColumn::Decode | writer, reader |

What is hard here: column locks taken one after the other, an unlocked pointer
to the active store, a counter that lags behind the data it counts, a stop flag
outside of the lock of its condition variable, one file cursor for many threads,
detached threads, pruning that must never drop a row, an interpreter whose state
outlives a row, segments whose file may be written again, codec objects that are
used more than once, packed words, vector loops with a rest, and values whose
width changes on the way.

What makes each part correct: acknowledged writes are neither lost nor torn; a
task is executed once and its future settled; a predicate means its formula;
pruning drops only what cannot match; a scan delivers the matching rows once, in
order, and aggregates are those of the rows delivered; a merge keeps every row, and
keeps it whole; each part of a file is read back from where it was written; a
column that is filled, copied or encoded comes back.

## 2. Modules

| Module | Models | State and actions |
|---|---|---|
| `ColumnDelta` | the maps of one column | operators: PutInsert, PutDelete, GetFinds, GetRange |
| `DeltaStore` | Insert and Delete by concurrent threads | `columns`, the call each thread is in, what was acknowledged; one action per column visited, per call and per return |
| `DeltaStoreManager` | the ring of stores | writers, flushers and a compactor, one action between any two locks or atomics |
| `MergeService` | what the merger promises | a future per task: Submit, Fulfil, Destroy |
| `MergePool` | WorkerLoop, SubmitMerge, the destructor | queue, mutex, pc per worker, waiting and woken workers; spurious wakeups; a merge that throws |
| `Predicates` | programs and interpreter steps | operators |
| `BytecodeInterpreter` | building a predicate, evaluating rows | builder calls, then one step per call's instructions; reference: sets of rows |
| `SegmentMerge` | ExecuteMerge and MergeColumn as data, the segments they read and write | files by path, Segment objects with their cached columns, the merge under way; Write, Load, OpenOutput, ExecuteMerge, MergeColumns |
| `ZoneMap`, `ZoneMapBuild` | entries, Predicate::CanMatchZoneMap; a column that grows and is summarised again | Append, Build |
| `BloomFilter` | bit sets with open hashes | operators: Add, MightContain, Merge |
| `SegmentScanner` | the Scans of one segment | PruneByZoneMap, PruneByBloom, FilterBlock, DeliverRun, EndBlock, ScanAgain |
| `AggregateScanner` | its callback and results | every step of SegmentScanner, with the callback on the rows it delivers |
| `ParallelScanner` | threads with a stride, Cancel | NextSegment, TestCancelled, Output, EndSegment, Join, Cancel |
| `SegmentFile` | SegmentWriter and the file | Add*, BeginFinish, FinishColumn, WriteHeader |
| `SegmentReader` | threads on one Segment | Enter, LockSegment, CheckCache, Seek, Read, Store, PrefetchColumn, Drop |
| `Codecs` | the six encodings of encoding/encoding.h | operators on buffers of typed fields |
| `TypedColumn` | ColumnVector, TypedColumn, VectorOps, EvaluateVector | operators: AppendArray, FilterTo, CopyTo, Resize; the kernels as the rows their loops visit |
| `CodecObjects` | RleEncoder, DictionaryEncoder, ForEncoder, ForZigZagEncoder, BitPackEncoder and their decoders | operators on an object and its buffer |
| `ColumnCodec` | a column filled, copied, encoded and read; a codec object given one column after the other | AppendOne, AppendMany, AppendNull, MarkNull, FilterInto, CopyInto, Encode, Decode, ReadColumn, ObjectEncode, ObjectWrite, ObjectRead, Refill |
| `MC*` | value sets, hashes, symmetry for TLC | - |
| `DeltaStoreProofs`, `DeltaStoreManagerProofs`, `MergePoolProofs`, `BytecodeInterpreterProofs`, `PruningProofs` (zone maps, Bloom filters, the block loop of a scan and its aggregates), `ParallelScannerProofs`, `SegmentProofs` (writer and reader), `ColumnMergeProofs` (columns, codecs and merges) | - | theorems |

`SegmentScanner` is the composition of `ZoneMap`, `BloomFilter` and
`Predicates`: it uses their operators, so a block is pruned by the entries that
BuildFromColumn makes, and a row is judged by the interpreter itself.
`AggregateScanner` is composed with it: each run delivered is a call of the
callback. `ColumnCodec` composes `TypedColumn`, `Codecs` and `CodecObjects`, and
`SegmentMerge` the codecs with the delta store's column maps (`ColumnDelta`), so a
merge reads what the encoders wrote and the row counts that encoded sizes give.
`MergePool` and `SegmentMerge` share ExecuteMerge: the first has its threads,
queue and exceptions, the second the rows it writes. `MergePool`
is shown to implement `MergeService` (the mapping is `open <- dtor # "destroyed"`,
the futures are the same).

### Abstractions

Data is abstracted to what the properties tell apart. A delta's bytes are a model
value; in `MergePool` a task is a model value and ExecuteMerge a step that ends in a
result or throws; in `SegmentMerge` a file is a version and its encoded columns, and
bytes read through an old header from a file written over since are any value; a
part of a file is known by its kind and column; the
two hash functions of a Bloom filter are arbitrary functions of the key; the rows
a segment delivers to a ParallelScanner are given as run lengths. Widths are
parameters: 2^32 and 2^64 for keys and file offsets, 32 and 64 bits for packed
words, UINT32_MAX for run lengths, 8 bits for a dictionary index in one byte.
Every lock acquisition, atomic access and file operation that other threads can
observe is a step of its own. `seekg` and `read` are one step each, and a thread
that reads a flag and acts on it does so in two. In FOR the subtraction of two
ints may overflow; the two results a compiler produces, wrapped or computed in 64
bits, are a nondeterministic choice. So are the two results of a shift by the width
of a type or more, in ForEncoder and BitPackEncoder: zero, or a shift by the amount
modulo the width. A loop that cannot end is a state of its own (`looping`), and so
is a write past the end of an empty vector (`crashed`): nothing follows either. The
vector `stores_` of `DeltaStoreManager` is a fixed array that `CurrentStore` reads in
one step. In the code `push_back` may move its elements while `CurrentStore` and
`FinishFlush` index them without the lock; that data race is not modelled, and the
properties of the module are those of the protocol above it. Int32
and Int64 are stand-ins of 3 and 6 bits; a vector kernel is the set of rows that
its loops visit, for one and for two lanes.

Constants that restrict the environment are named: `RowsOf` (writers own their
rows), `OverlapCompaction`, `Flushers`, `RightNullTests`, `MetadataAlone`,
`PrefetchAwaited`, `ZigZagLimited`, `ShiftLimited`, `MixedBuilds`,
`ReuseForEmpty`, `GatherTypes`, `Capacities`, `OutputOverInput`, `EmptyInputs`,
`Histories`, `SegmentEncodings`, `HelperBlocks`, `Misread`, and the predicates, types and block sizes of
the scanner. The table of deviations in section 3 says what happens without each
restriction. `CanShutdown` and `Failing` restrict nothing in the passing run.

## 3. Runs

Passing runs:

| Run | Bounds | What it shows |
|---|---|---|
| `delta_store` | 2 threads with rows of their own, 3 columns, rows of 2 or 3 columns, 3 inserts, stamps up to 4 | `RowWhole`: a row at rest is the same version in every column. `VersionsDescend`: in the middle of calls an earlier column is never behind a later one. `ReadYourWrites`: GetRange finds an inserted row until a Delete as recent is issued, also after an earlier Delete; a deleted row is not found until a newer Insert is issued; Get finds what was never deleted |
| `delta_manager` | 2 writers, 1 flusher, 2 columns, 3 inserts, 1 delete, no compaction inside a call | `NoAckedInsertLost`, `ZeroPendingMeansDelivered`, `PendingNeverWraps`; `FlushIsAligned`: a flush that found no writer in its store reads the same rows from every column |
| `merge_pool` | 2 workers, 3 tasks, one of which throws, destruction at any moment | `OnePlace`, `NoPopFromEmpty`, `ImplementsService`; `EverySubmitFulfilled`: every future becomes ready unless the merger is destroyed or the process ends |
| `bytecode` | 5 builder calls, infix and postfix, two columns, two values | `AnswersTheFormula`, `NothingLeftOver`, over consecutive rows, for predicates with no null test as the right operand of an infix And or Or; such a predicate, `Gt And Lt And NotNull`, is built in test_predicate.cpp:95-102 (which evaluates no row) |
| `merge_data` | 2 columns, 2 paths, 4 tables (an empty one, equal rows, rows a sort would tear, a null), Plain and RLE, 3 segments, 4 calls, merges of up to 2 inputs, 4 delta stores | `MergeKeepsEveryRow`: a segment reads back the rows it was made of, after merges of merges, of one segment twice, and after its file was written over. `StatsBoundTheColumn`: no value of a row that was not declared null lies outside the header's bounds, and for a merged segment, which has no nulls, no value at all. `RowsStayTogether`: columns sorted one by one still line up as rows |
| `zone_map` | 4 rows, blocks of 3, nulls anywhere, two builds | `PrunesOnlyMisses`, of ShouldScanBlock and of CanMatchZoneMap on maps of one block; `BoundsAreTight`; `NullTestsPruneOnlyMisses`, as far as the counts are kept |
| `scanner` | every table of 4 rows and 2 columns, 11 predicates, blocks of 3, runs of at most 2, a second Scan by the same object | `DeliversTheMatches`, `StatsAddUp`; `AggregatesMatch`: the aggregates are those of the rows that satisfy the predicates |
| `parallel_scan` | 3 threads, 5 segments (one empty), 2 Scans, Cancel | `EveryRunOnce`, `CancelIsPrompt`, `StatsCoverOutput`, `ScanReturns` |
| `segment_file` | up to 3 columns, any subset with zone map and filter, any order, files shorter and longer than an offset can say | `PartsReadBack`, of the parts that begin below 2^32; `HeaderOverwritesNothing` |
| `segment_reader` | 2 callers with 2 calls each, 1 prefetch thread, 2 columns | `OwnBytes`, of GetColumn calls and prefetches against each other and of metadata reads by themselves; `OneObject`, `EveryCallReturns` |
| `codec` | every column of up to 4 rows over all 8 values of a 3-bit Int32; of up to 3 rows over three values of a 6-bit Int64, with nulls and up to 3 filters and copies; of up to 4 doubles; 6-bit words, runs of at most 2, 1 and 2 lanes, 2 columns per codec object | `ColumnHolds`: values, null flags and size never drift apart. `KernelsAgree`: the vector loops visit every row once and decide as the scalar code. `RoundTrip` for six encodings, three for doubles, whenever the encoder returns, and for FOR when the range leaves the top bit of the type alone. `SegmentReadsBack` for Plain and Delta. `ObjectRoundTrip`: a codec object, reused or restored, decodes to the column it took last |

The bounds make the interesting cases happen: rows cut off by a short insert, a
rotation with a writer still inside the old store, more tasks than workers and
more workers than tasks, a last block that is not full, a run longer than the
limit, a match at a block's end, an offset that lies
across two words, a difference that wraps, a merge whose input was written over
before or after it was loaded, a column whose length is no multiple of the lanes, a
dictionary that grows after it was restored. Type invariants are checked where a
module's proof needs one and a fault of the code can break it (`delta_store`,
`delta_manager`); that of `MergePool` is only proved.
Every property has a mutant in
`PROJECT.json`, a plausible fault of the code under which TLC finds the property
violated.

One run expects a violation: it states what a test of the repository relies on and
shows an interleaving in which the code does otherwise; `findings` quotes the lines:

| Run | What happens |
|---|---|
| `merge_pool_shutdown` | the destructor's store and notify fall between a worker's test and its wait: a lost wakeup, and the join never returns |

### Deviations

The passing runs keep to the uses for which the code does what it promises. Each
restriction is one constant, or one conjunct of a property; change it as the
middle column says and TLC shows the deviation.

| Code | Change | What TLC shows |
|---|---|---|
| `DeltaStore::Insert` compares no timestamps | MCDeltaStore: `RowsOf <- MCShared`, property `NewestVersionKept` | the slower of two writers of a row replaces a newer version |
| `DeltaStore::Get` | MCDeltaStore: invariant `GetAgreesWithGetRange` | a row deleted and inserted again is in GetRange and not in Get |
| `DeltaStore::Delete` counts nothing | MCDeltaStoreManager: invariant `NoAckedDeleteLost` | compaction clears a store that holds only tombstones |
| `CompactStores` clears a store with nothing pending (delta_store.h:211) | MCDeltaStoreManager: `OverlapCompaction = TRUE` | `NoAckedInsertLost`: a store is cleared under an insert that has written its columns and not counted them yet |
| `FinishFlush` subtracts what its caller counted | MCDeltaStoreManager: two `Flushers` | flushes are not aligned, and the unsigned counter wraps |
| `IsNull`, `IsNotNull` push without FoldPending | MCBytecodeInterpreter: `RightNullTests = TRUE` | `AnswersTheFormula`, `NothingLeftOver`: a deferred And or Or stays pending, and the row is judged by the last operand alone |
| `ZoneMapEntry::Update` skips leading nulls | ZoneMapBuild: `NullTestsPruneOnlyMisses` without `SkippedNulls(b) = {}` | IS NULL prunes a block that holds nulls |
| `BuildFromColumn` keeps null_count | the same without `builds = 1` | after a second build IS NOT NULL prunes a block that holds values |
| pruning looks at the first comparison only | MCSegmentScanner: `Programs <- Disjunction` | a block that only the second operand of an Or matches is dropped |
| the fast path looks at no connective | `Programs <- Negation` | a negated comparison delivers the rows it should not |
| `ScanBlock` filters integers only | `ColumnType <- Doubles`, `Programs <- LessThan1` | every row of a double column is delivered |
| `GetBloomFilter` of a column without one | `BloomColumns = {1}` | the empty filter denies every equality |
| zone map blocks of another size | `ZoneRows = 2` | blocks are pruned by other rows' bounds |
| 4-byte and 8-byte Bloom keys | `ColumnType <- BothInt32`, `ColumnValues <- SignedValues`, `Programs <- EqualMinus` | a negative Int32 is never found |
| metadata reads move the shared cursor | SegmentReader: `MetadataAlone = FALSE` | a concurrent reader gets other bytes |
| detached prefetch threads | SegmentReader: `PrefetchAwaited = FALSE`, invariant `AliveWhileUsed` | a thread uses the segment after its end |
| `CanMatchZoneMap` denies a map for one block that cannot match | ZoneMapBuild: `HelperBlocks = 2` | a map is denied whose other block matches |
| AggregateScanner reads every column as int64_t | MCSegmentScanner: `ColumnType <- BothInt32`, `Misread = {0, 1}` | `AggregatesMatch`: sums of other bytes |
| ExecuteMerge opens its output before it reads | MCSegmentMerge: `OutputOverInput = TRUE` | `MergeKeepsEveryRow`: an input that was not loaded is gone |
| ExecuteMerge takes the columns of the first segment | MCSegmentMerge: `EmptyInputs = TRUE` | `MergeKeepsEveryRow`: behind a segment without columns every row is dropped |
| `Insert` of fewer columns than the store has | MCSegmentMerge: `Histories <- ShortHistories` | `RowsStayTogether`: later columns of the merge are shorter and shifted |
| `ColumnVector(capacity)` sizes the vectors | MCColumnCodec: `Capacities = {1}` | `ColumnHolds`: appended rows come after the zeroes |
| FOR offsets of a range beyond the signed type | ColumnCodec: `RoundTrip` without its condition on FOR | an offset that wraps spoils its neighbours' bits |
| FOR and BitPack of a 64-bit range beyond the signed type | MCColumnCodec: invariant `EncoderReturns` | the loop that counts bits does not end |
| BitPack of a column of one value | MCColumnCodec: invariant `EncoderStaysInBounds` | no bits, no words, and the loop writes `packed[0]` of an empty vector |
| ForEncoder and BitPackEncoder shift in the column's type | MCColumnCodec: `ShiftLimited = FALSE` | `KernelsAgree`, `ObjectRoundTrip`: bits beyond 32 are lost |
| the zigzag of a negative value shifts no sign in, and the decoder decodes the base twice | MCColumnCodec: `ZigZagLimited = FALSE` | `ObjectRoundTrip` |
| `RleEncoder::Encode` returns early | MCColumnCodec: `ReuseForEmpty = TRUE` | an object given an empty column still has the runs of the one before |
| Build after BuildSorted on one dictionary | MCColumnCodec: `MixedBuilds = TRUE`, `MaxColumns <- ThreeColumns`, `Types = {"Int64"}` | `ObjectRoundTrip`: ids and values no longer agree |
| gathers of 8-byte values read two 4-byte indices as one | MCColumnCodec: `GatherTypes = {"Int64"}` | `KernelsAgree`: other rows' values |
| dictionary indices of two bytes | MCColumnCodec: `ByteBits = 1` | one byte of each index is written |
| row count from the encoded size | ColumnCodec: `SegmentReadsBack` for every `enc` | an RLE column has two rows per run |
| no Double case in `CreateEncoder` | MCColumnCodec: `MCEncodings` with all encodings | doubles go through the 4-byte Plain codec |

Seen while reading and not stated as a property: `ExecuteMerge` never looks at the
task's delta store, so only a caller of `MergeColumn` merges inserts; `MergeColumn`
does not look at tombstones; `created_ts` is copied in the writer's constructor,
before `SetTimestamp` can be called, and is always 0, so segments sort before every
delta; a merged segment has no zone maps, no Bloom filters and no null flags; the
AVX-512 decoder of FOR shifts each 32-bit lane by up to 15 times the bit width and
starts at the word's first bit whatever the offset.

Deadlock checking is off where the bounded system may stop: all calls made, the
merger destroyed, the scan finished. It is on for the codec run.

### Fairness

Weak fairness of each thread's own steps, which an operating system scheduler
gives: the workers, the notifying submitter and the destructor of `MergePool`,
the threads and the join of `ParallelScanner`, the threads inside a call of
`SegmentReader`. No fairness is assumed of clients: they need not submit, scan,
cancel or destroy anything. Spurious wakeups are possible and never assumed.

## 4. Proofs

`DeltaStoreProofs` proves for every set of threads, rows and timestamps, every
number of columns and every bound on calls:

* `StoreTypeOK`: type correctness, with no assumption beyond that of the module;
* `StoreRowWhole`, assuming `DisjointWriters` (no two threads write one row);
* `StoreVersionsDescend` and `StoreReadYourWrites`, assuming also `FreshStamps`
  (calls take their timestamp from the clock rather than from the caller).

`RowWhole` is not inductive: in the middle of a call it says nothing of the row.
The invariant `WholeInv` adds which columns a call in flight has already written
(`WrittenInv`), that columns at and after its position still agree with each
other (`AheadInv`), and that the row it works on belongs to its thread (`OpInv`).
For the other two `FreshInv` adds that no stored stamp is newer than the clock
(`StampInv`), that the row of a call in flight holds only older stamps ahead of
it (`OlderInv`), what acknowledgement means for the columns (`AckInv`), and that every
version and every tombstone in a column comes from a call that was issued (`SourceInv`):
what hides an acknowledged row is a Delete somebody made.

`MergePoolProofs` proves for every set of workers and tasks:

* `PoolTypeOK`, `PoolOnePlace`, `PoolNoPopFromEmpty`, from `PoolInvariant`;
* `PoolImplementsService`: every step is a step of `MergeService` or leaves its
  variables alone.

The inductive invariant `IInv` has, beside the types, who holds the lock
(`LockInv`), that a worker has a task in hand exactly where the code says
(`HandInv`), that a worker past the test finds the queue not empty or stop set
(`ReadyInv`), and that no worker runs once the merger is destroyed (`GoneInv`).
The refinement needs all of it: `set_value` is a Fulfil only because the task in
hand is pending, and the destructor's last step breaks exactly the pending ones.

`DeltaStoreManagerProofs` proves for every set of writers and every number of
columns, inserts and deletes:

* `ManagerTypeOK`, with no further assumption;
* `ManagerNoAckedInsertLost`, `ManagerZeroPendingMeansDelivered`,
  `ManagerPendingNeverWraps` and `ManagerFlushIsAligned`, assuming `OneFlusher` (at
  most one thread flushes) and `CalmCompaction` (CompactStores is not called while
  an Insert or a Delete runs). Both are needed: the deviations above show what
  happens otherwise.

The code keeps only a number of pending rows, so the invariant says which rows it
stands for: `OwedInv` claims a set `owed[s]` per store, with as many members as the
counter, each of them acknowledged and in every column, that includes every
acknowledged row no flush has delivered; and a set `counted` that the flusher's
number stands for, all of which were there before it read the first column. The sets
are claimed to exist rather than kept in variables, and each step of a writer or of
the flusher moves one row or one set. `RingInv` has the control: who holds the
mutex, which store is being flushed or cleared, that a call in flight is alone with
its row, and that a row in some columns only belongs to a call in flight.

`BytecodeInterpreterProofs` proves `InterpreterAnswersTheFormula` and
`InterpreterNothingLeftOver` for every sequence of builder calls over any columns and
rows, assuming `~RightNullTests` (no null test to the right of an infix And or Or,
where the interpreter leaves the connective pending). The interpreter is a fold over
the program and the prover has no induction over data, so the invariant carries the
run along: for every row there is a sequence of machines, one per call made so far,
whose last member represents the formula written so far (`RunsInv`); `EvaluateRow`
walks along that sequence (`PlaceInv`). A builder call makes every sequence longer by
one, and that step is where the deferred connectives have to be right.

`PruningProofs` is about the two structures by which a scan leaves out a block, and
about the scan.

* Zone maps: `ZoneMapPrunesOnlyMisses`, `ZoneMapBoundsAreTight` and
  `ZoneMapNullTestsPruneOnlyMisses`, for every column, block size and number of builds;
  the first assumes `HelperBlocks <= 1`, the maps of one block that `CanMatchZoneMap`
  is right about (see the deviations), and has its block half, with no assumption, in
  `ZoneMapBlocksPruneOnlyMisses`. They follow from `ZoneMapSummary`: each entry
  `Describes` the rows of its block that the last build saw, also when the entry is
  reused by a rebuild. What `Update` does to one block is `UpdateDescribes`, which
  rests on the existence of a least and a greatest value of a non-empty set of rows;
  `BlockDescribes` carries it over to rows of the column. `CoverInv` says that a map
  has one entry for each block of the rows it covers.
* Bloom filters: for every pair of hash functions, every width of the keys and every
  shape, the positions lie within the filter, what was added is found when asked for
  with the same type, no later Add or Merge takes it away, and Merge of equal shapes
  takes over the other filter's contents and of unequal ones changes nothing. There
  is no state to induct over: every result follows from `Add` and `Merge` keeping the
  shape and only adding bits (`AddGrows`, `MergeGrows`).
* The block loop: `ScannerStatsAddUp`, for every table, predicate, block size, run
  limit and number of Scans of one object. `StatsAddUp` speaks of the moments between
  two blocks; the invariant `StatsInv` says what the counters are worth while a block
  is handed out, when its rows count as scanned and neither as filtered nor as
  returned, and that no more rows are left to deliver than the block holds. It takes
  counting: the rows of the blocks before b are `RowsDone(b)` (`RowsBeforeCount`,
  `RowsInCount`, from the rounding of the division), the survivors of a block are
  listed once each (`AscendingProperties`, because every rank below the size of a set
  of numbers is taken, `RankExists`), and a run is not empty and no longer than what
  is left (`RunLengthRange`). Nothing is asked of the predicates or of pruning: the
  counters add up also where a scan drops rows it should not.
* The rows a scan delivers: `ScannerDeliversTheMatches`, for every table, block size,
  run limit, pair of hash functions and sequence of Scans, assuming `PlainUse`
  (SegmentScanner.tla). That is the condition under which the code's shortcuts are
  sound: every row a predicate accepts satisfies the predicate's first comparison (or
  that test cannot prune), a predicate that takes the fast path is its one comparison,
  on an integer column, an equality asks a column that has a Bloom filter, constants
  survive their narrowing, and zone maps are made of the scan's blocks. The deviations
  of section 3 about disjunctions, negations, doubles, missing filters, other block
  sizes and negative Int32 keys each break one conjunct; `MCPlainUse` has TLC confirm
  that the instance of the run meets all of them. The proof puts the parts together:
  `ZoneMapPrunesMisses` and `BloomPrunesMisses` from the results above on the entries
  and filters that a scanner loads, `SurvivesRight` for the fast path and the
  interpreter, `RunIsPrefix` (the consecutive numbers a callback reads are the next
  survivors), `AscendingConcat` (the matches of a block come behind those before) and
  `FlatAppend` for the Scans that returned. The invariant `DeliveredInv` adds to the
  property what holds within a block: the output followed by the survivors still in
  hand are the matches up to the end of the block. What `EvaluateRow` computes is not
  opened; `BytecodeInterpreterProofs` is about that.
* The aggregates: `AggregatesAreExact`, assuming `PlainUse` and that the aggregated
  columns are Int64 (the callback reads every column as `int64_t`). `AggInv` says that at
  any moment, within a block too, the results are the count, sum, minimum and maximum of
  the rows handed to the callback so far; with `DeliveredInv` those are the matches.

`ParallelScannerProofs` proves `ParallelEveryRunOnce`, `ParallelCancelIsPrompt` and
`ParallelStatsCoverOutput` for every number of threads and every list of segments. The loops
`i = t, t + n, t + 2n, ...` share the segments out because two threads' indices differ
modulo n; the invariant says of each thread where in its stride it is (`PlaceInv`) and
that the runs ahead of it are undelivered and those behind it delivered once. For the
statistics `StatsInv` gives every thread the rows it has handed out, of which its
counter lags by those of the segment it is in, because ScanThread adds a segment's
statistics only after its Scan. The sums are recursive functions; what they are worth
when one term changes is shown by the least counterexample (`LeastNat`, `TotalGrows`),
which stands in for induction.

`SegmentProofs` proves `FileHeaderOverwritesNothing` with no assumption, and
`FilePartsReadBack`, of every part that begins below 2^32, also in longer files: Finish
casts positions and sizes to `uint32_t` and checks nothing, so the property states the
condition part by part instead of assuming it away. The invariant has the vectors that AddZoneMap
and AddBloomFilter resize (`AttachedInv`), parts that follow each other without
overlap behind the header's place (`LayoutInv`), and metadata that names each part's
true place (`RecordedInv`).

It also proves for every set of callers, prefetch threads and columns
`ReaderTypeOK`, `ReaderOneObject` and the action property `ReaderCacheOnlyGrows` (no
step replaces a cached column) with no further assumption, and `ReaderOwnBytes` assuming
`MetadataAlone`, the use the deviations are about. `OneObject` needs that a thread on its way to the file
still finds the column missing (`MissInv`), which holds because it keeps both locks
(`LockInv`).

`ColumnMergeProofs` is about columns in memory, in buffers and in segments: for columns
of every length, every width of the types and vectors, every limit on run lengths, every
number of columns, segments and calls. All its results about `ColumnCodec` assume
`Capacities \subseteq {0}`, columns made without a capacity.

* `ColumnsKeepTheirRows` (`ColumnHolds`). `FillInv` is the property with the types of the
  values and the second column; `Filter` is an induction over its loop.
* `SegmentsReadBack` (`SegmentReadsBack`), and `PlainRunsAndDeltasRoundTrip`: `RoundTrip`,
  `EncoderReturns` and `EncoderStaysInBounds` whenever the encoding is Plain, RLE or
  Delta. Both assume `NoDoubleDelta`:
  `CreateEncoder` has no Delta for doubles. `CodecInv` says of an encoded column that its
  buffer is the encoder's image of the rows. The facts beneath it: differences that wrap
  are undone by sums that wrap (`WrapsBack`), a buffer of equal fields has the size of
  their number (`SizeIs`), and the runs of the encoder, end to end, are the column, also
  where a run is cut at the limit (`RunsAre`).
* `KernelLoopsAgree`: `LoopsAgree`, the part of `KernelsAgree` about Filter,
  EvaluateVector, Sum, Min, Max and the arithmetic of VectorOps. The vector loop and the
  tail visit every row once (`LoopRows`), and a sum that wraps may be taken in parts
  (`TotalSplits`).
* `RunObjectsRoundTrip` and `RunKernelsAgree`: `ObjectRoundTrip` and `KernelsAgree`
  whenever the codec object is an RLE one, assuming `~ReuseForEmpty` (an object with runs
  takes no empty column). `RunInv` says that the object has the encoder's runs of the
  column it took last, whether it was kept or read back; `RunObject` what its decoder, its
  vector decoder and its filter over runs make of them.
* `MergesKeepEveryRow` and `StatsBoundEveryColumn`, assuming `PlainMerges`: a merge has an
  output path of its own and inputs with columns, and segments are Plain, RLE or Delta.
  `MergeInv` ties an object to its rows as long as its file is the one it was opened with
  or it has been read (`ObjectInv`), and an open merge to the rows of its inputs as long as
  none is lost (`TaskInv`). A step may lose an object's rows (its file is written over
  before it was loaded) but never change them (`Carried`).
* `MergedRowsStayTogether` (`RowsStayTogether`), assuming also `WholeHistories`: every
  insert gives all columns, and no call has the timestamp 0, which `Insert` and `Delete`
  replace by a fresh one. `MergeColumn` sorts each column by itself; the columns line up because
  a sequence of the members of a set in a strict order is the only one (`OrderedIs`,
  `OrderedUnique`), the inserts of a column are those of the latest calls (`DeltaColumnIs`),
  and the stable sort takes them to the order by timestamp and row, which does not mention
  the column (`SortedRows`).

`MCPlainMerges` has TLC confirm that the instance of `merge_data` meets `PlainMerges` and
`WholeHistories`; the constants of `codec` meet the assumptions of the results about it.
To be reasoned about, loops are written as recursive functions and sorting by ranks. What
such a function computes is shown by its equation having a solution, and by the first
index at which two solutions would differ having a predecessor at which they agree.

The assumptions of the modules are as weak as the proofs allow: `ReaderAssumption`
asks that `None` be none of the threads, calls, objects and file positions,
`ParallelAssumption` that a segment is a sequence of runs of at least one row,
`ColumnAssumption` that `NoEncoding` is no encoding. TLC evaluates them on every run.

Only model-checked:

* liveness (`EverySubmitFulfilled`, `ScanReturns`, `EveryCallReturns`): the prover has
  no fairness;
* `RoundTrip` for FOR, BitPack and Dictionary, and `ObjectRoundTrip` and the codec part of
  `KernelsAgree` for the dictionary, FOR, ZigZag and BitPack objects. They rest on packed
  words, that is on powers of two with a variable exponent, of which the prover knows no
  fact, and on folds and sorted sequences of a set, whose definitions it cannot unfold.

## 5. Not modelled

* `BackgroundMerger`: a thread that sleeps until stopped, and a `ScheduleMerge` that
  forwards to `SubmitMerge`.
* `BloomFilter::Clear`, `BlockedBloomFilter` and the AVX-512 batch paths, which the
  scan does not call; `CanMatchBloom` and `EvaluateAnd`, `EvaluateOr`,
  `EvaluateNot`: single loops over what is modelled.
* ZSTD and LZ4 (library calls), CPU feature detection and SIMD dispatch.
* The AVX-512 decoders of FOR, BitPack and Dictionary: shuffles of lanes inside
  intrinsics.
* `include/columnar/encoding.h`, specialisations that no other file includes.
* Varchar, Float and Boolean columns; `Clone`, `Swap`; floating-point sums, whose
  result depends on the order of the additions.
* Memory usage figures, size estimates and timings.
* Block sizes above `kScanBlockSize`: the mask of a block has that many elements and
  nothing in the code tests it.

## 6. Plan

The order is by what a fault would cost: acknowledged writes first, then the
merge pool, then what a scan returns, then the file and the encodings.

1. Done: the modules, runs and theorems above. Every safety property of a passing run is
   stated by a theorem, some of them for part of the encodings (section 4).
2. Open: the round trips of packed words and of dictionaries, which need facts about
   powers of two and about folds that the prover does not have.
3. Open: `BlockedBloomFilter` and the batch paths against the scalar ones;
   `ExecuteMerge`'s files in composition with the threads of `MergePool`, for two
   merges at once that share an input.
