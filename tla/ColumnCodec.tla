---------------------------- MODULE ColumnCodec ----------------------------
(***************************************************************************)
(* A column in memory: filled, copied row by row into another, encoded and *)
(* brought back.                                                           *)
(*                                                                         *)
(* Encode is what TypedColumn::Encode and SegmentWriter::AddColumn do: one *)
(* encoder, one fresh buffer.  Two callers read the buffer.  Decode passes *)
(* the decoder the number of rows, as the tests do.  ReadColumn is the     *)
(* only reader inside the store, SegmentReader::GetColumn: it knows no row *)
(* count, and TypedColumn::Decode derives one from the encoded size.       *)
(* ObjectEncode to ObjectRead are the codec classes of CodecObjects, one   *)
(* object taking several columns and perhaps living on as its restored     *)
(* copy.                                                                   *)
(*                                                                         *)
(* type    the type of the column                                          *)
(* src     the column                                                      *)
(* enc     the encoding or the object's kind, once chosen                  *)
(* buffer  the encoded column                                              *)
(* out     the column that was decoded, filtered or copied into            *)
(* obj     the codec object                                                *)
(* phase   how far the column has come                                     *)
(* held    history: the rows appended to src                               *)
(* picked  history: the rows out should have after filters and copies      *)
(* seen    history: the columns the object took before, with their indices *)
(***************************************************************************)
EXTENDS TypedColumn, CodecObjects

CONSTANTS Types,         \* the types of the columns
          Values,        \* the values a column of each type may hold
          Encodings,     \* the encodings a column of each type may be given
          Kinds,         \* the codec objects a column of each type is given to
          MaxRows,       \* bound on the length of a column, by type
          MaxColumns,    \* bound: columns one object takes, by type
          MaxPicks,      \* bound: filters and copies of a column
          PickTypes,     \* the types whose columns hold nulls and are copied
          Widths,        \* lanes of a vector: 1 in a build without AVX-512
          Capacities,    \* capacities a column is made with
          ZigZagLimited, \* give ForZigZagEncoder only what its decoder restores?
          ShiftLimited,  \* pack only what lies within the width of the type?
          MixedBuilds,   \* may one dictionary use both Build and BuildSorted?
          ReuseForEmpty, \* may an RLE object that holds runs take an empty column?
          GatherTypes,   \* types whose dictionaries are decoded with gathers
          NoEncoding

ASSUME ColumnAssumption ==
    /\ Types \subseteq DataTypes
    /\ \A t \in Types : /\ Values[t] \subseteq Natives(t)
                        /\ Encodings[t] \subseteq EncodingTypes
                        /\ Kinds[t] \subseteq ObjectKinds
                        /\ MaxRows[t] \in Nat /\ MaxColumns[t] \in Nat
    /\ MaxPicks \in Nat
    /\ Widths \subseteq Nat \ {0} /\ Capacities \subseteq Nat
    /\ {ZigZagLimited, ShiftLimited, MixedBuilds, ReuseForEmpty} \subseteq BOOLEAN
    /\ NoEncoding \notin EncodingTypes \cup ObjectKinds

VARIABLES type, src, enc, buffer, out, obj, phase, held, picked, seen
vars == <<type, src, enc, buffer, out, obj, phase, held, picked, seen>>

Init ==
    /\ type \in Types
    /\ src \in {New(c) : c \in Capacities}
    /\ enc = NoEncoding
    /\ buffer = <<>>
    /\ out = New(0)
    /\ obj = NewObject
    /\ phase = "filled"
    /\ held = <<>> /\ picked = <<>> /\ seen = <<>>
-----------------------------------------------------------------------------
(* TypedColumn: filling a column and taking rows out of it.                *)

Row(value, null) == [value |-> value, null |-> null]

Fill(rows, col) ==
    /\ phase = "filled"
    /\ Len(held) + Len(rows) <= MaxRows[type]
    /\ src' = col
    /\ held' = held \o rows
    /\ UNCHANGED <<type, enc, buffer, out, obj, phase, picked, seen>>

\* Only an object's first column gets nulls: it takes no column that has some.
Nullable == type \in PickTypes /\ seen = <<>>

\* Append of one value, of an array with or without flags, and AppendNull.
AppendOne == \E v \in Values[type] : Fill(<<Row(v, FALSE)>>, AppendValue(src, v, FALSE))
AppendMany ==
    \E v \in [1 .. 2 -> Values[type]],
       n \in IF Nullable THEN [1 .. 2 -> BOOLEAN] ELSE {<<FALSE, FALSE>>} :
        Fill([i \in 1 .. 2 |-> Row(v[i], n[i])], AppendArray(src, v, n))
AppendNull == Nullable /\ Fill(<<Row(0, TRUE)>>, AppendNulls(src, 1))

\* SetNull of a row there is.
MarkNull(i, null) ==
    /\ phase = "filled" /\ Nullable
    /\ src' = SetNull(src, i, null)
    /\ held' = [held EXCEPT ![i].null = null]
    /\ UNCHANGED <<type, enc, buffer, out, obj, phase, picked, seen>>

\* Rows of src put after those of out.
Pick(rows, col) ==
    /\ phase \in {"filled", "picking"} /\ Nullable
    /\ Len(picked) + Len(rows) <= MaxPicks
    /\ out' = col
    /\ picked' = picked \o rows
    /\ phase' = "picking"
    /\ UNCHANGED <<type, src, enc, buffer, obj, held, seen>>

\* The rows a mask lets through.
Kept(rows, mask) ==
    LET kept[n \in 0 .. Len(rows)] ==
            IF n = 0 THEN <<>>
            ELSE IF mask[n] THEN Append(kept[n - 1], rows[n]) ELSE kept[n - 1]
    IN kept[Len(rows)]

FilterInto ==
    \E mask \in [DOMAIN held -> BOOLEAN] : Pick(Kept(held, mask), FilterTo(src, mask, out))

CopyInto ==
    \E offset \in 0 .. Len(held) : \E count \in 0 .. Len(held) - offset :
        Pick(SubSeq(held, offset + 1, offset + count), CopyTo(src, out, offset, count))
-----------------------------------------------------------------------------
(* The codecs of encoding/encoding.h.                                      *)

Spread(column) == IF column = <<>> THEN 0 ELSE Max(ToSet(column)) - Min(ToSet(column))

\* while ((1ULL << bits) <= range) ++bits: no power of two exceeds such a range.
Loops(e, column) == /\ e \in {"FOR", "BitPack"} /\ type # "Double"
                    /\ Spread(column) >= 2 ^ (WordBits - 1)

\* A null pointer is written through and the process ends.
Crashes(e, column) == e = "BitPack" /\ type # "Double" /\ WritesBeyondPacked(column)

Encode ==
    LET column == Contents(src) IN
    /\ phase = "filled"
    /\ \E e \in Encodings[type], wide \in BOOLEAN :
           /\ enc' = e
           /\ \/ Loops(e, column) /\ phase' = "looping" /\ UNCHANGED buffer
              \/ Crashes(e, column) /\ phase' = "crashed" /\ UNCHANGED buffer
              \/ /\ ~Loops(e, column) /\ ~Crashes(e, column)
                 /\ phase' = "encoded" /\ buffer' = EncodeColumn(e, type, column, wide)
    /\ UNCHANGED <<type, src, out, obj, held, picked, seen>>

\* The decoder's answer in a column of count rows.
Decoded(count) ==
    [Resize(out, count) EXCEPT !.data = DecodeColumn(enc, type, buffer, @, count)]

Decode ==
    /\ phase = "encoded"
    /\ out' = Decoded(Len(held))
    /\ phase' = "decoded"
    /\ UNCHANGED <<type, src, enc, buffer, obj, held, picked, seen>>

\* A faulty RowCount that counts 8-byte words whatever the type.
RowCountInWords == Size(buffer) \div 8

\* TypedColumn::Decode: size / sizeof(Native) rows.
RowCount == Size(buffer) \div NativeBytes(type)

ReadColumn ==
    /\ phase = "encoded"
    /\ out' = Decoded(RowCount)
    /\ phase' = "read"
    /\ UNCHANGED <<type, src, enc, buffer, obj, held, picked, seen>>
-----------------------------------------------------------------------------
(* The codec objects.                                                      *)

\* The kinds of call this object may get.
KindsNow ==
    IF enc = NoEncoding THEN Kinds[type]
    ELSE IF MixedBuilds /\ enc \in {"Build", "BuildSorted"} THEN {"Build", "BuildSorted"}
    ELSE {enc}

\* The calls that write to a buffer at once; what the packing calls pack.
Direct == {"FOR", "ZigZag"}
Packing == Direct \cup {"BitPack"}
Packed(kind, column) ==
    IF kind = "ZigZag" THEN [i \in DOMAIN column |-> ZigZag(column[i], type)] ELSE column

\* Every packed value lies within one word of the column's own type.
WithinType(column) ==
    LET bits == FrameBits(Spread(column), type)
    IN bits = WordBits \/ TypeBits(type) = WordBits \/ Len(column) * bits <= TypeBits(type)

\* No value is negative, and the least is 0 unless all are the same.
ZigZagRestores(column) ==
    /\ \A i \in DOMAIN column : column[i] >= 0
    /\ 0 \in ToSet(column) \/ Spread(column) = 0

\* The object takes the column's values; null flags are not shown to it.
ObjectEncode(kind, modulo) ==
    LET column == Contents(src) IN
    /\ phase = "filled" /\ kind \in KindsNow
    /\ TRUE \notin ToSet(src.nulls)
    /\ ShiftLimited /\ kind \in Packing => WithinType(Packed(kind, column))
    /\ ZigZagLimited /\ kind = "ZigZag" => ZigZagRestores(column)
    /\ kind = "RLE" /\ column = <<>> => ReuseForEmpty \/ obj.runs = <<>>
    /\ obj' = CASE kind = "RLE"         -> RleEncode(obj, type, column)
                [] kind = "Build"       -> Build(obj, column)
                [] kind = "BuildSorted" -> BuildSorted(obj, column)
                [] kind = "BitPack"     -> BitPackFrame(obj, column, type, modulo)
                [] kind \in Direct      -> obj
    /\ buffer' = CASE kind = "FOR"    -> ForEncode(column, type, modulo)
                   [] kind = "ZigZag" -> ForZigZagEncode(column, type, modulo)
                   [] OTHER           -> <<>>
    /\ enc' = kind
    /\ phase' = IF kind \in Direct THEN "written" ELSE "taken"
    /\ UNCHANGED <<type, src, out, held, picked, seen>>

ObjectWrite ==
    /\ phase = "taken"
    /\ buffer' = CASE enc = "RLE"     -> RleWrite(obj)
                   [] enc = "BitPack" -> BitPackWrite(obj, type)
                   [] OTHER           -> DictWrite(obj, type)
    /\ phase' = "written"
    /\ UNCHANGED <<type, src, enc, out, obj, held, picked, seen>>

\* What the object decodes to.
RowsOf(o) == CASE enc = "RLE"     -> RleRows(o)
               [] enc = "BitPack" -> FrameRows(o.frame, type, Len(held))
               [] OTHER           -> DictRows(o, o.indices)

\* RleDecoder::DecodeAvx512 and DecodeAvx2: the rows of each run in vectors of w
\* stores and the rest one by one.
RleRowsVector(o, w) ==
    FlattenSeq([k \in 1 .. Len(o.runs) \div 2 |->
        LET n == o.runs[2 * k].v
        IN [i \in VectorRows(n, w) \cup TailRows(n, w) |-> o.runs[2 * k - 1].v]])

\* BitPackDecoder::DecodeAvx2_32: rows in groups of w and the rest one by one.
FrameRowsVector(frame, count, w) ==
    [i \in VectorRows(count, w) \cup TailRows(count, w) |-> FrameRows(frame, type, count)[i]]

Restored == CASE enc = "RLE"     -> RleRead(buffer)
              [] enc = "BitPack" -> BitPackRead(buffer)
              [] OTHER           -> DictRead(buffer)

\* Read and Decode; the caller goes on with the old object or the new one.
ObjectRead(keep) ==
    /\ phase = "written"
    /\ out' = [out EXCEPT !.data =
                  CASE enc = "FOR"    -> ForDecode(buffer, type, Len(held))
                    [] enc = "ZigZag" -> ForZigZagDecode(buffer, type, Len(held))
                    [] OTHER          -> RowsOf(Restored)]
    /\ obj' = IF keep \/ enc \in Direct THEN obj ELSE Restored
    /\ phase' = "restored"
    /\ UNCHANGED <<type, src, enc, buffer, held, picked, seen>>

\* Clear, and the object waits for the next column; a FOR object keeps nothing
\* that a second column could meet.
Refill ==
    /\ phase = "restored" /\ enc \notin Direct
    /\ Len(seen) < MaxColumns[type] - 1
    /\ src' = Clear(src)
    /\ seen' = Append(seen, [rows |-> Contents(src), indices |-> obj.indices])
    /\ held' = <<>> /\ out' = New(0) /\ buffer' = <<>>
    /\ phase' = "filled"
    /\ UNCHANGED <<type, enc, obj, picked>>
-----------------------------------------------------------------------------
\* The column has been delivered to its caller, or never will be.
Done == /\ phase \in {"decoded", "read", "restored", "picking", "looping", "crashed"}
        /\ UNCHANGED vars

Next ==
    \/ AppendOne \/ AppendMany \/ AppendNull
    \/ \E i \in DOMAIN held, null \in BOOLEAN : MarkNull(i, null)
    \/ FilterInto \/ CopyInto
    \/ (enc = NoEncoding /\ Encode) \/ Decode \/ ReadColumn
    \/ \E kind \in ObjectKinds, modulo \in BOOLEAN : ObjectEncode(kind, modulo)
    \/ ObjectWrite \/ (\E keep \in BOOLEAN : ObjectRead(keep)) \/ Refill
    \/ Done

Spec == Init /\ [][Next]_vars
-----------------------------------------------------------------------------
(* What was put into the column, for the properties.                       *)
Appended == [i \in DOMAIN held |-> held[i].value]

\* A column stands for these rows and no others.
Holds(col, rows) ==
    /\ col.size = Len(rows) /\ Len(col.data) = Len(rows) /\ Len(col.nulls) = Len(rows)
    /\ \A i \in DOMAIN rows : col.data[i] = rows[i].value /\ col.nulls[i] = rows[i].null

(***************************************************************************)
(* ColumnHolds: a column has the rows appended to it, values and null      *)
(* flags, and the column it was filtered and copied into has the rows      *)
(* taken, in order: data_, nulls_ and size_ never drift apart.  Said of    *)
(* columns made without a capacity (Capacities = {0}).                     *)
(***************************************************************************)
ColumnHolds == /\ Holds(src, held)
               /\ phase = "picking" => Holds(out, picked)

\* The rows that satisfy a comparison.
Mask(pred, v) == [i \in 1 .. Len(held) |-> Compare(pred, Appended[i], v)]

\* What the kernels that walk a column in two loops make of the rows.
LoopsAgree ==
    LET n == Len(held) IN
    phase = "filled" => \A w \in Widths :
        /\ \A pred \in ComparisonOps, v \in Values[type] :
               /\ FilterVector(pred, Contents(src), v, w) = Mask(pred, v)
               /\ EvaluateVector(pred, Contents(src), v, w) = Mask(pred, v)
        /\ SumVector(Contents(src), type, w) = Signed(Total(Appended), type)
        /\ n > 0 => /\ MinVector(Contents(src), w) = Min(ToSet(Appended))
                    /\ MaxVector(Contents(src), w) = Max(ToSet(Appended))
        /\ \A op \in {"Add", "Sub", "Mul"} :
               MapVector(op, Contents(src), Reverse(Contents(src)), type, w)
                   = [i \in 1 .. n |-> Arithmetic(op, Appended[i], Appended[n + 1 - i], type)]

(***************************************************************************)
(* KernelsAgree: the vectorised filter, sum, minimum, maximum and          *)
(* arithmetic of column.h visit every row once, whatever the column's      *)
(* length and the lanes of a vector, and decide as the scalar code does;   *)
(* RleDecoder::Filter, which compares runs, gives the mask of the rows;    *)
(* and the RLE decoders that store whole vectors, the AVX2 decoder of      *)
(* BitPack and the AVX2 gathers of a dictionary of the types GatherTypes   *)
(* give the rows that were encoded.  Nothing is said of the gathers of     *)
(* other types, nor of the AVX-512 decoders of FOR, BitPack and Dictionary.*)
(***************************************************************************)
KernelsAgree ==
    LET n == Len(held) IN
    /\ LoopsAgree
    /\ phase = "taken" /\ enc = "RLE" =>
           /\ \A pred \in ComparisonOps, v \in Values[type] : RleFilter(obj, pred, v) = Mask(pred, v)
           /\ \A w \in Widths : RleRowsVector(obj, w) = Appended
    /\ phase = "taken" /\ enc = "BitPack" =>
           \A w \in Widths : FrameRowsVector(obj.frame, n, w) = Appended
    /\ phase = "taken" /\ enc \in {"Build", "BuildSorted"} /\ type \in GatherTypes =>
           \A w \in Widths : GatherRows(obj, obj.indices, type, w) = Appended

(***************************************************************************)
(* RoundTrip: when an encoder has returned, a decoder that is told the     *)
(* number of rows gives back the column that was encoded: runs longer than *)
(* a run length can count, differences that wrap, offsets across words,    *)
(* empty columns and, but for BitPack, constant ones.  A column given to   *)
(* FOR has a range within the signed type; beyond it offsets spoil each    *)
(* other (encoding.h:361).                                                 *)
(***************************************************************************)
RoundTrip == phase = "decoded" /\ (enc = "FOR" => Spread(Appended) < HalfRange(type))
                 => Contents(out) = Appended

(***************************************************************************)
(* EncoderReturns, EncoderStaysInBounds: Encode comes back to its caller.  *)
(* Neither holds: FOR and BitPack count the bits of a 64-bit range beyond  *)
(* the signed type for ever, and BitPack writes to the first word of an    *)
(* empty vector when all values of a column are the same.                  *)
(***************************************************************************)
EncoderReturns == phase # "looping"
EncoderStaysInBounds == phase # "crashed"

(***************************************************************************)
(* SegmentReadsBack: a column read back from a segment is the column that  *)
(* was added to it, for the encodings that keep every row at the size of a *)
(* value: from these the size tells the row count.                         *)
(***************************************************************************)
SegmentReadsBack == phase = "read" /\ enc \in {"Plain", "Delta"} => Contents(out) = Appended

(***************************************************************************)
(* ObjectRoundTrip: a codec object decodes to the column it took last, and *)
(* so does the object restored from what it wrote, however many columns it *)
(* took before and whether it lived on or was restored in between; and a   *)
(* dictionary that grows still decodes, and still gives, the indices it    *)
(* gave for earlier columns.                                               *)
(***************************************************************************)
ObjectRoundTrip ==
    /\ phase = "taken" => RowsOf(obj) = Appended
    /\ phase = "restored" => out.data = Appended
    /\ enc = "Build" /\ ~MixedBuilds => \A k \in DOMAIN seen :
           /\ DictRows(obj, seen[k].indices) = seen[k].rows
           /\ LookUp(obj, seen[k].rows) = seen[k].indices
=============================================================================
