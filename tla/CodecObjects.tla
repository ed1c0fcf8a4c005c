---------------------------- MODULE CodecObjects ----------------------------
(***************************************************************************)
(* The codec classes an application may use by itself: RleEncoder (rle.h), *)
(* DictionaryEncoder (dictionary.h), ForEncoder (for.h) and BitPackEncoder *)
(* (bitpack.h), with their decoders.  Unlike the codecs of                 *)
(* encoding/encoding.h an RLE or dictionary object keeps what it built,    *)
(* can be given another column, and is restored from the bytes it wrote.   *)
(*                                                                         *)
(* Buffers are those of Codecs.  ForEncoder and BitPackEncoder pack the    *)
(* bits of each value into uint64_t words one after the other, across word *)
(* ends, but shift them as values of the column's own unsigned type.       *)
(***************************************************************************)
EXTENDS Codecs, Predicates

\* The calls that encode a column: a dictionary has two.
ObjectKinds == {"RLE", "Build", "BuildSorted", "FOR", "ZigZag", "BitPack"}

\* runs_; dictionary_, value_to_id_ and indices_; a BitPackedData.
NewObject == [runs |-> <<>>, dict |-> <<>>, ids |-> <<>>, indices |-> <<>>,
              frame |-> [min |-> 0, bits |-> 0, words |-> <<>>]]
-----------------------------------------------------------------------------
(* RleEncoder and RleDecoder.                                              *)

\* An empty column returns before runs_ is cleared.
RleEncode(obj, type, src) ==
    IF src = <<>> THEN obj ELSE [obj EXCEPT !.runs = RLEEncode(type, src)]

RleWrite(obj) == <<Field(4, Len(obj.runs) \div 2)>> \o obj.runs

RleRead(buffer) == [NewObject EXCEPT !.runs = SubSeq(buffer, 2, 2 * buffer[1].v + 1)]

\* The rows the runs stand for.
RunRows(obj) == Total([k \in 1 .. Len(obj.runs) \div 2 |-> obj.runs[2 * k].v])

\* Decode, asked for all of them.
RleRows(obj) == RLEDecode(obj.runs, [i \in 1 .. RunRows(obj) |-> 0], RunRows(obj))

\* Filter: one comparison per run, written for each of its rows.
RleFilter(obj, pred, value) ==
    FlattenSeq([k \in 1 .. Len(obj.runs) \div 2 |->
        [i \in 1 .. obj.runs[2 * k].v |-> Compare(pred, obj.runs[2 * k - 1].v, value)]])
-----------------------------------------------------------------------------
(* DictionaryEncoder and DictionaryDecoder.                                *)

\* A faulty Build that starts its dictionary anew and keeps the ids.
BuildAnew(obj, src) ==
    LET Step(o, v) ==
            IF v \in DOMAIN o.ids THEN [o EXCEPT !.indices = Append(@, o.ids[v])]
            ELSE [o EXCEPT !.ids = @ @@ (v :> Len(o.dict)), !.dict = Append(@, v),
                           !.indices = Append(@, Len(o.dict))]
    IN FoldLeft(Step, [obj EXCEPT !.indices = <<>>, !.dict = <<>>], src)

\* The dictionary grows by the values it does not have yet.
Build(obj, src) ==
    LET Step(o, v) ==
            IF v \in DOMAIN o.ids THEN [o EXCEPT !.indices = Append(@, o.ids[v])]
            ELSE [o EXCEPT !.ids = @ @@ (v :> Len(o.dict)), !.dict = Append(@, v),
                           !.indices = Append(@, Len(o.dict))]
    IN FoldLeft(Step, [obj EXCEPT !.indices = <<>>], src)

\* The dictionary is replaced; the ids of values it no longer has stay.
BuildSorted(obj, src) ==
    LET Rank(v) == Cardinality({u \in ToSet(src) : u < v})
        ids == [v \in ToSet(src) |-> Rank(v)] @@ obj.ids
    IN [obj EXCEPT !.dict = SetToSortSeq(ToSet(src), LAMBDA a, b : a < b),
                   !.ids = ids, !.indices = [i \in DOMAIN src |-> ids[src[i]]]]

\* Encode and Decode.
LookUp(obj, values) == [i \in DOMAIN values |-> obj.ids[values[i]]]
DictRows(obj, indices) ==
    [i \in DOMAIN indices |-> IF indices[i] < Len(obj.dict) THEN obj.dict[indices[i] + 1] ELSE Garbage]

\* DecodeAvx2: gathers of w values, then the rows left over.  The gather of
\* 8-byte values takes its indices from 8-byte lanes, two indices in each.
GatherRows(obj, indices, type, w) ==
    LET n == Len(indices)
        Vector(i) == (i - 1) \div w < n \div w
        Pair(i) == i + ((i - 1) % w)
        Lane64(i) == IF Pair(i) < n /\ indices[Pair(i) + 1] = 0 THEN indices[Pair(i)] ELSE Len(obj.dict)
    IN DictRows(obj, [i \in 1 .. n |->
                         IF Vector(i) /\ NativeBytes(type) = 8 THEN Lane64(i) ELSE indices[i]])

\* Every index is written with the width its bits call for.
DictWrite(obj, type) ==
    LET bits == CHOOSE b \in 0 .. 32 :
                    2 ^ b >= Len(obj.dict) /\ \A c \in 0 .. b - 1 : 2 ^ c < Len(obj.dict)
        width == IndexWidth(bits)
        Narrow(i) == IF width = 4 THEN i ELSE i % 2 ^ (ByteBits * width)
    IN <<Field(4, Len(obj.dict))>> \o Fields(NativeBytes(type), obj.dict) \o <<Field(1, bits)>>
       \o Fields(width, [i \in DOMAIN obj.indices |-> Narrow(obj.indices[i])])

\* The row count is what is left of the buffer, by the width of an index.
DictRead(buffer) ==
    LET size == buffer[1].v
        dict == [i \in 1 .. size |-> buffer[i + 1].v]
        rest == SubSeq(buffer, size + 3, Len(buffer))
        count == Size(rest) \div IndexWidth(buffer[size + 2].v)
    IN [NewObject EXCEPT !.dict = dict,
                         !.ids = [v \in ToSet(dict) |-> (CHOOSE i \in 1 .. size : dict[i] = v) - 1],
                         !.indices = [i \in 1 .. count |-> rest[i].v]]
-----------------------------------------------------------------------------
(* ForEncoder and BitPackEncoder.                                          *)

\* while ((UnsignedType(1) << bits) <= range && bits < 64): when no power of
\* two of the type exceeds the range the loop runs to 64.
FrameBits(range, type) ==
    IF range >= 2 ^ (TypeBits(type) - 1) THEN WordBits ELSE BitsNeeded(range)

\* A shift of a value of the column's unsigned type.  A count of its width or
\* more is undefined: the machine takes it modulo the width, or the result is 0.
ShiftUp(bits, n, type, modulo) ==
    IF n < TypeBits(type) THEN ShiftLeft(bits, n, TypeBits(type))
    ELSE IF modulo THEN ShiftLeft(bits, n % TypeBits(type), TypeBits(type)) ELSE {}
ShiftDown(bits, n, type, modulo) ==
    IF n < TypeBits(type) THEN ShiftRight(bits, n)
    ELSE IF modulo THEN ShiftRight(bits, n % TypeBits(type)) ELSE {}

FrameWords(deltas, bits, type, modulo) ==
    LET Start(i) == (i - 1) * bits
        Shift(i) == Start(i) % WordBits
        Own(k) == {i \in DOMAIN deltas : Start(i) \div WordBits = k - 1}
        Spilling(k) == {i \in Own(k - 1) : Shift(i) + bits > WordBits}
        Low(i) == ShiftUp(BitsOf(deltas[i], TypeBits(type)), Shift(i), type, modulo)
        High(i) == ShiftDown(BitsOf(deltas[i], TypeBits(type)), WordBits - Shift(i), type, modulo)
    IN [k \in 1 .. CeilDiv(Len(deltas) * bits, WordBits) |->
           Val(UNION ({Low(i) : i \in Own(k)} \cup {High(i) : i \in Spilling(k)}))]

\* The frame of a column: its least value, the bits of its range, the packed
\* differences, all in the unsigned type.
FrameOf(src, type, modulo) ==
    LET min == Min(ToSet(src))
        bits == FrameBits(Max(ToSet(src)) - min, type)
        deltas == [i \in DOMAIN src |-> src[i] - min]
    IN [min |-> min, bits |-> bits,
        words |-> IF bits = 0 THEN <<>> ELSE FrameWords(deltas, bits, type, modulo)]

\* The header and the words of a frame of count values.
FrameFields(frame, type, count) ==
    <<Field(NativeBytes(type), frame.min), Field(1, frame.bits), Field(4, count)>>
    \o Fields(8, frame.words)

\* The difference at row i, out of one word or two, masked to the bits.
Unpacked(words, bits, i) ==
    LET word == ((i - 1) * bits) \div WordBits + 1
        shift == ((i - 1) * bits) % WordBits
        low == ShiftRight(BitsOf(words[word], WordBits), shift)
        high == IF shift + bits <= WordBits THEN {}
                ELSE ShiftLeft(BitsOf(words[word + 1], WordBits), WordBits - shift, WordBits)
    IN Val((low \cup high) \cap 0 .. bits - 1)

FrameRows(frame, type, count) ==
    [i \in 1 .. count |-> IF frame.bits = 0 THEN frame.min
                          ELSE Signed(frame.min + Unpacked(frame.words, frame.bits, i), type)]

\* ForEncoder::Encode writes its frame at once; an empty column writes nothing.
ForEncode(src, type, modulo) ==
    IF src = <<>> THEN <<>> ELSE FrameFields(FrameOf(src, type, modulo), type, Len(src))

\* The count is the caller's; the one stored is not looked at.
FrameRead(buffer) == [min |-> buffer[1].v, bits |-> buffer[2].v,
                      words |-> [k \in 1 .. Len(buffer) - 3 |-> buffer[k + 3].v]]
ForDecode(buffer, type, count) ==
    IF count = 0 THEN <<>> ELSE FrameRows(FrameRead(buffer), type, count)

\* ZigZagEncoder.  The value is unsigned when it is shifted right, so that only
\* its sign bit is left of it; the result is a value of the unsigned type.
Unsigned(v, type) == v % 2 ^ TypeBits(type)
ZigZag(v, type) ==
    LET bits == BitsOf(v, TypeBits(type))
        sign == ShiftRight(bits, TypeBits(type) - 1)
    IN Val(SymDiff(ShiftLeft(bits, 1, TypeBits(type)), sign))
ZagZig(u, type) ==
    LET bits == BitsOf(u, TypeBits(type))
        ones == IF 0 \in bits THEN 0 .. TypeBits(type) - 1 ELSE {}
    IN Signed(Val(SymDiff(ShiftRight(bits, 1), ones)), type)

\* ForZigZagEncoder: the frame of the zigzag values, its base decoded again.
ForZigZagEncode(src, type, modulo) ==
    LET frame == FrameOf([i \in DOMAIN src |-> ZigZag(src[i], type)], type, modulo)
    IN IF src = <<>> THEN <<>>
       ELSE FrameFields([frame EXCEPT !.min = ZagZig(@, type)], type, Len(src))

\* ForZigZagDecoder: the base is decoded once more where it should be encoded.
ForZigZagDecode(buffer, type, count) ==
    LET frame == FrameRead(buffer)
        base == ZagZig(frame.min, type)
    IN [i \in 1 .. count |->
           IF frame.bits = 0 THEN frame.min
           ELSE ZagZig(Unsigned(base + Unpacked(frame.words, frame.bits, i), type), type)]

BitPackFrame(obj, src, type, modulo) ==
    [obj EXCEPT !.frame = IF src = <<>> THEN NewObject.frame ELSE FrameOf(src, type, modulo)]

BitPackWrite(obj, type) == FrameFields(obj.frame, type, Len(obj.frame.words))

BitPackRead(buffer) ==
    [NewObject EXCEPT !.frame = [min |-> buffer[1].v, bits |-> buffer[2].v,
                                 words |-> [k \in 1 .. buffer[3].v |-> buffer[k + 3].v]]]
=============================================================================
