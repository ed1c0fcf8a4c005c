------------------------------- MODULE Codecs -------------------------------
(***************************************************************************)
(* The encoders and decoders of include/columnar/encoding/encoding.h, as   *)
(* operators from a column to a buffer and back.                           *)
(*                                                                         *)
(* A buffer is the sequence of fields appended to it, each with its value  *)
(* v and its width w in bytes: a decoder of the same encoding walks the    *)
(* same fields, and the buffer's size is the sum of their widths.  A field *)
(* past the end holds Garbage, a value nothing is equal to.                *)
(*                                                                         *)
(* The widths of the machine are parameters.  An "Int32" is a signed       *)
(* integer of NativeBits bits; an "Int64" and the uint64_t words have      *)
(* WordBits bits; a run length counts up to MaxRun (UINT32_MAX); a         *)
(* dictionary index of at most ByteBits bits (8) takes one byte.  A        *)
(* "Double" is a natural number made of two 4-byte halves, the low one     *)
(* v % HalfBase.                                                           *)
(***************************************************************************)
EXTENDS Integers, Sequences, FiniteSets, SequencesExt, FiniteSetsExt

CONSTANTS NativeBits, WordBits, MaxRun, ByteBits, HalfBase, Garbage

ASSUME WidthAssumption ==
    /\ {NativeBits, WordBits, MaxRun, ByteBits} \subseteq Nat \ {0}
    /\ HalfBase \in Nat \ {0, 1}
    /\ NativeBits < WordBits
    /\ {2 ^ (NativeBits - 1), 2 ^ (WordBits - 1)} \subseteq Nat \ {0}

EncodingTypes == {"Plain", "RLE", "Delta", "FOR", "Dictionary", "BitPack"}
DataTypes == {"Int32", "Int64", "Double"}

NativeBytes(type) == IF type = "Int32" THEN 4 ELSE 8

\* A signed type has as many negative values as others.
TypeBits(type) == IF type = "Int32" THEN NativeBits ELSE WordBits
HalfRange(type) == 2 ^ (TypeBits(type) - 1)
Natives(type) == IF type = "Double" THEN 0 .. HalfBase * HalfBase - 1
                 ELSE -HalfRange(type) .. HalfRange(type) - 1

\* A signed result of a type's width, as the machine leaves it.
Signed(v, type) == ((v + HalfRange(type)) % (2 * HalfRange(type))) - HalfRange(type)

Field(width, value) == [w |-> width, v |-> value]
Fields(width, values) == [i \in DOMAIN values |-> Field(width, values[i])]
Size(buffer) ==
    LET size[n \in 0 .. Len(buffer)] == IF n = 0 THEN 0 ELSE size[n - 1] + buffer[n].w
    IN size[Len(buffer)]
\* The sum of a sequence of numbers.
Total(values) ==
    LET sum[n \in 0 .. Len(values)] == IF n = 0 THEN 0 ELSE sum[n - 1] + values[n]
    IN sum[Len(values)]
Read(buffer, i) == IF i \in DOMAIN buffer THEN buffer[i].v ELSE Garbage

-----------------------------------------------------------------------------
(* Words as the sets of their 1 bits; a negative number has its two's      *)
(* complement bits.                                                        *)

BitsOf(v, width) == {b \in 0 .. width - 1 : (v \div 2 ^ b) % 2 = 1}
Val(bits) == MapThenSumSet(LAMBDA b : 2 ^ b, bits)
ShiftLeft(bits, n, width) == {b + n : b \in bits} \cap 0 .. width - 1
ShiftRight(bits, n) == {b - n : b \in {c \in bits : c >= n}}

CeilDiv(a, b) == (a + b - 1) \div b

\* while ((1ULL << bits) <= range) ++bits.
BitsNeeded(range) ==
    CHOOSE b \in 0 .. WordBits : 2 ^ b > range /\ \A c \in 0 .. b - 1 : 2 ^ c <= range

\* src[i] - min_val, converted to uint64_t.  The subtraction is one of the
\* column's type: when it overflows, the build may have wrapped it and extended
\* the sign, or computed it in 64 bits (wide).
Offset(type, v, min, wide) == IF wide THEN v - min ELSE Signed(v - min, type)

-----------------------------------------------------------------------------
(* Plain                                                                   *)

PlainEncode(type, src) == Fields(NativeBytes(type), src)
PlainDecode(buffer, count) == [i \in 1 .. count |-> Read(buffer, i)]

(* RLE: pairs of a value and its run length.                               *)

RLEEncode(type, src) ==
    LET Emit(s) == <<Field(NativeBytes(type), s.current), Field(4, s.run)>>
        Step(s, v) ==
            IF v = s.current /\ s.run < MaxRun
            THEN [s EXCEPT !.run = @ + 1]
            ELSE [done |-> s.done \o Emit(s), current |-> v, run |-> 1]
        state[n \in 1 .. Len(src)] ==
            IF n = 1 THEN [done |-> <<>>, current |-> src[1], run |-> 1]
            ELSE Step(state[n - 1], src[n])
        last == state[Len(src)]
    IN IF src = <<>> THEN <<>> ELSE last.done \o Emit(last)

\* out holds what it held before the call where no run reaches.
RLEDecode(buffer, out, count) ==
    LET Run(k) == [i \in 1 .. buffer[2 * k].v |-> buffer[2 * k - 1].v]
        runs == FlattenSeq([k \in 1 .. Len(buffer) \div 2 |-> Run(k)])
    IN [i \in 1 .. count |-> IF i <= Len(runs) THEN runs[i] ELSE out[i]]

(* Delta: the first value, then the differences.                           *)

DeltaEncode(type, src) ==
    [i \in DOMAIN src |->
        Field(NativeBytes(type), IF i = 1 THEN src[1] ELSE Signed(src[i] - src[i - 1], type))]

DeltaDecode(type, buffer, count) ==
    LET out[i \in 1 .. count] == IF i = 1 THEN Read(buffer, 1)
                                 ELSE Signed(out[i - 1] + Read(buffer, i), type)
    IN out

-----------------------------------------------------------------------------
(* FOR: min, max, the bits of the range, then 64-bit words that each hold  *)
(* as many whole offsets from min as fit.                                  *)

FORPack(offsets, bits) ==
    LET perWord == WordBits \div bits
        Slot(i) == ShiftLeft(BitsOf(offsets[i], WordBits), ((i - 1) % perWord) * bits, WordBits)
        In(k) == {i \in DOMAIN offsets : (i - 1) \div perWord = k - 1}
    IN [k \in 1 .. CeilDiv(Len(offsets), perWord) |-> Val(UNION {Slot(i) : i \in In(k)})]

FOREncode(type, src, wide) ==
    LET min == Min(ToSet(src))
        max == Max(ToSet(src))
        bits == BitsNeeded(max - min)
        offsets == [i \in DOMAIN src |-> Offset(type, src[i], min, wide)]
    IN IF src = <<>> THEN <<>>
       ELSE <<Field(NativeBytes(type), min), Field(NativeBytes(type), max), Field(1, bits)>>
            \o (IF bits = 0 THEN <<>> ELSE Fields(8, FORPack(offsets, bits)))

FORDecode(type, buffer, count) ==
    LET min == buffer[1].v
        bits == buffer[3].v
        perWord == WordBits \div bits
        Word(i) == Read(buffer, 4 + (i - 1) \div perWord)
        Slot(i) == ShiftRight(BitsOf(Word(i), WordBits), ((i - 1) % perWord) * bits)
                       \cap 0 .. bits - 1
    IN [i \in 1 .. count |->
           IF bits = 0 THEN min
           ELSE IF Word(i) = Garbage THEN Garbage
           ELSE Signed(min + Val(Slot(i)), type)]

(* BitPack: the same header, then words of the type's width in which an    *)
(* offset may lie across two of them.                                      *)

\* A faulty packing that forgets what lies across the end of a word.
BitPackWordsCut(type, offsets, bits) ==
    LET wordBits == TypeBits(type)
        Start(i) == (i - 1) * bits
        Own(k) == {i \in DOMAIN offsets : Start(i) \div wordBits = k - 1}
        Low(i) == ShiftLeft(BitsOf(offsets[i], wordBits), Start(i) % wordBits, wordBits)
    IN [k \in 1 .. CeilDiv(Len(offsets) * bits, wordBits) |-> Val(UNION {Low(i) : i \in Own(k)})]

BitPackWords(type, offsets, bits) ==
    LET wordBits == TypeBits(type)
        Start(i) == (i - 1) * bits
        Shift(i) == Start(i) % wordBits
        Own(k) == {i \in DOMAIN offsets : Start(i) \div wordBits = k - 1}
        Spilling(k) == {i \in Own(k - 1) : Shift(i) + bits > wordBits}
        Low(i) == ShiftLeft(BitsOf(offsets[i], wordBits), Shift(i), wordBits)
        High(i) == ShiftRight(BitsOf(offsets[i], wordBits), wordBits - Shift(i))
    IN [k \in 1 .. CeilDiv(Len(offsets) * bits, wordBits) |->
           Val(UNION ({Low(i) : i \in Own(k)} \cup {High(i) : i \in Spilling(k)}))]

\* packed[0] |= ... in a vector of no elements: no bits are needed for the one
\* value of a constant column, so the vector is empty, and the loop over the rows
\* writes to its first word all the same.
WritesBeyondPacked(src) == Len(src) > 0 /\ Min(ToSet(src)) = Max(ToSet(src))

\* The buffer when the encoder returns, which for a constant column it does not.
BitPackEncode(type, src, wide) ==
    LET min == Min(ToSet(src))
        max == Max(ToSet(src))
        bits == Min({BitsNeeded(max - min), TypeBits(type)})
        offsets == [i \in DOMAIN src |-> Offset(type, src[i], min, wide)]
    IN IF src = <<>> THEN <<>>
       ELSE <<Field(NativeBytes(type), min), Field(NativeBytes(type), max), Field(1, bits)>>
            \o Fields(NativeBytes(type), BitPackWords(type, offsets, bits))

\* With bits = 0, which the encoder never gets to the end with, the word read lies
\* past the buffer, and none of it is used.
BitPackDecode(type, buffer, count) ==
    LET wordBits == TypeBits(type)
        min == buffer[1].v
        bits == buffer[3].v
        Start(i) == (i - 1) * bits
        Shift(i) == Start(i) % wordBits
        Words(i) == {4 + Start(i) \div wordBits} \cup
            (IF Shift(i) + bits > wordBits THEN {5 + Start(i) \div wordBits} ELSE {})
        Bits(i) == UNION {ShiftLeft(BitsOf(Read(buffer, k), wordBits),
                                    (k - 4) * wordBits, Start(i) + bits) : k \in Words(i)}
    IN [i \in 1 .. count |->
           IF bits = 0 THEN min
           ELSE IF \E k \in Words(i) : Read(buffer, k) = Garbage THEN Garbage
           ELSE Signed(min + Val(ShiftRight(Bits(i), Start(i))), type)]

(* Dictionary: the sorted distinct values, then one index per row.         *)

IndexWidth(bits) ==
    IF bits <= ByteBits THEN 1 ELSE IF bits <= 2 * ByteBits THEN 2 ELSE 4

\* out.Append(indices.data(), count): count bytes, however wide an index is.
AppendIndices(indices, width) ==
    LET whole == Len(indices) \div width
        rest == Len(indices) % width
    IN Fields(width, SubSeq(indices, 1, whole))
       \o (IF rest = 0 THEN <<>> ELSE <<Field(rest, Garbage)>>)

DictEncode(type, src) ==
    LET dict == SetToSortSeq(ToSet(src), LAMBDA a, b : a < b)
        bits == CHOOSE b \in 0 .. 32 :
                    2 ^ b >= Len(dict) /\ \A c \in 0 .. b - 1 : 2 ^ c < Len(dict)
        indices == [i \in DOMAIN src |-> Cardinality({v \in ToSet(src) : v < src[i]})]
    IN IF src = <<>> THEN <<>>
       ELSE <<Field(4, Len(dict))>> \o Fields(NativeBytes(type), dict)
            \o <<Field(1, bits)>> \o AppendIndices(indices, IndexWidth(bits))

DictDecode(buffer, count) ==
    LET size == buffer[1].v
        bits == buffer[size + 2].v
        Index(i) == Read(buffer, size + 2 + i)
    IN [i \in 1 .. count |->
           IF bits = 0 THEN buffer[2].v
           ELSE IF Index(i) = Garbage THEN Garbage
           ELSE buffer[Index(i) + 2].v]

-----------------------------------------------------------------------------
(* CreateEncoder and CreateDecoder.  A Double has no Delta, FOR or BitPack *)
(* case: the switch falls to the Plain codec of Int32, which moves 4 bytes *)
(* per row.                                                                *)

FallsBack(enc, type) == type = "Double" /\ enc \in {"Delta", "FOR", "BitPack"}

Halves(src) == FlattenSeq([i \in DOMAIN src |-> <<src[i] % HalfBase, src[i] \div HalfBase>>])

PlainInt32Encode(src) == Fields(4, SubSeq(Halves(src), 1, Len(src)))
PlainInt32Decode(buffer, out, count) ==
    LET old == Halves(out)
        Half(h) == IF h <= count THEN buffer[h].v ELSE old[h]
    IN [i \in 1 .. count |-> Half(2 * i - 1) + HalfBase * Half(2 * i)]

EncodeColumn(enc, type, src, wide) ==
    CASE FallsBack(enc, type) -> PlainInt32Encode(src)
      [] enc = "Plain" -> PlainEncode(type, src)
      [] enc = "RLE" -> RLEEncode(type, src)
      [] enc = "Dictionary" -> DictEncode(type, src)
      [] enc = "Delta" /\ type # "Double" -> DeltaEncode(type, src)
      [] enc = "FOR" /\ type # "Double" -> FOREncode(type, src, wide)
      [] enc = "BitPack" /\ type # "Double" -> BitPackEncode(type, src, wide)

DecodeColumn(enc, type, buffer, out, count) ==
    CASE FallsBack(enc, type) -> PlainInt32Decode(buffer, out, count)
      [] enc = "RLE" -> RLEDecode(buffer, out, count)
      [] enc = "Plain" -> PlainDecode(buffer, count)
      [] count = 0 /\ enc \notin {"RLE", "Plain"} /\ ~FallsBack(enc, type) -> <<>>
      [] count > 0 /\ enc = "Dictionary" -> DictDecode(buffer, count)
      [] count > 0 /\ enc = "Delta" /\ type # "Double" -> DeltaDecode(type, buffer, count)
      [] count > 0 /\ enc = "FOR" /\ type # "Double" -> FORDecode(type, buffer, count)
      [] count > 0 /\ enc = "BitPack" /\ type # "Double" -> BitPackDecode(type, buffer, count)
=============================================================================
