--------------------------- MODULE SegmentProofs ---------------------------
(***************************************************************************)
(* Proofs about a segment: how SegmentFile is laid out, and how            *)
(* SegmentReader reads it.                                                 *)
(*                                                                         *)
(* The writer, for any number and sizes of columns: the parts Finish       *)
(* writes never overlap each other or the header; and the header finds     *)
(* every part again that begins where 32 bits of an offset can say.        *)
(*                                                                         *)
(* The reader, for any set of callers and prefetch threads, any number of  *)
(* columns and calls: types, one object per column, and own bytes.         *)
(***************************************************************************)
EXTENDS SegmentFile, SegmentReader, SequenceTheorems, WellFoundedInduction, TLAPS
-----------------------------------------------------------------------------
(* SegmentFile *)

PartType == [kind : {"column", "zone", "bloom"}, col : Nat, at : Nat, size : Nat]

MetaType == [offset : Nat, size : Nat, zoneOffset : Nat, zoneSize : Nat,
             bloomOffset : Nat, bloomSize : Nat]

\* Types, and how far Finish is.
FileType ==
    /\ columns \in Seq(ColumnSizes) /\ Len(columns) <= MaxColumns
    /\ zoneMaps \in Seq(BOOLEAN) /\ blooms \in Seq({"default", "attached"})
    /\ file \subseteq PartType /\ position \in Nat
    /\ next \in 1 .. Len(columns) + 1
    /\ metas \in Seq(MetaType) /\ Len(metas) = next - 1
    /\ phase \in {"open", "writing", "closed"}
    /\ phase = "open" => next = 1 /\ file = {}
    /\ phase = "closed" => next = Len(columns) + 1

\* The writer's vectors remember every call of AddZoneMap and AddBloomFilter.
AttachedInv == \A i \in Nat \ {0} :
    /\ [kind |-> "zone", col |-> i] \in attached <=> i <= Len(zoneMaps) /\ zoneMaps[i]
    /\ [kind |-> "bloom", col |-> i] \in attached => i <= Len(blooms)

\* The parts lie one behind the other between the header and the file position.
LayoutInv ==
    /\ phase # "open" => position >= HeaderSize
    /\ \A p \in file : p.at >= HeaderSize /\ p.at + p.size <= position
    /\ \A p, q \in file : p # q => p.at + p.size <= q.at \/ q.at + q.size <= p.at
-----------------------------------------------------------------------------
\* What resize and the assignment of AddZoneMap and AddBloomFilter make of their
\* vector: the old elements, then fillers, at least n, and e at n.
Attach(s, n, filler, e) == [Resize(s, n, filler) EXCEPT ![n] = e]

Extends(r, S, s, n, filler, e) ==
    /\ r \in Seq(S) /\ Len(r) >= n /\ Len(r) >= Len(s)
    /\ r[n] = e
    /\ \A i \in 1 .. Len(r) : i # n => /\ i <= Len(s) => r[i] = s[i]
                                       /\ i > Len(s) => r[i] = filler

LEMMA AttachProperties ==
    ASSUME NEW S, NEW s \in Seq(S), NEW n \in Nat \ {0}, NEW filler \in S, NEW e \in S
    PROVE  Extends(Attach(s, n, filler, e), S, s, n, filler, e)
<1> DEFINE q == Resize(s, n, filler)
           r == Attach(s, n, filler, e)
<1>1. /\ q \in Seq(S) /\ Len(q) >= n /\ Len(q) >= Len(s)
      /\ \A i \in 1 .. Len(q) : /\ i <= Len(s) => q[i] = s[i]
                                /\ i > Len(s) => q[i] = filler
  <2> DEFINE k == IF n > Len(s) THEN n - Len(s) ELSE 0
             t == [i \in 1 .. k |-> filler]
  <2>1. Len(s) \in Nat /\ k \in Nat /\ Len(s) + k >= n /\ Len(s) + k >= Len(s)
    BY LenProperties
  <2> HIDE DEF k
  <2>2. t \in Seq(S) /\ Len(t) = k /\ \A i \in 1 .. k : t[i] = filler
    BY <2>1
  <2> HIDE DEF t
  <2>3. /\ s \o t \in Seq(S) /\ Len(s \o t) = Len(s) + k
        /\ \A i \in 1 .. Len(s) + k :
              (s \o t)[i] = IF i <= Len(s) THEN s[i] ELSE t[i - Len(s)]
    BY <2>1, <2>2, ConcatProperties
  <2>4. q = s \o t
    BY DEF Resize, k, t
  <2>5. \A i \in 1 .. Len(s) + k : ~(i <= Len(s)) => t[i - Len(s)] = filler
    BY <2>1, <2>2
  <2> HIDE DEF q
  <2>6. q \in Seq(S) /\ Len(q) = Len(s) + k
    BY <2>3, <2>4
  <2>7. ASSUME NEW i \in 1 .. Len(s) + k
        PROVE  (i <= Len(s) => q[i] = s[i]) /\ (i > Len(s) => q[i] = filler)
    <3>1. q[i] = IF i <= Len(s) THEN s[i] ELSE t[i - Len(s)]
      BY <2>3, <2>4
    <3>2. i > Len(s) => ~(i <= Len(s))
      BY <2>1
    <3> QED
      BY <2>5, <3>1, <3>2
  <2> QED
    BY <2>1, <2>6, <2>7
<1> HIDE DEF q
<1>2. Len(q) \in Nat /\ n \in 1 .. Len(q)
  BY <1>1, LenProperties
<1>3. r = [q EXCEPT ![n] = e]
  BY DEF q, Attach
<1> HIDE DEF r
<1>4. /\ [q EXCEPT ![n] = e] \in Seq(S) /\ Len([q EXCEPT ![n] = e]) = Len(q)
      /\ \A j \in 1 .. Len(q) : [q EXCEPT ![n] = e][j] = IF j = n THEN e ELSE q[j]
  BY <1>1, <1>2, ExceptSeq
<1>5. r \in Seq(S) /\ Len(r) = Len(q)
  BY <1>3, <1>4, Zenon
<1>6. \A j \in 1 .. Len(q) : r[j] = IF j = n THEN e ELSE q[j]
  BY <1>3, <1>4, Zenon
<1>7. r[n] = e
  BY <1>2, <1>6
<1>8. ASSUME NEW i \in 1 .. Len(r), i # n
      PROVE  (i <= Len(s) => r[i] = s[i]) /\ (i > Len(s) => r[i] = filler)
  <2>1. i \in 1 .. Len(q)
    BY <1>5
  <2>2. r[i] = q[i]
    BY <1>6, <1>8, <2>1
  <2>3. (i <= Len(s) => q[i] = s[i]) /\ (i > Len(s) => q[i] = filler)
    BY <1>1, <2>1, Zenon
  <2> QED
    BY <2>2, <2>3, Zenon
<1> QED
  BY <1>1, <1>5, <1>7, <1>8 DEF r, Extends

\* One iteration of Finish, part by part.
ZoneHere  == next <= Len(zoneMaps) /\ zoneMaps[next]
BloomHere == next <= Len(blooms)
ColumnPart == PartAt("column", position, columns[next])
ZonePart   == PartAt("zone", position + columns[next], ZoneSize)
BloomAt    == position + columns[next] + (IF ZoneHere THEN ZoneSize ELSE 0)
BloomPart  == PartAt("bloom", BloomAt, BloomSize)

LEMMA FinishColumnEffect ==
    ASSUME FileType, FinishColumn
    PROVE  /\ columns[next] \in Nat /\ next \in Nat \ {0} /\ next <= Len(columns)
           /\ ColumnPart \in PartType /\ ZonePart \in PartType /\ BloomPart \in PartType
           /\ BloomAt \in Nat /\ BloomAt >= position + columns[next]
           /\ ZoneHere => BloomAt = position + columns[next] + ZoneSize
           /\ ColumnPart.at = position /\ ColumnPart.size = columns[next]
           /\ ZonePart.at = position + columns[next] /\ ZonePart.size = ZoneSize
           /\ BloomPart.at = BloomAt /\ BloomPart.size = BloomSize
           /\ \A p : p \in file' <=> \/ p \in file \/ p = ColumnPart
                                     \/ ZoneHere /\ p = ZonePart
                                     \/ BloomHere /\ p = BloomPart
           /\ position' \in Nat
           /\ BloomHere => position' = BloomAt + BloomSize
           /\ ~BloomHere => position' = BloomAt
<1>a. position \in Nat
  BY DEF FileType
<1>1. columns[next] \in Nat /\ next \in Nat \ {0} /\ next <= Len(columns)
  <2>1. Len(columns) \in Nat /\ next \in 1 .. Len(columns)
    BY LenProperties DEF FileType, FinishColumn
  <2>2. columns[next] \in ColumnSizes
    BY <2>1, ElementOfSeq DEF FileType
  <2>3. columns[next] \in Nat
    BY <2>2, FileAssumption
  <2> QED
    BY <2>1, <2>3
<1>2. /\ BloomAt \in Nat /\ BloomAt >= position + columns[next]
      /\ ZoneHere => BloomAt = position + columns[next] + ZoneSize
  BY <1>a, <1>1, FileAssumption DEF BloomAt
<1>3. /\ ColumnPart \in PartType /\ ZonePart \in PartType /\ BloomPart \in PartType
      /\ ColumnPart.at = position /\ ColumnPart.size = columns[next]
      /\ ZonePart.at = position + columns[next] /\ ZonePart.size = ZoneSize
      /\ BloomPart.at = BloomAt /\ BloomPart.size = BloomSize
  BY <1>a, <1>1, <1>2, FileAssumption DEF ColumnPart, ZonePart, BloomPart, PartAt, PartType
<1>4. file' = file \cup {ColumnPart} \cup (IF ZoneHere THEN {ZonePart} ELSE {})
                   \cup (IF BloomHere THEN {BloomPart} ELSE {})
  BY DEF FinishColumn, ColumnPart, ZonePart, BloomPart, ZoneHere, BloomHere, BloomAt
<1>5. position' = BloomAt + (IF BloomHere THEN BloomSize ELSE 0)
  BY DEF FinishColumn, ZoneHere, BloomHere, BloomAt
<1>6. \A p : p \in file' <=> \/ p \in file \/ p = ColumnPart
                             \/ ZoneHere /\ p = ZonePart
                             \/ BloomHere /\ p = BloomPart
  BY <1>4
<1>7. /\ position' \in Nat
      /\ BloomHere => position' = BloomAt + BloomSize
      /\ ~BloomHere => position' = BloomAt
  BY <1>2, <1>5, FileAssumption
<1> QED
  BY <1>1, <1>2, <1>3, <1>6, <1>7

\* The meta Finish appends.
NewMeta == [offset |-> U32(position), size |-> U32(columns[next]),
            zoneOffset |-> IF ZoneHere THEN U32(position + columns[next]) ELSE 0,
            zoneSize |-> IF ZoneHere THEN U32(ZoneSize) ELSE 0,
            bloomOffset |-> IF BloomHere THEN U32(BloomAt) ELSE 0,
            bloomSize |-> IF BloomHere THEN U32(BloomSize) ELSE 0]

LEMMA FinishMeta ==
    ASSUME FileType, FinishColumn
    PROVE  /\ NewMeta \in MetaType /\ metas' = Append(metas, NewMeta)
           /\ metas' \in Seq(MetaType) /\ Len(metas') = next /\ metas'[next] = NewMeta
           /\ \A i \in 1 .. next - 1 : metas'[i] = metas[i]
<1>1. \A n \in Nat : U32(n) \in Nat
  BY FileAssumption DEF U32
<1>2. position \in Nat /\ columns[next] \in Nat /\ BloomAt \in Nat /\ next \in Nat \ {0}
  BY FinishColumnEffect DEF FileType
<1>3. /\ U32(position) \in Nat /\ U32(columns[next]) \in Nat /\ U32(BloomAt) \in Nat
      /\ U32(position + columns[next]) \in Nat /\ U32(ZoneSize) \in Nat /\ U32(BloomSize) \in Nat
  BY <1>1, <1>2, FileAssumption
<1>4. NewMeta \in MetaType
  BY <1>3 DEF NewMeta, MetaType
<1>5. metas' = Append(metas, NewMeta)
  BY DEF FinishColumn, NewMeta, ZoneHere, BloomHere, BloomAt
<1> HIDE DEF NewMeta
<1>6. metas \in Seq(MetaType) /\ Len(metas) = next - 1
  BY DEF FileType
<1> QED
  BY <1>2, <1>4, <1>5, <1>6

LEMMA AddZoneMapEffect ==
    ASSUME FileType, NEW col \in Indices, AddZoneMap(col)
    PROVE  /\ zoneMaps' \in Seq(BOOLEAN) /\ Len(zoneMaps') >= col
           /\ Len(zoneMaps') >= Len(zoneMaps) /\ Len(zoneMaps') \in Nat /\ zoneMaps'[col]
           /\ \A i \in 1 .. Len(zoneMaps') : i # col =>
                 /\ i <= Len(zoneMaps) => zoneMaps'[i] = zoneMaps[i]
                 /\ i > Len(zoneMaps) => ~zoneMaps'[i]
<1>1. /\ zoneMaps \in Seq(BOOLEAN) /\ col \in Nat \ {0}
      /\ FALSE \in BOOLEAN /\ TRUE \in BOOLEAN
      /\ zoneMaps' = [Resize(zoneMaps, col, FALSE) EXCEPT ![col] = TRUE]
  BY FileAssumption DEF FileType, Indices, AddZoneMap
<1> DEFINE B == BOOLEAN
           No == FALSE
           Yes == TRUE
<1>a. /\ zoneMaps \in Seq(B) /\ No \in B /\ Yes \in B
      /\ zoneMaps' = Attach(zoneMaps, col, No, Yes)
  BY <1>1 DEF Attach
<1>c. col \in Nat \ {0}
  BY <1>1
<1> HIDE DEF B, No, Yes
<1>b. Extends(zoneMaps', B, zoneMaps, col, No, Yes)
  BY <1>a, <1>c, AttachProperties, Zenon
<1>2. /\ zoneMaps' \in Seq(BOOLEAN) /\ Len(zoneMaps') >= col /\ Len(zoneMaps') >= Len(zoneMaps)
      /\ zoneMaps'[col] = TRUE
      /\ \A i \in 1 .. Len(zoneMaps') : i # col =>
            /\ i <= Len(zoneMaps) => zoneMaps'[i] = zoneMaps[i]
            /\ i > Len(zoneMaps) => zoneMaps'[i] = FALSE
  BY <1>b, Zenon DEF B, No, Yes, Extends
<1> QED
  BY <1>2, LenProperties

LEMMA AddBloomFilterEffect ==
    ASSUME FileType, NEW col \in Indices, AddBloomFilter(col)
    PROVE  /\ blooms' \in Seq({"default", "attached"}) /\ Len(blooms') \in Nat
           /\ Len(blooms') >= col /\ Len(blooms') >= Len(blooms)
<1>1. /\ blooms \in Seq({"default", "attached"}) /\ col \in Nat \ {0}
      /\ "default" \in {"default", "attached"} /\ "attached" \in {"default", "attached"}
      /\ blooms' = [Resize(blooms, col, "default") EXCEPT ![col] = "attached"]
  BY FileAssumption DEF FileType, Indices, AddBloomFilter
<1> DEFINE S == {"default", "attached"}
<1>a. /\ blooms \in Seq(S) /\ "default" \in S /\ "attached" \in S
      /\ blooms' = Attach(blooms, col, "default", "attached")
  BY <1>1 DEF Attach
<1>c. col \in Nat \ {0}
  BY <1>1
<1> HIDE DEF S
<1>b. Extends(blooms', S, blooms, col, "default", "attached")
  BY <1>a, <1>c, AttachProperties, Zenon
<1>2. /\ blooms' \in Seq({"default", "attached"})
      /\ Len(blooms') >= col /\ Len(blooms') >= Len(blooms)
  BY <1>b, Zenon DEF S, Extends
<1> QED
  BY <1>2, LenProperties
-----------------------------------------------------------------------------
LEMMA FileInit == ASSUME WriterInit PROVE FileType /\ AttachedInv /\ LayoutInv
<1>1. FileType
  BY FileAssumption DEF WriterInit, FileType
<1>2. AttachedInv
  BY DEF WriterInit, AttachedInv
<1>3. LayoutInv
  BY DEF WriterInit, LayoutInv
<1> QED
  BY <1>1, <1>2, <1>3

LEMMA FileTypeStep == ASSUME FileType, [WriterNext]_writerVars PROVE FileType'
<1>1. ASSUME NEW size \in ColumnSizes, AddColumn(size) PROVE FileType'
  <2>1. columns' = Append(columns, size) /\ columns \in Seq(ColumnSizes) /\ Len(columns) < MaxColumns
    BY <1>1 DEF AddColumn, FileType
  <2>2. columns' \in Seq(ColumnSizes) /\ Len(columns') = Len(columns) + 1 /\ Len(columns) \in Nat
    BY <2>1
  <2> QED
    BY <1>1, <2>1, <2>2, FileAssumption DEF AddColumn, FileType
<1>2. ASSUME NEW col \in Indices, AddZoneMap(col) PROVE FileType'
  BY <1>2, AddZoneMapEffect DEF AddZoneMap, FileType
<1>3. ASSUME NEW col \in Indices, AddBloomFilter(col) PROVE FileType'
  BY <1>3, AddBloomFilterEffect DEF AddBloomFilter, FileType
<1>4. CASE BeginFinish
  <2>1. position' \in Nat
    <3>1. Len(columns) \in Nat
      BY LenProperties DEF FileType
    <3>2. Len(columns) * MetaSize \in Nat
      BY <3>1, FileAssumption
    <3> QED
      BY <1>4, <3>2, FileAssumption DEF BeginFinish
  <2> QED
    BY <1>4, <2>1 DEF BeginFinish, FileType
<1>5. CASE FinishColumn
  <2>1. /\ position' \in Nat /\ file' \subseteq PartType
        /\ metas' \in Seq(MetaType) /\ Len(metas') = next
        /\ next \in Nat \ {0} /\ next <= Len(columns)
    BY <1>5, FinishColumnEffect, FinishMeta DEF FileType
  <2>2. /\ next' = next + 1 /\ phase = "writing"
        /\ UNCHANGED <<columns, zoneMaps, blooms, phase, attached>>
    BY <1>5 DEF FinishColumn
  <2>3. Len(columns) \in Nat
    BY LenProperties DEF FileType
  <2>4. next' \in 1 .. Len(columns') + 1 /\ Len(metas') = next' - 1
    BY <2>1, <2>2, <2>3
  <2> QED
    BY <2>1, <2>2, <2>4 DEF FileType
<1>6. CASE WriteHeader
  BY <1>6 DEF WriteHeader, FileType
<1>7. CASE UNCHANGED writerVars
  BY <1>7 DEF writerVars, FileType
<1> QED
  BY <1>1, <1>2, <1>3, <1>4, <1>5, <1>6, <1>7 DEF WriterNext

LEMMA AttachedStep == ASSUME FileType, AttachedInv, [WriterNext]_writerVars PROVE AttachedInv'
<1>1. ASSUME NEW size \in ColumnSizes, AddColumn(size) PROVE AttachedInv'
  BY <1>1 DEF AddColumn, AttachedInv
<1>2. ASSUME NEW col \in Indices, AddZoneMap(col) PROVE AttachedInv'
  <2>1. /\ attached' = attached \cup {[kind |-> "zone", col |-> col]} /\ blooms' = blooms
    BY <1>2 DEF AddZoneMap
  <2>2. ASSUME NEW i \in Nat \ {0}
        PROVE  /\ [kind |-> "zone", col |-> i] \in attached' <=>
                     i <= Len(zoneMaps') /\ zoneMaps'[i]
               /\ [kind |-> "bloom", col |-> i] \in attached' => i <= Len(blooms')
    <3>1. /\ [kind |-> "zone", col |-> i] \in attached' <=>
                [kind |-> "zone", col |-> i] \in attached \/ i = col
          /\ [kind |-> "bloom", col |-> i] \in attached' <=>
                [kind |-> "bloom", col |-> i] \in attached
      BY <2>1
    <3>2. Len(zoneMaps) \in Nat
      BY LenProperties DEF FileType
    <3>3. i <= Len(zoneMaps') /\ zoneMaps'[i] <=> (i <= Len(zoneMaps) /\ zoneMaps[i]) \/ i = col
      <4>1. CASE i = col
        BY <1>2, <4>1, AddZoneMapEffect
      <4>2. CASE i # col /\ i <= Len(zoneMaps)
        <5>1. i \in 1 .. Len(zoneMaps') /\ i <= Len(zoneMaps')
          BY <1>2, <4>2, <3>2, AddZoneMapEffect
        <5>2. zoneMaps'[i] = zoneMaps[i]
          BY <1>2, <4>2, <5>1, AddZoneMapEffect
        <5> QED
          BY <4>2, <5>1, <5>2
      <4>3. CASE i # col /\ ~(i <= Len(zoneMaps))
        <5>1. ASSUME i <= Len(zoneMaps') PROVE ~zoneMaps'[i]
          <6>1. i \in 1 .. Len(zoneMaps') /\ i > Len(zoneMaps)
            BY <1>2, <4>3, <3>2, <5>1, AddZoneMapEffect
          <6> QED
            BY <1>2, <4>3, <6>1, AddZoneMapEffect
        <5> QED
          BY <4>3, <5>1
      <4> QED
        BY <4>1, <4>2, <4>3
    <3> QED
      BY <2>1, <3>1, <3>3 DEF AttachedInv
  <2> QED
    BY <2>2 DEF AttachedInv
<1>3. ASSUME NEW col \in Indices, AddBloomFilter(col) PROVE AttachedInv'
  <2>1. /\ attached' = attached \cup {[kind |-> "bloom", col |-> col]} /\ zoneMaps' = zoneMaps
        /\ Len(blooms') \in Nat /\ Len(blooms') >= col /\ Len(blooms') >= Len(blooms)
    BY <1>3, AddBloomFilterEffect DEF AddBloomFilter
  <2>2. ASSUME NEW i \in Nat \ {0}
        PROVE  /\ [kind |-> "zone", col |-> i] \in attached' <=>
                     i <= Len(zoneMaps') /\ zoneMaps'[i]
               /\ [kind |-> "bloom", col |-> i] \in attached' => i <= Len(blooms')
    <3>1. /\ [kind |-> "zone", col |-> i] \in attached' <=>
                [kind |-> "zone", col |-> i] \in attached
          /\ [kind |-> "bloom", col |-> i] \in attached' <=>
                [kind |-> "bloom", col |-> i] \in attached \/ i = col
      BY <2>1
    <3>2. Len(blooms) \in Nat
      BY LenProperties DEF FileType
    <3>3. [kind |-> "bloom", col |-> i] \in attached' => i <= Len(blooms')
      <4>1. CASE i = col
        BY <2>1, <4>1
      <4>2. CASE i # col
        <5>1. [kind |-> "bloom", col |-> i] \in attached' => i <= Len(blooms)
          BY <3>1, <4>2 DEF AttachedInv
        <5> QED
          BY <2>1, <3>2, <5>1
      <4> QED
        BY <4>1, <4>2
    <3> QED
      BY <2>1, <3>1, <3>3 DEF AttachedInv
  <2> QED
    BY <2>2 DEF AttachedInv
<1>4. CASE BeginFinish
  BY <1>4 DEF BeginFinish, AttachedInv
<1>5. CASE FinishColumn
  BY <1>5 DEF FinishColumn, AttachedInv
<1>6. CASE WriteHeader
  BY <1>6 DEF WriteHeader, AttachedInv
<1>7. CASE UNCHANGED writerVars
  BY <1>7 DEF writerVars, AttachedInv
<1> QED
  BY <1>1, <1>2, <1>3, <1>4, <1>5, <1>6, <1>7 DEF WriterNext

LEMMA LayoutStep == ASSUME FileType, LayoutInv, [WriterNext]_writerVars PROVE LayoutInv'
<1>1. ASSUME NEW size \in ColumnSizes, AddColumn(size) PROVE LayoutInv'
  BY <1>1 DEF AddColumn, LayoutInv, FileType
<1>2. ASSUME NEW col \in Indices, AddZoneMap(col) \/ AddBloomFilter(col) PROVE LayoutInv'
  BY <1>2 DEF AddZoneMap, AddBloomFilter, LayoutInv, HeaderSize
<1>3. CASE BeginFinish
  <2>1. position' = HeaderSize' /\ file' = {}
    BY <1>3 DEF BeginFinish, HeaderSize, FileType
  <2>2. HeaderSize' \in Int
    <3>1. Len(columns) \in Nat /\ columns' = columns
      BY <1>3, LenProperties DEF FileType, BeginFinish
    <3>2. Len(columns) * MetaSize \in Nat
      BY <3>1, FileAssumption
    <3> QED
      BY <3>1, <3>2, FileAssumption DEF HeaderSize
  <2> QED
    BY <2>1, <2>2 DEF LayoutInv
<1>4. CASE FinishColumn
  <2>1. /\ columns[next] \in Nat /\ position \in Nat /\ file \subseteq PartType
        /\ BloomAt \in Nat /\ BloomAt >= position + columns[next]
        /\ ZoneHere => BloomAt = position + columns[next] + ZoneSize
        /\ ColumnPart.at = position /\ ColumnPart.size = columns[next]
        /\ ZonePart.at = position + columns[next] /\ ZonePart.size = ZoneSize
        /\ BloomPart.at = BloomAt /\ BloomPart.size = BloomSize
        /\ position' \in Nat
        /\ BloomHere => position' = BloomAt + BloomSize
        /\ ~BloomHere => position' = BloomAt
    BY <1>4, FinishColumnEffect DEF FileType
  <2>2. \A p : p \in file' <=> \/ p \in file \/ p = ColumnPart
                               \/ ZoneHere /\ p = ZonePart
                               \/ BloomHere /\ p = BloomPart
    BY <1>4, FinishColumnEffect
  <2>3. /\ HeaderSize' = HeaderSize /\ position >= HeaderSize /\ HeaderSize \in Nat
        /\ phase = "writing" /\ columns' = columns
    <3>1. Len(columns) \in Nat
      BY LenProperties DEF FileType
    <3>2. Len(columns) * MetaSize \in Nat
      BY <3>1, FileAssumption
    <3> QED
      BY <1>4, <3>1, <3>2, FileAssumption DEF FinishColumn, HeaderSize, LayoutInv
  <2>4. position' >= position
    BY <2>1, FileAssumption
  <2>5. \A p \in file : p.at \in Nat /\ p.size \in Nat
    BY <2>1 DEF PartType
  <2>6. \A p \in file : p.at >= HeaderSize /\ p.at + p.size <= position
    BY DEF LayoutInv
  <2>7. ASSUME NEW p \in file' PROVE p.at >= HeaderSize' /\ p.at + p.size <= position'
    BY <2>1, <2>2, <2>3, <2>4, <2>5, <2>6, FileAssumption
  <2>8. ASSUME NEW p \in file', NEW q \in file', p # q
        PROVE  p.at + p.size <= q.at \/ q.at + q.size <= p.at
    <3>1. CASE p \in file /\ q \in file
      BY <2>8, <3>1 DEF LayoutInv
    <3>2. CASE p \in file /\ q \notin file
      BY <2>1, <2>2, <2>5, <2>6, <3>2, FileAssumption
    <3>3. CASE p \notin file /\ q \in file
      BY <2>1, <2>2, <2>5, <2>6, <3>3, FileAssumption
    <3>4. CASE p \notin file /\ q \notin file
      BY <2>1, <2>2, <2>8, <3>4, FileAssumption
    <3> QED
      BY <3>1, <3>2, <3>3, <3>4
  <2> QED
    BY <2>3, <2>1, <2>4, <2>7, <2>8 DEF LayoutInv
<1>5. CASE WriteHeader
  BY <1>5 DEF WriteHeader, LayoutInv, HeaderSize
<1>6. CASE UNCHANGED writerVars
  BY <1>6 DEF writerVars, LayoutInv, HeaderSize
<1> QED
  BY <1>1, <1>2, <1>3, <1>4, <1>5, <1>6 DEF WriterNext

(***************************************************************************)
(* FileHeaderOverwritesNothing: whatever is attached in whatever order,    *)
(* and whatever the sizes, no part lies under the header Finish writes     *)
(* last and no two parts share a byte: the parts lie one behind the other. *)
(***************************************************************************)
THEOREM FileHeaderOverwritesNothing == WriterSpec => []HeaderOverwritesNothing
<1>1. LayoutInv => HeaderOverwritesNothing
  BY DEF LayoutInv, HeaderOverwritesNothing
<1>2. WriterInit => FileType /\ LayoutInv
  BY FileInit
<1>3. FileType /\ LayoutInv /\ [WriterNext]_writerVars => (FileType /\ LayoutInv)'
  BY FileTypeStep, LayoutStep
<1> QED
  BY <1>1, <1>2, <1>3, PTL DEF WriterSpec
-----------------------------------------------------------------------------
\* The file holds the part of this kind and column where the header would say, the
\* position and the size cut to 32 bits.
Recorded(kind, i, offset, size) ==
    \E p \in file : p.kind = kind /\ p.col = i /\ offset = U32(p.at) /\ size = U32(p.size)

HasZone(i) == i <= Len(zoneMaps) /\ zoneMaps[i]

RecordedAt(i) ==
    /\ Recorded("column", i, metas[i].offset, metas[i].size)
    /\ HasZone(i) => Recorded("zone", i, metas[i].zoneOffset, metas[i].zoneSize)
    /\ ~HasZone(i) => metas[i].zoneSize = 0
    /\ i <= Len(blooms) => Recorded("bloom", i, metas[i].bloomOffset, metas[i].bloomSize)

\* Each column Finish is through with is recorded.
RecordedInv == \A i \in 1 .. next - 1 : RecordedAt(i)

LEMMA RecordedStep == ASSUME FileType, RecordedInv, [WriterNext]_writerVars PROVE RecordedInv'
<1>1. CASE phase = "open"
  <2>1. next = 1
    BY <1>1 DEF FileType
  <2>2. next' = next
    BY <1>1 DEF WriterNext, writerVars, AddColumn, AddZoneMap, AddBloomFilter, BeginFinish, FinishColumn, WriteHeader
  <2> QED
    BY <2>1, <2>2 DEF RecordedInv
<1>2. CASE FinishColumn
  <2>1. /\ next' = next + 1 /\ zoneMaps' = zoneMaps /\ blooms' = blooms /\ next \in Nat \ {0}
    BY <1>2, FinishColumnEffect DEF FinishColumn
  <2>2. /\ \A p : p \in file' <=> \/ p \in file \/ p = ColumnPart
                                  \/ ZoneHere /\ p = ZonePart
                                  \/ BloomHere /\ p = BloomPart
    BY <1>2, FinishColumnEffect
  <2>3. metas'[next] = NewMeta /\ \A i \in 1 .. next - 1 : metas'[i] = metas[i]
    BY <1>2, FinishMeta
  <2>4. ASSUME NEW i \in 1 .. next - 1 PROVE RecordedAt(i)'
    <3>1. RecordedAt(i) /\ metas'[i] = metas[i]
      BY <2>3 DEF RecordedInv
    <3>2. \A p \in file : p \in file'
      BY <2>2
    <3>3. HasZone(i)' <=> HasZone(i)
      BY <2>1 DEF HasZone
    <3> QED
      BY <2>1, <3>1, <3>2, <3>3 DEF RecordedAt, Recorded, U32
  <2>5. /\ metas'[next].offset = U32(position) /\ metas'[next].size = U32(columns[next])
        /\ ZoneHere => /\ metas'[next].zoneOffset = U32(position + columns[next])
                       /\ metas'[next].zoneSize = U32(ZoneSize)
        /\ ~ZoneHere => metas'[next].zoneSize = 0
        /\ BloomHere => /\ metas'[next].bloomOffset = U32(BloomAt)
                        /\ metas'[next].bloomSize = U32(BloomSize)
    BY <2>3 DEF NewMeta
  <2>6. /\ ColumnPart.kind = "column" /\ ColumnPart.col = next
        /\ ColumnPart.at = position /\ ColumnPart.size = columns[next]
        /\ ZonePart.kind = "zone" /\ ZonePart.col = next
        /\ ZonePart.at = position + columns[next] /\ ZonePart.size = ZoneSize
        /\ BloomPart.kind = "bloom" /\ BloomPart.col = next
        /\ BloomPart.at = BloomAt /\ BloomPart.size = BloomSize
    BY DEF ColumnPart, ZonePart, BloomPart, PartAt
  <2>7. /\ ColumnPart \in file'
        /\ ZoneHere => ZonePart \in file'
        /\ BloomHere => BloomPart \in file'
    BY <2>2
  <2>8. ASSUME NEW i, i = next PROVE RecordedAt(i)'
    <3>1. (HasZone(i)' <=> ZoneHere) /\ (i <= Len(blooms') <=> BloomHere)
      BY <2>1, <2>8 DEF HasZone, ZoneHere, BloomHere
    <3>2. Recorded("column", i, metas[i].offset, metas[i].size)'
      BY <2>5, <2>6, <2>7, <2>8 DEF Recorded, U32
    <3>3. ZoneHere => Recorded("zone", i, metas[i].zoneOffset, metas[i].zoneSize)'
      BY <2>5, <2>6, <2>7, <2>8 DEF Recorded, U32
    <3>4. BloomHere => Recorded("bloom", i, metas[i].bloomOffset, metas[i].bloomSize)'
      BY <2>5, <2>6, <2>7, <2>8 DEF Recorded, U32
    <3> QED
      BY <2>5, <2>8, <3>1, <3>2, <3>3, <3>4 DEF RecordedAt
  <2>9. ASSUME NEW i \in 1 .. next' - 1 PROVE RecordedAt(i)'
    BY <2>1, <2>4, <2>8
  <2> QED
    BY <2>9 DEF RecordedInv
<1>3. CASE WriteHeader
  BY <1>3 DEF WriteHeader, RecordedInv, RecordedAt, Recorded, HasZone, U32
<1>4. CASE UNCHANGED writerVars
  BY <1>4 DEF writerVars, RecordedInv, RecordedAt, Recorded, HasZone, U32
<1> QED
  BY <1>1, <1>2, <1>3, <1>4 DEF WriterNext, AddColumn, AddZoneMap, AddBloomFilter, BeginFinish

(***************************************************************************)
(* FilePartsReadBack: whatever AddZoneMap and AddBloomFilter calls came in *)
(* whatever order, and whatever the sizes, each column and each attached   *)
(* part that begins below 2^32 is found with the 32-bit position and size  *)
(* in the header, and no zone map is reported that was never attached.     *)
(* Finish cuts positions with static_cast<uint32_t> and never checks them. *)
(***************************************************************************)
THEOREM FilePartsReadBack == WriterSpec => []PartsReadBack
<1>1. ASSUME FileType, AttachedInv, LayoutInv, RecordedInv, phase = "closed"
      PROVE  PartsReadBack
  <2>1. ASSUME NEW p \in file, p.at < OffsetModulus, p.size < OffsetModulus
        PROVE  U32(p.at) = p.at /\ U32(p.size) = p.size
    <3>1. p.at \in Nat /\ p.size \in Nat
      BY <1>1 DEF FileType, PartType
    <3>2. \A d \in 0 .. OffsetModulus - 1 : d % OffsetModulus = d
      BY FileAssumption
    <3>3. p.at \in 0 .. OffsetModulus - 1 /\ p.size \in 0 .. OffsetModulus - 1
      BY <2>1, <3>1, FileAssumption
    <3> QED
      BY <3>2, <3>3 DEF U32
  <2>2. ASSUME NEW kind, NEW i, NEW offset, NEW size, Recorded(kind, i, offset, size)
        PROVE  ReadsBack(kind, i, offset, size)
    <3>1. PICK p \in file : p.kind = kind /\ p.col = i /\ offset = U32(p.at) /\ size = U32(p.size)
      BY <2>2 DEF Recorded
    <3>2. p.at < OffsetModulus /\ p.size < OffsetModulus => p \in Found(offset, size)
      BY <2>1, <3>1 DEF Found
    <3> QED
      BY <3>1, <3>2 DEF ReadsBack
  <2>3. ASSUME NEW i \in DOMAIN columns
        PROVE  LET m == metas[i] IN
               /\ ReadsBack("column", i, m.offset, m.size)
               /\ IF [kind |-> "zone", col |-> i] \in attached
                  THEN ReadsBack("zone", i, m.zoneOffset, m.zoneSize)
                  ELSE m.zoneSize = 0
               /\ [kind |-> "bloom", col |-> i] \in attached
                      => ReadsBack("bloom", i, m.bloomOffset, m.bloomSize)
    <3>1. i \in 1 .. next - 1 /\ i \in Nat \ {0}
      <4>1. Len(columns) \in Nat /\ DOMAIN columns = 1 .. Len(columns) /\ next = Len(columns) + 1
        BY <1>1, LenProperties DEF FileType
      <4> QED
        BY <4>1
    <3>2. RecordedAt(i)
      BY <1>1, <3>1 DEF RecordedInv
    <3>3. /\ [kind |-> "zone", col |-> i] \in attached <=> HasZone(i)
          /\ [kind |-> "bloom", col |-> i] \in attached => i <= Len(blooms)
      BY <1>1, <3>1 DEF AttachedInv, HasZone
    <3>4. ReadsBack("column", i, metas[i].offset, metas[i].size)
      BY <2>2, <3>2 DEF RecordedAt
    <3>5. HasZone(i) => ReadsBack("zone", i, metas[i].zoneOffset, metas[i].zoneSize)
      BY <2>2, <3>2 DEF RecordedAt
    <3>6. ~HasZone(i) => metas[i].zoneSize = 0
      BY <3>2 DEF RecordedAt
    <3>7. [kind |-> "bloom", col |-> i] \in attached =>
              ReadsBack("bloom", i, metas[i].bloomOffset, metas[i].bloomSize)
      BY <2>2, <3>2, <3>3 DEF RecordedAt
    <3> QED
      BY <3>3, <3>4, <3>5, <3>6, <3>7
  <2> QED
    BY <2>3 DEF PartsReadBack
<1>2. FileType /\ AttachedInv /\ LayoutInv /\ RecordedInv => PartsReadBack
  BY <1>1 DEF PartsReadBack
<1>3. WriterInit => FileType /\ AttachedInv /\ LayoutInv /\ RecordedInv
  <2>1. WriterInit => RecordedInv
    BY DEF WriterInit, RecordedInv
  <2> QED
    BY <2>1, FileInit
<1>4. FileType /\ AttachedInv /\ LayoutInv /\ RecordedInv /\ [WriterNext]_writerVars
          => (FileType /\ AttachedInv /\ LayoutInv /\ RecordedInv)'
  BY FileTypeStep, AttachedStep, LayoutStep, RecordedStep
<1> QED
  BY <1>2, <1>3, <1>4, PTL DEF WriterSpec
-----------------------------------------------------------------------------
(* SegmentReader *)

\* The thread is inside a call of GetColumn.
InColumn(t) == call[t] # None /\ call[t].kind = "column"

\* A thread inside a call has the call's arguments, and only GetColumn locks and
\* stores; before its first call a thread has no result.
CallInv == \A t \in Threads :
    /\ pc[t] \in {"lock", "check", "seek", "read", "store"} =>
           call[t] \in Calls /\ Present(call[t])
    /\ pc[t] \in {"lock", "check", "store"} => call[t].kind = "column"
    /\ call[t] = None => result[t] = None

\* Who holds the two mutexes, by where it is.
LockInv == \A t \in Threads :
    /\ pc[t] = "check" \/ (pc[t] \in {"seek", "read", "store"} /\ InColumn(t)) => segLock = t
    /\ pc[t] \in {"seek", "read", "store"} /\ InColumn(t) => readLock = t

\* A thread on its way to the file has found the column missing, and no other
\* thread has put it in the cache since.
MissInv == \A t \in Threads :
    pc[t] \in {"seek", "read", "store"} /\ InColumn(t) => cache[call[t].col] = None

\* What is decoded has been read, and GetColumn returns a column.
BufferInv == \A t \in Threads :
    /\ pc[t] = "store" => bytes[t] # None
    /\ pc[t] = "idle" /\ InColumn(t) => result[t] # None

ColumnInv == TypeOK /\ CallInv /\ LockInv /\ MissInv /\ BufferInv /\ OneObject
-----------------------------------------------------------------------------
\* Every set of natural numbers that is not empty has a least element.
LEMMA LeastNat ==
    ASSUME NEW S, S \subseteq Nat, S # {}
    PROVE  \E m \in S : \A n \in S : m <= n
<1>1. IsWellFoundedOn(OpToRel(<, Nat), Nat)
  BY NatLessThanWellFounded
<1>2. PICK m \in S : \A n \in S : ~ (<<n, m>> \in OpToRel(<, Nat))
  BY <1>1, WFMin
<1>3. \A n \in S : n < m => <<n, m>> \in OpToRel(<, Nat)
  BY DEF OpToRel
<1>4. \A n \in S : ~ (n < m)
  BY <1>2, <1>3, Zenon
<1> QED
  BY <1>4

\* A part lies within the file.
LEMMA PartInFile == \A c \in Calls : Part(c) \in 0 .. EndOfFile
<1> SUFFICES ASSUME NEW c \in Calls PROVE Part(c) \in 0 .. EndOfFile
  OBVIOUS
<1>1. NumColumns \in Nat /\ c.col \in 0 .. NumColumns - 1 /\ c.kind \in Kinds
  BY ReaderAssumption DEF Calls, Columns
<1>2. Part(c) \in {3 * c.col, 3 * c.col + 1, 3 * c.col + 2}
  BY <1>1 DEF Part, Kinds
<1> QED
  BY <1>1, <1>2 DEF EndOfFile

\* So does the place where a read leaves the stream.
LEMMA AfterInFile == ASSUME NEW p \in 0 .. EndOfFile PROVE After(p) \in 0 .. EndOfFile
<1> DEFINE S == {Part(c) : c \in {d \in Calls : Present(d) /\ Part(d) > p}} \cup {EndOfFile}
<1>1. EndOfFile \in Nat
  BY ReaderAssumption DEF EndOfFile
<1>2. S \subseteq 0 .. EndOfFile
  BY <1>1, PartInFile
<1>3. \E m \in S : \A n \in S : m <= n
  <2>1. S \subseteq Nat /\ S # {}
    BY <1>1, <1>2
  <2> QED
    BY <2>1, LeastNat
<1>4. Min(S) \in S
  BY <1>3 DEF Min
<1> QED
  BY <1>2, <1>4 DEF After
-----------------------------------------------------------------------------
(* Types, locks and the cache: no assumption on the callers is needed.     *)

LEMMA InitColumnInv == Init => ColumnInv
<1> SUFFICES ASSUME Init PROVE ColumnInv
  OBVIOUS
<1>1. EndOfFile \in Nat
  BY ReaderAssumption DEF EndOfFile
<1>2. TypeOK
  BY <1>1, ReaderAssumption DEF Init, TypeOK, Threads
<1>3. CallInv /\ LockInv /\ MissInv /\ BufferInv /\ OneObject
  BY DEF Init, CallInv, LockInv, MissInv, BufferInv, OneObject, InColumn
<1> QED
  BY <1>2, <1>3 DEF ColumnInv

\* The object GetColumn returns for bytes read from the file.
LEMMA ObjectType == ASSUME NEW p \in 0 .. EndOfFile, NEW n \in Nat
                    PROVE  [part |-> p, id |-> n] \in Objects
  BY DEF Objects

LEMMA EnterColumnInv ==
    ASSUME ColumnInv, NEW t \in Callers, NEW c \in Calls, Enter(t, c) PROVE ColumnInv'
<1> USE DEF ColumnInv
<1>0. t \in Threads /\ pc[t] = "idle" /\ c # None /\ EndOfFile \in Nat
  BY ReaderAssumption DEF Enter, Threads, EndOfFile
<1>1. TypeOK'
  <2>1. Default \in Objects
    BY <1>0 DEF Default, Objects
  <2>2. /\ calls' \in [Callers -> 0 .. MaxCalls]
        /\ call' \in [Threads -> Calls \cup {None}]
        /\ bytes' \in [Threads -> (0 .. EndOfFile) \cup {None}]
    BY <1>0, ReaderAssumption DEF Enter, TypeOK
  <2>3. pc' \in [Threads -> {"idle", "lock", "check", "seek", "read", "store", "gone"}]
    BY <1>0 DEF Enter, TypeOK
  <2>4. result' \in [Threads -> Objects \cup {None}]
    BY <1>0, <2>1 DEF Enter, TypeOK
  <2> QED
    BY <2>2, <2>3, <2>4 DEF Enter, TypeOK
<1>2. /\ \A u \in Threads : u # t => /\ pc'[u] = pc[u] /\ call'[u] = call[u]
                                     /\ result'[u] = result[u]
      /\ call'[t] = c
      /\ cache' = cache /\ segLock' = segLock /\ readLock' = readLock
  BY <1>0 DEF Enter, TypeOK
<1>5. BufferInv'
  BY <1>0 DEF Enter, TypeOK, BufferInv, InColumn, Present
<1>3. CASE Present(c)
  <2>1. pc'[t] = (IF c.kind = "column" THEN "lock" ELSE "seek") /\ result'[t] = None
    BY <1>0, <1>3 DEF Enter, TypeOK
  <2>2. CallInv'
    BY <1>0, <1>2, <1>3, <2>1 DEF CallInv, Present
  <2>3. LockInv' /\ MissInv' /\ OneObject'
    BY <1>0, <1>2, <2>1 DEF LockInv, MissInv, OneObject, InColumn
  <2> QED
    BY <1>1, <1>5, <2>2, <2>3
<1>4. CASE ~Present(c)
  <2>1. pc'[t] = "idle" /\ c.kind # "column"
    BY <1>0, <1>4 DEF Enter, TypeOK, Present
  <2>2. CallInv' /\ LockInv' /\ MissInv' /\ OneObject'
    BY <1>0, <1>2, <2>1 DEF CallInv, LockInv, MissInv, OneObject, InColumn, Present
  <2> QED
    BY <1>1, <1>5, <2>2
<1> QED
  BY <1>3, <1>4

LEMMA PrefetchColumnInv ==
    ASSUME ColumnInv, NEW p \in Prefetchers, NEW i \in Columns, PrefetchColumn(p, i)
    PROVE  ColumnInv'
<1> USE DEF ColumnInv
<1> DEFINE c == [kind |-> "column", col |-> i]
<1>0. p \in Threads /\ c \in Calls /\ c # None /\ c.kind = "column"
  BY ReaderAssumption DEF Threads, Calls, Kinds
<1>1. TypeOK'
  BY <1>0 DEF PrefetchColumn, TypeOK
<1>2. /\ \A u \in Threads : u # p => pc'[u] = pc[u] /\ call'[u] = call[u]
      /\ pc'[p] = "lock" /\ call'[p] = c /\ pc[p] = "idle"
      /\ result' = result /\ cache' = cache /\ segLock' = segLock /\ readLock' = readLock
  BY <1>0 DEF PrefetchColumn, TypeOK
<1>5. BufferInv'
  BY <1>0 DEF PrefetchColumn, TypeOK, BufferInv, InColumn
<1> HIDE DEF c
<1>3. CallInv'
  BY <1>0, <1>2 DEF CallInv, Present
<1>4. LockInv' /\ MissInv' /\ OneObject'
  BY <1>0, <1>2 DEF LockInv, MissInv, OneObject, InColumn
<1> QED
  BY <1>1, <1>3, <1>4, <1>5

LEMMA StepColumnInv == ASSUME ColumnInv, NEW t \in Threads, Step(t) PROVE ColumnInv'
<1> USE DEF ColumnInv
<1>1. CASE LockSegment(t)
  <2>1. TypeOK'
    BY <1>1 DEF LockSegment, TypeOK
  <2>2. /\ \A u \in Threads : u # t => pc'[u] = pc[u]
        /\ pc[t] = "lock" /\ pc'[t] = "check" /\ segLock = None /\ segLock' = t
        /\ call' = call /\ result' = result /\ cache' = cache /\ readLock' = readLock
    BY <1>1 DEF LockSegment, TypeOK
  <2>3. None \notin Threads
    BY ReaderAssumption
  <2>4. CallInv' /\ MissInv' /\ OneObject'
    BY <2>2 DEF CallInv, MissInv, OneObject, InColumn
  <2>5. LockInv'
    BY <2>2, <2>3 DEF LockInv, InColumn
  <2>6. BufferInv'
    BY <1>1 DEF LockSegment, TypeOK, BufferInv, InColumn
  <2> QED
    BY <2>1, <2>4, <2>5, <2>6
<1>2. CASE CheckCache(t)
  <2>0. /\ pc[t] = "check" /\ readLock = None /\ segLock = t
        /\ call[t] \in Calls /\ call[t].kind = "column" /\ InColumn(t) /\ Present(call[t])
        /\ call[t].col \in Columns
    BY <1>2, ReaderAssumption DEF CheckCache, CallInv, LockInv, InColumn, Calls
  <2>1. None \notin Threads
    BY ReaderAssumption
  <2>2. /\ \A u \in Threads : u # t => pc'[u] = pc[u] /\ result'[u] = result[u]
        /\ call' = call /\ cache' = cache
    BY <1>2 DEF CheckCache, TypeOK
  <2>3. TypeOK'
    <3>1. /\ pc' \in [Threads -> {"idle", "lock", "check", "seek", "read", "store", "gone"}]
          /\ segLock' \in Threads \cup {None} /\ readLock' \in Threads \cup {None}
      BY <1>2 DEF CheckCache, TypeOK
    <3>2. result' \in [Threads -> Objects \cup {None}]
      BY <1>2, <2>0 DEF CheckCache, TypeOK
    <3> QED
      BY <1>2, <3>1, <3>2 DEF CheckCache, TypeOK
  <2>6. BufferInv'
    BY <1>2 DEF CheckCache, TypeOK, BufferInv, InColumn
  <2>4. CASE cache[call[t].col] # None
    <3>1. /\ pc'[t] = "idle" /\ result'[t] = cache[call[t].col]
          /\ segLock' = None /\ readLock' = readLock
      BY <1>2, <2>4 DEF CheckCache, TypeOK
    <3>2. CallInv' /\ MissInv' /\ OneObject'
      BY <2>0, <2>2, <3>1 DEF CallInv, MissInv, OneObject, InColumn
    <3>3. LockInv'
      BY <2>0, <2>1, <2>2, <3>1 DEF LockInv, InColumn
    <3> QED
      BY <2>3, <2>6, <3>2, <3>3
  <2>5. CASE cache[call[t].col] = None
    <3>1. /\ pc'[t] = "seek" /\ result'[t] = result[t]
          /\ segLock' = segLock /\ readLock' = t
      BY <1>2, <2>5 DEF CheckCache, TypeOK
    <3>2. CallInv' /\ MissInv' /\ OneObject'
      BY <2>0, <2>2, <2>5, <3>1 DEF CallInv, MissInv, OneObject, InColumn
    <3>3. LockInv'
      BY <2>0, <2>1, <2>2, <3>1 DEF LockInv, InColumn
    <3> QED
      BY <2>3, <2>6, <3>2, <3>3
  <2> QED
    BY <2>4, <2>5
<1>3. CASE Seek(t)
  <2>1. pc[t] = "seek" /\ call[t] \in Calls
    BY <1>3 DEF Seek, CallInv
  <2>2. TypeOK'
    BY <1>3, <2>1, PartInFile DEF Seek, TypeOK
  <2>3. /\ \A u \in Threads : u # t => pc'[u] = pc[u]
        /\ pc'[t] = "read"
        /\ call' = call /\ result' = result /\ cache' = cache
        /\ segLock' = segLock /\ readLock' = readLock
    BY <1>3 DEF Seek, TypeOK
  <2>4. CallInv' /\ LockInv' /\ MissInv' /\ OneObject'
    BY <2>1, <2>3 DEF CallInv, LockInv, MissInv, OneObject, InColumn
  <2>5. BufferInv'
    BY <1>3 DEF Seek, TypeOK, BufferInv, InColumn
  <2> QED
    BY <2>2, <2>4, <2>5
<1>4. CASE Read(t)
  <2>1. pc[t] = "read" /\ call[t] \in Calls /\ cursor \in 0 .. EndOfFile
    BY <1>4 DEF Read, CallInv, TypeOK
  <2>2. call[t] # None
    BY <2>1, ReaderAssumption
  <2>3. [part |-> cursor, id |-> 0] \in Objects
    BY <2>1, ObjectType
  <2>4. TypeOK'
    <3>1. cursor' \in 0 .. EndOfFile /\ bytes' \in [Threads -> (0 .. EndOfFile) \cup {None}]
      BY <1>4, <2>1, AfterInFile DEF Read, TypeOK
    <3>2. pc' \in [Threads -> {"idle", "lock", "check", "seek", "read", "store", "gone"}]
      BY <1>4 DEF Read, TypeOK
    <3>3. result' \in [Threads -> Objects \cup {None}]
      BY <1>4, <2>3 DEF Read, TypeOK
    <3> QED
      BY <1>4, <3>1, <3>2, <3>3 DEF Read, TypeOK
  <2>5. /\ \A u \in Threads : u # t => pc'[u] = pc[u] /\ result'[u] = result[u]
        /\ call' = call /\ cache' = cache
        /\ segLock' = segLock /\ readLock' = readLock
    BY <1>4 DEF Read, TypeOK
  <2>8. BufferInv'
    <3>1. cursor # None
      BY <2>1, ReaderAssumption
    <3> QED
      BY <1>4, <2>3, <3>1, ReaderAssumption DEF Read, TypeOK, BufferInv, InColumn
  <2>6. CASE call[t].kind = "column"
    <3>1. pc'[t] = "store" /\ result'[t] = result[t]
      BY <1>4, <2>6 DEF Read, TypeOK
    <3>2. CallInv' /\ LockInv' /\ MissInv' /\ OneObject'
      BY <2>1, <2>5, <2>6, <3>1 DEF CallInv, LockInv, MissInv, OneObject, InColumn
    <3> QED
      BY <2>4, <2>8, <3>2
  <2>7. CASE call[t].kind # "column"
    <3>1. pc'[t] = "idle"
      BY <1>4, <2>7 DEF Read, TypeOK
    <3>2. CallInv' /\ LockInv' /\ MissInv' /\ OneObject'
      BY <2>1, <2>2, <2>5, <2>7, <3>1 DEF CallInv, LockInv, MissInv, OneObject, InColumn
    <3> QED
      BY <2>4, <2>8, <3>2
  <2> QED
    BY <2>6, <2>7
<1>5. CASE Store(t)
  <2> DEFINE column == [part |-> bytes[t], id |-> decodings + 1]
  <2>1. /\ pc[t] = "store" /\ segLock = t /\ readLock = t
        /\ call[t] \in Calls /\ call[t].kind = "column" /\ InColumn(t) /\ Present(call[t])
        /\ call[t].col \in Columns
        /\ cache[call[t].col] = None
    BY <1>5, ReaderAssumption DEF Store, CallInv, LockInv, MissInv, InColumn, Calls
  <2>2. column \in Objects
    <3>1. bytes[t] \in 0 .. EndOfFile /\ decodings + 1 \in Nat
      BY <2>1 DEF BufferInv, TypeOK
    <3> QED
      BY <3>1, ObjectType
  <2>3. TypeOK'
    <3>1. cache' \in [Columns -> Objects \cup {None}]
      BY <1>5, <2>1, <2>2 DEF Store, TypeOK
    <3>2. result' \in [Threads -> Objects \cup {None}]
      BY <1>5, <2>2 DEF Store, TypeOK
    <3>3. pc' \in [Threads -> {"idle", "lock", "check", "seek", "read", "store", "gone"}]
      BY <1>5 DEF Store, TypeOK
    <3> QED
      BY <1>5, <3>1, <3>2, <3>3 DEF Store, TypeOK
  <2>4. /\ \A u \in Threads : u # t => pc'[u] = pc[u] /\ result'[u] = result[u]
        /\ pc'[t] = "idle" /\ result'[t] = column
        /\ call' = call /\ bytes' = bytes
        /\ \A i \in Columns : i # call[t].col => cache'[i] = cache[i]
        /\ cache'[call[t].col] = column
    BY <1>5, <2>1 DEF Store, TypeOK
  <2>5. \A u \in Threads : u # t => ~(pc[u] \in {"seek", "read", "store"} /\ InColumn(u))
    BY <2>1 DEF LockInv
  <2>6. \A u \in Threads : u # t => pc[u] # "check"
    BY <2>1 DEF LockInv
  <2> HIDE DEF column
  <2>9. column # None
    BY <2>2, ReaderAssumption
  <2>7. CallInv' /\ LockInv' /\ MissInv' /\ BufferInv'
    BY <2>1, <2>4, <2>5, <2>6, <2>9 DEF CallInv, LockInv, MissInv, BufferInv, InColumn
  <2>8. OneObject'
    <3> SUFFICES ASSUME NEW u \in Threads, pc'[u] = "idle", call[u] # None,
                        call[u].kind = "column"
                 PROVE  result'[u] = cache'[call[u].col]
      BY <2>4 DEF OneObject
    <3>1. CASE u = t
      BY <2>4, <3>1
    <3>2. CASE u # t
      <4>1. result[u] = cache[call[u].col] /\ result[u] # None
        BY <2>4, <3>2 DEF OneObject, BufferInv, InColumn
      <4>2. call[u].col \in Columns
        BY DEF TypeOK, Calls
      <4> QED
        BY <2>1, <2>4, <3>2, <4>1, <4>2
    <3> QED
      BY <3>1, <3>2
  <2> QED
    BY <2>3, <2>7, <2>8
<1> QED
  BY <1>1, <1>2, <1>3, <1>4, <1>5 DEF Step

LEMMA DropColumnInv == ASSUME ColumnInv, NEW t \in Callers, Drop(t) PROVE ColumnInv'
<1> USE DEF ColumnInv
<1>0. t \in Threads
  BY DEF Threads
<1>1. TypeOK'
  <2>1. alive' \in BOOLEAN
    BY DEF Drop
  <2> QED
    BY <1>0, <2>1 DEF Drop, TypeOK
<1>2. /\ \A u \in Threads : u # t => pc'[u] = pc[u]
      /\ pc[t] = "idle" /\ pc'[t] = "gone" /\ call' = call /\ result' = result /\ bytes' = bytes
      /\ cache' = cache /\ segLock' = segLock /\ readLock' = readLock
  BY <1>0 DEF Drop, TypeOK
<1>3. CallInv' /\ LockInv' /\ MissInv' /\ BufferInv' /\ OneObject'
  BY <1>0, <1>2 DEF CallInv, LockInv, MissInv, BufferInv, OneObject, InColumn
<1> QED
  BY <1>1, <1>3

LEMMA NextColumnInv == ColumnInv /\ [Next]_vars => ColumnInv'
<1> SUFFICES ASSUME ColumnInv, [Next]_vars PROVE ColumnInv'
  OBVIOUS
<1>1. CASE UNCHANGED vars
  BY <1>1 DEF vars, ColumnInv, TypeOK, CallInv, LockInv, MissInv, BufferInv, OneObject, InColumn
<1> QED
  BY <1>1, EnterColumnInv, PrefetchColumnInv, StepColumnInv, DropColumnInv DEF Next

\* The locks, the cache and the cursor keep their types, whatever the callers do.
THEOREM ReaderTypeOK == Spec => []TypeOK
<1>1. ColumnInv => TypeOK
  BY DEF ColumnInv
<1> QED
  BY <1>1, InitColumnInv, NextColumnInv, PTL DEF Spec

\* GetColumn gives every thread the one object in the cache, prefetches and
\* unlocked metadata reads included.
THEOREM ReaderOneObject == Spec => []OneObject
<1>1. ColumnInv => OneObject
  BY DEF ColumnInv
<1> QED
  BY <1>1, InitColumnInv, NextColumnInv, PTL DEF Spec

\* A step never replaces or drops a cached column: the object a caller was given
\* stays the one that later callers get.
THEOREM ReaderCacheOnlyGrows ==
    Spec => [][\A i \in Columns : cache[i] # None => cache'[i] = cache[i]]_vars
<1>1. ASSUME ColumnInv, [Next]_vars
      PROVE  \A i \in Columns : cache[i] # None => cache'[i] = cache[i]
  <2>1. CASE \E t \in Threads : Store(t)
    <3>1. PICK t \in Threads : Store(t)
      BY <2>1
    <3>2. cache[call[t].col] = None
      BY <1>1, <3>1, ReaderAssumption DEF Store, ColumnInv, CallInv, MissInv, InColumn
    <3> QED
      BY <1>1, <3>1, <3>2 DEF Store, ColumnInv, TypeOK
  <2>2. CASE ~(\E t \in Threads : Store(t))
    <3>1. cache' = cache
      BY <1>1, <2>2 DEF Next, Step, Enter, PrefetchColumn, LockSegment, CheckCache, Seek, Read,
                        Drop, vars
    <3> QED
      BY <3>1
  <2> QED
    BY <2>1, <2>2
<1> QED
  BY <1>1, InitColumnInv, NextColumnInv, PTL DEF Spec
-----------------------------------------------------------------------------
(* Own bytes, for callers that keep metadata reads to themselves.          *)

\* Two threads are inside calls at once only if both are inside GetColumn.
AloneInv == \A t, u \in Running : t # u => InColumn(t) /\ InColumn(u)

\* Between its seek and its read nobody moves the stream for a thread, and what
\* it read came from its own part.
CursorInv == \A t \in Threads :
    /\ pc[t] = "read" => cursor = Part(call[t])
    /\ pc[t] = "store" => bytes[t] = Part(call[t])

OwnInv == ColumnInv /\ AloneInv /\ CursorInv /\ OwnBytes

LEMMA InitOwn == Init => OwnInv
<1> SUFFICES ASSUME Init PROVE OwnInv
  OBVIOUS
<1>1. AloneInv /\ CursorInv /\ OwnBytes
  BY DEF Init, AloneInv, CursorInv, OwnBytes, Running
<1> QED
  BY <1>1, InitColumnInv DEF OwnInv

\* The thread that seeks or reads is the only one between seek and store.
LEMMA OneAtTheFile ==
    ASSUME ColumnInv, AloneInv, NEW t \in Threads, pc[t] \in {"seek", "read", "store"}
    PROVE  \A u \in Threads : u # t => pc[u] \notin {"seek", "read", "store"}
<1> SUFFICES ASSUME NEW u \in Threads, u # t, pc[u] \in {"seek", "read", "store"} PROVE FALSE
  OBVIOUS
<1>1. InColumn(t) /\ InColumn(u)
  BY DEF AloneInv, Running
<1>2. readLock = t /\ readLock = u
  BY <1>1 DEF ColumnInv, LockInv
<1> QED
  BY <1>2

LEMMA CallsOwn ==
    ASSUME MetadataAlone, OwnInv, NEW t \in Threads, NEW c \in Calls,
           /\ pc[t] = "idle" /\ MayCall(c.kind) /\ call' = [call EXCEPT ![t] = c]
           /\ cursor' = cursor /\ cache' = cache,
           \/ /\ Present(c) /\ pc' = [pc EXCEPT ![t] = IF c.kind = "column" THEN "lock" ELSE "seek"]
              /\ \A u \in Threads : u # t => result'[u] = result[u] /\ bytes'[u] = bytes[u]
           \/ /\ ~Present(c) /\ pc' = pc
              /\ bytes' = [bytes EXCEPT ![t] = None] /\ result' = [result EXCEPT ![t] = Default]
    PROVE  AloneInv' /\ CursorInv' /\ OwnBytes'
<1> USE DEF OwnInv
<1>0. /\ call'[t] = c /\ \A u \in Threads : u # t => call'[u] = call[u] /\ pc'[u] = pc[u]
      /\ c # None
  BY ReaderAssumption DEF ColumnInv, TypeOK
<1>1. CASE Present(c)
  <2>1. /\ pc'[t] = IF c.kind = "column" THEN "lock" ELSE "seek"
        /\ \A u \in Threads : u # t => result'[u] = result[u] /\ bytes'[u] = bytes[u]
    BY <1>1 DEF ColumnInv, TypeOK
  <2>2. Running' \subseteq Running \cup {t}
    BY <1>0 DEF Running
  <2>3. \A u \in Running : call[u] \in Calls /\ call[u] # None
    BY ReaderAssumption DEF ColumnInv, CallInv, TypeOK, Running
  <2>4. AloneInv'
    BY <1>0, <2>2, <2>3 DEF AloneInv, InColumn, MayCall, Running
  <2>5. CursorInv' /\ OwnBytes'
    BY <1>0, <2>1 DEF CursorInv, OwnBytes
  <2> QED
    BY <2>4, <2>5
<1>2. CASE ~Present(c)
  <2>1. /\ pc' = pc /\ bytes' = [bytes EXCEPT ![t] = None]
        /\ result' = [result EXCEPT ![t] = Default]
    BY <1>2
  <2>2. result'[t].part = EndOfFile /\ \A u \in Threads : u # t => result'[u] = result[u]
    BY <2>1 DEF Default, ColumnInv, TypeOK
  <2>3. AloneInv' /\ CursorInv'
    BY <1>0, <2>1 DEF AloneInv, CursorInv, InColumn, Running, ColumnInv, TypeOK
  <2>4. OwnBytes'
    BY <1>0, <1>2, <2>1, <2>2 DEF OwnBytes
  <2> QED
    BY <2>3, <2>4
<1> QED
  BY <1>1, <1>2

LEMMA StepOwn ==
    ASSUME OwnInv, NEW t \in Threads, Step(t) PROVE AloneInv' /\ CursorInv' /\ OwnBytes'
<1> USE DEF OwnInv
<1>0. /\ t \in Running /\ call' = call /\ \A u \in Threads : u # t => pc'[u] = pc[u]
      /\ call[t] \in Calls /\ Present(call[t])
  BY DEF Step, LockSegment, CheckCache, Seek, Read, Store, Running, ColumnInv, CallInv, TypeOK
<1>1. Running' \subseteq Running
  BY <1>0 DEF Running
<1>2. AloneInv'
  BY <1>0, <1>1 DEF AloneInv, InColumn
<1>3. CASE LockSegment(t)
  <2>1. /\ pc'[t] = "check" /\ cursor' = cursor /\ bytes' = bytes /\ result' = result
        /\ cache' = cache
    BY <1>3 DEF LockSegment, ColumnInv, TypeOK
  <2>2. CursorInv' /\ OwnBytes'
    BY <1>0, <2>1 DEF CursorInv, OwnBytes
  <2> QED
    BY <1>2, <2>2
<1>4. CASE CheckCache(t)
  <2>1. /\ pc'[t] \in {"idle", "seek"} /\ cursor' = cursor /\ bytes' = bytes /\ cache' = cache
        /\ \A u \in Threads : u # t => result'[u] = result[u]
        /\ pc'[t] = "idle" => cache[call[t].col] # None /\ result'[t] = cache[call[t].col]
        /\ pc[t] = "check"
    BY <1>4 DEF CheckCache, ColumnInv, TypeOK
  <2>2. CursorInv'
    BY <1>0, <2>1 DEF CursorInv
  <2>3. call[t] = [kind |-> "column", col |-> call[t].col] /\ call[t].col \in Columns
    BY <1>0, <2>1 DEF ColumnInv, CallInv, Calls
  <2>4. pc'[t] = "idle" => result'[t].part = Part(call[t])
    BY <2>1, <2>3 DEF OwnBytes
  <2>5. OwnBytes'
    BY <1>0, <2>1, <2>4 DEF OwnBytes
  <2> QED
    BY <1>2, <2>2, <2>5
<1>5. CASE Seek(t)
  <2>1. /\ pc[t] = "seek" /\ pc'[t] = "read" /\ cursor' = Part(call[t]) /\ bytes' = bytes
        /\ result' = result /\ cache' = cache
    BY <1>5 DEF Seek, ColumnInv, TypeOK
  <2>2. CursorInv'
    BY <1>0, <2>1, OneAtTheFile DEF CursorInv
  <2>3. OwnBytes'
    BY <1>0, <2>1 DEF OwnBytes
  <2> QED
    BY <1>2, <2>2, <2>3
<1>6. CASE Read(t)
  <2>1. /\ pc[t] = "read" /\ bytes'[t] = cursor /\ cache' = cache /\ cursor = Part(call[t])
        /\ \A u \in Threads : u # t => bytes'[u] = bytes[u] /\ result'[u] = result[u]
        /\ pc'[t] \in {"store", "idle"}
        /\ pc'[t] = "idle" => result'[t] = [part |-> cursor, id |-> 0]
    BY <1>6 DEF Read, ColumnInv, TypeOK, CursorInv
  <2>2. \A u \in Threads : u # t => pc[u] # "read"
    BY <2>1, OneAtTheFile
  <2>3. CursorInv'
    BY <1>0, <2>1, <2>2 DEF CursorInv
  <2>4. OwnBytes'
    BY <1>0, <2>1 DEF OwnBytes
  <2> QED
    BY <1>2, <2>3, <2>4
<1>7. CASE Store(t)
  <2>1. /\ pc[t] = "store" /\ pc'[t] = "idle" /\ cursor' = cursor /\ bytes' = bytes
        /\ \A u \in Threads : u # t => result'[u] = result[u]
        /\ result'[t] = [part |-> bytes[t], id |-> decodings + 1]
        /\ cache' = [cache EXCEPT ![call[t].col] = [part |-> bytes[t], id |-> decodings + 1]]
        /\ bytes[t] = Part(call[t])
    BY <1>7 DEF Store, ColumnInv, TypeOK, CursorInv
  <2>2. CursorInv'
    BY <1>0, <2>1 DEF CursorInv
  <2>3. call[t] = [kind |-> "column", col |-> call[t].col] /\ call[t].col \in Columns
    BY <1>0, <2>1 DEF ColumnInv, CallInv, Calls
  <2>4. \A i \in Columns : cache'[i] # None => cache'[i].part = Part([kind |-> "column", col |-> i])
    BY <2>1, <2>3 DEF OwnBytes, ColumnInv, TypeOK
  <2>5. OwnBytes'
    BY <1>0, <2>1, <2>4 DEF OwnBytes
  <2> QED
    BY <1>2, <2>2, <2>5
<1> QED
  BY <1>3, <1>4, <1>5, <1>6, <1>7 DEF Step

LEMMA NextOwn == ASSUME MetadataAlone PROVE OwnInv /\ [Next]_vars => OwnInv'
<1> SUFFICES ASSUME OwnInv, [Next]_vars PROVE AloneInv' /\ CursorInv' /\ OwnBytes'
  BY NextColumnInv DEF OwnInv
<1>1. CASE UNCHANGED vars
  BY <1>1 DEF vars, OwnInv, AloneInv, CursorInv, OwnBytes, InColumn, Running
<1>2. ASSUME NEW t \in Callers, NEW c \in Calls, Enter(t, c)
      PROVE  AloneInv' /\ CursorInv' /\ OwnBytes'
  <2>1. t \in Threads
    BY DEF Threads
  <2>2. CASE Present(c)
    <3>1. \A u \in Threads : u # t => result'[u] = result[u] /\ bytes'[u] = bytes[u]
      BY <1>2, <2>1, <2>2 DEF Enter, OwnInv, ColumnInv, TypeOK
    <3> QED
      BY <1>2, <2>1, <2>2, <3>1, CallsOwn DEF Enter
  <2>3. CASE ~Present(c)
    BY <1>2, <2>1, <2>3, CallsOwn DEF Enter
  <2> QED
    BY <2>2, <2>3
<1>3. ASSUME NEW p \in Prefetchers, NEW i \in Columns, PrefetchColumn(p, i)
      PROVE  AloneInv' /\ CursorInv' /\ OwnBytes'
  <2> DEFINE c == [kind |-> "column", col |-> i]
  <2>1. p \in Threads /\ c \in Calls /\ c.kind = "column" /\ Present(c)
    BY DEF Threads, Calls, Kinds, Present
  <2>2. /\ pc[p] = "idle" /\ MayCall(c.kind) /\ call' = [call EXCEPT ![p] = c]
        /\ cursor' = cursor /\ cache' = cache /\ result' = result /\ bytes' = bytes
        /\ pc' = [pc EXCEPT ![p] = IF c.kind = "column" THEN "lock" ELSE "seek"]
    BY <1>3, <2>1 DEF PrefetchColumn
  <2> HIDE DEF c
  <2> QED
    BY <2>1, <2>2, CallsOwn
<1>4. ASSUME NEW t \in Callers, Drop(t) PROVE AloneInv' /\ CursorInv' /\ OwnBytes'
  <2>1. t \in Threads
    BY DEF Threads
  <2>2. /\ \A u \in Threads : u # t => pc'[u] = pc[u]
        /\ pc'[t] = "gone" /\ call' = call /\ result' = result /\ bytes' = bytes
        /\ cache' = cache /\ cursor' = cursor
    BY <1>4, <2>1 DEF Drop, OwnInv, ColumnInv, TypeOK
  <2> QED
    BY <2>1, <2>2 DEF OwnInv, AloneInv, CursorInv, OwnBytes, InColumn, Running
<1> QED
  BY <1>1, <1>2, <1>3, <1>4, StepOwn DEF Next

\* Every call returns what lies at its own place in the file, and every cached
\* column was decoded from its own bytes, as long as zone maps and filters are
\* read while nobody else is inside a call.
THEOREM ReaderOwnBytes == ASSUME MetadataAlone PROVE Spec => []OwnBytes
<1>1. OwnInv => OwnBytes
  BY DEF OwnInv
<1> QED
  BY <1>1, InitOwn, NextOwn, PTL DEF Spec
=============================================================================
