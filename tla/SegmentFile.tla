---------------------------- MODULE SegmentFile ----------------------------
(***************************************************************************)
(* class SegmentWriter (include/columnar/segment.h) and the file it makes. *)
(*                                                                         *)
(* AddColumn, AddZoneMap and AddBloomFilter collect parts in any order;    *)
(* Finish lays them out behind a header that is written last, over a       *)
(* placeholder.  A part is known by its kind and column and has a size;    *)
(* the file is the set of parts with the positions they were written at.   *)
(* The header keeps positions and sizes in 32 bits.                        *)
(***************************************************************************)
EXTENDS Integers, Sequences, FiniteSets

CONSTANTS ColumnSizes,  \* the sizes an encoded column may have
          ZoneSize,     \* the size of a zone map with blocks
          BloomSize,    \* the size of a filter, never 0
          FixedHeader,  \* kFixedHeaderSize
          MetaSize,     \* sizeof(ColumnMeta)
          OffsetModulus,\* 2^32
          MaxColumns    \* bound: columns of a segment

ASSUME FileAssumption ==
    /\ ColumnSizes \subseteq Nat /\ ZoneSize \in Nat \ {0} /\ BloomSize \in Nat \ {0}
    /\ FixedHeader \in Nat /\ MetaSize \in Nat /\ MaxColumns \in Nat
    /\ OffsetModulus \in Nat \ {0}

VARIABLES columns,     \* column_buffers_: the size of each
          zoneMaps,    \* zone_maps_: whether each has blocks
          blooms,      \* bloom_filters_: whether each was attached or is a filler
          file,        \* parts written: [kind, col, at, size]
          position,    \* file_.tellp()
          next,        \* the column Finish writes next, from 1
          metas,       \* header_.columns
          phase,       \* "open", "writing", "closed"
          attached     \* history: the calls of AddZoneMap and AddBloomFilter

writerVars == <<columns, zoneMaps, blooms, file, position, next, metas, phase, attached>>

Indices == 1 .. MaxColumns

WriterInit ==
    /\ columns = <<>> /\ zoneMaps = <<>> /\ blooms = <<>>
    /\ file = {} /\ position = 0 /\ next = 1 /\ metas = <<>>
    /\ phase = "open"
    /\ attached = {}
-----------------------------------------------------------------------------
\* vector::resize(n, filler) when the vector is shorter.
Resize(s, n, filler) == s \o [i \in 1 .. (IF n > Len(s) THEN n - Len(s) ELSE 0) |-> filler]

AddColumn(size) ==
    /\ phase = "open" /\ Len(columns) < MaxColumns
    /\ columns' = Append(columns, size)
    /\ UNCHANGED <<zoneMaps, blooms, file, position, next, metas, phase, attached>>

AddZoneMap(col) ==
    /\ phase = "open"
    /\ zoneMaps' = [Resize(zoneMaps, col, FALSE) EXCEPT ![col] = TRUE]
    /\ attached' = attached \cup {[kind |-> "zone", col |-> col]}
    /\ UNCHANGED <<columns, blooms, file, position, next, metas, phase>>

\* A faulty AddBloomFilter that shrinks the vector as well.
AddBloomFilterTruncates(col) ==
    /\ phase = "open"
    /\ blooms' = [SubSeq(Resize(blooms, col, "default"), 1, col) EXCEPT ![col] = "attached"]
    /\ attached' = attached \cup {[kind |-> "bloom", col |-> col]}
    /\ UNCHANGED <<columns, zoneMaps, file, position, next, metas, phase>>

\* The filters resize adds in front are default-constructed: not empty, no bit set.
AddBloomFilter(col) ==
    /\ phase = "open"
    /\ blooms' = [Resize(blooms, col, "default") EXCEPT ![col] = "attached"]
    /\ attached' = attached \cup {[kind |-> "bloom", col |-> col]}
    /\ UNCHANGED <<columns, zoneMaps, file, position, next, metas, phase>>

\* A faulty Finish whose placeholder leaves out the column metas.
BeginFinishShort ==
    /\ phase = "open"
    /\ phase' = "writing"
    /\ position' = FixedHeader
    /\ UNCHANGED <<columns, zoneMaps, blooms, file, next, metas, attached>>

\* Finish (or the destructor): the placeholder header.
BeginFinish ==
    /\ phase = "open"
    /\ phase' = "writing"
    /\ position' = FixedHeader + Len(columns) * MetaSize
    /\ UNCHANGED <<columns, zoneMaps, blooms, file, next, metas, attached>>

PartAt(kind, at, size) == [kind |-> kind, col |-> next, at |-> at, size |-> size]

\* static_cast<uint32_t>
U32(n) == n % OffsetModulus

\* One iteration of Finish's loop: the column, its zone map if it has blocks,
\* its filter if the vector reaches that far.
FinishColumn ==
    LET hasZone  == next <= Len(zoneMaps) /\ zoneMaps[next]
        hasBloom == next <= Len(blooms)
        zoneAt   == position + columns[next]
        bloomAt  == zoneAt + (IF hasZone THEN ZoneSize ELSE 0)
    IN
    /\ phase = "writing" /\ next <= Len(columns)
    /\ file' = file \cup {PartAt("column", position, columns[next])}
                    \cup (IF hasZone THEN {PartAt("zone", zoneAt, ZoneSize)} ELSE {})
                    \cup (IF hasBloom THEN {PartAt("bloom", bloomAt, BloomSize)} ELSE {})
    /\ position' = bloomAt + (IF hasBloom THEN BloomSize ELSE 0)
    /\ metas' = Append(metas,
           [offset |-> U32(position), size |-> U32(columns[next]),
            zoneOffset |-> IF hasZone THEN U32(zoneAt) ELSE 0,
            zoneSize |-> IF hasZone THEN U32(ZoneSize) ELSE 0,
            bloomOffset |-> IF hasBloom THEN U32(bloomAt) ELSE 0,
            bloomSize |-> IF hasBloom THEN U32(BloomSize) ELSE 0])
    /\ next' = next + 1
    /\ UNCHANGED <<columns, zoneMaps, blooms, phase, attached>>

\* seekp(0), the real header, close.
WriteHeader ==
    /\ phase = "writing" /\ next = Len(columns) + 1
    /\ phase' = "closed"
    /\ UNCHANGED <<columns, zoneMaps, blooms, file, position, next, metas, attached>>

WriterNext ==
    \/ \E size \in ColumnSizes : AddColumn(size)
    \/ \E col \in Indices : AddZoneMap(col) \/ AddBloomFilter(col)
    \/ BeginFinish \/ FinishColumn \/ WriteHeader

WriterSpec == WriterInit /\ [][WriterNext]_writerVars
-----------------------------------------------------------------------------
HeaderSize == FixedHeader + Len(columns) * MetaSize

\* What SegmentReader finds with seekg(offset) and read(size).
Found(offset, size) == {p \in file : p.at = offset /\ p.size = size}

\* The part was written and, if 32 bits can say where, is what the reader finds.
ReadsBack(kind, i, offset, size) ==
    \E p \in file :
        /\ p.kind = kind /\ p.col = i
        /\ p.at < OffsetModulus /\ p.size < OffsetModulus => p \in Found(offset, size)

(***************************************************************************)
(* PartsReadBack: in a finished file each column, and each zone map and    *)
(* filter attached to a column there is, in whatever order the calls came, *)
(* lies where the header says, and a zone map never attached is not found. *)
(* A file may outgrow its 32-bit offsets: the parts that begin below 2^32  *)
(* are found all the same; those behind are not, and Finish reports no     *)
(* error.                                                                  *)
(***************************************************************************)
PartsReadBack ==
    phase = "closed" =>
        \A i \in DOMAIN columns :
            LET m == metas[i] IN
            /\ ReadsBack("column", i, m.offset, m.size)
            /\ IF [kind |-> "zone", col |-> i] \in attached
               THEN ReadsBack("zone", i, m.zoneOffset, m.zoneSize)
               ELSE m.zoneSize = 0
            /\ [kind |-> "bloom", col |-> i] \in attached
                   => ReadsBack("bloom", i, m.bloomOffset, m.bloomSize)

(***************************************************************************)
(* HeaderOverwritesNothing: no part lies under the header that Finish      *)
(* writes at the end, and no two parts share a byte.                       *)
(***************************************************************************)
HeaderOverwritesNothing ==
    /\ phase # "open" => \A p \in file : p.at >= HeaderSize
    /\ \A p, q \in file : p # q => p.at + p.size <= q.at \/ q.at + q.size <= p.at
=============================================================================
