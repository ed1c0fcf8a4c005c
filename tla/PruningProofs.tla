--------------------------- MODULE PruningProofs ---------------------------
(***************************************************************************)
(* The two structures by which a scan leaves out a block, and the scan     *)
(* that uses them.                                                         *)
(*                                                                         *)
(* Bloom filters, for every pair of hash functions, every shape and every  *)
(* sequence of Add and Merge: a value that was added stays found.  A scan  *)
(* relies on it when it drops a block because MightContain says no.        *)
(*                                                                         *)
(* Zone maps, for every column, block size and number of builds: an entry  *)
(* describes the rows of its block, so that a block ShouldScanBlock denies *)
(* holds no match, nor does a map of one block CanMatchZoneMap denies.     *)
(*                                                                         *)
(* The block loop of SegmentScanner, for every table, predicate, block     *)
(* size and number of Scans: its counters account for every block and row, *)
(* and in plain use (PlainUse) it delivers the rows that match, once and   *)
(* in order; and the results AggregateScanner keeps of them are their sum, *)
(* count, minimum and maximum.                                             *)
(***************************************************************************)
EXTENDS ZoneMapBuild, AggregateScanner, FiniteSetTheorems, SequenceTheorems,
        NaturalsInduction, WellFoundedInduction, TLAPS
-----------------------------------------------------------------------------
(* Bloom filters *)

Filter == [numBits : Nat \ {0}, numHashes : Nat, bits : SUBSET Nat]

(***************************************************************************)
(* The key of a value is a word, whichever of the two widths it is read    *)
(* with: memcpy leaves the upper bytes zero.                               *)
(***************************************************************************)
LEMMA KeyInRange ==
    ASSUME NEW type, NEW value \in Int
    PROVE  Key(type, value) \in Keys
<1>1. CASE type = "Int32"
    <2>1. value % Modulus32 \in 0 .. Modulus32 - 1
        BY BloomAssumption
    <2> QED
        BY <1>1, <2>1, BloomAssumption DEF Key, Keys
<1>2. CASE type # "Int32"
    <2>1. value % Modulus64 \in 0 .. Modulus64 - 1
        BY BloomAssumption
    <2> QED
        BY <1>2, <2>1 DEF Key, Keys
<1> QED
    BY <1>1, <1>2

(***************************************************************************)
(* The bits Add sets and MightContain tests lie within num_bits_, so that  *)
(* neither indexes past the array of words.                                *)
(***************************************************************************)
THEOREM PositionsWithinFilter ==
    ASSUME NEW f \in Filter, NEW type, NEW value \in Int
    PROVE  Positions(f, Key(type, value)) \subseteq 0 .. f.numBits - 1
<1> DEFINE key == Key(type, value)
<1>1. Hash1[key] \in Nat /\ Hash2[key] \in Nat
    BY KeyInRange, BloomAssumption
<1> SUFFICES ASSUME NEW i \in 0 .. f.numHashes - 1
             PROVE  ((Hash1[key] + i * Hash2[key]) % Modulus64) % f.numBits
                        \in 0 .. f.numBits - 1
    BY DEF Positions
<1>2. f.numBits \in Nat \ {0} /\ i \in Nat
    BY DEF Filter
<1>3. i * Hash2[key] \in Nat
    BY <1>1, <1>2
<1>4. (Hash1[key] + i * Hash2[key]) % Modulus64 \in Nat
    BY <1>1, <1>3, BloomAssumption
<1> QED
    BY <1>2, <1>4

(***************************************************************************)
(* Two filters of one shape have the same positions for every key.         *)
(***************************************************************************)
LEMMA SameShapeSamePositions ==
    ASSUME NEW f, NEW g, SameShape(f, g), NEW key
    PROVE  Positions(f, key) = Positions(g, key)
BY DEF SameShape, Positions

(***************************************************************************)
(* Add keeps the shape and only adds bits.                                 *)
(***************************************************************************)
LEMMA AddGrows ==
    ASSUME NEW f \in Filter, NEW type, NEW value \in Int
    PROVE  /\ SameShape(Add(f, type, value), f)
           /\ Add(f, type, value).bits = f.bits \cup Positions(f, Key(type, value))
           /\ Add(f, type, value) \in Filter
<1>1. Positions(f, Key(type, value)) \subseteq Nat
    <2>1. f.numBits \in Nat
        BY DEF Filter
    <2> QED
        BY <2>1, PositionsWithinFilter
<1> QED
    BY <1>1 DEF Add, SameShape, Filter

(***************************************************************************)
(* Merge keeps the shape of the filter it is called on and only adds bits. *)
(***************************************************************************)
LEMMA MergeGrows ==
    ASSUME NEW f \in Filter, NEW g \in Filter
    PROVE  /\ SameShape(Merge(f, g), f)
           /\ f.bits \subseteq Merge(f, g).bits
           /\ SameShape(f, g) => g.bits \subseteq Merge(f, g).bits
           /\ Merge(f, g) \in Filter
<1>1. CASE SameShape(f, g)
    BY <1>1 DEF Merge, SameShape, Filter
<1>2. CASE ~SameShape(f, g)
    BY <1>2 DEF Merge, SameShape
<1> QED
    BY <1>1, <1>2

(***************************************************************************)
(* A value that was just added is found, when it is asked for with the     *)
(* type it was added with.                                                 *)
(***************************************************************************)
THEOREM AddedIsFound ==
    ASSUME NEW f \in Filter, NEW type, NEW value \in Int
    PROVE  MightContain(Add(f, type, value), type, value)
BY AddGrows, SameShapeSamePositions DEF MightContain

(***************************************************************************)
(* Later calls of Add and of Merge lose nothing that a filter contained.   *)
(***************************************************************************)
THEOREM FoundStaysFound ==
    ASSUME NEW f \in Filter, NEW type, NEW value, MightContain(f, type, value)
    PROVE  /\ \A t : \A v \in Int : MightContain(Add(f, t, v), type, value)
           /\ \A g \in Filter : MightContain(Merge(f, g), type, value)
<1>1. ASSUME NEW t, NEW v \in Int
      PROVE  MightContain(Add(f, t, v), type, value)
    BY AddGrows, SameShapeSamePositions DEF MightContain
<1>2. ASSUME NEW g \in Filter
      PROVE  MightContain(Merge(f, g), type, value)
    BY MergeGrows, SameShapeSamePositions DEF MightContain
<1> QED
    BY <1>1, <1>2

(***************************************************************************)
(* Merging a filter of the same shape brings in everything it contained;   *)
(* one of another shape brings in nothing.                                 *)
(***************************************************************************)
THEOREM MergeTakesOver ==
    ASSUME NEW f \in Filter, NEW g \in Filter
    PROVE  /\ SameShape(f, g) =>
                  \A type, value : MightContain(g, type, value)
                                      => MightContain(Merge(f, g), type, value)
           /\ ~SameShape(f, g) => Merge(f, g) = f
<1>1. ASSUME SameShape(f, g), NEW type, NEW value, MightContain(g, type, value)
      PROVE  MightContain(Merge(f, g), type, value)
    <2>1. Positions(Merge(f, g), Key(type, value)) = Positions(f, Key(type, value))
        BY MergeGrows, SameShapeSamePositions
    <2>2. Positions(f, Key(type, value)) = Positions(g, Key(type, value))
        BY <1>1, SameShapeSamePositions
    <2>3. g.bits \subseteq Merge(f, g).bits
        BY <1>1, MergeGrows
    <2> QED
        BY <1>1, <2>1, <2>2, <2>3 DEF MightContain
<1>2. ASSUME ~SameShape(f, g)
      PROVE  Merge(f, g) = f
    BY <1>2 DEF Merge
<1> QED
    BY <1>1, <1>2
-----------------------------------------------------------------------------
(* Zone maps *)

\* A non-empty set of naturals has a least element.
LEMMA LeastNat ==
    ASSUME NEW S, S \subseteq Nat, S # {}
    PROVE  \E m \in S : \A n \in S : m <= n
<1>1. IsWellFoundedOn(OpToRel(<, Nat), Nat)
  BY NatLessThanWellFounded
<1>2. PICK m \in S : \A n \in S : ~ (<<n, m>> \in OpToRel(<, Nat))
  BY <1>1, WFMin
<1>3. \A n \in S : n < m => <<n, m>> \in OpToRel(<, Nat)
  BY DEF OpToRel
<1>4. \A n \in S : ~ (n < m)
  BY <1>2, <1>3, Zenon
<1> QED
  BY <1>4

\* Some row of a non-empty set of rows holds the greatest of their values: the
\* shortest prefix of which this were false would have a shorter one.
LEMMA GreatestRow ==
    ASSUME NEW n \in Nat, NEW f, NEW V, V \subseteq 1 .. n, V # {}, \A i \in V : f[i] \in Int
    PROVE  \E m \in V : \A i \in V : f[m] >= f[i]
<1> DEFINE Good(W) == \E m \in W : \A i \in W : f[m] >= f[i]
           Bad == {k \in Nat : \E W \in SUBSET V : W # {} /\ W \subseteq 1 .. k /\ ~Good(W)}
<1>1. SUFFICES ASSUME Bad # {} PROVE FALSE
  <2>1. n \notin Bad
    BY <1>1
  <2> QED
    BY <2>1
<1>2. PICK k \in Bad : \A j \in Bad : k <= j
  <2>1. Bad \subseteq Nat
    OBVIOUS
  <2> HIDE DEF Bad
  <2> QED
    BY <1>1, <2>1, LeastNat
<1>3. PICK W \in SUBSET V : W # {} /\ W \subseteq 1 .. k /\ ~Good(W)
  OBVIOUS
<1>a. k \in Nat /\ \A j : j \in Bad => k <= j
  BY <1>2
<1>4. k \in Nat \ {0}
  <2>1. ASSUME k = 0 PROVE FALSE
    <3>1. W \subseteq {}
      BY <1>3, <2>1
    <3> QED
      BY <1>3, <3>1
  <2> QED
    BY <1>a, <2>1
<1> DEFINE U == W \ {k}
<1>5. U = {} \/ Good(U)
  <2>1. k - 1 \in Nat /\ ~(k - 1 \in Bad)
    <3> HIDE DEF Bad
    <3>1. k - 1 \in Nat /\ ~(k <= k - 1)
      BY <1>4
    <3> QED
      BY <1>a, <3>1
  <2>2. U \subseteq 1 .. k - 1 /\ U \in SUBSET V
    BY <1>3, <1>4
  <2> QED
    BY <2>1, <2>2
<1>6. CASE k \notin W
  <2>1. U = W
    BY <1>6
  <2> QED
    BY <1>3, <1>5, <2>1
<1>7. CASE k \in W
  <2>1. f[k] \in Int /\ \A i \in W : f[i] \in Int
    BY <1>7
  <2>2. CASE U = {}
    <3>1. \A i \in W : i = k
      BY <2>2
    <3>2. \A i \in W : f[k] >= f[i]
      BY <2>1, <3>1
    <3> QED
      BY <1>3, <1>7, <3>2
  <2>3. CASE Good(U)
    <3>1. PICK m \in U : \A i \in U : f[m] >= f[i]
      BY <2>3
    <3>2. CASE f[m] >= f[k]
      <4>1. \A i \in W : f[m] >= f[i]
        BY <3>1, <3>2
      <4> QED
        BY <1>3, <4>1
    <3>3. CASE ~(f[m] >= f[k])
      <4>1. \A i \in W : f[k] >= f[i]
        BY <2>1, <3>1, <3>3
      <4> QED
        BY <1>3, <1>7, <4>1
    <3> QED
      BY <3>2, <3>3
  <2> QED
    BY <1>5, <2>2, <2>3
<1> QED
  BY <1>6, <1>7

\* The same of the least value, by negation.
LEMMA LeastRow ==
    ASSUME NEW n \in Nat, NEW f, NEW V, V \subseteq 1 .. n, V # {}, \A i \in V : f[i] \in Int
    PROVE  \E m \in V : \A i \in V : f[m] <= f[i]
<1> DEFINE g == [i \in V |-> -f[i]]
<1>1. \A i \in V : g[i] \in Int /\ g[i] = -f[i]
  OBVIOUS
<1> HIDE DEF g
<1>2. PICK m \in V : \A i \in V : g[m] >= g[i]
  BY <1>1, GreatestRow
<1>3. \A i \in V : f[m] <= f[i]
  BY <1>1, <1>2
<1> QED
  BY <1>3

\* Min and Max of the values of a non-empty set of rows.
LEMMA MinMaxOfRows ==
    ASSUME NEW n \in Nat, NEW f, NEW V, V \subseteq 1 .. n, V # {}, \A i \in V : f[i] \in Int
    PROVE  LET values == {f[i] : i \in V} IN
           /\ Min(values) \in values /\ Max(values) \in values
           /\ \A i \in V : Min(values) <= f[i] /\ f[i] <= Max(values)
<1> DEFINE values == {f[i] : i \in V}
<1>1. \E x \in values : \A y \in values : x >= y
  <2>1. PICK m \in V : \A i \in V : f[m] >= f[i]
    BY GreatestRow
  <2>2. f[m] \in values
    OBVIOUS
  <2>3. \A y \in values : f[m] >= y
    BY <2>1
  <2> QED
    BY <2>2, <2>3
<1>2. \E x \in values : \A y \in values : x <= y
  <2>1. PICK m \in V : \A i \in V : f[m] <= f[i]
    BY LeastRow
  <2>2. f[m] \in values
    OBVIOUS
  <2>3. \A y \in values : f[m] <= y
    BY <2>1
  <2> QED
    BY <2>2, <2>3
<1>3. Max(values) \in values /\ \A y \in values : Max(values) >= y
  BY <1>1 DEF Max
<1>4. Min(values) \in values /\ \A y \in values : Min(values) <= y
  BY <1>2 DEF Min
<1>5. \A i \in V : f[i] \in values
  OBVIOUS
<1>6. \A y \in values : y \in Int
  OBVIOUS
<1> HIDE DEF values
<1>7. \A i \in V : Min(values) <= f[i] /\ f[i] <= Max(values)
  BY <1>3, <1>4, <1>5, <1>6
<1> QED
  BY <1>3, <1>4, <1>7 DEF values
-----------------------------------------------------------------------------
\* What a ZoneMapEntry may hold.
Entry == [min : Int, max : Int, nullCount : Nat, rowCount : Nat,
          hasMinMax : BOOLEAN, hasNulls : BOOLEAN]

\* What the entry e says of rows from .. to of the column d with null flags z.
\* IsNull is right about nulls behind a value or in a block of nulls; first: no
\* earlier build has left a null_count behind.
Describes(e, d, z, from, to, first) ==
    /\ (\E i \in from .. to : ~z[i]) =>
           /\ e.hasMinMax /\ e.rowCount > 0
           /\ \E i \in from .. to : ~z[i] /\ d[i] = e.min
           /\ \E i \in from .. to : ~z[i] /\ d[i] = e.max
           /\ \A i \in from .. to : ~z[i] => e.min <= d[i] /\ d[i] <= e.max
           /\ first => e.rowCount > e.nullCount
    /\ (\E i \in from .. to : /\ z[i]
                              /\ \/ \A j \in from .. to : z[j]
                                 \/ \E j \in from .. to : j <= i /\ ~z[j]) => e.hasNulls

\* The entry of a block of nulls.
LEMMA AllNullFields ==
    ASSUME NEW e \in Entry, NEW d, Len(d) \in Nat
    PROVE  AllNull(e, d) \in Entry /\ AllNull(e, d).hasNulls
<1>1. AllNull(e, d).hasNulls
  BY DEF AllNull, Entry
<1>2. AllNull(e, d) \in Entry
  BY DEF AllNull, Entry
<1> QED
  BY <1>1, <1>2

\* The fields of an entry whose block has a value.
Holds(g, x, y, n, rows) ==
    /\ g \in Entry /\ g.min = x /\ g.max = y /\ g.hasMinMax
    /\ g.nullCount = n /\ g.rowCount = rows /\ (g.hasNulls <=> n > 0)

\* What Update assigns when the block has a value.
LEMMA CountedFields ==
    ASSUME NEW e \in Entry, NEW d, NEW z, Len(d) \in Nat, NEW n, NEW x \in Int, NEW y \in Int,
           n = e.nullCount + Cardinality({i \in DOMAIN d : z[i] /\ i > FirstValid(d, z)}), n \in Nat
    PROVE  Holds([Counted(e, d, z) EXCEPT !.min = x, !.max = y, !.hasMinMax = TRUE],
                 x, y, n, Len(d))
<1> DEFINE c == Counted(e, d, z)
           g == [c EXCEPT !.min = x, !.max = y, !.hasMinMax = TRUE]
           b == n > 0
           m == Len(d)
<1>1. c = [e EXCEPT !.nullCount = n, !.rowCount = m, !.hasNulls = b]
  BY Zenon DEF Counted
<1>a. b \in BOOLEAN /\ m \in Nat /\ n \in Nat
  OBVIOUS
<1> HIDE DEF b, m
<1>2. c \in Entry /\ c.nullCount = n /\ c.rowCount = m /\ c.hasNulls = b
  BY <1>1, <1>a DEF Entry
<1> HIDE DEF c
<1>3. g \in Entry /\ g.min = x /\ g.max = y /\ g.hasMinMax
  BY <1>2 DEF Entry
<1>4. g.nullCount = n /\ g.rowCount = m /\ g.hasNulls = b
  BY <1>2 DEF Entry
<1> HIDE DEF g
<1>5. g.rowCount = Len(d) /\ (g.hasNulls <=> n > 0)
  BY <1>4, Zenon DEF m, b
<1> QED
  BY <1>3, <1>4, <1>5, Zenon DEF c, g, Holds

\* Update summarises its block, whatever the entry held before.
LEMMA UpdateDescribes ==
    ASSUME NEW e \in Entry, NEW d \in Seq(Int), NEW z, NEW first \in BOOLEAN,
           first => e.nullCount = 0
    PROVE  Update(e, d, z) \in Entry /\ Describes(Update(e, d, z), d, z, 1, Len(d), first)
<1> DEFINE V == Valid(d, z)
           N == Len(d)
           u == Update(e, d, z)
<1>1. N \in Nat /\ DOMAIN d = 1 .. N /\ \A i \in 1 .. N : d[i] \in Int
  BY LenProperties, ElementOfSeq
<1>2. V \subseteq 1 .. N /\ \A i \in 1 .. N : i \in V <=> ~z[i]
  BY <1>1, Zenon DEF Valid
<1>3. CASE V = {}
  <2>1. u = AllNull(e, d)
    BY <1>3, Zenon DEF Update
  <2>2. u \in Entry /\ u.hasNulls
    BY <1>1, <2>1, AllNullFields
  <2>3. ~ \E i \in 1 .. N : ~z[i]
    BY <1>2, <1>3, Zenon
  <2> HIDE DEF u
  <2>4. Describes(u, d, z, 1, N, first)
    BY <2>2, <2>3, Zenon DEF Describes
  <2> QED
    BY <2>2, <2>4 DEF u
<1>4. CASE V # {}
  <2> DEFINE values == {d[i] : i \in V}
             x == Min(values)
             y == Max(values)
             p == FirstValid(d, z)
             later == {i \in DOMAIN d : z[i] /\ i > p}
             n == e.nullCount + Cardinality(later)
  <2>a. \A i \in V : d[i] \in Int
    BY <1>1, <1>2
  <2> HIDE DEF V, N
  <2>1. /\ x \in values /\ y \in values
        /\ \A i \in V : x <= d[i] /\ d[i] <= y
    BY <1>1, <1>2, <1>4, <2>a, MinMaxOfRows
  <2>2. x \in Int /\ y \in Int
    BY <2>a, <2>1
  <2>b. (\E i \in V : d[i] = x) /\ (\E i \in V : d[i] = y)
    BY <2>1
  <2>3. p \in V /\ \A i \in V : p <= i
    <3>1. V \subseteq Nat
      BY <1>1, <1>2
    <3>2. \E m \in V : \A i \in V : m <= i
      BY <1>4, <3>1, LeastNat
    <3>3. p = CHOOSE m \in V : \A i \in V : m <= i
      BY Zenon DEF FirstValid, Min, V
    <3> QED
      BY <3>2, <3>3
  <2> HIDE DEF x, y, p, values
  <2>4. /\ IsFiniteSet(later) /\ Cardinality(later) \in Nat /\ Cardinality(later) < N
        /\ later # {} => Cardinality(later) > 0
    <3> DEFINE T == 1 .. N
               Q == T \ {p}
    <3>1. IsFiniteSet(T) /\ Cardinality(T) = N
      BY <1>1, FS_Interval
    <3>2. p \in T
      BY <1>2, <2>3
    <3> HIDE DEF T
    <3>3. IsFiniteSet(Q) /\ Cardinality(Q) = N - 1
      BY <3>1, <3>2, FS_RemoveElement
    <3>4. later \in SUBSET Q
      BY <1>1, <1>2, <2>3 DEF T
    <3> HIDE DEF Q, later
    <3>5. IsFiniteSet(later) /\ Cardinality(later) <= N - 1
      BY <3>3, <3>4, FS_Subset
    <3>6. Cardinality(later) \in Nat
      BY <3>5, FS_CardinalityType
    <3>7. later # {} => Cardinality(later) # 0
      BY <3>5, FS_EmptySet
    <3> QED
      BY <1>1, <3>5, <3>6, <3>7
  <2>5. n \in Nat
    BY <2>4 DEF Entry
  <2>6. u = [Counted(e, d, z) EXCEPT !.min = x, !.max = y, !.hasMinMax = TRUE]
    BY <1>4, Zenon DEF Update, V, x, y, values
  <2>7. /\ u \in Entry /\ u.min = x /\ u.max = y /\ u.hasMinMax
        /\ u.nullCount = n /\ u.rowCount = N /\ (u.hasNulls <=> n > 0)
    <3>1. n = e.nullCount + Cardinality({i \in DOMAIN d : z[i] /\ i > FirstValid(d, z)})
      BY Zenon DEF p
    <3>2. Len(d) \in Nat
      BY <1>1 DEF N
    <3> HIDE DEF n, later
    <3>3. Holds([Counted(e, d, z) EXCEPT !.min = x, !.max = y, !.hasMinMax = TRUE],
                x, y, n, Len(d))
      BY <2>2, <2>5, <3>1, <3>2, CountedFields, Zenon
    <3> HIDE DEF u
    <3> QED
      BY <2>6, <3>3, Zenon DEF N, Holds
  <2> HIDE DEF u
  <2>8. u.rowCount > 0 /\ (first => u.rowCount > u.nullCount)
    <3>1. N > 0
      BY <1>1, <2>4
    <3>2. first => n = Cardinality(later)
      BY <2>4
    <3> HIDE DEF n
    <3> QED
      BY <2>4, <2>5, <2>7, <3>1, <3>2
  <2>9. ASSUME NEW i \in 1 .. N, z[i], NEW j \in 1 .. N, j <= i, ~z[j]
        PROVE  u.hasNulls
    <3>1. j \in V /\ ~(i \in V)
      BY <1>2, <2>9, Zenon
    <3>2. i > p
      <4>1. p <= j /\ p \in 1 .. N
        BY <1>2, <2>3, <3>1
      <4>2. i # p
        BY <2>3, <3>1
      <4> QED
        BY <1>1, <2>9, <4>1, <4>2
    <3>3. i \in later
      BY <1>1, <2>9, <3>2, Zenon
    <3>4. n > 0
      <4>1. Cardinality(later) > 0
        BY <2>4, <3>3, Zenon
      <4>2. e.nullCount \in Nat
        BY DEF Entry
      <4> HIDE DEF later
      <4> QED
        BY <2>4, <4>1, <4>2
    <3> QED
      BY <2>7, <3>4, Zenon
  <2>10. ~ \A j \in 1 .. N : z[j]
    BY <1>2, <1>4, Zenon
  <2>11. /\ \E i \in 1 .. N : ~z[i] /\ d[i] = u.min
         /\ \E i \in 1 .. N : ~z[i] /\ d[i] = u.max
    BY <1>2, <2>b, <2>7, Zenon
  <2>12. \A i \in 1 .. N : ~z[i] => u.min <= d[i] /\ d[i] <= u.max
    BY <1>2, <2>1, <2>7, Zenon
  <2>13. Describes(u, d, z, 1, N, first)
    BY <2>7, <2>8, <2>9, <2>10, <2>11, <2>12, Zenon DEF Describes
  <2> QED
    BY <2>7, <2>13 DEF u, N
<1> QED
  BY <1>3, <1>4

\* The block of a column that Update is given, row by row.
LEMMA BlockDescribes ==
    ASSUME NEW e \in Entry, NEW d \in Seq(Int), NEW z \in Seq(BOOLEAN), Len(z) = Len(d),
           NEW first \in BOOLEAN, first => e.nullCount = 0,
           NEW from \in Nat \ {0}, NEW to \in Nat, to <= Len(d)
    PROVE  LET u == Update(e, SubSeq(d, from, to), SubSeq(z, from, to)) IN
           u \in Entry /\ Describes(u, d, z, from, to, first)
<1> DEFINE x == SubSeq(d, from, to)
           w == SubSeq(z, from, to)
           u == Update(e, x, w)
           L == Len(x)
           B == BOOLEAN
<1>1. Len(d) \in Nat /\ \A i \in from .. to : d[i] \in Int /\ z[i] \in B
  <2>1. Len(d) \in Nat /\ \A i \in from .. to : i \in 1 .. Len(d) /\ i \in 1 .. Len(z)
    BY LenProperties
  <2>2. ASSUME NEW i \in from .. to PROVE d[i] \in Int
    BY <2>1, ElementOfSeq
  <2>3. ASSUME NEW i \in from .. to PROVE z[i] \in B
    BY <2>1, ElementOfSeq
  <2> QED
    BY <2>1, <2>2, <2>3
<1> HIDE DEF B
<1>2. /\ x \in Seq(Int) /\ L = IF from <= to THEN to - from + 1 ELSE 0
      /\ \A k \in 1 .. to - from + 1 : x[k] = d[from + k - 1]
  BY <1>1, SubSeqProperties
<1>3. \A k \in 1 .. to - from + 1 : w[k] = z[from + k - 1]
  BY <1>1, SubSeqProperties
<1> HIDE DEF x, w, L
<1>4. ASSUME NEW i \in from .. to
      PROVE  \E k \in 1 .. L : /\ k = i - from + 1 /\ i = from + k - 1
                                /\ x[k] = d[i] /\ w[k] = z[i]
  <2> DEFINE k == i - from + 1
  <2>1. k \in 1 .. L /\ k \in 1 .. to - from + 1 /\ from + k - 1 = i /\ k = i - from + 1
    BY <1>2
  <2> HIDE DEF k
  <2> QED
    BY <1>2, <1>3, <2>1
<1>5. ASSUME NEW k \in 1 .. L
      PROVE  \E i \in from .. to : /\ k = i - from + 1 /\ i = from + k - 1
                                    /\ x[k] = d[i] /\ w[k] = z[i]
  <2> DEFINE i == from + k - 1
  <2>1. k \in 1 .. to - from + 1 /\ i \in from .. to /\ k = i - from + 1 /\ i = from + k - 1
    BY <1>2
  <2> HIDE DEF i
  <2> QED
    BY <1>2, <1>3, <2>1
<1>6. u \in Entry /\ Describes(u, x, w, 1, L, first)
  BY <1>2, UpdateDescribes, Zenon DEF L
<1> HIDE DEF u
<1>7. ASSUME \E i \in from .. to : ~z[i]
      PROVE  /\ u.hasMinMax /\ u.rowCount > 0
             /\ \E i \in from .. to : ~z[i] /\ d[i] = u.min
             /\ \E i \in from .. to : ~z[i] /\ d[i] = u.max
             /\ \A i \in from .. to : ~z[i] => u.min <= d[i] /\ d[i] <= u.max
             /\ first => u.rowCount > u.nullCount
  <2>1. \E k \in 1 .. L : ~w[k]
    BY <1>4, <1>7, Zenon
  <2>2. /\ u.hasMinMax /\ u.rowCount > 0
        /\ first => u.rowCount > u.nullCount
    BY <1>6, <2>1, Zenon DEF Describes
  <2>3. PICK k \in 1 .. L : ~w[k] /\ x[k] = u.min
    BY <1>6, <2>1, Zenon DEF Describes
  <2>4. \E i \in from .. to : ~z[i] /\ d[i] = u.min
    BY <1>5, <2>3, Zenon
  <2>5. PICK j \in 1 .. L : ~w[j] /\ x[j] = u.max
    BY <1>6, <2>1, Zenon DEF Describes
  <2>6. \E i \in from .. to : ~z[i] /\ d[i] = u.max
    BY <1>5, <2>5, Zenon
  <2>7. \A h \in 1 .. L : ~w[h] => u.min <= x[h] /\ x[h] <= u.max
    BY <1>6, <2>1, Zenon DEF Describes
  <2>8. \A i \in from .. to : ~z[i] => u.min <= d[i] /\ d[i] <= u.max
    BY <1>4, <2>7, Zenon
  <2> QED
    BY <2>2, <2>4, <2>6, <2>8
<1>8. ASSUME NEW i \in from .. to, z[i],
             \/ \A j \in from .. to : z[j]
             \/ \E j \in from .. to : j <= i /\ ~z[j]
      PROVE  u.hasNulls
  <2>1. PICK k \in 1 .. L : k = i - from + 1 /\ w[k] = z[i]
    BY <1>4, Zenon
  <2>2. CASE \A j \in from .. to : z[j]
    <3>1. \A h \in 1 .. L : w[h]
      BY <1>5, <2>2, Zenon
    <3> QED
      BY <1>6, <1>8, <2>1, <3>1, Zenon DEF Describes
  <2>3. CASE \E j \in from .. to : j <= i /\ ~z[j]
    <3>1. PICK j \in from .. to : j <= i /\ ~z[j]
      BY <2>3
    <3>2. PICK h \in 1 .. L : h = j - from + 1 /\ w[h] = z[j]
      BY <1>4, Zenon
    <3>3. h <= k
      BY <2>1, <3>1, <3>2
    <3> QED
      BY <1>6, <1>8, <2>1, <3>1, <3>2, <3>3, Zenon DEF Describes
  <2> QED
    BY <1>8, <2>2, <2>3
<1>9. Describes(u, d, z, from, to, first)
  BY <1>7, <1>8, Zenon DEF Describes
<1> QED
  BY <1>6, <1>9 DEF u, x, w
-----------------------------------------------------------------------------
\* The column, and what BuildFromColumn has made of the rows it saw.
ColumnInv ==
    /\ data \in Seq(Int) /\ nulls \in Seq(BOOLEAN) /\ Len(nulls) = Len(data)
    /\ covered \in Nat /\ covered <= Len(data) /\ builds \in Nat
    /\ entries \in Seq(Entry)
    /\ builds = 0 => entries = <<>>

\* The rows of block b that the last BuildFromColumn summarised.
From(b) == BlockRange(b, BlockRows, covered).from
To(b)   == BlockRange(b, BlockRows, covered).to

\* Every entry describes its block as of the last build.
EntriesInv == \A b \in 0 .. Len(entries) - 1 :
                  Describes(entries[b + 1], data, nulls, From(b), To(b), builds = 1)

\* The entry u of a block of n rows of a column, made by one more build.
EntryOf(u, b, n, d, z, first) ==
    LET r == BlockRange(b, BlockRows, n)
    IN  u \in Entry /\ Describes(u, d, z, r.from, r.to, first)

\* A block lies within the column.
LEMMA BlockBounds ==
    ASSUME NEW b \in Nat, NEW n \in Nat
    PROVE  LET r == BlockRange(b, BlockRows, n) IN
           r.from \in Nat \ {0} /\ r.to \in Nat /\ r.to <= n
<1>1. BlockRows \in Nat /\ b * BlockRows \in Nat /\ (b + 1) * BlockRows \in Nat
  BY BuildAssumption
<1> DEFINE p == b * BlockRows
           q == (b + 1) * BlockRows
<1>2. BlockRange(b, BlockRows, n) = [from |-> p + 1, to |-> IF q < n THEN q ELSE n]
  BY DEF BlockRange
<1>3. p \in Nat /\ q \in Nat
  BY <1>1
<1> HIDE DEF p, q
<1> QED
  BY <1>2, <1>3

\* An empty column has no entries.
LEMMA ColumnInit == ASSUME BuildInit PROVE ColumnInv /\ EntriesInv
<1>1. ColumnInv
  BY DEF BuildInit, ColumnInv
<1>2. EntriesInv
  BY DEF BuildInit, EntriesInv
<1> QED
  BY <1>1, <1>2

\* Rows appended after a build belong to no block of the map yet.
LEMMA AppendStep ==
    ASSUME ColumnInv, EntriesInv, NEW v \in Values, NEW null \in BOOLEAN, AppendRow(v, null)
    PROVE  ColumnInv' /\ EntriesInv'
<1> DEFINE B == BOOLEAN
<1>1. /\ data \in Seq(Int) /\ nulls \in Seq(B) /\ v \in Int /\ null \in B
      /\ data' = Append(data, v) /\ nulls' = Append(nulls, null)
      /\ entries' = entries /\ covered' = covered /\ builds' = builds
      /\ Len(nulls) = Len(data) /\ covered \in Nat /\ covered <= Len(data)
  BY BuildAssumption DEF AppendRow, ColumnInv
<1> HIDE DEF B
<1>2. /\ data' \in Seq(Int) /\ Len(data') = Len(data) + 1
      /\ \A i \in 1 .. Len(data) : data'[i] = data[i]
  BY <1>1, AppendProperties
<1>3. /\ nulls' \in Seq(B) /\ Len(nulls') = Len(nulls) + 1
      /\ \A i \in 1 .. Len(nulls) : nulls'[i] = nulls[i]
  BY <1>1, AppendProperties
<1>4. Len(data) \in Nat
  BY <1>1, LenProperties
<1>5. ColumnInv'
  BY <1>1, <1>2, <1>3, <1>4 DEF ColumnInv, B
<1>6. ASSUME NEW b \in 0 .. Len(entries) - 1
      PROVE  Describes(entries[b + 1], data', nulls', From(b), To(b), builds = 1)
  <2>1. b \in Nat /\ From(b) \in Nat \ {0} /\ To(b) \in Nat /\ To(b) <= covered
    <3>1. Len(entries) \in Nat
      BY LenProperties DEF ColumnInv
    <3>2. b \in Nat
      BY <3>1
    <3> QED
      BY <1>1, <3>2, BlockBounds DEF From, To
  <2>2. \A i \in From(b) .. To(b) : data'[i] = data[i] /\ nulls'[i] = nulls[i]
    <3>1. \A i \in From(b) .. To(b) : i \in 1 .. Len(data) /\ i \in 1 .. Len(nulls)
      BY <1>1, <1>4, <2>1
    <3> QED
      BY <1>2, <1>3, <3>1, Zenon
  <2>3. Describes(entries[b + 1], data, nulls, From(b), To(b), builds = 1)
    BY DEF EntriesInv
  <2> QED
    BY <2>2, <2>3, Zenon DEF Describes
<1>7. EntriesInv'
  BY <1>1, <1>6, Zenon DEF EntriesInv, From, To
<1> QED
  BY <1>5, <1>7

\* A rebuild reuses entries, and still describes every block anew.
LEMMA BuildStep ==
    ASSUME ColumnInv, EntriesInv, Build
    PROVE  ColumnInv' /\ EntriesInv'
<1> DEFINE n == Len(data)
           K == NumBlocks(n, BlockRows)
           first == builds' = 1
           old(k) == IF k <= Len(entries) THEN entries[k] ELSE EmptyEntry
<1>1. /\ data \in Seq(Int) /\ nulls \in Seq(BOOLEAN) /\ Len(nulls) = Len(data)
      /\ builds \in Nat /\ entries \in Seq(Entry) /\ (builds = 0 => entries = <<>>)
      /\ data' = data /\ nulls' = nulls /\ builds' = builds + 1 /\ covered' = n
      /\ entries' = BuildFromColumn(entries, data, nulls, BlockRows)
  BY DEF Build, ColumnInv
<1>2. n \in Nat /\ Len(entries) \in Nat
  BY <1>1, LenProperties
<1>3. K \in Nat
  <2>1. BlockRows \in Nat \ {0} /\ n + BlockRows - 1 \in Nat
    BY <1>2, BuildAssumption
  <2> QED
    BY <2>1 DEF NumBlocks
<1>4. ASSUME NEW k \in 1 .. K
      PROVE  old(k) \in Entry /\ (first => old(k).nullCount = 0)
  <2>1. EmptyEntry \in Entry /\ EmptyEntry.nullCount = 0
    BY DEF EmptyEntry, Entry
  <2>2. k <= Len(entries) => entries[k] \in Entry
    BY <1>1, <1>2, ElementOfSeq
  <2>3. first => ~(k <= Len(entries))
    BY <1>1
  <2> QED
    BY <2>1, <2>2, <2>3
<1>5. ASSUME NEW k \in 1 .. K
      PROVE  EntryOf(entries'[k], k - 1, n, data, nulls, first)
  <2> DEFINE r == BlockRange(k - 1, BlockRows, n)
             e == old(k)
             from == r.from
             to == r.to
             u == Update(e, SubSeq(data, from, to), SubSeq(nulls, from, to))
             f == first
  <2>1. entries'[k] = u
    BY <1>1, Zenon DEF BuildFromColumn
  <2>2. from \in Nat \ {0} /\ to \in Nat /\ to <= Len(data)
    BY <1>2, BlockBounds
  <2>3. e \in Entry /\ f \in BOOLEAN /\ (f => e.nullCount = 0)
    BY <1>4
  <2> HIDE DEF e, f, from, to, r, n
  <2>4. u \in Entry /\ Describes(u, data, nulls, from, to, f)
    BY <1>1, <2>2, <2>3, BlockDescribes
  <2> HIDE DEF u
  <2> QED
    BY <2>1, <2>4, Zenon DEF EntryOf, from, to, r, f
<1>6. /\ entries' \in Seq(Entry) /\ Len(entries') = K
  <2>1. entries' = [k \in 1 .. K |-> entries'[k]]
    BY <1>1, Zenon DEF BuildFromColumn
  <2>2. \A k \in 1 .. K : entries'[k] \in Entry
    BY <1>5, Zenon DEF EntryOf
  <2> HIDE DEF K
  <2>3. entries' \in [1 .. K -> Entry]
    BY <2>1, <2>2, Zenon
  <2> QED
    BY <1>3, <2>3
<1>7. ColumnInv'
  BY <1>1, <1>2, <1>6 DEF ColumnInv
<1>8. ASSUME NEW b \in 0 .. Len(entries') - 1
      PROVE  Describes(entries'[b + 1], data', nulls', From(b)', To(b)', first)
  <2>1. PICK k \in 1 .. K : k = b + 1 /\ b = k - 1
    BY <1>3, <1>6
  <2>2. EntryOf(entries'[b + 1], b, n, data, nulls, first)
    BY <1>5, <2>1
  <2> HIDE DEF first, n
  <2> QED
    BY <1>1, <2>2, Zenon DEF EntryOf, From, To
<1>9. EntriesInv'
  BY <1>8, Zenon DEF EntriesInv
<1> QED
  BY <1>7, <1>9

(***************************************************************************)
(* The inductive invariant: whatever rows are appended between the calls   *)
(* of BuildFromColumn, every entry describes the rows its build saw, also  *)
(* when the entry is reused and its null_count is left from before.        *)
(***************************************************************************)
THEOREM ZoneMapSummary == BuildSpec => [](ColumnInv /\ EntriesInv)
<1>1. BuildInit => ColumnInv /\ EntriesInv
  BY ColumnInit
<1>2. ColumnInv /\ EntriesInv /\ [BuildNext]_buildVars => ColumnInv' /\ EntriesInv'
  <2>1. CASE UNCHANGED buildVars
    BY <2>1 DEF buildVars, ColumnInv, EntriesInv, From, To
  <2> QED
    BY <2>1, AppendStep, BuildStep DEF BuildNext
<1> QED
  BY <1>1, <1>2, PTL DEF BuildSpec
-----------------------------------------------------------------------------
\* The entry of a block, in terms of RowsOfBlock.
LEMMA BlockEntry ==
    ASSUME ColumnInv, EntriesInv, NEW b \in 0 .. Len(entries) - 1
    PROVE  /\ RowsOfBlock(b) = From(b) .. To(b)
           /\ Describes(entries[b + 1], data, nulls, From(b), To(b), builds = 1)
           /\ entries[b + 1] \in Entry
           /\ \A i \in From(b) .. To(b) : data[i] \in Int
           /\ ~(b >= Len(entries))
<1>1. RowsOfBlock(b) = From(b) .. To(b)
  BY Zenon DEF RowsOfBlock, From, To
<1>2. Describes(entries[b + 1], data, nulls, From(b), To(b), builds = 1)
  BY DEF EntriesInv
<1>3. entries \in Seq(Entry) /\ Len(entries) \in Nat /\ data \in Seq(Int) /\ Len(data) \in Nat
  BY LenProperties DEF ColumnInv
<1>4. b \in Nat /\ b + 1 \in 1 .. Len(entries) /\ ~(b >= Len(entries))
  BY <1>3
<1>5. entries[b + 1] \in Entry
  BY <1>3, <1>4, ElementOfSeq
<1>6. covered \in Nat /\ covered <= Len(data)
  BY DEF ColumnInv
<1>7. From(b) \in Nat \ {0} /\ To(b) \in Nat /\ To(b) <= covered
  BY <1>4, <1>6, BlockBounds DEF From, To
<1>8. \A i \in From(b) .. To(b) : data[i] \in Int
  BY <1>3, <1>6, <1>7, ElementOfSeq
<1> QED
  BY <1>1, <1>2, <1>4, <1>5, <1>8

(***************************************************************************)
(* Every block with a value has bounds that non-null rows of it attain, so *)
(* a value left under a null flag or in a reused entry never widens them.  *)
(***************************************************************************)
THEOREM ZoneMapBoundsAreTight == BuildSpec => []BoundsAreTight
<1>1. ColumnInv /\ EntriesInv => BoundsAreTight
  <2>1. SUFFICES ASSUME ColumnInv, EntriesInv, NEW b \in 0 .. Len(entries) - 1,
                        {data[i] : i \in {j \in RowsOfBlock(b) : ~nulls[j]}} # {}
                 PROVE  LET held == {data[i] : i \in {j \in RowsOfBlock(b) : ~nulls[j]}} IN
                        /\ entries[b + 1].hasMinMax
                        /\ {entries[b + 1].min, entries[b + 1].max} \subseteq held
    BY Zenon DEF BoundsAreTight
  <2> DEFINE rows == From(b) .. To(b)
             e == entries[b + 1]
  <2>2. RowsOfBlock(b) = rows /\ Describes(e, data, nulls, From(b), To(b), builds = 1)
    BY <2>1, BlockEntry
  <2>3. \E i \in rows : ~nulls[i]
    BY <2>1, <2>2, Zenon
  <2> HIDE DEF e
  <2>4. /\ e.hasMinMax
        /\ \E i \in rows : ~nulls[i] /\ data[i] = e.min
        /\ \E i \in rows : ~nulls[i] /\ data[i] = e.max
    BY <2>2, <2>3, Zenon DEF Describes
  <2> HIDE DEF rows
  <2> QED
    BY <2>2, <2>4, Zenon DEF e
<1> QED
  BY <1>1, ZoneMapSummary, PTL

(***************************************************************************)
(* IsNull and IsNotNull skip no matching row as far as has_nulls and       *)
(* null_count are kept: IsNull unless Update skipped leading nulls,        *)
(* IsNotNull after the first build.                                        *)
(***************************************************************************)
THEOREM ZoneMapNullTestsPruneOnlyMisses == BuildSpec => []NullTestsPruneOnlyMisses
<1>1. ColumnInv /\ EntriesInv => NullTestsPruneOnlyMisses
  <2>1. SUFFICES ASSUME ColumnInv, EntriesInv, NEW b \in 0 .. Len(entries) - 1
                 PROVE  /\ SkippedNulls(b) = {} /\ (\E i \in RowsOfBlock(b) : Satisfies(i, "IsNull", 0))
                               => ShouldScanBlock(entries, b, "IsNull", 0)
                        /\ builds = 1 /\ (\E i \in RowsOfBlock(b) : Satisfies(i, "IsNotNull", 0))
                               => ShouldScanBlock(entries, b, "IsNotNull", 0)
    BY Zenon DEF NullTestsPruneOnlyMisses
  <2> DEFINE rows == From(b) .. To(b)
             e == entries[b + 1]
  <2>2. RowsOfBlock(b) = rows /\ Describes(e, data, nulls, From(b), To(b), builds = 1)
    BY <2>1, BlockEntry
  <2>3. "IsNull" # "IsNotNull"
    OBVIOUS
  <2>4. \A i : (Satisfies(i, "IsNull", 0) <=> nulls[i]) /\ (Satisfies(i, "IsNotNull", 0) <=> ~nulls[i])
    BY <2>3, Zenon DEF Satisfies
  <2>5. CanMatch(e, "IsNull", 0) = e.hasNulls /\ CanMatch(e, "IsNotNull", 0) = (e.rowCount > e.nullCount)
    BY <2>3, Zenon DEF CanMatch
  <2> HIDE DEF e
  <2>6. ASSUME SkippedNulls(b) = {}, NEW i \in rows, nulls[i]
        PROVE  e.hasNulls
    <3>1. (\A j \in rows : nulls[j]) \/ ~(\A j \in rows : j <= i => nulls[j])
      BY <2>2, <2>6, Zenon DEF SkippedNulls
    <3>2. (\A j \in rows : nulls[j]) \/ \E j \in rows : j <= i /\ ~nulls[j]
      BY <3>1, Zenon
    <3> QED
      BY <2>2, <2>6, <3>2, Zenon DEF Describes
  <2>7. ASSUME builds = 1, NEW i \in rows, ~nulls[i]
        PROVE  e.rowCount > e.nullCount
    BY <2>2, <2>7, Zenon DEF Describes
  <2> HIDE DEF rows
  <2> QED
    BY <2>2, <2>4, <2>5, <2>6, <2>7, Zenon DEF ShouldScanBlock, e
<1> QED
  BY <1>1, ZoneMapSummary, PTL

\* What the six comparisons ask of a value between the bounds of its block.
LEMMA BoundsCanMatch ==
    ASSUME NEW e \in Entry, e.rowCount > 0, NEW x \in Int, e.min <= x, x <= e.max,
           NEW value \in Int, NEW pred \in ComparisonOps, Compare(pred, x, value)
    PROVE  CanMatchValue(e, pred, value)
<1>1. e.min \in Int /\ e.max \in Int
  BY DEF Entry
<1>2. CASE pred = "Equal"
  <2>1. x = value
    BY <1>2 DEF Compare
  <2>2. e.min <= value /\ value <= e.max
    BY <2>1
  <2> QED
    BY <1>2, <2>2 DEF CanMatchValue
<1>3. CASE pred = "NotEqual"
  <2>1. x # value
    BY <1>3 DEF Compare
  <2>2. ~(e.min = value /\ e.max = value)
    BY <1>1, <2>1
  <2> QED
    BY <1>3, <2>2 DEF CanMatchValue
<1>4. CASE pred = "LessThan"
  <2>1. x < value
    BY <1>4 DEF Compare
  <2>2. e.min < value
    BY <1>1, <2>1
  <2> QED
    BY <1>4, <2>2 DEF CanMatchValue
<1>5. CASE pred = "LessEqual"
  <2>1. x <= value
    BY <1>5 DEF Compare
  <2>2. e.min <= value
    BY <1>1, <2>1
  <2> QED
    BY <1>5, <2>2 DEF CanMatchValue
<1>6. CASE pred = "GreaterThan"
  <2>1. x > value
    BY <1>6 DEF Compare
  <2>2. e.max > value
    BY <1>1, <2>1
  <2> QED
    BY <1>6, <2>2 DEF CanMatchValue
<1>7. CASE pred = "GreaterEqual"
  <2>1. x >= value
    BY <1>7 DEF Compare
  <2>2. e.max >= value
    BY <1>1, <2>1
  <2> QED
    BY <1>7, <2>2 DEF CanMatchValue
<1> QED
  BY <1>2, <1>3, <1>4, <1>5, <1>6, <1>7 DEF ComparisonOps

(***************************************************************************)
(* The block half of PrunesOnlyMisses: for every block size, every column  *)
(* and however often BuildFromColumn is called, a block that               *)
(* ShouldScanBlock skips for a comparison has no row that satisfies it.    *)
(***************************************************************************)
THEOREM ZoneMapBlocksPruneOnlyMisses == BuildSpec => []BlocksPruneOnlyMisses
<1>1. ColumnInv /\ EntriesInv => BlocksPruneOnlyMisses
  <2>1. SUFFICES ASSUME ColumnInv, EntriesInv, NEW b \in 0 .. Len(entries) - 1,
                        NEW pred \in ComparisonOps, NEW value \in Probes,
                        NEW i \in RowsOfBlock(b), Satisfies(i, pred, value)
                 PROVE  ShouldScanBlock(entries, b, pred, value)
    BY Zenon DEF BlocksPruneOnlyMisses
  <2> DEFINE e == entries[b + 1]
  <2>2. /\ RowsOfBlock(b) = From(b) .. To(b) /\ e \in Entry
        /\ Describes(e, data, nulls, From(b), To(b), builds = 1)
        /\ i \in From(b) .. To(b) /\ data[i] \in Int
    BY <2>1, BlockEntry
  <2>3. pred # "IsNull" /\ pred # "IsNotNull"
    BY <2>1 DEF ComparisonOps
  <2>4. ~nulls[i] /\ Compare(pred, data[i], value)
    BY <2>1, <2>3, Zenon DEF Satisfies
  <2>5. value \in Int
    BY BuildAssumption
  <2> HIDE DEF e
  <2>6. e.rowCount > 0 /\ e.min <= data[i] /\ data[i] <= e.max
    BY <2>2, <2>4, Zenon DEF Describes
  <2>7. CanMatchValue(e, pred, value)
    BY <2>1, <2>2, <2>4, <2>5, <2>6, BoundsCanMatch, Zenon
  <2>8. CanMatch(e, pred, value)
    BY <2>3, <2>7, Zenon DEF CanMatch
  <2> QED
    BY <2>8, Zenon DEF ShouldScanBlock, e
<1> QED
  BY <1>1, ZoneMapSummary, PTL
-----------------------------------------------------------------------------
(* The block loop of SegmentScanner *)

\* Two products with one factor.
LEMMA ProductOrder ==
    ASSUME NEW m \in Nat \ {0}, NEW j \in Int, NEW k \in Int
    PROVE  /\ j * m \in Int /\ k * m \in Int
           /\ j <= k => j * m <= k * m
           /\ j < k => j * m + m <= k * m
           /\ (j + 1) * m = j * m + m
<1>1. j * m \in Int /\ k * m \in Int /\ (j + 1) * m = j * m + m
  OBVIOUS
<1>2. ASSUME j <= k PROVE j * m <= k * m
  <2>1. PICK d \in Nat : k = j + d
    <3>1. k - j \in Nat /\ k = j + (k - j)
      BY <1>2
    <3> QED
      BY <3>1
  <2>2. k * m = j * m + d * m /\ d * m \in Nat
    BY <2>1
  <2> QED
    BY <1>1, <2>2
<1>3. ASSUME j < k PROVE j * m + m <= k * m
  <2>1. PICK d \in Nat : k = j + 1 + d
    <3>1. k - j - 1 \in Nat /\ k = j + 1 + (k - j - 1)
      BY <1>3
    <3> QED
      BY <3>1
  <2>2. k * m = j * m + m + d * m /\ d * m \in Nat
    BY <2>1
  <2> QED
    BY <1>1, <2>2
<1> QED
  BY <1>1, <1>2, <1>3

\* Division rounds down.
LEMMA DivBelow ==
    ASSUME NEW m \in Nat \ {0}, NEW n \in Nat, NEW b \in Int
    PROVE  n \div m < b <=> n < b * m
<1> DEFINE q == n \div m
           r == n % m
<1>1. q \in Int /\ r \in 0 .. m - 1 /\ n = q * m + r
  OBVIOUS
<1> HIDE DEF q, r
<1>2. ASSUME q < b PROVE n < b * m
  <2>1. q * m + m <= b * m /\ q * m \in Int /\ b * m \in Int
    BY <1>1, <1>2, ProductOrder
  <2> QED
    BY <1>1, <2>1
<1>3. ASSUME ~(q < b) PROVE ~(n < b * m)
  <2>1. b <= q
    BY <1>1, <1>3
  <2>2. b * m <= q * m /\ q * m \in Int /\ b * m \in Int
    BY <1>1, <2>1, ProductOrder
  <2> QED
    BY <1>1, <2>2
<1> QED
  BY <1>2, <1>3 DEF q

\* What the builder records of two tests joined by a connective.
LEMMA RecordedPair ==
    ASSUME NEW a, NEW b, NEW c, NEW ops, a.op \in ops, b.op \notin ops, c.op \in ops
    PROVE  Recorded(<<a, b, c>>, ops) = Append(<<a>>, c)
<1> DEFINE calls0 == <<a, b, c>>
           E(f, n) == IF n = 0 THEN <<>>
                      ELSE IF calls0[n].op \in ops THEN Append(f[n - 1], calls0[n]) ELSE f[n - 1]
           R(f) == [n \in 0 .. 3 |-> E(f, n)]
           kept == CHOOSE f : f = R(f)
           one == <<a>>
           two == Append(one, c)
           A == [n \in 0 .. 3 |-> IF n = 0 THEN <<>> ELSE IF n = 3 THEN two ELSE one]
<1>1. Len(calls0) = 3 /\ calls0[1] = a /\ calls0[2] = b /\ calls0[3] = c
  OBVIOUS
<1>2. Recorded(calls0, ops) = kept[3]
  BY <1>1 DEF Recorded
<1>3. one = Append(<<>>, a)
  OBVIOUS
<1> HIDE DEF calls0, one
<1>4. ASSUME NEW f
      PROVE  /\ E(f, 0) = <<>> /\ E(f, 1) = Append(f[0], a) /\ E(f, 2) = f[1]
             /\ E(f, 3) = Append(f[2], c)
  <2>1. 1 - 1 = 0 /\ 2 - 1 = 1 /\ 3 - 1 = 2
    OBVIOUS
  <2> QED
    BY <1>1, <2>1
<1>5. A = R(A)
  <2>1. A[0] = <<>> /\ A[1] = one /\ A[2] = one /\ A[3] = two
    BY DEF A
  <2>2. A = [n \in 0 .. 3 |-> A[n]]
    OBVIOUS
  <2> HIDE DEF A, E
  <2>4. E(A, 0) = A[0] /\ E(A, 1) = A[1] /\ E(A, 2) = A[2] /\ E(A, 3) = A[3]
    BY <1>3, <1>4, <2>1, Zenon DEF two
  <2>5. ASSUME NEW n \in 0 .. 3 PROVE A[n] = E(A, n)
    <3>1. n = 0 \/ n = 1 \/ n = 2 \/ n = 3
      OBVIOUS
    <3> QED
      BY <2>4, <3>1
  <2> QED
    BY <2>2, <2>5
<1>6. kept = R(kept)
  <2> HIDE DEF R
  <2> QED
    BY <1>5
<1> HIDE DEF kept, A
<1>7. kept[0] = E(kept, 0) /\ kept[1] = E(kept, 1) /\ kept[2] = E(kept, 2) /\ kept[3] = E(kept, 3)
  <2> HIDE DEF E
  <2> QED
    BY <1>6
<1> HIDE DEF E
<1>8. kept[3] = Append(one, c)
  BY <1>3, <1>4, <1>7, Zenon
<1> QED
  BY <1>2, <1>8 DEF calls0, one

\* CanMatchZoneMap of two comparisons of one column: only the first is looked at,
\* since there is one map.
LEMMA CanMatchPair ==
    ASSUME NEW p \in BuilderOps, NEW q \in BuilderOps, NEW v, NEW w, NEW es,
           \A k \in DOMAIN es : CanMatchValue(es[k], p, v)
    PROVE  CanMatchZoneMap(<<Comparison(p, 0, v), Connective("And"), Comparison(q, 0, w)>>, <<es>>)
<1> DEFINE a == Comparison(p, 0, v)
           b == Connective("And")
           c == Comparison(q, 0, w)
           cs == <<a, b, c>>
           maps == <<es>>
<1>1. /\ a.op = p /\ a.col = 0 /\ a.val = v /\ c.op = q /\ c.col = 0 /\ c.val = w /\ b.op = "And"
      /\ p \in ComparisonOps /\ q \in ComparisonOps /\ "And" \notin ComparisonOps \cup NullOps
  BY DEF Comparison, Connective, BuilderOps, ComparisonOps, NullOps
<1> HIDE DEF a, b, c
<1> DEFINE two == Append(<<a>>, c)
<1>2. Recorded(cs, ComparisonOps \cup NullOps) = two /\ Recorded(cs, ComparisonOps) = two
  BY <1>1, RecordedPair
<1>9. DOMAIN two = 1 .. 2 /\ two[1] = a
  OBVIOUS
<1> HIDE DEF cs, two
<1>3. /\ DOMAIN ColumnPredicates(cs) = 1 .. 2 /\ ColumnPredicates(cs)[1] = p
      /\ ColumnIndices(cs)[1] = 0 /\ Constants(cs)[1] = v
  BY <1>1, <1>2, <1>9 DEF ColumnPredicates, ColumnIndices, Constants
<1>4. Len(maps) = 1 /\ maps[1] = es
  OBVIOUS
<1> HIDE DEF maps
<1>5. SUFFICES ASSUME NEW i \in DOMAIN ColumnPredicates(cs), i <= Len(maps),
                      NEW k \in DOMAIN maps[ColumnIndices(cs)[i] + 1]
               PROVE  /\ ColumnPredicates(cs)[i] \in ComparisonOps
                      /\ CanMatchValue(maps[ColumnIndices(cs)[i] + 1][k],
                                       ColumnPredicates(cs)[i], Constants(cs)[i])
  BY DEF CanMatchZoneMap, cs, maps, a, b, c
<1>6. i = 1
  <2>1. i \in 1 .. 2 /\ i <= 1
    BY <1>3, <1>4, <1>5, Zenon
  <2> QED
    BY <2>1
<1>7. ColumnIndices(cs)[i] + 1 = 1
  BY <1>3, <1>6
<1>8. k \in DOMAIN es
  BY <1>4, <1>7
<1> QED
  BY <1>1, <1>3, <1>4, <1>6, <1>7, <1>8

\* The map has the blocks of the rows it covers.
CoverInv == covered \in Nat /\ Len(entries) = NumBlocks(covered, BlockRows)

\* Only BuildFromColumn makes entries, and it makes one per block it covers.
LEMMA CoverAlways == BuildSpec => []CoverInv
<1>1. BuildInit => CoverInv
  <2> SUFFICES ASSUME BuildInit PROVE CoverInv
    OBVIOUS
  <2>1. covered = 0 /\ entries = <<>> /\ Len(entries) = 0 /\ BlockRows \in Nat \ {0}
    BY BuildAssumption DEF BuildInit
  <2>2. (0 + BlockRows - 1) \div BlockRows = 0
    <3>1. BlockRows - 1 \in Nat /\ 0 * BlockRows = 0 /\ 1 * BlockRows = BlockRows
      BY <2>1
    <3>2. (BlockRows - 1) \div BlockRows < 1 /\ ~((BlockRows - 1) \div BlockRows < 0)
      BY <2>1, <3>1, DivBelow
    <3>3. (BlockRows - 1) \div BlockRows \in Int
      BY <2>1, <3>1
    <3>4. 0 + BlockRows - 1 = BlockRows - 1
      BY <2>1
    <3> QED
      BY <3>2, <3>3, <3>4
  <2> QED
    BY <2>1, <2>2 DEF CoverInv, NumBlocks
<1>2. ColumnInv /\ CoverInv /\ [BuildNext]_buildVars => CoverInv'
  <2> SUFFICES ASSUME ColumnInv, CoverInv, [BuildNext]_buildVars PROVE CoverInv'
    OBVIOUS
  <2>1. ASSUME NEW v, NEW null, AppendRow(v, null) PROVE CoverInv'
    BY <2>1 DEF AppendRow, CoverInv
  <2>2. CASE Build
    <3>1. covered' = Len(data) /\ entries' = BuildFromColumn(entries, data, nulls, BlockRows)
      BY <2>2 DEF Build
    <3>2. Len(data) \in Nat /\ BlockRows \in Nat \ {0}
      BY BuildAssumption, LenProperties DEF ColumnInv
    <3>3. NumBlocks(Len(data), BlockRows) \in Nat
      <4> DEFINE k == Len(data) + BlockRows - 1
      <4>1. k \in Nat /\ 0 * BlockRows = 0
        BY <3>2
      <4>2. ~(k \div BlockRows < 0) /\ k \div BlockRows \in Int
        BY <3>2, <4>1, DivBelow
      <4> QED
        BY <4>2 DEF NumBlocks
    <3>4. Len(entries') = NumBlocks(Len(data), BlockRows)
      BY <3>1, <3>3 DEF BuildFromColumn
    <3> QED
      BY <3>1, <3>2, <3>4 DEF CoverInv
  <2>3. CASE UNCHANGED buildVars
    BY <2>3 DEF buildVars, CoverInv
  <2> QED
    BY <2>1, <2>2, <2>3 DEF BuildNext
<1> QED
  BY <1>1, <1>2, ZoneMapSummary, PTL DEF BuildSpec

(***************************************************************************)
(* The whole of PrunesOnlyMisses: a map of one block that CanMatchZoneMap  *)
(* denies for two comparisons has no row that satisfies both either.       *)
(***************************************************************************)
THEOREM ZoneMapPrunesOnlyMisses ==
    ASSUME HelperBlocks <= 1 PROVE BuildSpec => []PrunesOnlyMisses
<1>1. ColumnInv /\ CoverInv /\ BlocksPruneOnlyMisses => MapPrunesOnlyMisses
  <2> SUFFICES ASSUME ColumnInv, CoverInv, BlocksPruneOnlyMisses, Len(entries) <= HelperBlocks,
                      NEW p \in BuilderOps, NEW q \in BuilderOps, NEW v \in Probes, NEW w \in Probes,
                      NEW i \in 1 .. covered, Satisfies(i, p, v)
               PROVE  CanMatchZoneMap(<<Comparison(p, 0, v), Connective("And"), Comparison(q, 0, w)>>,
                                      <<entries>>)
    BY DEF MapPrunesOnlyMisses
  <2>1. entries \in Seq(Entry) /\ Len(entries) \in Nat /\ covered \in Nat /\ BlockRows \in Nat \ {0}
    BY BuildAssumption, LenProperties DEF ColumnInv
  <2>2. ASSUME NEW k \in DOMAIN entries PROVE CanMatchValue(entries[k], p, v)
    <3>1. k = 1 /\ 0 \in 0 .. Len(entries) - 1 /\ Len(entries) = 1
      <4>1. k \in 1 .. Len(entries) /\ Len(entries) <= 1
        BY <2>1, BuildAssumption
      <4> DEFINE m == Len(entries)
      <4>2. k \in 1 .. m /\ m <= 1 /\ m \in Nat
        BY <2>1, <4>1
      <4> HIDE DEF m
      <4>3. k = 1 /\ m = 1 /\ 0 \in 0 .. m - 1
        BY <4>2
      <4> QED
        BY <4>3 DEF m
    <3>2. i \in RowsOfBlock(0)
      <4>1. covered <= BlockRows
        <5> DEFINE n == covered + BlockRows - 1
        <5>1. n \in Nat /\ n \div BlockRows = 1 /\ 1 < 2 /\ 2 * BlockRows = BlockRows + BlockRows
          <6>1. n \div BlockRows = Len(entries)
            BY DEF CoverInv, NumBlocks
          <6> HIDE DEF n
          <6>2. n \div BlockRows = 1
            BY <3>1, <6>1
          <6> QED
            BY <2>1, <6>2 DEF n
        <5>2. n < 2 * BlockRows
          BY <2>1, <5>1, DivBelow
        <5> QED
          BY <2>1, <5>1, <5>2
      <4>2. BlockRange(0, BlockRows, covered) = [from |-> 1, to |-> covered]
        BY <2>1, <4>1 DEF BlockRange
      <4> QED
        BY <4>2 DEF RowsOfBlock
    <3>3. p \in ComparisonOps /\ p # "IsNull" /\ p # "IsNotNull"
      BY DEF BuilderOps, ComparisonOps
    <3>4. ShouldScanBlock(entries, 0, p, v)
      BY <3>1, <3>2, <3>3 DEF BlocksPruneOnlyMisses
    <3>5. CanMatch(entries[1], p, v)
      BY <3>1, <3>4 DEF ShouldScanBlock
    <3> QED
      BY <3>1, <3>3, <3>5, Zenon DEF CanMatch
  <2> QED
    BY <2>2, CanMatchPair
<1> QED
  BY <1>1, CoverAlways, ZoneMapSummary, ZoneMapBlocksPruneOnlyMisses, PTL DEF PrunesOnlyMisses

\* The end of block b - 1, and how many rows the blocks before b have.
Edge(b) == b * BlockSize
RowsDone(b) == IF Edge(b) < NumRows THEN Edge(b) ELSE NumRows

\* The block loop runs as long as its next block starts inside the segment.
LEMMA EdgeProperties ==
    ASSUME NEW b \in Nat
    PROVE  /\ Edge(b) \in Nat /\ Edge(b + 1) = Edge(b) + BlockSize
           /\ RowsDone(b) \in Nat /\ RowsDone(b + 1) \in Nat
           /\ NumRows \in Nat /\ BlockSize \in Nat \ {0}
           /\ b < BlockCount <=> Edge(b) < NumRows
<1>1. BlockSize \in Nat \ {0} /\ NumRows \in Nat
  BY ScannerAssumption
<1>2. Edge(b) \in Nat /\ Edge(b + 1) = Edge(b) + BlockSize
  BY <1>1, ProductOrder DEF Edge
<1>3. RowsDone(b) \in Nat /\ RowsDone(b + 1) \in Nat
  BY <1>1, <1>2 DEF RowsDone
<1>4. b < BlockCount <=> Edge(b) < NumRows
  <2> DEFINE n == NumRows + BlockSize - 1
  <2>1. n \in Nat /\ BlockCount = n \div BlockSize
    BY <1>1 DEF BlockCount, NumBlocks
  <2>2. n \div BlockSize \in Int
    BY <1>1, <2>1
  <2>3. n \div BlockSize < b + 1 <=> n < (b + 1) * BlockSize
    <3> HIDE DEF n
    <3> QED
      BY <1>1, <2>1, DivBelow
  <2>4. n \div BlockSize < b + 1 <=> n < Edge(b) + BlockSize
    BY <1>2, <2>3 DEF Edge
  <2>5. n < Edge(b) + BlockSize <=> ~(Edge(b) < NumRows)
    BY <1>1, <1>2
  <2>6. n \div BlockSize < b + 1 <=> ~(b < n \div BlockSize)
    BY <2>2
  <2> QED
    BY <2>1, <2>4, <2>5, <2>6, Zenon
<1> QED
  BY <1>1, <1>2, <1>3, <1>4

\* The rows before block b, counted.
LEMMA RowsBeforeCount ==
    ASSUME NEW b \in Nat
    PROVE  RowsBefore(b) = 1 .. RowsDone(b) /\ Cardinality(RowsBefore(b)) = RowsDone(b)
<1>1. \A i \in 1 .. NumRows : (i - 1) \div BlockSize < b <=> i <= Edge(b)
  <2> SUFFICES ASSUME NEW i \in 1 .. NumRows
               PROVE  (i - 1) \div BlockSize < b <=> i <= Edge(b)
    OBVIOUS
  <2>1. i - 1 \in Nat
    BY EdgeProperties
  <2>2. (i - 1) \div BlockSize < b <=> i - 1 < Edge(b)
    <3> DEFINE j == i - 1
    <3>1. j \in Nat /\ BlockSize \in Nat \ {0} /\ b \in Int
      BY <2>1, EdgeProperties
    <3> HIDE DEF j
    <3>2. j \div BlockSize < b <=> j < b * BlockSize
      BY <3>1, DivBelow
    <3> QED
      BY <3>2 DEF j, Edge
  <2> QED
    BY <2>1, <2>2, EdgeProperties
<1>2. RowsBefore(b) = 1 .. RowsDone(b)
  BY <1>1, EdgeProperties DEF RowsBefore, RowsDone
<1>3. RowsDone(b) \in Nat /\ 1 \in Int
  BY EdgeProperties
<1> QED
  BY <1>2, <1>3, FS_Interval

\* The rows of block b, counted: at least one, at most block_size.
LEMMA RowsInCount ==
    ASSUME NEW b \in Nat, b < BlockCount
    PROVE  /\ IsFiniteSet(RowsIn(b)) /\ RowsIn(b) \subseteq 1 .. NumRows
           /\ RowsIn(b) = RowsDone(b) + 1 .. RowsDone(b + 1)
           /\ Cardinality(RowsIn(b)) \in Nat /\ Cardinality(RowsIn(b)) <= BlockSize
           /\ RowsDone(b + 1) = RowsDone(b) + Cardinality(RowsIn(b))
<1>1. Edge(b) < NumRows
  BY EdgeProperties
<1>2. RowsIn(b) = Edge(b) + 1 .. RowsDone(b + 1)
  <2>1. BlockRange(b, BlockSize, NumRows) = [from |-> Edge(b) + 1, to |-> RowsDone(b + 1)]
    BY DEF BlockRange, Edge, RowsDone
  <2> QED
    BY <2>1 DEF RowsIn
<1>3. /\ Edge(b) \in Nat /\ RowsDone(b + 1) \in Nat /\ Edge(b) <= RowsDone(b + 1)
      /\ RowsDone(b + 1) <= Edge(b) + BlockSize /\ RowsDone(b) = Edge(b)
      /\ RowsDone(b + 1) <= NumRows /\ NumRows \in Nat /\ BlockSize \in Nat
  BY <1>1, EdgeProperties DEF RowsDone
<1> HIDE DEF RowsDone, Edge
<1>4. IsFiniteSet(RowsIn(b)) /\ Cardinality(RowsIn(b)) = RowsDone(b + 1) - Edge(b)
  <2> DEFINE x == Edge(b) + 1
             y == RowsDone(b + 1)
  <2>1. x \in Int /\ y \in Int
    BY <1>3
  <2>2. IsFiniteSet(x .. y) /\ Cardinality(x .. y) = IF x > y THEN 0 ELSE y - x + 1
    BY <2>1, FS_Interval
  <2> QED
    BY <1>2, <1>3, <2>2
<1>5. RowsIn(b) \subseteq 1 .. NumRows
  BY <1>2, <1>3
<1> QED
  BY <1>2, <1>3, <1>4, <1>5

\* Every number of a set of n numbers has a rank, and every rank below n a number:
\* the greatest number has all others below it, and the others keep their ranks
\* when it is left out.
LEMMA RankExists ==
    ASSUME NEW n \in Nat, NEW V, V \subseteq 1 .. n, NEW k \in 1 .. Cardinality(V)
    PROVE  \E x \in V : Cardinality({y \in V : y < x}) = k - 1
<1> DEFINE Below(W, x) == {y \in W : y < x}
           Ranked(W) == \A j \in 1 .. Cardinality(W) : \E x \in W : Cardinality(Below(W, x)) = j - 1
           Bad == {m \in Nat : \E W \in SUBSET V : W \subseteq 1 .. m /\ ~Ranked(W)}
<1> SUFFICES ASSUME Bad # {} PROVE FALSE
  <2>1. n \notin Bad
    OBVIOUS
  <2>2. Ranked(V)
    BY <2>1
  <2> QED
    BY <2>2
<1>1. PICK m \in Bad : \A j \in Bad : m <= j
  <2>1. Bad \subseteq Nat
    OBVIOUS
  <2> HIDE DEF Bad
  <2> QED
    BY <2>1, LeastNat
<1>2. PICK W \in SUBSET V : W \subseteq 1 .. m /\ ~Ranked(W)
  OBVIOUS
<1>3. m \in Nat /\ \A j : j \in Bad => m <= j
  BY <1>1
<1>4. IsFiniteSet(W)
  <2>1. IsFiniteSet(1 .. m)
    BY <1>3, FS_Interval
  <2> QED
    BY <1>2, <2>1, FS_Subset
<1>5. m # 0
  <2> SUFFICES ASSUME m = 0 PROVE FALSE
    OBVIOUS
  <2>1. W = {}
    BY <1>2
  <2>2. Cardinality(W) = 0
    BY <2>1, FS_EmptySet
  <2> QED
    BY <1>2, <2>2
<1> DEFINE U == W \ {m}
<1>6. Ranked(U)
  <2>1. m - 1 \in Nat /\ ~(m <= m - 1)
    BY <1>3, <1>5
  <2>2. ~(m - 1 \in Bad)
    <3> HIDE DEF Bad
    <3> QED
      BY <1>3, <2>1
  <2>3. U \subseteq 1 .. m - 1 /\ U \in SUBSET V
    BY <1>2, <1>3
  <2> QED
    BY <2>1, <2>2, <2>3
<1>7. CASE m \notin W
  <2>1. U = W
    BY <1>7
  <2> QED
    BY <1>2, <1>6, <2>1
<1>8. CASE m \in W
  <2>1. Cardinality(U) = Cardinality(W) - 1 /\ Cardinality(W) \in Nat
    BY <1>4, <1>8, FS_RemoveElement, FS_CardinalityType
  <2>2. \A x \in W : x \in Nat /\ x <= m
    BY <1>2, <1>3
  <2>3. \A x \in U : Below(W, x) = Below(U, x)
    BY <1>3, <2>2
  <2>4. Below(W, m) = U
    <3>1. \A x \in W : x < m <=> x # m
      BY <1>3, <2>2
    <3> QED
      BY <3>1, Zenon
  <2>5. ASSUME NEW j \in 1 .. Cardinality(W)
        PROVE  \E x \in W : Cardinality(Below(W, x)) = j - 1
    <3>1. CASE j = Cardinality(W)
      BY <1>8, <2>1, <2>4, <3>1
    <3>2. CASE j # Cardinality(W)
      <4>1. j \in 1 .. Cardinality(U)
        BY <2>1, <3>2
      <4>2. PICK x \in U : Cardinality(Below(U, x)) = j - 1
        BY <1>6, <4>1
      <4>3. Below(W, x) = Below(U, x) /\ x \in W
        BY <2>3
      <4> HIDE DEF Below
      <4> QED
        BY <4>2, <4>3
    <3> QED
      BY <3>1, <3>2
  <2> QED
    BY <1>2, <2>5
<1> QED
  BY <1>7, <1>8

\* The rows that survive a block are as many as Ascending lists, and rows of it.
LEMMA AscendingProperties ==
    ASSUME NEW n \in Nat, NEW V, V \subseteq 1 .. n
    PROVE  /\ Ascending(V) \in Seq(Int) /\ Len(Ascending(V)) = Cardinality(V)
           /\ Cardinality(V) \in Nat
<1> DEFINE c == Cardinality(V)
           R(x, k) == Cardinality({y \in V : y < x}) = k - 1
<1>1. c \in Nat
  <2>1. IsFiniteSet(1 .. n)
    BY FS_Interval
  <2>2. IsFiniteSet(V)
    BY <2>1, FS_Subset
  <2> QED
    BY <2>2, FS_CardinalityType
<1>2. \A k \in 1 .. c : \E x \in V : R(x, k)
  BY RankExists
<1> DEFINE pick(k) == CHOOSE x \in V : R(x, k)
<1>3. \A k \in 1 .. c : pick(k) \in V
  <2>1. ASSUME NEW k \in 1 .. c PROVE pick(k) \in V
    <3>1. \E x \in V : R(x, k)
      BY <1>2
    <3> HIDE DEF R, c
    <3> QED
      BY <3>1, Zenon
  <2> HIDE DEF pick, c
  <2> QED
    BY <2>1
<1>4. Ascending(V) = [k \in 1 .. c |-> pick(k)]
  BY Zenon DEF Ascending
<1> HIDE DEF pick, c
<1>5. \A k \in 1 .. c : pick(k) \in Int
  <2>1. \A x \in V : x \in Int
    OBVIOUS
  <2> HIDE DEF R
  <2> QED
    BY <1>3, <2>1, Zenon
<1>6. Ascending(V) \in Seq(Int) /\ Len(Ascending(V)) = c
  BY <1>1, <1>4, <1>5
<1> QED
  BY <1>1, <1>6 DEF c

\* A run is not empty, no longer than what is left, and of consecutive rows.
LEMMA RunLengthRange ==
    ASSUME matchRows \in Seq(Int), matchRows # <<>>
    PROVE  /\ RunLength \in 1 .. Len(matchRows)
           /\ \A j \in 2 .. RunLength : matchRows[j] = matchRows[j - 1] + 1
<1> DEFINE n == Len(matchRows)
           G == {k \in 1 .. n : /\ k <= MaxRun
                                /\ \A j \in 2 .. k : matchRows[j] = matchRows[j - 1] + 1}
           f == [k \in G |-> k]
           values == {f[k] : k \in G}
<1>1. n \in Nat \ {0}
  <2>1. n \in Nat /\ n # 0
    BY EmptySeq, LenProperties
  <2> QED
    BY <2>1
<1>2. 1 \in G
  BY <1>1, ScannerAssumption
<1>3. G \subseteq 1 .. n /\ \A k \in G : f[k] \in Int
  BY <1>1
<1>4. values = G
  OBVIOUS
<1>5. RunLength = Max(values)
  BY <1>4, Zenon DEF RunLength
<1> HIDE DEF G, f, n
<1>6. Max(values) \in values
  BY <1>1, <1>2, <1>3, MinMaxOfRows
<1>7. RunLength \in G
  BY <1>4, <1>5, <1>6
<1> QED
  BY <1>7 DEF n, G
-----------------------------------------------------------------------------
StatsType == [blocks : Nat, zonePruned : Nat, bloomPruned : Nat,
              scanned : Nat, filtered : Nat, returned : Nat]

\* The counters account for done rows of the blocks before and n rows of the block
\* that is being delivered, of which out have been handed out.
Accounted(st, blocks, rows, n, out, received) ==
    LET pruned == st.zonePruned + st.bloomPruned IN
    /\ st.blocks = blocks
    /\ st.scanned = rows
    /\ st.returned + out = received
    /\ pruned = 0 => st.returned + st.filtered + n = st.scanned
    /\ st.returned + st.filtered + n <= st.scanned
    /\ st.scanned <= st.returned + st.filtered + n + BlockSize * pruned

\* The blocks and the rows of the Scans that returned.
PastBlocks == Len(past) * BlockCount
PastRows   == Len(past) * NumRows

ScanType ==
    /\ block \in 0 .. BlockCount /\ phase \in {"block", "deliver"}
    /\ phase = "deliver" => block < BlockCount
    /\ matchRows \in Seq(Int) /\ output \in Seq(Int) /\ delivered \in Nat
    /\ stats \in StatsType
    /\ calls \in Programs \cup Rescans /\ past \in Seq(Programs \cup Rescans)

StatsInv ==
    LET n == Cardinality(RowsIn(block)) IN
    /\ phase = "block" =>
           Accounted(stats, PastBlocks + block, PastRows + RowsDone(block), 0, 0, Len(output))
    /\ phase = "deliver" =>
           /\ Accounted(stats, PastBlocks + block + 1, PastRows + RowsDone(block) + n, n,
                        delivered, Len(output))
           /\ delivered + Len(matchRows) <= n

\* All blocks together hold the rows of the segment.
LEMMA BlockCountType ==
    BlockCount \in Nat /\ RowsDone(0) = 0 /\ RowsDone(BlockCount) = NumRows /\ NumRows \in Nat
<1>1. BlockSize \in Nat \ {0} /\ NumRows \in Nat
  BY ScannerAssumption
<1>2. BlockCount \in Nat
  BY <1>1 DEF BlockCount, NumBlocks
<1>3. 0 \in Nat /\ Edge(0) = 0
  BY <1>1 DEF Edge
<1>4. RowsDone(0) = 0
  BY <1>1, <1>3 DEF RowsDone
<1>5. ~(Edge(BlockCount) < NumRows)
  <2>1. ~(BlockCount < BlockCount)
    BY <1>2
  <2> QED
    BY <1>2, <2>1, EdgeProperties
<1> QED
  BY <1>1, <1>2, <1>4, <1>5 DEF RowsDone

\* The blocks and rows of past Scans are numbers.
LEMMA PastType ==
    ASSUME past \in Seq(Programs \cup Rescans)
    PROVE  PastBlocks \in Nat /\ PastRows \in Nat
<1>1. Len(past) \in Nat
  BY LenProperties
<1> QED
  BY <1>1, BlockCountType DEF PastBlocks, PastRows

\* A new scanner has counted nothing.
LEMMA ScanInit == ASSUME Init PROVE ScanType /\ StatsInv
<1>1. /\ block = 0 /\ phase = "block" /\ matchRows = <<>> /\ delivered = 0 /\ output = <<>>
      /\ past = <<>> /\ calls \in Programs
      /\ stats = [blocks |-> 0, zonePruned |-> 0, bloomPruned |-> 0,
                  scanned |-> 0, filtered |-> 0, returned |-> 0]
  BY DEF Init
<1>2. stats \in StatsType /\ Len(past) = 0 /\ Len(output) = 0
  BY <1>1 DEF StatsType
<1>3. ScanType
  BY <1>1, <1>2, BlockCountType DEF ScanType
<1>4. PastBlocks + block = 0 /\ PastRows + RowsDone(block) = 0
  BY <1>1, <1>2, BlockCountType DEF PastBlocks, PastRows
<1>5. Accounted(stats, 0, 0, 0, 0, 0)
  <2>1. BlockSize * (0 + 0) = 0
    BY ScannerAssumption
  <2> QED
    BY <1>1, <1>2, <2>1 DEF Accounted
<1>6. StatsInv
  BY <1>1, <1>4, <1>5 DEF StatsInv
<1> QED
  BY <1>3, <1>6

\* What counting a block does to the fields.
LEMMA CountBlockFields ==
    ASSUME ScanType, phase = "block", block < BlockCount
    PROVE  LET n == Cardinality(RowsIn(block)) IN
           /\ n \in Nat /\ n <= BlockSize /\ RowsDone(block + 1) = RowsDone(block) + n
           /\ CountBlock \in StatsType
           /\ CountBlock.blocks = stats.blocks + 1 /\ CountBlock.scanned = stats.scanned + n
           /\ CountBlock.zonePruned = stats.zonePruned
           /\ CountBlock.bloomPruned = stats.bloomPruned
           /\ CountBlock.filtered = stats.filtered /\ CountBlock.returned = stats.returned
<1> DEFINE n == Cardinality(RowsIn(block))
<1>1. block \in Nat
  BY BlockCountType DEF ScanType
<1>2. n \in Nat /\ n <= BlockSize /\ RowsDone(block + 1) = RowsDone(block) + n
  BY <1>1, RowsInCount
<1>3. CountBlock = [stats EXCEPT !.blocks = stats.blocks + 1, !.scanned = stats.scanned + n]
  BY Zenon DEF CountBlock
<1> HIDE DEF n
<1>4. stats \in StatsType
  BY DEF ScanType
<1> DEFINE a == [stats EXCEPT !.blocks = stats.blocks + 1]
<1>5. /\ a \in StatsType /\ a.blocks = stats.blocks + 1 /\ a.scanned = stats.scanned
      /\ a.zonePruned = stats.zonePruned /\ a.bloomPruned = stats.bloomPruned
      /\ a.filtered = stats.filtered /\ a.returned = stats.returned
  BY <1>4 DEF StatsType
<1>6. CountBlock = [a EXCEPT !.scanned = stats.scanned + n]
  BY <1>3
<1>7. stats.scanned + n \in Nat
  BY <1>2, <1>4 DEF StatsType
<1> HIDE DEF a
<1>8. /\ CountBlock \in StatsType
      /\ CountBlock.blocks = a.blocks /\ CountBlock.scanned = stats.scanned + n
      /\ CountBlock.zonePruned = a.zonePruned /\ CountBlock.bloomPruned = a.bloomPruned
      /\ CountBlock.filtered = a.filtered /\ CountBlock.returned = a.returned
  BY <1>5, <1>6, <1>7 DEF StatsType
<1> QED
  BY <1>2, <1>5, <1>8 DEF n

\* A pruned block is counted as one of block_size rows at most.
LEMMA PrunedAccounted ==
    ASSUME NEW st \in StatsType, NEW g \in StatsType, NEW n \in Nat, n <= BlockSize,
           NEW blocks \in Nat, NEW rows \in Nat, NEW received \in Nat,
           Accounted(st, blocks, rows, 0, 0, received),
           g.blocks = st.blocks + 1, g.scanned = st.scanned + n,
           g.zonePruned + g.bloomPruned = st.zonePruned + st.bloomPruned + 1,
           g.filtered = st.filtered, g.returned = st.returned
    PROVE  Accounted(g, blocks + 1, rows + n, 0, 0, received)
<1> DEFINE k == st.zonePruned + st.bloomPruned
<1>1. /\ st.blocks \in Nat /\ st.scanned \in Nat /\ st.returned \in Nat /\ st.filtered \in Nat
      /\ k \in Nat
  BY DEF StatsType
<1>2. /\ st.blocks = blocks /\ st.scanned = rows /\ st.returned + 0 = received
      /\ st.returned + st.filtered + 0 <= st.scanned
      /\ st.scanned <= st.returned + st.filtered + 0 + BlockSize * k
  BY DEF Accounted
<1> HIDE DEF k
<1>3. BlockSize * (k + 1) = BlockSize * k + BlockSize /\ BlockSize * k \in Nat /\ BlockSize \in Nat
  BY <1>1, ScannerAssumption
<1>4. g.zonePruned + g.bloomPruned = k + 1 /\ k + 1 # 0
  BY <1>1 DEF k
<1> DEFINE w == BlockSize * k
           v == BlockSize * (k + 1)
<1>5. v = w + BlockSize /\ w \in Nat /\ BlockSize \in Nat
  BY <1>3
<1>6. st.scanned <= st.returned + st.filtered + 0 + w
  BY <1>2
<1> HIDE DEF w, v
<1>7. g.scanned <= g.returned + g.filtered + 0 + v
  BY <1>1, <1>5, <1>6
<1>8. /\ g.blocks = blocks + 1 /\ g.scanned = rows + n /\ g.returned + 0 = received
      /\ g.returned + g.filtered + 0 <= g.scanned
  BY <1>1, <1>2
<1> QED
  BY <1>4, <1>7, <1>8 DEF Accounted, v

\* A block that is not pruned has its rows in hand, none of them delivered.
LEMMA FilteredAccounted ==
    ASSUME NEW st \in StatsType, NEW g \in StatsType, NEW n \in Nat,
           NEW blocks, NEW rows, NEW received,
           Accounted(st, blocks, rows, 0, 0, received),
           g.blocks = st.blocks + 1, g.scanned = st.scanned + n,
           g.zonePruned = st.zonePruned, g.bloomPruned = st.bloomPruned,
           g.filtered = st.filtered, g.returned = st.returned
    PROVE  Accounted(g, blocks + 1, rows + n, n, 0, received)
<1> DEFINE k == st.zonePruned + st.bloomPruned
           w == BlockSize * k
<1>1. /\ st.scanned \in Nat /\ st.returned \in Nat /\ st.filtered \in Nat /\ k \in Nat
      /\ g.zonePruned + g.bloomPruned = k
  BY DEF StatsType
<1>2. /\ st.blocks = blocks /\ st.scanned = rows /\ st.returned + 0 = received
      /\ k = 0 => st.returned + st.filtered + 0 = st.scanned
      /\ st.returned + st.filtered + 0 <= st.scanned
      /\ st.scanned <= st.returned + st.filtered + 0 + w
  BY DEF Accounted
<1>3. w \in Nat
  BY <1>1, ScannerAssumption
<1> HIDE DEF k, w
<1>4. /\ k = 0 => g.returned + g.filtered + n = g.scanned
      /\ g.returned + g.filtered + n <= g.scanned
      /\ g.scanned <= g.returned + g.filtered + n + w
      /\ g.blocks = blocks + 1 /\ g.scanned = rows + n /\ g.returned + 0 = received
  BY <1>1, <1>2, <1>3
<1> QED
  BY <1>1, <1>4 DEF Accounted, w

\* At the end of a block what was not delivered counts as filtered.
LEMMA DoneAccounted ==
    ASSUME NEW st \in StatsType, NEW g \in StatsType, NEW n \in Nat, NEW out \in Nat,
           NEW blocks, NEW rows, NEW received,
           Accounted(st, blocks, rows, n, out, received),
           g.blocks = st.blocks, g.scanned = st.scanned,
           g.zonePruned = st.zonePruned, g.bloomPruned = st.bloomPruned,
           g.filtered = st.filtered + n - out, g.returned = st.returned + out
    PROVE  Accounted(g, blocks, rows, 0, 0, received)
<1> DEFINE k == st.zonePruned + st.bloomPruned
           w == BlockSize * k
<1>1. /\ st.scanned \in Nat /\ st.returned \in Nat /\ st.filtered \in Nat /\ k \in Nat
      /\ g.zonePruned + g.bloomPruned = k
  BY DEF StatsType
<1>2. /\ st.blocks = blocks /\ st.scanned = rows /\ st.returned + out = received
      /\ k = 0 => st.returned + st.filtered + n = st.scanned
      /\ st.returned + st.filtered + n <= st.scanned
      /\ st.scanned <= st.returned + st.filtered + n + w
  BY DEF Accounted
<1>3. w \in Nat
  BY <1>1, ScannerAssumption
<1> HIDE DEF k, w
<1>4. g.returned + g.filtered = st.returned + st.filtered + n
  BY <1>1
<1>5. g.returned + g.filtered + 0 = st.returned + st.filtered + n /\ g.returned + 0 = received
  BY <1>1, <1>2, <1>4
<1>6. /\ k = 0 => g.returned + g.filtered + 0 = g.scanned
      /\ g.returned + g.filtered + 0 <= g.scanned
      /\ g.scanned <= g.returned + g.filtered + 0 + w
      /\ g.blocks = blocks /\ g.scanned = rows /\ g.returned + 0 = received
  BY <1>1, <1>2, <1>3, <1>5
<1> QED
  BY <1>1, <1>6 DEF Accounted, w

\* Where the loop stands between two blocks and while it hands out a block.
AtBlock(st, b, received) ==
    Accounted(st, PastBlocks + b, PastRows + RowsDone(b), 0, 0, received)
InBlock(st, b, out, received) ==
    LET n == Cardinality(RowsIn(b)) IN
    Accounted(st, PastBlocks + b + 1, PastRows + RowsDone(b) + n, n, out, received)

\* A sum of three, for terms the provers do not flatten.
LEMMA AddAssoc ==
    ASSUME NEW x \in Nat, NEW y \in Nat, NEW z \in Nat
    PROVE  (x + y) + z = x + (y + z)
  OBVIOUS

\* StatsInv in terms of where the loop stands, while no Scan returns.
LEMMA StatsInvFrame ==
    ASSUME ScanType, past' = past
    PROVE  /\ StatsInv <=> /\ phase = "block" => AtBlock(stats, block, Len(output))
                           /\ phase = "deliver" =>
                                  /\ InBlock(stats, block, delivered, Len(output))
                                  /\ delivered + Len(matchRows) <= Cardinality(RowsIn(block))
           /\ StatsInv' <=> /\ phase' = "block" => AtBlock(stats', block', Len(output'))
                            /\ phase' = "deliver" =>
                                   /\ InBlock(stats', block', delivered', Len(output'))
                                   /\ delivered' + Len(matchRows') <= Cardinality(RowsIn(block'))
  BY Zenon DEF StatsInv, AtBlock, InBlock, PastBlocks, PastRows, RowsDone, Edge, RowsIn,
         Accounted

\* Either pruning test leaves the loop at the next block with one more pruned.
LEMMA PruneKeeps ==
    ASSUME ScanType, StatsInv, phase = "block", block < BlockCount,
           stats' \in StatsType,
           stats'.blocks = CountBlock.blocks, stats'.scanned = CountBlock.scanned,
           stats'.filtered = CountBlock.filtered, stats'.returned = CountBlock.returned,
           stats'.zonePruned + stats'.bloomPruned
               = CountBlock.zonePruned + CountBlock.bloomPruned + 1,
           block' = block + 1, UNCHANGED <<calls, phase, matchRows, delivered, output, past>>
    PROVE  ScanType' /\ StatsInv'
<1> DEFINE n == Cardinality(RowsIn(block))
           g == stats'
<1>1. block \in Nat /\ block + 1 \in 0 .. BlockCount /\ stats \in StatsType
  BY BlockCountType DEF ScanType
<1>2. PastBlocks \in Nat /\ PastRows \in Nat
  BY PastType DEF ScanType
<1>3. Len(output) \in Nat
  BY LenProperties DEF ScanType
<1>4. RowsDone(block) \in Nat
  BY <1>1, EdgeProperties
<1>5. n \in Nat /\ n <= BlockSize /\ RowsDone(block + 1) = RowsDone(block) + n
  BY CountBlockFields
<1>6. /\ g \in StatsType
      /\ g.blocks = stats.blocks + 1 /\ g.scanned = stats.scanned + n
      /\ g.zonePruned + g.bloomPruned = stats.zonePruned + stats.bloomPruned + 1
      /\ g.filtered = stats.filtered /\ g.returned = stats.returned
  BY CountBlockFields
<1> HIDE DEF n, g
<1>7. PastBlocks + block \in Nat /\ PastRows + RowsDone(block) \in Nat
  BY <1>1, <1>2, <1>4
<1>8. Accounted(stats, PastBlocks + block, PastRows + RowsDone(block), 0, 0, Len(output))
  BY DEF StatsInv
<1> DEFINE blocks == PastBlocks + block
           rows == PastRows + RowsDone(block)
           received == Len(output)
<1>9. Accounted(g, blocks + 1, rows + n, 0, 0, received)
  <2>1. blocks \in Nat /\ rows \in Nat /\ received \in Nat
        /\ Accounted(stats, blocks, rows, 0, 0, received)
    BY <1>3, <1>7, <1>8
  <2> HIDE DEF blocks, rows, received
  <2> QED
    BY <1>1, <1>5, <1>6, <2>1, PrunedAccounted
<1>10. blocks + 1 = PastBlocks + (block + 1) /\ rows + n = PastRows + RowsDone(block + 1)
  BY <1>1, <1>2, <1>4, <1>5, AddAssoc
<1>11. AtBlock(g, block + 1, Len(output))
  BY <1>9, <1>10 DEF AtBlock
<1>12. ScanType'
  BY <1>1, <1>6 DEF ScanType, g
<1>13. StatsInv'
  BY <1>11, StatsInvFrame DEF g
<1> QED
  BY <1>12, <1>13

\* A block pruned by its zone map counts once, with its rows scanned.
LEMMA PruneByZoneMapKeeps ==
    ASSUME ScanType, StatsInv, PruneByZoneMap PROVE ScanType' /\ StatsInv'
<1>1. /\ phase = "block" /\ block < BlockCount /\ block' = block + 1
      /\ stats' = [CountBlock EXCEPT !.zonePruned = @ + 1]
      /\ UNCHANGED <<calls, phase, matchRows, delivered, output, past>>
  BY DEF PruneByZoneMap
<1>2. CountBlock \in StatsType
  BY <1>1, CountBlockFields
<1>3. /\ stats' \in StatsType
      /\ stats'.blocks = CountBlock.blocks /\ stats'.scanned = CountBlock.scanned
      /\ stats'.filtered = CountBlock.filtered /\ stats'.returned = CountBlock.returned
      /\ stats'.zonePruned = CountBlock.zonePruned + 1
      /\ stats'.bloomPruned = CountBlock.bloomPruned
      /\ CountBlock.zonePruned \in Nat /\ CountBlock.bloomPruned \in Nat
  BY <1>1, <1>2 DEF StatsType
<1>4. stats'.zonePruned + stats'.bloomPruned = CountBlock.zonePruned + CountBlock.bloomPruned + 1
  BY <1>3
<1> QED
  BY <1>1, <1>3, <1>4, PruneKeeps

\* A block pruned by the Bloom filter counts the same way.
LEMMA PruneByBloomKeeps ==
    ASSUME ScanType, StatsInv, PruneByBloom PROVE ScanType' /\ StatsInv'
<1>1. /\ phase = "block" /\ block < BlockCount /\ block' = block + 1
      /\ stats' = [CountBlock EXCEPT !.bloomPruned = @ + 1]
      /\ UNCHANGED <<calls, phase, matchRows, delivered, output, past>>
  BY DEF PruneByBloom
<1>2. CountBlock \in StatsType
  BY <1>1, CountBlockFields
<1>3. /\ stats' \in StatsType
      /\ stats'.blocks = CountBlock.blocks /\ stats'.scanned = CountBlock.scanned
      /\ stats'.filtered = CountBlock.filtered /\ stats'.returned = CountBlock.returned
      /\ stats'.zonePruned = CountBlock.zonePruned
      /\ stats'.bloomPruned = CountBlock.bloomPruned + 1
      /\ CountBlock.zonePruned \in Nat /\ CountBlock.bloomPruned \in Nat
  BY <1>1, <1>2 DEF StatsType
<1>4. stats'.zonePruned + stats'.bloomPruned = CountBlock.zonePruned + CountBlock.bloomPruned + 1
  BY <1>3
<1> QED
  BY <1>1, <1>3, <1>4, PruneKeeps

\* A filtered block has no more rows to hand out than it holds.
LEMMA FilterBlockKeeps ==
    ASSUME ScanType, StatsInv, FilterBlock PROVE ScanType' /\ StatsInv'
<1> DEFINE n == Cardinality(RowsIn(block))
           kept == {i \in RowsIn(block) : Survives(i)}
<1>1. /\ phase = "block" /\ block < BlockCount /\ stats' = CountBlock
      /\ matchRows' = Ascending(kept) /\ delivered' = 0 /\ phase' = "deliver"
      /\ UNCHANGED <<calls, block, output, past>>
  BY DEF FilterBlock
<1>2. block \in Nat /\ stats \in StatsType
  BY BlockCountType DEF ScanType
<1>3. /\ n \in Nat /\ CountBlock \in StatsType
      /\ CountBlock.blocks = stats.blocks + 1 /\ CountBlock.scanned = stats.scanned + n
      /\ CountBlock.zonePruned = stats.zonePruned
      /\ CountBlock.bloomPruned = stats.bloomPruned
      /\ CountBlock.filtered = stats.filtered /\ CountBlock.returned = stats.returned
  BY <1>1, CountBlockFields
<1>4. matchRows' \in Seq(Int) /\ Len(matchRows') \in Nat /\ Len(matchRows') <= n
  <2>1. IsFiniteSet(RowsIn(block)) /\ RowsIn(block) \subseteq 1 .. NumRows
    BY <1>1, <1>2, RowsInCount
  <2>2. kept \subseteq RowsIn(block)
    OBVIOUS
  <2> HIDE DEF kept
  <2>3. Cardinality(kept) <= n /\ kept \subseteq 1 .. NumRows /\ NumRows \in Nat
    BY <2>1, <2>2, FS_Subset, BlockCountType
  <2>4. /\ Ascending(kept) \in Seq(Int) /\ Len(Ascending(kept)) = Cardinality(kept)
        /\ Cardinality(kept) \in Nat
    BY <2>3, AscendingProperties
  <2> QED
    BY <1>1, <2>3, <2>4
<1> HIDE DEF kept
<1>5. AtBlock(stats, block, Len(output))
  BY <1>1, StatsInvFrame
<1> DEFINE blocks == PastBlocks + block
           rows == PastRows + RowsDone(block)
           received == Len(output)
<1>6. Accounted(CountBlock, blocks + 1, rows + n, n, 0, received)
  <2>1. Accounted(stats, blocks, rows, 0, 0, received)
    BY <1>5 DEF AtBlock
  <2> HIDE DEF n, blocks, rows, received
  <2> QED
    BY <1>2, <1>3, <2>1, FilteredAccounted
<1>7. InBlock(CountBlock, block, 0, Len(output))
  BY <1>6, Zenon DEF InBlock
<1>8. ScanType'
  BY <1>1, <1>2, <1>3, <1>4 DEF ScanType
<1>9. 0 + Len(matchRows') <= n
  <2> HIDE DEF n
  <2> QED
    BY <1>3, <1>4
<1>10. StatsInv'
  BY <1>1, <1>7, <1>9, StatsInvFrame
<1> QED
  BY <1>8, <1>10

\* A run moves rows from those to hand out to those received.
LEMMA DeliverRunKeeps ==
    ASSUME ScanType, StatsInv, DeliverRun PROVE ScanType' /\ StatsInv'
<1> DEFINE n == Cardinality(RowsIn(block))
           m == Len(matchRows)
           d == RunLength
           run == [k \in 1 .. d |-> matchRows[1] + k - 1]
<1>1. /\ phase = "deliver" /\ matchRows # <<>> /\ output' = output \o run
      /\ delivered' = delivered + d /\ matchRows' = SubSeq(matchRows, d + 1, m)
      /\ UNCHANGED <<calls, block, phase, stats, past>>
  BY DEF DeliverRun
<1>2. /\ matchRows \in Seq(Int) /\ output \in Seq(Int) /\ delivered \in Nat
      /\ block \in Nat /\ block < BlockCount /\ stats \in StatsType
  BY <1>1, BlockCountType DEF ScanType
<1>3. d \in 1 .. m /\ m \in Nat /\ n \in Nat
  BY <1>1, <1>2, RunLengthRange, RowsInCount, LenProperties
<1> HIDE DEF d, n
<1>4. run \in Seq(Int) /\ Len(run) = d
  <2>1. matchRows[1] \in Int
    BY <1>2, <1>3, ElementOfSeq
  <2> HIDE DEF m
  <2> QED
    BY <1>3, <2>1
<1>5. output' \in Seq(Int) /\ Len(output') = Len(output) + d /\ Len(output) \in Nat
  <2> HIDE DEF run
  <2> QED
    BY <1>1, <1>2, <1>4, ConcatProperties, LenProperties
<1>6. matchRows' \in Seq(Int) /\ Len(matchRows') = m - d
  <2>1. d + 1 \in 1 .. m + 1
    BY <1>3
  <2> HIDE DEF run
  <2> QED
    BY <1>1, <1>2, <1>3, <2>1, SubSeqProperties DEF m
<1> HIDE DEF m, run
<1>7. /\ InBlock(stats, block, delivered, Len(output)) /\ delivered + m <= n
  BY <1>1, StatsInvFrame DEF n, m
<1>8. InBlock(stats, block, delivered + d, Len(output) + d)
  <2> DEFINE blocks == PastBlocks + block + 1
             rows == PastRows + RowsDone(block) + n
             received == Len(output)
  <2>1. Accounted(stats, blocks, rows, n, delivered, received)
    BY <1>7 DEF InBlock, n
  <2>2. d \in Nat /\ received \in Nat
    BY <1>3, <1>5
  <2>3. Accounted(stats, blocks, rows, n, delivered + d, received + d)
    <3>1. stats.returned \in Nat
      BY <1>2 DEF StatsType
    <3> HIDE DEF blocks, rows, received
    <3>2. stats.returned + delivered = received
      BY <2>1 DEF Accounted
    <3>3. stats.returned + (delivered + d) = received + d
      <4>1. (stats.returned + delivered) + d = stats.returned + (delivered + d)
        BY <1>2, <2>2, <3>1, AddAssoc
      <4> QED
        BY <3>2, <4>1
    <3> QED
      BY <2>1, <3>3, Zenon DEF Accounted
  <2> QED
    BY <2>3 DEF InBlock, n
<1>9. delivered + d \in Nat /\ (delivered + d) + (m - d) <= n
  BY <1>2, <1>3, <1>7
<1>10. ScanType'
  BY <1>1, <1>5, <1>6, <1>9 DEF ScanType
<1>11. StatsInv'
  BY <1>1, <1>5, <1>6, <1>8, <1>9, StatsInvFrame DEF n
<1> QED
  BY <1>10, <1>11

\* What was not handed out counts as filtered, and never less than nothing.
LEMMA EndBlockKeeps ==
    ASSUME ScanType, StatsInv, EndBlock PROVE ScanType' /\ StatsInv'
<1> DEFINE n == Cardinality(RowsIn(block))
           g == stats'
<1>1. /\ phase = "deliver" /\ matchRows = <<>> /\ block' = block + 1 /\ phase' = "block"
      /\ g = [stats EXCEPT !.filtered = @ + n - delivered, !.returned = @ + delivered]
      /\ UNCHANGED <<calls, matchRows, delivered, output, past>>
  BY DEF EndBlock
<1>2. /\ delivered \in Nat /\ block \in Nat /\ block < BlockCount
      /\ block + 1 \in 0 .. BlockCount /\ stats \in StatsType
  BY <1>1, BlockCountType DEF ScanType
<1>3. n \in Nat /\ RowsDone(block + 1) = RowsDone(block) + n /\ RowsDone(block) \in Nat
  BY <1>2, RowsInCount, EdgeProperties
<1>4. InBlock(stats, block, delivered, Len(output)) /\ delivered + Len(matchRows) <= n
  BY <1>1, StatsInvFrame
<1>5. delivered <= n
  <2>1. Len(matchRows) = 0
    BY <1>1
  <2> HIDE DEF n
  <2> QED
    BY <1>2, <1>4, <2>1
<1> HIDE DEF n
<1> DEFINE a == [stats EXCEPT !.filtered = @ + n - delivered]
<1>6. g = [a EXCEPT !.returned = stats.returned + delivered]
  BY <1>1, <1>2 DEF StatsType
<1>7. /\ a \in StatsType /\ a.filtered = stats.filtered + n - delivered
      /\ a.blocks = stats.blocks /\ a.scanned = stats.scanned
      /\ a.zonePruned = stats.zonePruned /\ a.bloomPruned = stats.bloomPruned
  <2>1. stats.filtered + n - delivered \in Nat
    BY <1>2, <1>3, <1>5 DEF StatsType
  <2> QED
    BY <1>2, <2>1 DEF StatsType
<1> HIDE DEF a, g
<1>8. stats.returned + delivered \in Nat
  BY <1>2 DEF StatsType
<1>9. /\ g \in StatsType /\ g.returned = stats.returned + delivered
      /\ g.filtered = a.filtered /\ g.blocks = a.blocks /\ g.scanned = a.scanned
      /\ g.zonePruned = a.zonePruned /\ g.bloomPruned = a.bloomPruned
  BY <1>6, <1>7, <1>8 DEF StatsType
<1>10. AtBlock(g, block + 1, Len(output))
  <2> DEFINE blocks == PastBlocks + block + 1
             rows == PastRows + RowsDone(block) + n
             received == Len(output)
  <2>1. Accounted(stats, blocks, rows, n, delivered, received)
    BY <1>4 DEF InBlock, n
  <2>2. Accounted(g, blocks, rows, 0, 0, received)
    <3>1. g.filtered = stats.filtered + n - delivered
      BY <1>7, <1>9
    <3>2. /\ g.blocks = stats.blocks /\ g.scanned = stats.scanned
          /\ g.zonePruned = stats.zonePruned /\ g.bloomPruned = stats.bloomPruned
      BY <1>7, <1>9
    <3> HIDE DEF blocks, rows, received
    <3> QED
      BY <1>2, <1>3, <1>9, <2>1, <3>1, <3>2, DoneAccounted
  <2>3. PastBlocks \in Nat /\ PastRows \in Nat
    BY PastType DEF ScanType
  <2>4. blocks = PastBlocks + (block + 1) /\ rows = PastRows + RowsDone(block + 1)
    BY <1>2, <1>3, <2>3, AddAssoc
  <2> QED
    BY <2>2, <2>4 DEF AtBlock
<1>11. ScanType'
  BY <1>1, <1>2, <1>9 DEF ScanType, g
<1>12. StatsInv'
  BY <1>1, <1>10, StatsInvFrame DEF g
<1> QED
  BY <1>11, <1>12

\* The next Scan starts where the last one left the counters.
LEMMA ScanAgainKeeps ==
    ASSUME ScanType, StatsInv, NEW program \in Rescans, ScanAgain(program)
    PROVE  ScanType' /\ StatsInv'
<1>1. /\ phase = "block" /\ block = BlockCount /\ past' = Append(past, calls)
      /\ calls' = program /\ block' = 0
      /\ UNCHANGED <<phase, matchRows, delivered, output, stats>>
  BY DEF ScanAgain
<1>2. past \in Seq(Programs \cup Rescans) /\ calls \in Programs \cup Rescans
  BY DEF ScanType
<1>3. past' \in Seq(Programs \cup Rescans) /\ Len(past') = Len(past) + 1 /\ Len(past) \in Nat
  BY <1>1, <1>2, AppendProperties, LenProperties
<1>4. ScanType'
  BY <1>1, <1>3, BlockCountType DEF ScanType
<1>5. /\ PastBlocks' + 0 = PastBlocks + BlockCount
      /\ PastRows' + RowsDone(0) = PastRows + RowsDone(BlockCount)
  <2> DEFINE p == Len(past)
  <2>1. PastBlocks' = (p + 1) * BlockCount /\ PastRows' = (p + 1) * NumRows
    BY <1>3 DEF PastBlocks, PastRows, BlockCount, NumBlocks
  <2>2. p \in Nat /\ BlockCount \in Nat /\ NumRows \in Nat
        /\ RowsDone(0) = 0 /\ RowsDone(BlockCount) = NumRows
    BY <1>3, BlockCountType
  <2>3. PastBlocks = p * BlockCount /\ PastRows = p * NumRows
    BY DEF PastBlocks, PastRows
  <2> HIDE DEF p
  <2> QED
    BY <2>1, <2>2, <2>3
<1>6. Accounted(stats, PastBlocks + block, PastRows + RowsDone(block), 0, 0, Len(output))
  BY <1>1 DEF StatsInv
<1>7. Accounted(stats', PastBlocks' + block', PastRows' + RowsDone(block'), 0, 0, Len(output'))
  BY <1>1, <1>5, <1>6
<1>8. phase' = "block"
  BY <1>1
<1>9. StatsInv'
  BY <1>7, <1>8, Zenon DEF StatsInv, Accounted, RowsDone, Edge
<1> QED
  BY <1>4, <1>9

\* Every step keeps the account.
LEMMA ScanStep ==
    ASSUME ScanType, StatsInv, [Next]_vars PROVE ScanType' /\ StatsInv'
<1>1. CASE PruneByZoneMap
  BY <1>1, PruneByZoneMapKeeps
<1>2. CASE PruneByBloom
  BY <1>2, PruneByBloomKeeps
<1>3. CASE FilterBlock
  BY <1>3, FilterBlockKeeps
<1>4. CASE DeliverRun
  BY <1>4, DeliverRunKeeps
<1>5. CASE EndBlock
  BY <1>5, EndBlockKeeps
<1>6. ASSUME NEW program \in Rescans, ScanAgain(program) PROVE ScanType' /\ StatsInv'
  BY <1>6, ScanAgainKeeps
<1>7. CASE UNCHANGED vars
  <2>1. UNCHANGED <<calls, block, phase, matchRows, delivered, output, stats, past>>
    BY <1>7 DEF vars
  <2>2. ScanType'
    BY <2>1 DEF ScanType
  <2>3. StatsInv'
    BY <2>1, StatsInvFrame
  <2> QED
    BY <2>2, <2>3
<1> QED
  BY <1>1, <1>2, <1>3, <1>4, <1>5, <1>6, <1>7 DEF Next

(***************************************************************************)
(* The counters of SegmentScanner account for every block and every row,   *)
(* for every table, predicate, block size and sequence of Scans: whatever  *)
(* is pruned, filtered or cut into runs, rows_returned is what the         *)
(* callbacks received and rows_scanned what the blocks done held.          *)
(***************************************************************************)
THEOREM ScannerStatsAddUp == Spec => []StatsAddUp
<1>1. Init => ScanType /\ StatsInv
  BY ScanInit
<1>2. ScanType /\ StatsInv /\ [Next]_vars => ScanType' /\ StatsInv'
  BY ScanStep
<1>3. ScanType /\ StatsInv => StatsAddUp
  <2> SUFFICES ASSUME ScanType, StatsInv, phase = "block" PROVE StatsAddUp
    BY DEF StatsAddUp
  <2> DEFINE k == stats.zonePruned + stats.bloomPruned
  <2>1. block \in Nat
    BY BlockCountType DEF ScanType
  <2>2. Cardinality(RowsBefore(block)) = RowsDone(block)
    BY <2>1, RowsBeforeCount
  <2>3. Accounted(stats, PastBlocks + block, PastRows + RowsDone(block), 0, 0, Len(output))
    BY DEF StatsInv
  <2>4. stats.returned \in Nat /\ stats.filtered \in Nat
    BY DEF ScanType, StatsType
  <2>5. /\ stats.blocks = PastBlocks + block /\ stats.scanned = PastRows + RowsDone(block)
        /\ stats.returned + 0 = Len(output)
        /\ k = 0 => stats.returned + stats.filtered + 0 = stats.scanned
        /\ stats.returned + stats.filtered + 0 <= stats.scanned
        /\ stats.scanned <= stats.returned + stats.filtered + 0 + BlockSize * k
    BY <2>3 DEF Accounted
  <2>6. stats.returned + 0 = stats.returned
        /\ stats.returned + stats.filtered + 0 = stats.returned + stats.filtered
    BY <2>4
  <2> QED
    BY <2>2, <2>5, <2>6, Zenon DEF StatsAddUp, PastBlocks, PastRows
<1> QED
  BY <1>1, <1>2, <1>3, PTL DEF Spec
-----------------------------------------------------------------------------
(* The rows a scan delivers *)

\* No two numbers of a set have the same rank.
LEMMA RankUnique ==
    ASSUME NEW n \in Nat, NEW V, V \subseteq 1 .. n, NEW x \in V, NEW z \in V, x < z
    PROVE  Cardinality({y \in V : y < x}) # Cardinality({y \in V : y < z})
<1> DEFINE bx == {y \in V : y < x}
           bz == {y \in V : y < z}
<1>1. \A y \in V : y \in Nat
  OBVIOUS
<1>2. IsFiniteSet(bz)
  <2>1. IsFiniteSet(1 .. n)
    BY FS_Interval
  <2>2. bz \subseteq 1 .. n
    OBVIOUS
  <2> HIDE DEF bz
  <2> QED
    BY <2>1, <2>2, FS_Subset
<1>3. bx \in SUBSET bz /\ x \in bz /\ x \notin bx
  <2>1. ~(x < x) /\ \A y \in V : y < x => y < z
    BY <1>1
  <2> QED
    BY <2>1, Zenon
<1> HIDE DEF bx, bz
<1>4. Cardinality(bz) # Cardinality(bx)
  BY <1>2, <1>3, FS_Subset
<1> QED
  BY <1>4 DEF bx, bz

\* The number of rank k - 1 is the k-th of Ascending.
LEMMA AscendingAt ==
    ASSUME NEW n \in Nat, NEW V, V \subseteq 1 .. n, NEW k \in 1 .. Cardinality(V),
           NEW x \in V, Cardinality({y \in V : y < x}) = k - 1
    PROVE  Ascending(V)[k] = x
<1> DEFINE R(z) == Cardinality({y \in V : y < z}) = k - 1
<1>1. \A z \in V : R(z) => z = x
  <2> SUFFICES ASSUME NEW z \in V, R(z), z # x PROVE FALSE
    OBVIOUS
  <2>1. z < x \/ x < z
    <3>1. z \in Int /\ x \in Int
      OBVIOUS
    <3> HIDE DEF R
    <3> QED
      BY <3>1
  <2>2. CASE z < x
    BY <2>2, RankUnique
  <2>3. CASE x < z
    BY <2>3, RankUnique
  <2> QED
    BY <2>1, <2>2, <2>3
<1>2. R(x)
  OBVIOUS
<1>3. Ascending(V)[k] = CHOOSE z \in V : R(z)
  BY Zenon DEF Ascending
<1> HIDE DEF R
<1> QED
  BY <1>1, <1>2, <1>3, Zenon

\* V and W are rows of one segment, V before W.
Precedes(V, W, n) ==
    n \in Nat /\ V \subseteq 1 .. n /\ W \subseteq 1 .. n /\ \A x \in V, y \in W : x < y

\* Rows of later blocks come behind those of earlier ones.
LEMMA AscendingConcat ==
    ASSUME NEW n, NEW V, NEW W, Precedes(V, W, n)
    PROVE  Ascending(V \cup W) = Ascending(V) \o Ascending(W)
<1> DEFINE U == V \cup W
           v == Cardinality(V)
           w == Cardinality(W)
           a == Ascending(V)
           b == Ascending(W)
           c == Ascending(U)
           Below(S, x) == {y \in S : y < x}
<1> USE DEF Precedes
<1>1. U \subseteq 1 .. n
  OBVIOUS
<1>2. IsFiniteSet(V) /\ IsFiniteSet(W)
  <2>1. IsFiniteSet(1 .. n)
    BY FS_Interval
  <2> QED
    BY <2>1, FS_Subset
<1>3. /\ a \in Seq(Int) /\ Len(a) = v /\ v \in Nat
      /\ b \in Seq(Int) /\ Len(b) = w /\ w \in Nat
      /\ c \in Seq(Int) /\ Len(c) = Cardinality(U)
  <2> HIDE DEF U
  <2> QED
    BY <1>1, AscendingProperties
<1>4. \A x \in 1 .. n : x \in Int /\ ~(x < x)
  OBVIOUS
<1>5. V \cap W = {}
  BY <1>4
<1>6. Cardinality(U) = v + w
  <2>1. Cardinality(V \cap W) = 0
    BY <1>5, FS_EmptySet
  <2>2. Cardinality(U) = v + w - 0
    BY <1>2, <2>1, FS_Union
  <2> HIDE DEF U, v, w
  <2> QED
    BY <1>3, <2>2
<1>7. ASSUME NEW k \in 1 .. v PROVE c[k] = a[k]
  <2>1. PICK x \in V : Cardinality(Below(V, x)) = k - 1
    BY RankExists
  <2>2. a[k] = x
    BY <2>1, AscendingAt
  <2>3. Below(U, x) = Below(V, x)
    <3>1. \A y \in W : ~(y < x)
      <4>1. \A y \in W : x < y /\ y \in Int /\ x \in Int
        BY <1>4
      <4> QED
        BY <4>1
    <3> QED
      BY <3>1
  <2>4. k \in 1 .. Cardinality(U)
    <3> HIDE DEF U, v, w
    <3> QED
      BY <1>3, <1>6
  <2>5. x \in U /\ Cardinality(Below(U, x)) = k - 1
    BY <2>1, <2>3
  <2>6. c[k] = x
    <3> HIDE DEF U
    <3> QED
      BY <1>1, <2>4, <2>5, AscendingAt
  <2> QED
    BY <2>2, <2>6
<1>8. ASSUME NEW k \in 1 .. w PROVE c[v + k] = b[k]
  <2>1. PICK x \in W : Cardinality(Below(W, x)) = k - 1
    BY RankExists
  <2>2. b[k] = x
    BY <2>1, AscendingAt
  <2>3. Below(U, x) = V \cup Below(W, x)
    OBVIOUS
  <2>4. V \cap Below(W, x) = {} /\ IsFiniteSet(Below(W, x))
    <3>1. Below(W, x) \subseteq W
      OBVIOUS
    <3> HIDE DEF Below
    <3> QED
      BY <1>2, <1>5, <3>1, FS_Subset
  <2>5. Cardinality(Below(U, x)) = v + (k - 1)
    <3>1. Cardinality(V \cap Below(W, x)) = 0
      BY <2>4, FS_EmptySet
    <3> HIDE DEF Below
    <3>2. Cardinality(Below(U, x)) = v + (k - 1) - 0
      BY <1>2, <2>1, <2>3, <2>4, <3>1, FS_Union
    <3> HIDE DEF U, v, w
    <3> QED
      BY <1>3, <3>2
  <2>6. v + k \in 1 .. Cardinality(U) /\ v + (k - 1) = (v + k) - 1
    <3> HIDE DEF U, v, w
    <3> QED
      BY <1>3, <1>6
  <2>7. x \in U /\ Cardinality(Below(U, x)) = (v + k) - 1
    BY <2>5, <2>6
  <2>8. c[v + k] = x
    <3> DEFINE m == v + k
    <3>1. m \in 1 .. Cardinality(U) /\ Cardinality(Below(U, x)) = m - 1
      BY <2>6, <2>7
    <3> HIDE DEF m, U
    <3>2. c[m] = x
      BY <1>1, <2>7, <3>1, AscendingAt
    <3> QED
      BY <3>2 DEF m
  <2> QED
    BY <2>2, <2>8
<1> HIDE DEF U, v, w, a, b, c, Below
<1> DEFINE d == a \o b
<1>9. d \in Seq(Int) /\ Len(d) = v + w
      /\ \A i \in 1 .. v + w : d[i] = IF i <= v THEN a[i] ELSE b[i - v]
  BY <1>3, ConcatProperties
<1>10. ASSUME NEW i \in 1 .. v + w PROVE c[i] = d[i]
  <2>1. CASE i <= v
    BY <1>3, <1>7, <1>9, <2>1
  <2>2. CASE ~(i <= v)
    <3>1. i - v \in 1 .. w /\ v + (i - v) = i
      BY <1>3, <2>2
    <3>2. c[v + (i - v)] = b[i - v]
      BY <1>8, <3>1
    <3> QED
      BY <1>9, <2>2, <3>1, <3>2
  <2> QED
    BY <2>1, <2>2
<1>11. c = d
  <2> HIDE DEF d
  <2> QED
    BY <1>3, <1>6, <1>9, <1>10, SeqEqual
<1> QED
  BY <1>11 DEF U, a, b, c, d

\* The rows from row0 on that a callback reads are the first RunLength survivors.
LEMMA RunIsPrefix ==
    ASSUME matchRows \in Seq(Int), matchRows # <<>>
    PROVE  [k \in 1 .. RunLength |-> matchRows[1] + k - 1]
               \o SubSeq(matchRows, RunLength + 1, Len(matchRows)) = matchRows
<1> DEFINE m == Len(matchRows)
           d == RunLength
           run == [k \in 1 .. d |-> matchRows[1] + k - 1]
<1>1. d \in 1 .. m /\ m \in Nat
  BY RunLengthRange, LenProperties
<1>2. \A j \in 2 .. d : matchRows[j] = matchRows[j - 1] + 1
  BY RunLengthRange
<1>3. \A k \in 1 .. m : matchRows[k] \in Int
  BY ElementOfSeq
<1> HIDE DEF d, m
<1> DEFINE Bad == {k \in Nat : k \in 1 .. d /\ matchRows[k] # matchRows[1] + k - 1}
<1>4. Bad = {}
  <2> SUFFICES ASSUME Bad # {} PROVE FALSE
    OBVIOUS
  <2>1. PICK k \in Bad : \A j \in Bad : k <= j
    <3>1. Bad \subseteq Nat
      OBVIOUS
    <3> HIDE DEF Bad
    <3> QED
      BY <3>1, LeastNat
  <2>2. k # 1
    BY <1>1, <1>3
  <2>3. k \in 2 .. d /\ k - 1 \in 1 .. d /\ k - 1 \in Nat /\ ~(k <= k - 1)
    BY <1>1, <2>2
  <2>4. matchRows[k - 1] = matchRows[1] + (k - 1) - 1
    <3>1. k - 1 \notin Bad
      <4> HIDE DEF Bad
      <4> QED
        BY <2>1, <2>3
    <3> QED
      BY <2>3, <3>1
  <2>5. matchRows[k] = matchRows[k - 1] + 1 /\ matchRows[1] \in Int
    BY <1>1, <1>2, <1>3, <2>3
  <2>6. matchRows[k] = matchRows[1] + k - 1
    BY <2>4, <2>5
  <2> QED
    BY <2>6
<1>5. \A k \in 1 .. d : run[k] = matchRows[k]
  BY <1>1, <1>4
<1>6. run \in Seq(Int) /\ Len(run) = d
  BY <1>1, <1>3
<1>7. run = SubSeq(matchRows, 1, d)
  <2> DEFINE s == SubSeq(matchRows, 1, d)
  <2>1. \A i \in 1 .. d : matchRows[i] \in Int
    BY <1>1, <1>3
  <2>2. s \in Seq(Int) /\ Len(s) = d /\ \A i \in 1 .. d : s[i] = matchRows[i]
    <3>1. /\ s \in Seq(Int) /\ Len(s) = (IF 1 <= d THEN d - 1 + 1 ELSE 0)
          /\ \A i \in 1 .. d - 1 + 1 : s[i] = matchRows[1 + i - 1]
      BY <1>1, <2>1, SubSeqProperties
    <3>2. d - 1 + 1 = d /\ \A i \in 1 .. d : 1 + i - 1 = i
      BY <1>1
    <3> HIDE DEF s
    <3> QED
      BY <1>1, <3>1, <3>2
  <2> HIDE DEF s, run
  <2> QED
    BY <1>5, <1>6, <2>2, SeqEqual DEF s
<1>8. SubSeq(matchRows, 1, d) \o SubSeq(matchRows, d + 1, m) = SubSeq(matchRows, 1, m)
  <2>1. 1 \in 1 .. m + 1 /\ d \in 1 - 1 .. m /\ m \in d .. m
    BY <1>1
  <2> QED
    BY <2>1, ConcatAdjacentSubSeq DEF m
<1>9. SubSeq(matchRows, 1, m) = matchRows
  BY SubSeqFull DEF m
<1> HIDE DEF run
<1>10. run \o SubSeq(matchRows, d + 1, m) = matchRows
  BY <1>7, <1>8, <1>9
<1> QED
  BY <1>10 DEF run, d, m

\* The sequences flattened up to each place.
FlatTo(q, S, n) == S = [k \in 1 .. n |-> IF k = 1 THEN q[k] ELSE S[k - 1] \o q[k]]

\* One more sequence to flatten: the places before it keep what they have.
LEMMA FlatLonger ==
    ASSUME NEW k \in Nat \ {0}, NEW q, NEW S, FlatTo(q, S, k - 1)
    PROVE  LET T == [j \in 1 .. k |-> IF j < k THEN S[j]
                                      ELSE IF k = 1 THEN q[k] ELSE S[k - 1] \o q[k]] IN
           FlatTo(q, T, k)
<1> DEFINE T == [j \in 1 .. k |-> IF j < k THEN S[j]
                                  ELSE IF k = 1 THEN q[k] ELSE S[k - 1] \o q[k]]
           E(f, j) == IF j = 1 THEN q[j] ELSE f[j - 1] \o q[j]
<1>1. ASSUME NEW j \in 1 .. k PROVE T[j] = E(T, j)
  <2>1. CASE j < k
    <3>1. S = [i \in 1 .. k - 1 |-> E(S, i)]
      BY DEF FlatTo
    <3>2. j \in 1 .. k - 1
      BY <2>1
    <3>3. S[j] = E(S, j)
      <4> HIDE DEF E
      <4> QED
        BY <3>1, <3>2
    <3>4. T[j] = S[j]
      BY <2>1
    <3>5. j # 1 => T[j - 1] = S[j - 1]
      BY <2>1
    <3> HIDE DEF T
    <3> QED
      BY <3>3, <3>4, <3>5
  <2>2. CASE ~(j < k)
    <3>1. j = k
      BY <2>2
    <3>2. j # 1 => T[j - 1] = S[j - 1]
      BY <3>1
    <3>3. T[j] = IF k = 1 THEN q[k] ELSE S[k - 1] \o q[k]
      BY <2>2
    <3> HIDE DEF T
    <3> QED
      BY <3>1, <3>2, <3>3
  <2> QED
    BY <2>1, <2>2
<1>2. T = [j \in 1 .. k |-> T[j]]
  OBVIOUS
<1>3. T = [j \in 1 .. k |-> E(T, j)]
  <2> HIDE DEF T, E
  <2> QED
    BY <1>1, <1>2
<1>4. FlatTo(q, T, k)
  <2> HIDE DEF T
  <2> QED
    BY <1>3 DEF FlatTo
<1> QED
  BY <1>4

\* Flattening up to a place is defined for every sequence.
LEMMA FlatExists ==
    ASSUME NEW n \in Nat, NEW q
    PROVE  \E S : FlatTo(q, S, n)
<1> DEFINE Bad == {k \in Nat : k <= n /\ ~ \E S : FlatTo(q, S, k)}
<1> SUFFICES ASSUME Bad # {} PROVE FALSE
  <2>1. n \notin Bad
    OBVIOUS
  <2> QED
    BY <2>1
<1>1. PICK k \in Bad : \A j \in Bad : k <= j
  <2>1. Bad \subseteq Nat
    OBVIOUS
  <2> HIDE DEF Bad
  <2> QED
    BY <2>1, LeastNat
<1>2. CASE k = 0
  <2> DEFINE S == [j \in 1 .. 0 |-> 0]
  <2>1. FlatTo(q, S, 0)
    BY DEF FlatTo
  <2> QED
    BY <1>2, <2>1
<1>3. CASE k # 0
  <2>1. k \in Nat \ {0} /\ k - 1 \in Nat /\ k - 1 <= n /\ ~(k <= k - 1)
    BY <1>3
  <2>2. k - 1 \notin Bad
    <3> HIDE DEF Bad
    <3> QED
      BY <1>1, <2>1
  <2>3. PICK S : FlatTo(q, S, k - 1)
    BY <2>1, <2>2
  <2>4. \E T : FlatTo(q, T, k)
    BY <2>1, <2>3, FlatLonger
  <2> QED
    BY <2>4
<1> QED
  BY <1>2, <1>3

\* FlattenSeq is settled place by place.
LEMMA FlatIs ==
    ASSUME NEW q, NEW n \in Nat \ {0}, Len(q) = n, NEW S, FlatTo(q, S, n)
    PROVE  FlattenSeq(q) = S[n]
<1> DEFINE R(f) == [k \in 1 .. n |-> IF k = 1 THEN q[k] ELSE f[k - 1] \o q[k]]
           flat == CHOOSE f : f = R(f)
<1>1. FlattenSeq(q) = flat[n]
  BY DEF FlattenSeq
<1>2. S = R(S)
  BY DEF FlatTo
<1>3. flat = R(flat)
  BY <1>2
<1> HIDE DEF flat
<1> DEFINE Bad == {k \in Nat : k \in 1 .. n /\ flat[k] # S[k]}
<1>4. Bad = {}
  <2> SUFFICES ASSUME Bad # {} PROVE FALSE
    OBVIOUS
  <2>1. PICK k \in Bad : \A j \in Bad : k <= j
    <3>1. Bad \subseteq Nat
      OBVIOUS
    <3> HIDE DEF Bad
    <3> QED
      BY <3>1, LeastNat
  <2>2. k # 1
    BY <1>2, <1>3, <2>1
  <2>3. k \in 1 .. n /\ k - 1 \in Nat /\ k - 1 \in 1 .. n /\ ~(k <= k - 1)
    BY <2>2
  <2>4. flat[k - 1] = S[k - 1]
    <3>1. k - 1 \notin Bad
      <4> HIDE DEF Bad
      <4> QED
        BY <2>1, <2>3
    <3> QED
      BY <2>3, <3>1
  <2>5. flat[k] = flat[k - 1] \o q[k]
    BY <1>3, <2>2, <2>3
  <2>6. S[k] = S[k - 1] \o q[k]
    BY <1>2, <2>2, <2>3
  <2>7. flat[k] = S[k]
    <3> HIDE DEF Bad, R
    <3> QED
      BY <2>4, <2>5, <2>6
  <2> QED
    BY <2>7
<1> QED
  BY <1>1, <1>4

\* Flattening one sequence more puts it behind what the others give.
LEMMA FlatAppend ==
    ASSUME NEW n \in Nat, NEW q, Len(q) = n, n = 0 => q = <<>>,
           NEW r, Len(r) = n + 1, \A k \in 1 .. n : r[k] = q[k],
           r[n + 1] \in Seq(Int)
    PROVE  FlattenSeq(r) = FlattenSeq(q) \o r[n + 1]
<1> DEFINE m == n + 1
<1>1. m \in Nat \ {0} /\ m - 1 = n
  OBVIOUS
<1>2. PICK S : FlatTo(q, S, n)
  BY FlatExists
<1>3. FlatTo(r, S, n)
  <2>1. [k \in 1 .. n |-> IF k = 1 THEN q[k] ELSE S[k - 1] \o q[k]]
           = [k \in 1 .. n |-> IF k = 1 THEN r[k] ELSE S[k - 1] \o r[k]]
    OBVIOUS
  <2> QED
    BY <1>2, <2>1 DEF FlatTo
<1> DEFINE T == [j \in 1 .. m |-> IF j < m THEN S[j]
                                  ELSE IF m = 1 THEN r[m] ELSE S[m - 1] \o r[m]]
<1>4. FlatTo(r, T, m)
  <2>1. FlatTo(r, S, m - 1)
    BY <1>1, <1>3
  <2> HIDE DEF m
  <2> QED
    BY <1>1, <2>1, FlatLonger
<1>5. T[m] = IF m = 1 THEN r[m] ELSE S[m - 1] \o r[m]
  <2> HIDE DEF m
  <2> QED
    BY <1>1
<1>6. FlattenSeq(r) = T[m]
  <2>1. Len(r) = m
    OBVIOUS
  <2> HIDE DEF T, m
  <2> QED
    BY <1>1, <1>4, <2>1, FlatIs
<1>7. CASE n = 0
  <2>1. FlattenSeq(r) = r[m]
    BY <1>5, <1>6, <1>7
  <2>2. FlattenSeq(q) = <<>>
    BY <1>7 DEF FlattenSeq
  <2>3. <<>> \o r[m] = r[m]
    BY ConcatEmptySeq
  <2> QED
    BY <2>1, <2>2, <2>3
<1>8. CASE n # 0
  <2>1. FlattenSeq(q) = S[n]
    BY <1>2, <1>8, FlatIs
  <2>2. m # 1
    BY <1>8
  <2>3. FlattenSeq(r) = S[m - 1] \o r[m]
    <3> HIDE DEF T, m
    <3> QED
      BY <1>5, <1>6, <2>2
  <2>4. FlattenSeq(r) = S[n] \o r[m]
    BY <1>1, <2>3
  <2> QED
    BY <2>1, <2>4
<1> QED
  BY <1>7, <1>8

\* The rows of a table are rows, and integers.
LEMMA RowTypes ==
    ASSUME table \in Tables
    PROVE  \A i \in 1 .. NumRows :
              /\ table[i] \in Rows
              /\ \A c \in Columns : table[i][c] \in Int
<1>1. ASSUME NEW i \in 1 .. NumRows, NEW c \in Columns PROVE table[i][c] \in ColumnValues[c]
  BY DEF Tables
<1>2. ASSUME NEW i \in 1 .. NumRows PROVE table[i] \in Rows
  <2>1. table[i] \in [Columns -> UNION {ColumnValues[c] : c \in Columns}]
    BY DEF Tables
  <2> QED
    BY <1>1, <2>1 DEF Rows
<1>3. \A c \in Columns : ColumnValues[c] \subseteq Int
  BY ScannerAssumption
<1> QED
  BY <1>1, <1>2, <1>3

\* What the vectorised comparison computes from the three that it has.
LEMMA VectorFilterCompares ==
    ASSUME NEW pred \in ComparisonOps, NEW v \in Int, NEW x \in Int
    PROVE  (CASE pred = "NotEqual"     -> ~VectorFilter("Equal", v, x)
              [] pred = "GreaterThan"  -> ~VectorFilter("LessEqual", v, x)
              [] pred = "GreaterEqual" -> ~VectorFilter("LessThan", v, x)
              [] OTHER                 -> VectorFilter(pred, v, x)) <=> Compare(pred, v, x)
<1>1. /\ v # x <=> ~(v = x)
      /\ v > x <=> ~(v <= x)
      /\ v >= x <=> ~(v < x)
  OBVIOUS
<1>2. VectorFilter("Equal", v, x) <=> v = x
  BY Zenon DEF VectorFilter
<1>3. VectorFilter("LessThan", v, x) <=> v < x
  BY Zenon DEF VectorFilter
<1>4. VectorFilter("LessEqual", v, x) <=> v <= x
  BY Zenon DEF VectorFilter
<1>5. CASE pred = "Equal"
  BY <1>2, <1>5, Zenon DEF Compare
<1>6. CASE pred = "NotEqual"
  BY <1>1, <1>2, <1>6, Zenon DEF Compare
<1>7. CASE pred = "LessThan"
  BY <1>3, <1>7, Zenon DEF Compare
<1>8. CASE pred = "LessEqual"
  BY <1>4, <1>8, Zenon DEF Compare
<1>9. CASE pred = "GreaterThan"
  BY <1>1, <1>4, <1>9, Zenon DEF Compare
<1>10. CASE pred = "GreaterEqual"
  BY <1>1, <1>3, <1>10, Zenon DEF Compare
<1> QED
  BY <1>5, <1>6, <1>7, <1>8, <1>9, <1>10, Zenon DEF ComparisonOps

\* Either path accepts the rows that satisfy the predicate.
LEMMA SurvivesRight ==
    ASSUME OneTestDecides(calls), table \in Tables, NEW i \in 1 .. NumRows
    PROVE  Survives(i) <=> EvaluateRow(calls, table[i])
<1>1. CASE ~FastPath
  BY <1>1, Zenon DEF Survives
<1>2. CASE FastPath
  <2>1. /\ FirstColumn \in Columns /\ Comparable(FirstColumn, FirstPred, FirstConstant)
        /\ \A r \in Rows : EvaluateRow(calls, r) <=> Compare(FirstPred, r[FirstColumn], FirstConstant)
    BY <1>2, Zenon DEF OneTestDecides, FastPath, FirstColumn, FirstPred, FirstConstant
  <2>2. table[i] \in Rows /\ table[i][FirstColumn] \in Int
    BY <2>1, RowTypes
  <2>3. /\ FirstPred \in ComparisonOps /\ FirstConstant \in Int
        /\ ColumnType[FirstColumn] \in {"Int32", "Int64"} /\ Narrowed = FirstConstant
    BY <2>1, Zenon DEF Comparable, Narrowed
  <2> DEFINE v == table[i][FirstColumn]
             compared ==
                 CASE FirstPred = "NotEqual"     -> ~VectorFilter("Equal", v, Narrowed)
                   [] FirstPred = "GreaterThan"  -> ~VectorFilter("LessEqual", v, Narrowed)
                   [] FirstPred = "GreaterEqual" -> ~VectorFilter("LessThan", v, Narrowed)
                   [] OTHER                      -> VectorFilter(FirstPred, v, Narrowed)
  <2>4. compared <=> Compare(FirstPred, v, Narrowed)
    <3>1. v \in Int /\ Narrowed \in Int
      BY <2>2, <2>3
    <3> HIDE DEF v
    <3> QED
      BY <2>3, <3>1, VectorFilterCompares, Zenon
  <2>5. Survives(i) <=> compared
    BY <1>2, <2>3, Zenon DEF Survives, ScanBlock
  <2> HIDE DEF compared
  <2> QED
    BY <2>1, <2>2, <2>3, <2>4, <2>5, Zenon
<1> QED
  BY <1>1, <1>2

\* The entry a scanner loads for block b describes the rows of that block.
LEMMA LoadedEntry ==
    ASSUME table \in Tables, NEW c \in ZoneColumns, ZoneRows = BlockSize,
           NEW b \in Nat, b < BlockCount
    PROVE  LET z == [i \in 1 .. NumRows |-> FALSE]
               e == GetZoneMap(c)[b + 1]
               r == BlockRange(b, BlockSize, NumRows) IN
           /\ ~(b >= Len(GetZoneMap(c)))
           /\ e \in Entry /\ Describes(e, ColumnData(c), z, r.from, r.to, TRUE)
<1> DEFINE d == ColumnData(c)
           z == [i \in 1 .. NumRows |-> FALSE]
           r == BlockRange(b, BlockSize, NumRows)
           u == Update(EmptyEntry, SubSeq(d, r.from, r.to), SubSeq(z, r.from, r.to))
           map == GetZoneMap(c)
<1>1. NumRows \in Nat /\ BlockSize \in Nat \ {0} /\ c \in Columns
  BY ScannerAssumption
<1>2. d \in Seq(Int) /\ Len(d) = NumRows
  <2>1. \A i \in 1 .. NumRows : table[i][c] \in Int
    BY <1>1, RowTypes
  <2> QED
    BY <1>1, <2>1 DEF ColumnData
<1>3. z \in Seq(BOOLEAN) /\ Len(z) = NumRows
  BY <1>1
<1>4. r.from \in Nat \ {0} /\ r.to \in Nat /\ r.to <= NumRows
  <2>1. /\ Edge(b) \in Nat /\ RowsDone(b + 1) \in Nat /\ RowsDone(b + 1) <= NumRows
    BY <1>1, EdgeProperties DEF RowsDone
  <2>2. r = [from |-> Edge(b) + 1, to |-> RowsDone(b + 1)]
    BY DEF BlockRange, Edge, RowsDone
  <2> HIDE DEF r
  <2> QED
    BY <2>1, <2>2
<1>5. EmptyEntry \in Entry /\ EmptyEntry.nullCount = 0
  BY DEF EmptyEntry, Entry
<1>6. u \in Entry /\ Describes(u, d, z, r.from, r.to, TRUE)
  <2> DEFINE from == r.from
             to == r.to
  <2>1. from \in Nat \ {0} /\ to \in Nat /\ to <= Len(d) /\ Len(z) = Len(d)
    BY <1>2, <1>3, <1>4
  <2>2. TRUE \in BOOLEAN /\ (TRUE => EmptyEntry.nullCount = 0)
    BY <1>5
  <2>3. u = Update(EmptyEntry, SubSeq(d, from, to), SubSeq(z, from, to))
    OBVIOUS
  <2> HIDE DEF d, z, from, to, u
  <2>4. u \in Entry /\ Describes(u, d, z, from, to, TRUE)
    BY <1>2, <1>3, <1>5, <2>1, <2>2, <2>3, BlockDescribes
  <2> QED
    BY <2>4 DEF from, to
<1>7. BlockCount \in Nat
  BY BlockCountType
<1> DEFINE built(k) == LET t == BlockRange(k - 1, BlockSize, NumRows)
                       IN  Update(EmptyEntry, SubSeq(d, t.from, t.to), SubSeq(z, t.from, t.to))
<1>8. map = [k \in 1 .. BlockCount |-> built(k)]
  <2>1. map = BuildFromColumn(<<>>, d, z, BlockSize)
    BY DEF GetZoneMap
  <2>2. \A k \in 1 .. BlockCount : ~(k <= Len(<<>>))
    BY <1>7
  <2>3. BlockCount = NumBlocks(Len(d), BlockSize)
    BY <1>2 DEF BlockCount
  <2> HIDE DEF d, z, map
  <2> QED
    BY <1>2, <2>1, <2>2, <2>3 DEF BuildFromColumn
<1>9. b + 1 \in 1 .. BlockCount /\ (b + 1) - 1 = b
  BY <1>7
<1>10. built(b + 1) = u
  BY <1>9
<1> HIDE DEF built, u, map
<1>11. map[b + 1] = u
  BY <1>8, <1>9, <1>10
<1>12. Len(map) = BlockCount
  BY <1>7, <1>8
<1>13. ~(b >= Len(map))
  BY <1>7, <1>12
<1> QED
  BY <1>6, <1>11, <1>13 DEF map

\* No row of a block that the zone map prunes satisfies the predicate.
LEMMA ZoneMapPrunesMisses ==
    ASSUME FirstTestDecides(calls), ZoneColumns # {} => ZoneRows = BlockSize, table \in Tables,
           NEW b \in Nat, b < BlockCount, ZoneMapPrunes(b), NEW i \in RowsIn(b)
    PROVE  ~EvaluateRow(calls, table[i])
<1> DEFINE c == FirstColumn
           map == GetZoneMap(c)
           e == map[b + 1]
           r == BlockRange(b, BlockSize, NumRows)
           z == [k \in 1 .. NumRows |-> FALSE]
           d == ColumnData(c)
<1>1. c \in Columns /\ Decides(calls, c, FirstPred, FirstConstant)
  BY Zenon DEF ZoneMapPrunes, Prunable, FirstTestDecides, FirstColumn, FirstPred, FirstConstant
<1>2. ~(b >= Len(map)) /\ ~CanMatch(e, FirstPred, Narrowed)
  BY Zenon DEF ZoneMapPrunes, ShouldScanBlock
<1>3. c \in ZoneColumns
  <2> SUFFICES ASSUME c \notin ZoneColumns PROVE FALSE
    OBVIOUS
  <2>1. map = <<>>
    BY Zenon DEF GetZoneMap
  <2>2. b >= 0 /\ Len(<<>>) = 0
    OBVIOUS
  <2> HIDE DEF map
  <2> QED
    BY <1>2, <2>1, <2>2
<1>4. e \in Entry /\ Describes(e, d, z, r.from, r.to, TRUE)
  BY <1>3, LoadedEntry
<1>5. i \in 1 .. NumRows /\ i \in r.from .. r.to
  BY RowsInCount DEF RowsIn
<1>6. ~z[i] /\ d[i] = table[i][c] /\ table[i] \in Rows /\ table[i][c] \in Int
  BY <1>1, <1>5, RowTypes DEF ColumnData
<1> HIDE DEF e, d, z, r, c
<1>7. e.hasMinMax /\ e.rowCount > 0 /\ e.min <= d[i] /\ d[i] <= e.max /\ e.rowCount > e.nullCount
  BY <1>4, <1>5, <1>6, Zenon DEF Describes
<1>8. FirstPred # "IsNotNull"
  <2> SUFFICES ASSUME FirstPred = "IsNotNull" PROVE FALSE
    OBVIOUS
  <2> QED
    BY <1>2, <1>7, Zenon DEF CanMatch
<1>9. /\ Comparable(c, FirstPred, FirstConstant)
      /\ \A row \in Rows : EvaluateRow(calls, row) => Compare(FirstPred, row[c], FirstConstant)
  BY <1>1, <1>3, <1>8, Zenon DEF Decides
<1>10. FirstPred \in ComparisonOps /\ FirstConstant \in Int /\ Narrowed = FirstConstant
  BY <1>9, Zenon DEF Comparable, Narrowed, c
<1> SUFFICES ASSUME EvaluateRow(calls, table[i]) PROVE FALSE
  OBVIOUS
<1>11. Compare(FirstPred, table[i][c], FirstConstant)
  BY <1>6, <1>9, Zenon
<1>12. CanMatchValue(e, FirstPred, FirstConstant)
  <2> DEFINE x == table[i][c]
             k == FirstConstant
             pred == FirstPred
  <2>1. /\ e.rowCount > 0 /\ x \in Int /\ e.min <= x /\ x <= e.max
        /\ k \in Int /\ pred \in ComparisonOps /\ Compare(pred, x, k)
    BY <1>6, <1>7, <1>10, <1>11
  <2> HIDE DEF x, k, pred
  <2>2. CanMatchValue(e, pred, k)
    BY <1>4, <2>1, BoundsCanMatch, Zenon
  <2> QED
    BY <2>2 DEF k, pred
<1>13. FirstPred # "IsNull"
  BY <1>10 DEF ComparisonOps
<1> QED
  BY <1>2, <1>8, <1>10, <1>12, <1>13, Zenon DEF CanMatch

\* A value of a column with a Bloom filter is found in it as an int64_t.
LEMMA LoadedFilterFinds ==
    ASSUME table \in Tables, NEW c \in BloomColumns, NEW i \in 1 .. NumRows,
           Key("Int64", table[i][c]) = Key(ColumnType[c], table[i][c])
    PROVE  MightContain(GetBloomFilter(c), "Int64", table[i][c])
<1> DEFINE none == EmptyFilter(BloomBits, BloomHashes)
           v == table[i][c]
           added(k) == Add(none, ColumnType[c], table[k][c]).bits
           all == UNION {added(k) : k \in 1 .. NumRows}
           f == [none EXCEPT !.bits = all]
           key == Key(ColumnType[c], v)
<1>1. none \in Filter
  BY ScannerAssumption DEF EmptyFilter, Filter
<1>2. c \in Columns /\ v \in Int
  BY ScannerAssumption, RowTypes
<1>3. Positions(none, key) \subseteq added(i)
  <2> HIDE DEF none, v
  <2>1. Add(none, ColumnType[c], v).bits = none.bits \cup Positions(none, key)
    BY <1>1, <1>2, AddGrows
  <2> QED
    BY <2>1 DEF v
<1>4. added(i) \subseteq all
  OBVIOUS
<1>5. SameShape(f, none) /\ f.bits = all
  <2> HIDE DEF all, none
  <2> QED
    BY <1>1 DEF SameShape, Filter
<1>6. GetBloomFilter(c) = f
  BY Zenon DEF GetBloomFilter
<1> HIDE DEF f, none, all, added, key
<1>7. Positions(f, key) = Positions(none, key)
  BY <1>5, SameShapeSamePositions
<1>8. Positions(f, key) \subseteq f.bits
  BY <1>3, <1>4, <1>5, <1>7
<1> QED
  BY <1>6, <1>8 DEF MightContain, key

\* No row of the segment satisfies the predicate when the Bloom filter denies it.
LEMMA BloomPrunesMisses ==
    ASSUME FirstTestDecides(calls), table \in Tables, BloomPrunes, NEW i \in 1 .. NumRows
    PROVE  ~EvaluateRow(calls, table[i])
<1> DEFINE c == FirstColumn
           k == FirstConstant
<1>1. c \in Columns /\ Decides(calls, c, FirstPred, k) /\ FirstPred = "Equal"
  BY Zenon DEF BloomPrunes, Prunable, FirstTestDecides, FirstColumn, FirstPred, FirstConstant
<1>2. ~MightContain(GetBloomFilter(c), "Int64", k)
  BY Zenon DEF BloomPrunes
<1>3. FirstPred # "IsNotNull"
  BY <1>1
<1>4. /\ Comparable(c, FirstPred, k) /\ c \in BloomColumns
      /\ ColumnType[c] = "Int32" => k \in 0 .. Modulus32 - 1
      /\ \A row \in Rows : EvaluateRow(calls, row) => Compare(FirstPred, row[c], k)
  BY <1>1, <1>3, Zenon DEF Decides
<1>5. k \in Int /\ ColumnType[c] \in {"Int32", "Int64"}
  BY <1>4 DEF Comparable
<1> HIDE DEF c, k
<1>6. Key("Int64", k) = Key(ColumnType[c], k)
  <2>1. CASE ColumnType[c] = "Int32"
    <3>1. k \in 0 .. Modulus32 - 1
      BY <1>4, <2>1
    <3>2. Modulus32 \in Nat \ {0} /\ Modulus64 \in Nat \ {0} /\ Modulus32 <= Modulus64
      BY BloomAssumption
    <3>3. k % Modulus32 = k /\ k % Modulus64 = k
      BY <3>1, <3>2
    <3> QED
      BY <2>1, <3>3 DEF Key
  <2>2. CASE ColumnType[c] = "Int64"
    BY <2>2 DEF Key
  <2> QED
    BY <1>5, <2>1, <2>2
<1> SUFFICES ASSUME EvaluateRow(calls, table[i]) PROVE FALSE
  OBVIOUS
<1>7. table[i] \in Rows
  BY RowTypes
<1>8. table[i][c] = k
  BY <1>1, <1>4, <1>7, Zenon DEF Compare
<1>9. MightContain(GetBloomFilter(c), "Int64", k)
  BY <1>4, <1>6, <1>8, LoadedFilterFinds
<1> QED
  BY <1>2, <1>9
-----------------------------------------------------------------------------
\* The rows of t that satisfy p, in order, and those of all Scans that returned.
Hits(t, p, rows) == Ascending({i \in rows : EvaluateRow(p, t[i])})
HitsOf(t, ps)    == FlattenSeq([k \in DOMAIN ps |-> Hits(t, ps[k], 1 .. NumRows)])

\* Between blocks the caller has the matches of the blocks done; within a block
\* those it still has to receive are in matchRows.
DeliveredInv ==
    /\ table \in Tables
    /\ HitsOf(table, past) \in Seq(Int)
    /\ phase = "block" =>
           output = HitsOf(table, past) \o Hits(table, calls, RowsBefore(block))
    /\ phase = "deliver" =>
           output \o matchRows = HitsOf(table, past) \o Hits(table, calls, RowsBefore(block + 1))

\* The rows before a block and those of the block.
LEMMA RowsNext ==
    ASSUME NEW b \in Nat, b < BlockCount
    PROVE  /\ RowsBefore(b + 1) = RowsBefore(b) \cup RowsIn(b)
           /\ RowsBefore(b) \subseteq 1 .. NumRows /\ RowsIn(b) \subseteq 1 .. NumRows
           /\ \A x \in RowsBefore(b), y \in RowsIn(b) : x < y
<1>1. RowsBefore(b) = 1 .. RowsDone(b) /\ RowsBefore(b + 1) = 1 .. RowsDone(b + 1)
  <2>1. b + 1 \in Nat
    OBVIOUS
  <2> QED
    BY <2>1, RowsBeforeCount
<1>2. /\ RowsIn(b) = RowsDone(b) + 1 .. RowsDone(b + 1) /\ RowsIn(b) \subseteq 1 .. NumRows
      /\ Cardinality(RowsIn(b)) \in Nat
      /\ RowsDone(b + 1) = RowsDone(b) + Cardinality(RowsIn(b))
  BY RowsInCount
<1>3. RowsDone(b) \in Nat /\ RowsDone(b + 1) \in Nat
  BY EdgeProperties
<1>4. RowsDone(b) <= RowsDone(b + 1)
  BY <1>2, <1>3
<1>5. RowsBefore(b + 1) = RowsBefore(b) \cup RowsIn(b)
  BY <1>1, <1>2, <1>3, <1>4
<1>6. RowsBefore(b) \subseteq 1 .. NumRows
  BY DEF RowsBefore
<1>7. \A x \in RowsBefore(b), y \in RowsIn(b) : x < y
  <2>1. \A x \in 1 .. RowsDone(b), y \in RowsDone(b) + 1 .. RowsDone(b + 1) : x < y
    BY <1>3
  <2> QED
    BY <1>1, <1>2, <2>1
<1> QED
  BY <1>2, <1>5, <1>6, <1>7

\* Matches are row numbers.
LEMMA HitsType ==
    ASSUME NEW t, NEW p, NEW rows, rows \subseteq 1 .. NumRows
    PROVE  Hits(t, p, rows) \in Seq(Int)
<1> DEFINE V == {i \in rows : EvaluateRow(p, t[i])}
<1>1. V \subseteq 1 .. NumRows /\ NumRows \in Nat
  BY BlockCountType
<1> HIDE DEF V
<1>2. Ascending(V) \in Seq(Int)
  BY <1>1, AscendingProperties
<1> QED
  BY <1>2 DEF Hits, V

\* The matches of one more block come behind those before.
LEMMA HitsNext ==
    ASSUME NEW t, NEW p, NEW b \in Nat, b < BlockCount
    PROVE  Hits(t, p, RowsBefore(b + 1)) = Hits(t, p, RowsBefore(b)) \o Hits(t, p, RowsIn(b))
<1> DEFINE V == {i \in RowsBefore(b) : EvaluateRow(p, t[i])}
           W == {i \in RowsIn(b) : EvaluateRow(p, t[i])}
<1>1. V \subseteq 1 .. NumRows /\ W \subseteq 1 .. NumRows /\ NumRows \in Nat
  BY RowsNext, BlockCountType
<1>2. \A x \in V, y \in W : x < y
  BY RowsNext
<1>3. {i \in RowsBefore(b + 1) : EvaluateRow(p, t[i])} = V \cup W
  <2>1. RowsBefore(b + 1) = RowsBefore(b) \cup RowsIn(b)
    BY RowsNext
  <2> QED
    BY <2>1, Zenon
<1>4. Hits(t, p, RowsBefore(b + 1)) = Ascending(V \cup W)
  BY <1>3, Zenon DEF Hits
<1>5. Hits(t, p, RowsBefore(b)) = Ascending(V) /\ Hits(t, p, RowsIn(b)) = Ascending(W)
  BY Zenon DEF Hits
<1> HIDE DEF V, W
<1>6. Ascending(V \cup W) = Ascending(V) \o Ascending(W)
  <2>1. Precedes(V, W, NumRows)
    BY <1>1, <1>2, Zenon DEF Precedes
  <2> QED
    BY <2>1, AscendingConcat
<1> QED
  BY <1>4, <1>5, <1>6

\* Where nothing matches, nothing is to be delivered.
LEMMA NoHits ==
    ASSUME NEW t, NEW p, NEW rows, \A i \in rows : ~EvaluateRow(p, t[i])
    PROVE  Hits(t, p, rows) = <<>>
<1>1. {i \in rows : EvaluateRow(p, t[i])} = {}
  BY Zenon
<1>2. Hits(t, p, rows) = Ascending({})
  BY <1>1, Zenon DEF Hits
<1>3. {} \subseteq 1 .. 0 /\ 0 \in Nat
  OBVIOUS
<1>4. Ascending({}) \in Seq(Int) /\ Len(Ascending({})) = 0
  BY <1>3, AscendingProperties, FS_EmptySet
<1> QED
  BY <1>2, <1>4, EmptySeq

\* Leaving out a block without matches changes nothing.
LEMMA PruneDelivers ==
    ASSUME ScanType, DeliveredInv, phase = "block", block < BlockCount,
           \A i \in RowsIn(block) : ~EvaluateRow(calls, table[i]),
           block' = block + 1, UNCHANGED <<table, calls, phase, matchRows, output, past>>
    PROVE  DeliveredInv'
<1> DEFINE H == HitsOf(table, past)
           a == Hits(table, calls, RowsBefore(block))
<1>1. block \in Nat
  BY BlockCountType DEF ScanType
<1>2. Hits(table, calls, RowsIn(block)) = <<>>
  BY NoHits, Zenon
<1>3. Hits(table, calls, RowsBefore(block + 1)) = a \o <<>>
  BY <1>1, <1>2, HitsNext
<1>4. a \in Seq(Int)
  BY <1>1, HitsType, RowsNext
<1>5. Hits(table, calls, RowsBefore(block + 1)) = a
  <2> HIDE DEF a
  <2> QED
    BY <1>3, <1>4, ConcatEmptySeq
<1>6. output = H \o a /\ H \in Seq(Int) /\ table \in Tables
  BY DEF DeliveredInv
<1>7. /\ table' = table /\ calls' = calls /\ past' = past /\ output' = output
      /\ phase' = "block" /\ block' = block + 1
  OBVIOUS
<1> HIDE DEF H, a
<1>8. output' = HitsOf(table', past') \o Hits(table', calls', RowsBefore(block'))
  BY <1>5, <1>6, <1>7 DEF H
<1> QED
  BY <1>6, <1>7, <1>8 DEF DeliveredInv, H

\* The survivors of a block are its matches, and come behind those before.
LEMMA FilterBlockDelivers ==
    ASSUME ScanType, DeliveredInv, OneTestDecides(calls), FilterBlock PROVE DeliveredInv'
<1> DEFINE H == HitsOf(table, past)
           a == Hits(table, calls, RowsBefore(block))
           h == Hits(table, calls, RowsIn(block))
<1>1. /\ phase = "block" /\ block < BlockCount /\ phase' = "deliver"
      /\ matchRows' = Ascending({i \in RowsIn(block) : Survives(i)})
      /\ UNCHANGED <<table, calls, block, output, past>>
  BY DEF FilterBlock
<1>2. block \in Nat
  BY BlockCountType DEF ScanType
<1>3. output = H \o a /\ H \in Seq(Int) /\ table \in Tables
  BY <1>1 DEF DeliveredInv
<1>4. matchRows' = h
  <2>1. \A i \in RowsIn(block) : i \in 1 .. NumRows
    BY <1>1, <1>2, RowsNext
  <2>2. \A i \in RowsIn(block) : Survives(i) <=> EvaluateRow(calls, table[i])
    BY <1>3, <2>1, SurvivesRight
  <2>3. {i \in RowsIn(block) : Survives(i)} = {i \in RowsIn(block) : EvaluateRow(calls, table[i])}
    BY <2>2, Zenon
  <2> QED
    BY <1>1, <2>3, Zenon DEF Hits
<1>5. a \in Seq(Int) /\ h \in Seq(Int)
  BY <1>1, <1>2, HitsType, RowsNext
<1>6. Hits(table, calls, RowsBefore(block + 1)) = a \o h
  BY <1>1, <1>2, HitsNext
<1> HIDE DEF H, a, h
<1>7. output' \o matchRows' = H \o (a \o h)
  <2>1. (H \o a) \o h = H \o (a \o h)
    BY <1>3, <1>5, ConcatAssociative
  <2>2. output' = H \o a
    BY <1>1, <1>3
  <2> QED
    BY <1>4, <2>1, <2>2, Zenon
<1>8. output' \o matchRows' = HitsOf(table', past') \o Hits(table', calls', RowsBefore(block' + 1))
  BY <1>1, <1>6, <1>7 DEF H
<1>9. phase' # "block"
  BY <1>1
<1> QED
  BY <1>1, <1>3, <1>8, <1>9 DEF DeliveredInv, H

\* A run moves from the survivors to the output without a change.
LEMMA DeliverRunDelivers ==
    ASSUME ScanType, DeliveredInv, DeliverRun PROVE DeliveredInv'
<1> DEFINE run == [k \in 1 .. RunLength |-> matchRows[1] + k - 1]
           rest == SubSeq(matchRows, RunLength + 1, Len(matchRows))
<1>1. /\ phase = "deliver" /\ matchRows # <<>> /\ output' = output \o run /\ matchRows' = rest
      /\ UNCHANGED <<table, calls, block, phase, past>>
  BY DEF DeliverRun
<1>2. matchRows \in Seq(Int) /\ output \in Seq(Int)
  BY DEF ScanType
<1>3. run \o rest = matchRows
  BY <1>1, <1>2, RunIsPrefix
<1>4. run \in Seq(Int) /\ rest \in Seq(Int)
  <2> DEFINE d == RunLength
             m == Len(matchRows)
  <2>1. d \in 1 .. m /\ m \in Nat
    BY <1>1, <1>2, RunLengthRange, LenProperties
  <2>2. \A i \in 1 .. m : matchRows[i] \in Int
    BY <1>2, ElementOfSeq
  <2> HIDE DEF d, m
  <2>3. matchRows[1] \in Int /\ \A i \in d + 1 .. m : matchRows[i] \in Int
    BY <2>1, <2>2
  <2>4. [k \in 1 .. d |-> matchRows[1] + k - 1] \in Seq(Int)
    BY <2>1, <2>3
  <2>5. SubSeq(matchRows, d + 1, m) \in Seq(Int)
    <3>1. d + 1 \in Int /\ m \in Int
      BY <2>1
    <3> QED
      BY <2>3, <3>1, SubSeqProperties
  <2> QED
    BY <2>4, <2>5 DEF d, m
<1> HIDE DEF run, rest
<1>5. output' \o matchRows' = output \o matchRows
  <2>1. (output \o run) \o rest = output \o (run \o rest)
    BY <1>2, <1>4, ConcatAssociative
  <2> QED
    BY <1>1, <1>3, <2>1, Zenon
<1> QED
  BY <1>1, <1>5 DEF DeliveredInv

\* A block is done when all of its survivors are out.
LEMMA EndBlockDelivers ==
    ASSUME ScanType, DeliveredInv, EndBlock PROVE DeliveredInv'
<1>1. /\ phase = "deliver" /\ matchRows = <<>> /\ block' = block + 1 /\ phase' = "block"
      /\ UNCHANGED <<table, calls, matchRows, output, past>>
  BY DEF EndBlock
<1>2. output \in Seq(Int)
  BY DEF ScanType
<1>3. output \o matchRows = output
  BY <1>1, <1>2, ConcatEmptySeq
<1> QED
  BY <1>1, <1>3 DEF DeliveredInv

\* A new Scan starts behind the matches of the one that returned.
LEMMA ScanAgainDelivers ==
    ASSUME ScanType, DeliveredInv, NEW program \in Rescans, ScanAgain(program)
    PROVE  DeliveredInv'
<1> DEFINE n == Len(past)
           q == [k \in DOMAIN past |-> Hits(table, past[k], 1 .. NumRows)]
           r == [k \in DOMAIN past' |-> Hits(table, past'[k], 1 .. NumRows)]
           h == Hits(table, calls, 1 .. NumRows)
<1>1. /\ phase = "block" /\ block = BlockCount /\ past' = Append(past, calls)
      /\ calls' = program /\ block' = 0 /\ UNCHANGED <<table, phase, matchRows, output>>
  BY DEF ScanAgain
<1>2. past \in Seq(Programs \cup Rescans) /\ calls \in Programs \cup Rescans
  BY DEF ScanType
<1>3. /\ past' \in Seq(Programs \cup Rescans) /\ n \in Nat /\ Len(past') = n + 1
      /\ DOMAIN past = 1 .. n /\ DOMAIN past' = 1 .. n + 1
      /\ \A k \in 1 .. n : past'[k] = past[k]
      /\ past'[n + 1] = calls
  <2>1. n \in Nat /\ DOMAIN past = 1 .. n
    BY <1>2, LenProperties
  <2>2. /\ past' \in Seq(Programs \cup Rescans) /\ Len(past') = n + 1
        /\ \A k \in 1 .. n : past'[k] = past[k]
        /\ past'[n + 1] = calls
    BY <1>1, <1>2, AppendProperties
  <2>3. DOMAIN past' = 1 .. n + 1
    BY <2>2, LenProperties
  <2> QED
    BY <2>1, <2>2, <2>3
<1> HIDE DEF n
<1>4. q = [k \in 1 .. n |-> Hits(table, past[k], 1 .. NumRows)]
      /\ r = [k \in 1 .. n + 1 |-> Hits(table, past'[k], 1 .. NumRows)]
  BY <1>3
<1>5. Len(q) = n /\ Len(r) = n + 1 /\ (n = 0 => q = <<>>)
  <2>1. Len(q) = n
    BY <1>3, <1>4
  <2>2. Len(r) = n + 1
    BY <1>3, <1>4
  <2>3. n = 0 => q = <<>>
    BY <1>4
  <2> QED
    BY <2>1, <2>2, <2>3
<1>6. (\A k \in 1 .. n : r[k] = q[k]) /\ r[n + 1] = h
  <2>1. ASSUME NEW k \in 1 .. n PROVE r[k] = q[k]
    <3>1. k \in 1 .. n + 1
      BY <1>3
    <3> QED
      BY <1>3, <1>4, <3>1
  <2>2. n + 1 \in 1 .. n + 1
    BY <1>3
  <2>3. r[n + 1] = Hits(table, past'[n + 1], 1 .. NumRows)
    BY <1>4, <2>2
  <2> QED
    BY <1>3, <2>1, <2>3
<1>7. h \in Seq(Int)
  BY HitsType
<1>8. FlattenSeq(r) = FlattenSeq(q) \o h
  <2> HIDE DEF q, r, h
  <2> QED
    BY <1>3, <1>5, <1>6, <1>7, FlatAppend
<1>9. HitsOf(table, past) = FlattenSeq(q) /\ HitsOf(table', past') = FlattenSeq(r)
  BY <1>1 DEF HitsOf
<1>10. RowsBefore(block) = 1 .. NumRows /\ RowsBefore(0) = {}
  <2>1. /\ BlockCount \in Nat /\ 0 \in Nat /\ RowsDone(BlockCount) = NumRows /\ RowsDone(0) = 0
    BY BlockCountType
  <2>2. RowsBefore(BlockCount) = 1 .. RowsDone(BlockCount) /\ RowsBefore(0) = 1 .. RowsDone(0)
    BY <2>1, RowsBeforeCount
  <2> QED
    BY <1>1, <2>1, <2>2
<1>11. output = FlattenSeq(q) \o h /\ FlattenSeq(q) \in Seq(Int) /\ table \in Tables
  BY <1>1, <1>9, <1>10 DEF DeliveredInv
<1> HIDE DEF q, r, h
<1>12. output' = HitsOf(table', past') /\ HitsOf(table', past') \in Seq(Int)
  BY <1>1, <1>7, <1>8, <1>9, <1>11, ConcatProperties
<1>13. Hits(table', calls', RowsBefore(block')) = <<>>
  <2>1. \A i \in RowsBefore(block') : ~EvaluateRow(calls', table'[i])
    BY <1>1, <1>10
  <2> QED
    BY <2>1, NoHits, Zenon
<1>14. output' = HitsOf(table', past') \o Hits(table', calls', RowsBefore(block'))
  BY <1>12, <1>13, ConcatEmptySeq
<1>15. table' \in Tables
  BY <1>1, <1>11 DEF Tables
<1>16. phase' = "block" /\ phase' # "deliver"
  BY <1>1
<1> QED
  BY <1>12, <1>14, <1>15, <1>16 DEF DeliveredInv

\* A new scanner has delivered nothing.
LEMMA DeliveredInit == ASSUME Init PROVE DeliveredInv
<1> DEFINE q == [k \in DOMAIN past |-> Hits(table, past[k], 1 .. NumRows)]
<1>1. /\ table \in Tables /\ block = 0 /\ phase = "block" /\ output = <<>> /\ past = <<>>
  BY DEF Init
<1>2. HitsOf(table, past) = <<>>
  <2>1. q = <<>>
    BY <1>1
  <2>2. FlattenSeq(<<>>) = <<>>
    BY DEF FlattenSeq
  <2>3. HitsOf(table, past) = FlattenSeq(q)
    BY Zenon DEF HitsOf
  <2> QED
    BY <2>1, <2>2, <2>3, Zenon
<1>3. RowsBefore(0) = {}
  <2>1. 0 \in Nat /\ RowsDone(0) = 0
    BY BlockCountType
  <2> QED
    BY <2>1, RowsBeforeCount
<1>4. Hits(table, calls, RowsBefore(block)) = <<>>
  <2>1. \A i \in RowsBefore(block) : ~EvaluateRow(calls, table[i])
    BY <1>1, <1>3
  <2> QED
    BY <2>1, NoHits, Zenon
<1>5. <<>> \in Seq(Int) /\ <<>> \o <<>> = <<>>
  BY ConcatEmptySeq, EmptySeq
<1> QED
  BY <1>1, <1>2, <1>4, <1>5 DEF DeliveredInv

\* Every step keeps what was delivered right, in plain use.
LEMMA DeliveredStep ==
    ASSUME PlainUse, ScanType, DeliveredInv, [Next]_vars PROVE DeliveredInv'
<1>1. /\ FirstTestDecides(calls) /\ OneTestDecides(calls)
      /\ ZoneColumns # {} => ZoneRows = BlockSize
  BY DEF PlainUse, ScanType
<1>2. table \in Tables /\ block \in Nat
  BY BlockCountType DEF DeliveredInv, ScanType
<1>3. CASE PruneByZoneMap
  <2>1. /\ phase = "block" /\ block < BlockCount /\ ZoneMapPrunes(block) /\ block' = block + 1
        /\ UNCHANGED <<table, calls, phase, matchRows, output, past>>
    BY <1>3 DEF PruneByZoneMap
  <2>2. \A i \in RowsIn(block) : ~EvaluateRow(calls, table[i])
    BY <1>1, <1>2, <2>1, ZoneMapPrunesMisses
  <2> QED
    BY <2>1, <2>2, PruneDelivers
<1>4. CASE PruneByBloom
  <2>1. /\ phase = "block" /\ block < BlockCount /\ BloomPrunes /\ block' = block + 1
        /\ UNCHANGED <<table, calls, phase, matchRows, output, past>>
    BY <1>4 DEF PruneByBloom
  <2>2. \A i \in RowsIn(block) : i \in 1 .. NumRows
    BY <1>2, <2>1, RowsNext
  <2>3. \A i \in 1 .. NumRows : ~EvaluateRow(calls, table[i])
    BY <1>1, <1>2, <2>1, BloomPrunesMisses
  <2> QED
    BY <2>1, <2>2, <2>3, PruneDelivers
<1>5. CASE FilterBlock
  BY <1>1, <1>5, FilterBlockDelivers
<1>6. CASE DeliverRun
  BY <1>6, DeliverRunDelivers
<1>7. CASE EndBlock
  BY <1>7, EndBlockDelivers
<1>8. ASSUME NEW program \in Rescans, ScanAgain(program) PROVE DeliveredInv'
  BY <1>8, ScanAgainDelivers
<1>9. CASE UNCHANGED vars
  BY <1>9 DEF vars, DeliveredInv
<1> QED
  BY <1>3, <1>4, <1>5, <1>6, <1>7, <1>8, <1>9 DEF Next

(***************************************************************************)
(* A scan delivers the rows that satisfy its predicate, each once and in   *)
(* order, for every table, block size, run limit, pair of hash functions   *)
(* and sequence of Scans, as long as the first test of each predicate may  *)
(* decide alone what is pruned: the blocks that a zone map or a Bloom      *)
(* filter leaves out hold no match, the fast path accepts the rows the     *)
(* interpreter would, and cutting survivors into runs loses none.          *)
(***************************************************************************)
THEOREM ScannerDeliversTheMatches ==
    ASSUME PlainUse
    PROVE  Spec => []DeliversTheMatches
<1>1. Init => ScanType /\ StatsInv /\ DeliveredInv
  BY ScanInit, DeliveredInit
<1>2. ScanType /\ StatsInv /\ DeliveredInv /\ [Next]_vars
          => ScanType' /\ StatsInv' /\ DeliveredInv'
  BY ScanStep, DeliveredStep
<1>3. DeliveredInv => DeliversTheMatches
  <2> SUFFICES ASSUME DeliveredInv, phase = "block" PROVE output = Expected
    BY DEF DeliversTheMatches
  <2>1. output = HitsOf(table, past) \o Hits(table, calls, RowsBefore(block))
    BY DEF DeliveredInv
  <2> QED
    BY <2>1, Zenon DEF Expected, Matches, Hits, HitsOf
<1> QED
  BY <1>1, <1>2, <1>3, PTL DEF Spec
-----------------------------------------------------------------------------
(* The results of AggregateScanner *)

\* S[k] is the sum of the first k of n integers.
Sums(q, S, n) ==
    /\ S \in [0 .. n -> Int] /\ S[0] = 0
    /\ \A k \in 1 .. n : S[k] = S[k - 1] + q[k]

\* Every sequence of integers has its sums: the shortest that had none would have
\* those of a shorter one.
LEMMA SumsExist ==
    ASSUME NEW n \in Nat, NEW q, \A k \in 1 .. n : q[k] \in Int
    PROVE  \E S : Sums(q, S, n)
<1> DEFINE Bad == {k \in Nat : k <= n /\ ~ \E S : Sums(q, S, k)}
<1> SUFFICES ASSUME Bad # {} PROVE FALSE
  <2>1. n \notin Bad
    OBVIOUS
  <2> QED
    BY <2>1
<1>1. PICK k \in Bad : \A j \in Bad : k <= j
  <2>1. Bad \subseteq Nat
    OBVIOUS
  <2> HIDE DEF Bad
  <2> QED
    BY <2>1, LeastNat
<1>2. CASE k = 0
  <2> DEFINE S == [j \in 0 .. 0 |-> 0]
  <2>1. Sums(q, S, 0)
    BY DEF Sums
  <2> QED
    BY <1>2, <2>1
<1>3. CASE k # 0
  <2>1. k \in Nat \ {0} /\ k - 1 \in Nat /\ k - 1 <= n /\ ~(k <= k - 1)
    BY <1>3
  <2>2. k - 1 \notin Bad
    <3> HIDE DEF Bad
    <3> QED
      BY <1>1, <2>1
  <2>3. PICK S : Sums(q, S, k - 1)
    BY <2>1, <2>2
  <2> DEFINE T == [j \in 0 .. k |-> IF j = k THEN S[k - 1] + q[k] ELSE S[j]]
  <2>4. \A j \in 0 .. k - 1 : S[j] \in Int
    BY <2>3 DEF Sums
  <2>5. Sums(q, T, k)
    <3>1. T \in [0 .. k -> Int]
      BY <2>1, <2>4
    <3>2. T[0] = 0
      BY <2>1, <2>3 DEF Sums
    <3>3. ASSUME NEW j \in 1 .. k PROVE T[j] = T[j - 1] + q[j]
      BY <2>1, <2>3 DEF Sums
    <3> QED
      BY <3>1, <3>2, <3>3 DEF Sums
  <2> QED
    BY <2>5
<1> QED
  BY <1>2, <1>3

\* What sum[k] is, is settled by sum[k - 1].
LEMMA SumIs ==
    ASSUME NEW q, NEW n \in Nat, Len(q) = n, NEW S, Sums(q, S, n)
    PROVE  SumOf(q) = S[n]
<1> DEFINE R(f) == [k \in 0 .. n |-> IF k = 0 THEN 0 ELSE f[k - 1] + q[k]]
           sum == CHOOSE f : f = R(f)
<1>1. SumOf(q) = sum[n]
  BY DEF SumOf
<1>2. S = R(S)
  BY DEF Sums
<1>3. sum = R(sum)
  BY <1>2
<1> HIDE DEF sum
<1> DEFINE Bad == {k \in Nat : k <= n /\ sum[k] # S[k]}
<1>4. Bad = {}
  <2> SUFFICES ASSUME Bad # {} PROVE FALSE
    OBVIOUS
  <2>1. PICK k \in Bad : \A j \in Bad : k <= j
    <3>1. Bad \subseteq Nat
      OBVIOUS
    <3> HIDE DEF Bad
    <3> QED
      BY <3>1, LeastNat
  <2>2. k # 0
    BY <1>3, <2>1 DEF Sums
  <2>3. k \in 1 .. n /\ k - 1 \in Nat /\ k - 1 \in 0 .. n /\ ~(k <= k - 1)
    BY <2>2
  <2>4. sum[k - 1] = S[k - 1]
    <3>1. k - 1 \notin Bad
      <4> HIDE DEF Bad
      <4> QED
        BY <2>1, <2>3
    <3> QED
      BY <2>3, <3>1
  <2>5. sum[k] = sum[k - 1] + q[k]
    BY <1>3, <2>3
  <2> QED
    BY <2>3, <2>4, <2>5 DEF Sums
<1> QED
  BY <1>1, <1>4

\* The least and the greatest of n values and a first one.
Least(q, n, first)    == Min({q[j] : j \in 1 .. n} \cup {first})
Greatest(q, n, first) == Max({q[j] : j \in 1 .. n} \cup {first})

\* They are among the values, and bound them.
LEMMA LeastIs ==
    ASSUME NEW n \in Nat, NEW q, \A k \in 1 .. n : q[k] \in Int, NEW first \in Int
    PROVE  LET V == {q[j] : j \in 1 .. n} \cup {first} IN
           /\ Least(q, n, first) \in V /\ \A v \in V : Least(q, n, first) <= v
           /\ Greatest(q, n, first) \in V /\ \A v \in V : Greatest(q, n, first) >= v
<1> DEFINE V == {q[j] : j \in 1 .. n} \cup {first}
           m == n + 1
           f == [j \in 1 .. m |-> IF j = m THEN first ELSE q[j]]
           values == {f[j] : j \in 1 .. m}
<1>1. \A j \in 1 .. m : f[j] \in Int
  OBVIOUS
<1>2. V = values
  <2>1. \A j \in 1 .. n : f[j] = q[j] /\ j \in 1 .. m
    OBVIOUS
  <2>2. f[m] = first /\ m \in 1 .. m
    OBVIOUS
  <2>3. \A j \in 1 .. m : j = m \/ j \in 1 .. n
    OBVIOUS
  <2> HIDE DEF f, m
  <2> QED
    BY <2>1, <2>2, <2>3
<1>3. m \in Nat /\ 1 .. m \subseteq 1 .. m /\ 1 .. m # {}
  OBVIOUS
<1> HIDE DEF f, m
<1>4. /\ Min(values) \in values /\ Max(values) \in values
      /\ \A j \in 1 .. m : Min(values) <= f[j] /\ f[j] <= Max(values)
  BY <1>1, <1>3, MinMaxOfRows
<1>5. \A v \in values : v \in Int /\ Min(values) <= v /\ v <= Max(values)
  BY <1>1, <1>4
<1>6. \A v \in values : Max(values) >= v
  <2> HIDE DEF values
  <2> QED
    BY <1>4, <1>5
<1> HIDE DEF values, V
<1> QED
  BY <1>2, <1>4, <1>5, <1>6, Zenon DEF V, Least, Greatest

\* One value more.
LEMMA LeastNext ==
    ASSUME NEW n \in Nat \ {0}, NEW q, \A k \in 1 .. n : q[k] \in Int, NEW first \in Int
    PROVE  /\ Least(q, n, first) = Min({Least(q, n - 1, first), q[n]})
           /\ Greatest(q, n, first) = Max({Greatest(q, n - 1, first), q[n]})
<1> DEFINE V == {q[j] : j \in 1 .. n - 1} \cup {first}
           W == {q[j] : j \in 1 .. n} \cup {first}
           l == Least(q, n - 1, first)
           g == Greatest(q, n - 1, first)
<1>1. n - 1 \in Nat /\ \A k \in 1 .. n - 1 : q[k] \in Int
  OBVIOUS
<1>2. /\ l \in V /\ \A v \in V : l <= v
      /\ g \in V /\ \A v \in V : g >= v
  BY <1>1, LeastIs
<1>3. /\ Least(q, n, first) \in W /\ \A v \in W : Least(q, n, first) <= v
      /\ Greatest(q, n, first) \in W /\ \A v \in W : Greatest(q, n, first) >= v
  BY LeastIs
<1>4. W = V \cup {q[n]}
  OBVIOUS
<1>5. W \subseteq Int /\ q[n] \in Int
  OBVIOUS
<1> DEFINE a == Least(q, n, first)
           b == Greatest(q, n, first)
<1> HIDE DEF V, W, l, g, a, b
<1>6. a \in V \cup {q[n]} /\ l \in V /\ V \subseteq Int /\ (\A v \in V : l <= v) /\ (\A v \in V : a <= v) /\ a <= q[n]
  BY <1>2, <1>3, <1>4, <1>5 DEF a
<1>7. a = Min({l, q[n]})
  <2>1. a \in {l, q[n]} /\ a <= l /\ a <= q[n] /\ l \in Int /\ a \in Int
    BY <1>5, <1>6
  <2>2. \A x \in {l, q[n]} : (\A y \in {l, q[n]} : x <= y) => x = a
    BY <1>5, <2>1
  <2>3. \A y \in {l, q[n]} : a <= y
    BY <2>1
  <2> QED
    BY <2>1, <2>2, <2>3, Zenon DEF Min
<1>8. b \in V \cup {q[n]} /\ g \in V /\ (\A v \in V : g >= v) /\ (\A v \in V : b >= v) /\ b >= q[n]
  BY <1>2, <1>3, <1>4, <1>5 DEF b
<1>9. b = Max({g, q[n]})
  <2>1. b \in {g, q[n]} /\ b >= g /\ b >= q[n] /\ g \in Int /\ b \in Int
    BY <1>5, <1>6, <1>8
  <2>2. \A x \in {g, q[n]} : (\A y \in {g, q[n]} : x >= y) => x = b
    BY <1>5, <2>1
  <2>3. \A y \in {g, q[n]} : b >= y
    BY <2>1
  <2> QED
    BY <2>1, <2>2, <2>3, Zenon DEF Max
<1> QED
  BY <1>7, <1>9 DEF a, b, l, g

\* The result of a column over the first m of the values q, with sums S.
ResultOf(q, S, m) ==
    [sum |-> S[m], count |-> m, min |-> Least(q, m, INT64_MAX), max |-> Greatest(q, m, INT64_MIN)]

\* The initial bounds are integers.
LEMMA Int64Type == INT64_MAX \in Int /\ INT64_MIN \in Int
  BY BloomAssumption DEF INT64_MAX, INT64_MIN

\* Adding a row extends the result by it.
LEMMA AddRowExtends ==
    ASSUME NEW n \in Nat, NEW q, \A k \in 1 .. n : q[k] \in Int, NEW S, Sums(q, S, n),
           NEW m \in 1 .. n
    PROVE  AddRow(ResultOf(q, S, m - 1), q[m]) = ResultOf(q, S, m)
<1>1. m \in Nat \ {0} /\ \A k \in 1 .. m : q[k] \in Int
  OBVIOUS
<1>2. /\ Least(q, m, INT64_MAX) = Min({Least(q, m - 1, INT64_MAX), q[m]})
      /\ Greatest(q, m, INT64_MIN) = Max({Greatest(q, m - 1, INT64_MIN), q[m]})
  BY <1>1, Int64Type, LeastNext
<1>3. S[m] = S[m - 1] + q[m] /\ (m - 1) + 1 = m
  BY DEF Sums
<1> QED
  BY <1>2, <1>3, Zenon DEF AddRow, ResultOf

\* The loop of the callback extends the result by the rows of the run.
LEMMA AddRowsExtends ==
    ASSUME NEW n \in Nat, NEW q, \A k \in 1 .. n : q[k] \in Int, NEW S, Sums(q, S, n),
           NEW m \in 0 .. n, NEW p, Len(p) = n - m, \A k \in 1 .. n - m : p[k] = q[m + k]
    PROVE  AddRows(ResultOf(q, S, m), p) = ResultOf(q, S, n)
<1> DEFINE d == n - m
           first == ResultOf(q, S, m)
           R(f) == [k \in 0 .. d |-> IF k = 0 THEN first ELSE AddRow(f[k - 1], p[k])]
           after == CHOOSE f : f = R(f)
           A == [k \in 0 .. d |-> ResultOf(q, S, m + k)]
<1>1. AddRows(first, p) = after[d]
  <2> HIDE DEF first
  <2> QED
    BY DEF AddRows
<1>2. d \in Nat
  OBVIOUS
<1>3. ASSUME NEW k \in 0 .. d
      PROVE  A[k] = IF k = 0 THEN first ELSE AddRow(A[k - 1], p[k])
  <2>1. A[k] = ResultOf(q, S, m + k)
    OBVIOUS
  <2>2. CASE k = 0
    <3>1. m + k = m
      BY <2>2
    <3> QED
      BY <2>1, <2>2, <3>1
  <2>3. CASE k # 0
    <3>1. k - 1 \in 0 .. d /\ m + k \in 1 .. n /\ (m + k) - 1 = m + (k - 1) /\ k \in 1 .. d
      BY <2>3
    <3>2. A[k - 1] = ResultOf(q, S, m + (k - 1))
      BY <3>1
    <3>3. p[k] = q[m + k]
      BY <3>1
    <3>4. AddRow(ResultOf(q, S, (m + k) - 1), q[m + k]) = ResultOf(q, S, m + k)
      BY <3>1, AddRowExtends
    <3> HIDE DEF A, first, d
    <3> QED
      BY <2>1, <2>3, <3>1, <3>2, <3>3, <3>4
  <2> QED
    BY <2>2, <2>3
<1>4. A = R(A)
  <2>1. A = [k \in 0 .. d |-> A[k]]
    OBVIOUS
  <2> HIDE DEF A, first, d
  <2> QED
    BY <1>3, <2>1
<1>5. after = R(after)
  <2> HIDE DEF A, R
  <2> QED
    BY <1>4
<1>6. A[d] = ResultOf(q, S, n)
  <2>1. m + d = n
    OBVIOUS
  <2> QED
    BY <1>2, <2>1
<1> HIDE DEF after, A, first, d
<1> DEFINE Bad == {k \in Nat : k <= d /\ after[k] # A[k]}
<1>7. Bad = {}
  <2> SUFFICES ASSUME Bad # {} PROVE FALSE
    OBVIOUS
  <2>1. PICK k \in Bad : \A j \in Bad : k <= j
    <3>1. Bad \subseteq Nat
      OBVIOUS
    <3> HIDE DEF Bad
    <3> QED
      BY <3>1, LeastNat
  <2>2. k # 0
    BY <1>2, <1>4, <1>5, <2>1
  <2>3. k \in 1 .. d /\ k - 1 \in Nat /\ k - 1 \in 0 .. d /\ ~(k <= k - 1)
    BY <1>2, <2>2
  <2>4. after[k - 1] = A[k - 1]
    <3>1. k - 1 \notin Bad
      <4> HIDE DEF Bad
      <4> QED
        BY <2>1, <2>3
    <3> QED
      BY <2>3, <3>1
  <2>5. after[k] = AddRow(after[k - 1], p[k]) /\ A[k] = AddRow(A[k - 1], p[k])
    BY <1>4, <1>5, <2>2, <2>3
  <2>6. after[k] = A[k]
    BY <2>4, <2>5
  <2> QED
    BY <2>6
<1>8. after[d] = A[d]
  BY <1>2, <1>7
<1> QED
  BY <1>1, <1>6, <1>8 DEF first

\* The values of a column in the given rows, and what Results() should say of them.
ValuesOf(t, rows, col) == [j \in 1 .. Len(rows) |-> t[rows[j]][col]]
Aggregate(q) == [sum   |-> SumOf(q), count |-> Len(q),
                 min   |-> Min(ToSet(q) \cup {INT64_MAX}),
                 max   |-> Max(ToSet(q) \cup {INT64_MIN})]

\* Of r, q is what comes first and p the rest.
Continues(q, p, r) ==
    /\ q \in Seq(Int) /\ r \in Seq(Int) /\ Len(q) <= Len(r)
    /\ \A k \in 1 .. Len(q) : r[k] = q[k]
    /\ Len(p) = Len(r) - Len(q) /\ \A k \in 1 .. Len(r) - Len(q) : p[k] = r[Len(q) + k]

\* The aggregate of the first n values of a longer sequence.
LEMMA AggregateIs ==
    ASSUME NEW q \in Seq(Int), NEW n \in Nat, NEW r, Len(q) <= n,
           \A k \in 1 .. Len(q) : r[k] = q[k], NEW S, Sums(r, S, n)
    PROVE  Aggregate(q) = ResultOf(r, S, Len(q))
<1> DEFINE m == Len(q)
           T == [k \in 0 .. m |-> S[k]]
<1>1. m \in Nat /\ m \in 0 .. n /\ DOMAIN q = 1 .. m
  BY LenProperties
<1>2. Sums(q, T, m)
  <2> HIDE DEF m
  <2>1. \A k \in 0 .. n : S[k] \in Int
    BY DEF Sums
  <2>2. T \in [0 .. m -> Int]
    BY <1>1, <2>1
  <2>3. T[0] = 0
    BY <1>1 DEF Sums
  <2>4. ASSUME NEW k \in 1 .. m PROVE T[k] = T[k - 1] + q[k]
    <3>1. k \in 1 .. n /\ T[k] = S[k] /\ T[k - 1] = S[k - 1] /\ r[k] = q[k]
      BY <1>1 DEF m
    <3> QED
      BY <3>1 DEF Sums
  <2> QED
    BY <2>2, <2>3, <2>4 DEF Sums
<1>3. SumOf(q) = S[m]
  <2>1. T[m] = S[m]
    BY <1>1
  <2>2. Len(q) = m
    OBVIOUS
  <2> HIDE DEF T, m
  <2> QED
    BY <1>1, <1>2, <2>1, <2>2, SumIs
<1>4. ToSet(q) = {r[j] : j \in 1 .. m}
  <2>1. ToSet(q) = {q[j] : j \in 1 .. m}
    BY <1>1 DEF ToSet
  <2>2. {q[j] : j \in 1 .. m} = {r[j] : j \in 1 .. m}
    OBVIOUS
  <2> QED
    BY <2>1, <2>2
<1> QED
  BY <1>3, <1>4, Zenon DEF Aggregate, ResultOf, Least, Greatest

\* The callback, given the values that follow, brings the aggregate up to date.
LEMMA AggregateExtends ==
    ASSUME NEW q, NEW p, NEW r, Continues(q, p, r)
    PROVE  AddRows(Aggregate(q), p) = Aggregate(r)
<1> DEFINE m == Len(q)
           n == Len(r)
<1>1. q \in Seq(Int) /\ r \in Seq(Int) /\ m \in 0 .. n /\ n \in Nat
  BY LenProperties DEF Continues
<1>2. \A k \in 1 .. n : r[k] \in Int
  BY <1>1, ElementOfSeq
<1>3. \A k \in 1 .. Len(q) : r[k] = q[k]
  BY DEF Continues
<1>4. Len(p) = n - m /\ \A k \in 1 .. n - m : p[k] = r[m + k]
  BY DEF Continues
<1>5. PICK S : Sums(r, S, n)
  BY <1>1, <1>2, SumsExist
<1>6. Aggregate(q) = ResultOf(r, S, m)
  <2>1. Len(q) <= n
    BY <1>1
  <2> HIDE DEF n
  <2> QED
    BY <1>1, <1>3, <1>5, <2>1, AggregateIs DEF m
<1>7. Aggregate(r) = ResultOf(r, S, n)
  <2>1. Len(r) <= n /\ \A k \in 1 .. Len(r) : r[k] = r[k]
    BY <1>1
  <2> QED
    BY <1>1, <1>5, <2>1, AggregateIs
<1> HIDE DEF m, n
<1>8. AddRows(ResultOf(r, S, m), p) = ResultOf(r, S, n)
  BY <1>1, <1>2, <1>4, <1>5, AddRowsExtends
<1> QED
  BY <1>6, <1>7, <1>8

\* Rows of the segment.
RowNumbers(q) == \A j \in 1 .. Len(q) : q[j] \in 1 .. NumRows

RowInv == table \in Tables /\ RowNumbers(output) /\ RowNumbers(matchRows)

\* The caller received what it had and the rows of one more run, all of the segment.
OutputGrows ==
    /\ output' \in Seq(Int) /\ Len(output) <= Len(output') /\ table' = table
    /\ \A j \in 1 .. Len(output) : output'[j] = output[j]

\* A step hands out rows of the segment, behind those handed out before.
LEMMA RowStep ==
    ASSUME ScanType, RowInv, [Next]_vars PROVE RowInv' /\ OutputGrows
<1>1. /\ table \in Tables /\ RowNumbers(output) /\ RowNumbers(matchRows)
      /\ output \in Seq(Int) /\ matchRows \in Seq(Int) /\ Len(output) \in Nat
  BY LenProperties DEF RowInv, ScanType
<1>2. ASSUME UNCHANGED <<table, output, matchRows>> PROVE RowInv' /\ OutputGrows
  BY <1>1, <1>2 DEF RowInv, RowNumbers, OutputGrows
<1>3. CASE FilterBlock
  <2> DEFINE V == {i \in RowsIn(block) : Survives(i)}
  <2>1. /\ matchRows' = Ascending(V) /\ UNCHANGED <<table, output>> /\ block < BlockCount
    BY <1>3 DEF FilterBlock
  <2>2. NumRows \in Nat /\ block \in Nat
    BY BlockCountType DEF ScanType
  <2>3. V \subseteq 1 .. NumRows
    BY <2>1, <2>2, RowsNext
  <2> HIDE DEF V
  <2>4. \A k \in 1 .. Cardinality(V) : Ascending(V)[k] \in V
    <3>1. ASSUME NEW k \in 1 .. Cardinality(V) PROVE Ascending(V)[k] \in V
      <4>1. PICK x \in V : Cardinality({y \in V : y < x}) = k - 1
        BY <2>2, <2>3, RankExists
      <4>2. Ascending(V)[k] = x
        BY <2>2, <2>3, <4>1, AscendingAt
      <4> QED
        BY <4>2
    <3> QED
      BY <3>1
  <2>5. Len(Ascending(V)) = Cardinality(V)
    BY <2>2, <2>3, AscendingProperties
  <2>6. RowNumbers(matchRows')
    BY <2>1, <2>3, <2>4, <2>5 DEF RowNumbers
  <2>7. RowNumbers(output')
    BY <1>1, <2>1 DEF RowNumbers
  <2> QED
    BY <1>1, <2>1, <2>6, <2>7 DEF RowInv, RowNumbers, OutputGrows
<1>4. CASE DeliverRun
  <2> DEFINE d == RunLength
             m == Len(matchRows)
             run == [k \in 1 .. d |-> matchRows[1] + k - 1]
             rest == SubSeq(matchRows, d + 1, m)
  <2>1. /\ matchRows # <<>> /\ output' = output \o run /\ matchRows' = rest /\ UNCHANGED table
    BY <1>4 DEF DeliverRun
  <2>2. run \o rest = matchRows
    BY <1>1, <2>1, RunIsPrefix
  <2>3. d \in 1 .. m /\ m \in Nat
    BY <1>1, <2>1, RunLengthRange, LenProperties
  <2>4. run \in Seq(Int) /\ Len(run) = d
    <3>1. matchRows[1] \in Int
      BY <1>1, <2>3, ElementOfSeq
    <3> HIDE DEF d, m
    <3> QED
      BY <2>3, <3>1
  <2>5. rest \in Seq(Int) /\ Len(rest) = m - d /\ \A k \in 1 .. m - d : rest[k] = matchRows[d + k]
    <3>1. d + 1 \in 1 .. m + 1
      BY <2>3
    <3> HIDE DEF d, run
    <3>2. /\ rest \in Seq(Int) /\ Len(rest) = m - d
          /\ \A k \in 1 .. m - d : rest[k] = matchRows[d + 1 + k - 1]
      BY <1>1, <2>3, <3>1, SubSeqProperties
    <3> QED
      BY <2>3, <3>2
  <2> HIDE DEF d, m, run, rest
  <2>6. \A k \in 1 .. d : run[k] = matchRows[k]
    <3>1. \A k \in 1 .. Len(run) : (run \o rest)[k] = run[k]
      BY <2>4, <2>5, ConcatProperties
    <3> QED
      BY <2>2, <2>4, <3>1
  <2>7. /\ output' \in Seq(Int) /\ Len(output') = Len(output) + d
        /\ \A k \in 1 .. Len(output) : output'[k] = output[k]
        /\ \A k \in 1 .. d : output'[Len(output) + k] = run[k]
    <3>1. /\ output \o run \in Seq(Int) /\ Len(output \o run) = Len(output) + Len(run)
          /\ \A i \in 1 .. Len(output) + Len(run) : (output \o run)[i] =
                IF i <= Len(output) THEN output[i] ELSE run[i - Len(output)]
      BY <1>1, <2>4, ConcatProperties
    <3>2. \A k \in 1 .. Len(output) : (output \o run)[k] = output[k]
      BY <1>1, <2>3, <2>4, <3>1
    <3>3. \A k \in 1 .. d : (output \o run)[Len(output) + k] = run[k]
      BY <1>1, <2>3, <2>4, <3>1
    <3> QED
      BY <2>1, <2>4, <3>1, <3>2, <3>3
  <2>8. RowNumbers(output')
    <3>1. \A k \in 1 .. m : matchRows[k] \in 1 .. NumRows
      BY <1>1 DEF RowNumbers, m
    <3>2. \A k \in 1 .. Len(output) : output'[k] \in 1 .. NumRows
      BY <1>1, <2>7 DEF RowNumbers
    <3>3. ASSUME NEW k \in 1 .. d PROVE output'[Len(output) + k] \in 1 .. NumRows
      <4>1. output'[Len(output) + k] = matchRows[k]
        BY <2>6, <2>7
      <4>2. k \in 1 .. m
        BY <2>3
      <4> QED
        BY <3>1, <4>1, <4>2
    <3>4. ASSUME NEW j \in 1 .. Len(output') PROVE output'[j] \in 1 .. NumRows
      <4>1. j <= Len(output) \/ (j - Len(output) \in 1 .. d /\ j = Len(output) + (j - Len(output)))
        BY <1>1, <2>3, <2>7
      <4> QED
        BY <1>1, <3>2, <3>3, <4>1
    <3> QED
      BY <3>4 DEF RowNumbers
  <2>9. RowNumbers(matchRows')
    <3>1. \A k \in 1 .. m : matchRows[k] \in 1 .. NumRows
      BY <1>1 DEF RowNumbers, m
    <3>2. ASSUME NEW k \in 1 .. m - d PROVE rest[k] \in 1 .. NumRows
      <4>1. d + k \in 1 .. m
        BY <2>3
      <4>2. rest[k] = matchRows[d + k]
        BY <2>5
      <4> QED
        BY <3>1, <4>1, <4>2
    <3> QED
      BY <2>1, <2>5, <3>2 DEF RowNumbers
  <2>10. Len(output) <= Len(output')
    BY <1>1, <2>3, <2>7
  <2> QED
    BY <1>1, <2>1, <2>7, <2>8, <2>9, <2>10 DEF RowInv, RowNumbers, OutputGrows
<1>5. CASE PruneByZoneMap
  BY <1>2, <1>5 DEF PruneByZoneMap
<1>6. CASE PruneByBloom
  BY <1>2, <1>6 DEF PruneByBloom
<1>7. CASE EndBlock
  BY <1>2, <1>7 DEF EndBlock
<1>8. ASSUME NEW program \in Rescans, ScanAgain(program) PROVE RowInv' /\ OutputGrows
  BY <1>2, <1>8 DEF ScanAgain
<1>9. CASE UNCHANGED vars
  BY <1>2, <1>9 DEF vars
<1> QED
  BY <1>3, <1>4, <1>5, <1>6, <1>7, <1>8, <1>9 DEF Next

\* Results() are, at any time, the aggregates of the rows handed to the caller.
AggInv == results = [k \in DOMAIN AggColumns |-> Aggregate(ValuesOf(table, output, AggColumns[k]))]

\* The values of rows of the segment are integers.
LEMMA ValuesOfType ==
    ASSUME table \in Tables, NEW col \in Columns, NEW rows \in Seq(Int), RowNumbers(rows)
    PROVE  /\ ValuesOf(table, rows, col) \in Seq(Int) /\ Len(ValuesOf(table, rows, col)) = Len(rows)
           /\ \A j \in 1 .. Len(rows) : ValuesOf(table, rows, col)[j] = table[rows[j]][col]
<1>1. \A j \in 1 .. Len(rows) : table[rows[j]][col] \in Int
  BY RowTypes DEF RowNumbers
<1>2. Len(rows) \in Nat
  BY LenProperties
<1> QED
  BY <1>1, <1>2 DEF ValuesOf

\* Nothing has been aggregated before the first row.
LEMMA AggregateInit ==
    ASSUME AggInit PROVE RowInv /\ AggInv
<1>1. /\ output = <<>> /\ matchRows = <<>> /\ table \in Tables
      /\ results = [k \in DOMAIN AggColumns |->
                       [sum |-> 0, count |-> 0, min |-> INT64_MAX, max |-> INT64_MIN]]
  BY DEF AggInit, Init
<1>2. RowInv
  BY <1>1 DEF RowInv, RowNumbers
<1>3. \A col : ValuesOf(table, output, col) = <<>>
  BY <1>1 DEF ValuesOf
<1>4. Aggregate(<<>>) = [sum |-> 0, count |-> 0, min |-> INT64_MAX, max |-> INT64_MIN]
  <2> DEFINE S == [k \in 0 .. 0 |-> 0]
             e == <<>>
  <2>1. Sums(e, S, 0)
    BY DEF Sums
  <2>2. SumOf(e) = 0
    <3>1. Len(e) = 0 /\ S[0] = 0
      BY EmptySeq
    <3> HIDE DEF S, e
    <3> QED
      BY <2>1, <3>1, SumIs
  <2>3. ToSet(e) \cup {INT64_MAX} = {INT64_MAX} /\ ToSet(e) \cup {INT64_MIN} = {INT64_MIN}
    BY DEF ToSet
  <2>4. Min({INT64_MAX}) = INT64_MAX /\ Max({INT64_MIN}) = INT64_MIN
    BY Int64Type DEF Min, Max
  <2>5. Len(e) = 0
    BY EmptySeq
  <2> HIDE DEF e
  <2>6. Aggregate(e) = [sum |-> 0, count |-> 0, min |-> INT64_MAX, max |-> INT64_MIN]
    BY <2>2, <2>3, <2>4, <2>5, Zenon DEF Aggregate
  <2> QED
    BY <2>6 DEF e
<1>5. AggInv
  <2> HIDE DEF Aggregate
  <2> QED
    BY <1>1, <1>3, <1>4 DEF AggInv
<1> QED
  BY <1>2, <1>5

\* Every step of the scanner leaves the results in step with its output.
LEMMA AggregateStep ==
    ASSUME \A k \in DOMAIN AggColumns : ColumnType[AggColumns[k]] = "Int64",
           ScanType, RowInv, AggInv, [AggNext]_aggVars
    PROVE  AggInv'
<1>1. CASE UNCHANGED aggVars
  BY <1>1 DEF aggVars, vars, AggInv
<1>2. CASE AggNext
  <2> DEFINE m == Len(output)
             n == Len(output')
             new == SubSeq(output', m + 1, n)
  <2>1. PICK junk \in Misread : Callback(new, junk)
    BY <1>2 DEF AggNext
  <2>2. RowInv' /\ OutputGrows
    BY <1>2, RowStep DEF AggNext
  <2>3. /\ output \in Seq(Int) /\ output' \in Seq(Int) /\ m \in Nat /\ n \in Nat /\ m <= n
        /\ RowNumbers(output) /\ RowNumbers(output') /\ table \in Tables /\ table' = table
        /\ \A j \in 1 .. m : output'[j] = output[j]
    BY <2>2, LenProperties DEF ScanType, RowInv, OutputGrows, RowNumbers
  <2>4. Len(new) = n - m /\ \A j \in 1 .. n - m : new[j] = output'[m + j]
    <3>1. \A i \in m + 1 .. n : output'[i] \in Int
      BY <2>3, ElementOfSeq
    <3>2. m + 1 \in Int /\ n \in Int
      BY <2>3
    <3> HIDE DEF m, n
    <3>3. /\ Len(new) = IF m + 1 <= n THEN n - (m + 1) + 1 ELSE 0
          /\ \A i \in 1 .. n - (m + 1) + 1 : new[i] = output'[(m + 1) + i - 1]
      BY <3>1, <3>2, SubSeqProperties
    <3> QED
      BY <2>3, <3>3
  <2>5. ASSUME NEW k \in DOMAIN AggColumns
        PROVE  AddRows(results[k], [j \in 1 .. Len(new) |-> DataAt(new[j], AggColumns[k], junk)])
                   = Aggregate(ValuesOf(table', output', AggColumns[k]))
    <3> DEFINE col == AggColumns[k]
               p == [j \in 1 .. Len(new) |-> DataAt(new[j], col, junk)]
               q == ValuesOf(table, output, col)
               r == ValuesOf(table, output', col)
    <3>1. col \in Columns /\ ColumnType[col] = "Int64"
      BY AggregateAssumption
    <3>2. results[k] = Aggregate(q)
      BY DEF AggInv
    <3> HIDE DEF col, m, n, new
    <3>3. /\ q \in Seq(Int) /\ Len(q) = m /\ \A j \in 1 .. m : q[j] = table[output[j]][col]
      BY <2>3, <3>1, ValuesOfType DEF m
    <3>4. /\ r \in Seq(Int) /\ Len(r) = n /\ \A j \in 1 .. n : r[j] = table[output'[j]][col]
      BY <2>3, <3>1, ValuesOfType DEF n
    <3>5. Len(p) = n - m /\ \A j \in 1 .. n - m : p[j] = table[new[j]][col]
      <4>1. n - m \in Nat
        BY <2>3
      <4>2. p = [j \in 1 .. n - m |-> table[new[j]][col]]
        BY <2>4, <3>1 DEF DataAt
      <4> HIDE DEF p
      <4> QED
        BY <4>1, <4>2
    <3> HIDE DEF p, q, r
    <3>6. ASSUME NEW j \in 1 .. m PROVE r[j] = q[j]
      <4>1. j \in 1 .. n
        BY <2>3
      <4>2. r[j] = table[output'[j]][col] /\ q[j] = table[output[j]][col] /\ output'[j] = output[j]
        BY <2>3, <3>3, <3>4, <4>1
      <4> QED
        BY <4>2
    <3>7. ASSUME NEW j \in 1 .. n - m PROVE p[j] = r[m + j]
      <4>1. m + j \in 1 .. n
        BY <2>3
      <4> QED
        BY <2>4, <3>4, <3>5, <4>1
    <3>8. Continues(q, p, r)
      BY <2>3, <3>3, <3>4, <3>5, <3>6, <3>7 DEF Continues
    <3>9. AddRows(Aggregate(q), p) = Aggregate(r)
      BY <3>8, AggregateExtends
    <3> QED
      BY <2>3, <3>2, <3>9 DEF p, q, r, col
  <2> QED
    <3> HIDE DEF new
    <3> QED
      BY <2>1, <2>5 DEF Callback, AggInv
<1> QED
  BY <1>1, <1>2

(***************************************************************************)
(* AggregateScanner's Results() are the sum, count, minimum and maximum of *)
(* its columns over the rows that satisfy the predicates, after every      *)
(* block of every Scan: for every table, block size and run limit, and     *)
(* however the rows were cut into runs.  The callback reads 8 bytes per    *)
(* value, so the columns must be Int64.                                    *)
(***************************************************************************)
THEOREM AggregatesAreExact ==
    ASSUME PlainUse, \A k \in DOMAIN AggColumns : ColumnType[AggColumns[k]] = "Int64"
    PROVE  AggSpec => []AggregatesMatch
<1> DEFINE Inv == ScanType /\ StatsInv /\ DeliveredInv /\ RowInv /\ AggInv
<1>1. AggInit => Inv
  BY ScanInit, DeliveredInit, AggregateInit DEF AggInit
<1>2. Inv /\ [AggNext]_aggVars => Inv'
  <2> SUFFICES ASSUME Inv, [AggNext]_aggVars PROVE Inv'
    OBVIOUS
  <2>1. [Next]_vars
    BY DEF AggNext, aggVars
  <2> QED
    BY <2>1, ScanStep, DeliveredStep, RowStep, AggregateStep
<1>3. Inv => AggregatesMatch
  <2> SUFFICES ASSUME Inv, phase = "block", NEW k \in DOMAIN AggColumns
               PROVE  LET values == [j \in DOMAIN Expected |-> table[Expected[j]][AggColumns[k]]]
                      IN  results[k] = Aggregate(values)
    BY Zenon DEF AggregatesMatch, Aggregate
  <2>1. output = Expected
    <3>1. output = HitsOf(table, past) \o Hits(table, calls, RowsBefore(block))
      BY DEF DeliveredInv
    <3> QED
      BY <3>1, Zenon DEF Expected, Matches, Hits, HitsOf
  <2>2. DOMAIN output = 1 .. Len(output)
    BY LenProperties DEF ScanType
  <2>3. results[k] = Aggregate(ValuesOf(table, output, AggColumns[k]))
    BY DEF AggInv
  <2> HIDE DEF Inv
  <2> QED
    BY <2>1, <2>2, <2>3, Zenon DEF ValuesOf
<1> HIDE DEF Inv
<1> QED
  BY <1>1, <1>2, <1>3, PTL DEF AggSpec
=============================================================================
