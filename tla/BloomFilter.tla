---------------------------- MODULE BloomFilter ----------------------------
(***************************************************************************)
(* class BloomFilter (include/columnar/bloom_filter.h): the operators, on  *)
(* filters [numBits, numHashes, bits] where bits is the set of positions   *)
(* of the bits that are 1.                                                 *)
(*                                                                         *)
(* Add<T> and MightContain<T> copy the sizeof(T) bytes of the value into a *)
(* zeroed uint64_t, so a negative int32_t and the same negative int64_t    *)
(* are different keys.  The two Murmur hashes of a key are left open:      *)
(* whatever they are, the bit positions are computed from them the same    *)
(* way in both.  The widths are parameters, 2^32 and 2^64 in the code.     *)
(***************************************************************************)
EXTENDS Integers, FiniteSets

CONSTANTS Modulus32,  \* 2^32
          Modulus64,  \* 2^64
          Hash1,      \* MurmurHash64 with the first seed, by key
          Hash2       \* MurmurHash64 with the second seed, by key

Keys == 0 .. Modulus64 - 1

ASSUME BloomAssumption ==
    /\ Modulus32 \in Nat \ {0} /\ Modulus64 \in Nat \ {0}
    /\ Modulus32 <= Modulus64
    /\ Hash1 \in [Keys -> Nat] /\ Hash2 \in [Keys -> Nat]

\* memcpy(&val, &value, sizeof(T)) into a zeroed word.
Key(type, value) == value % (IF type = "Int32" THEN Modulus32 ELSE Modulus64)

EmptyFilter(numBits, numHashes) ==
    [numBits |-> numBits, numHashes |-> numHashes, bits |-> {}]

\* The positions of a key: (h1 + i * h2) % num_bits, in 64-bit arithmetic.
Positions(filter, key) ==
    {((Hash1[key] + i * Hash2[key]) % Modulus64) % filter.numBits :
        i \in 0 .. filter.numHashes - 1}

Add(filter, type, value) ==
    [filter EXCEPT !.bits = @ \cup Positions(filter, Key(type, value))]

MightContain(filter, type, value) ==
    Positions(filter, Key(type, value)) \subseteq filter.bits

SameShape(f, g) == f.numBits = g.numBits /\ f.numHashes = g.numHashes

\* Merge into f.  Filters of different shapes are left as they are.
Merge(f, g) == IF SameShape(f, g) THEN [f EXCEPT !.bits = @ \cup g.bits] ELSE f
=============================================================================
