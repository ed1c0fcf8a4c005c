--------------------------- MODULE MCColumnCodec ---------------------------
(***************************************************************************)
(* The columns TLC tries with ColumnCodec.                                 *)
(***************************************************************************)
EXTENDS ColumnCodec

\* Every value of a 3-bit signed type, three values at the ends and the middle
\* of a 6-bit one, and four doubles with every pair of halves out of two.
MCValues == [t \in Types |-> CASE t = "Int32"  -> -4 .. 3
                               [] t = "Int64"  -> {-32, 0, 31}
                               [] t = "Double" -> {0, 1, 3, 4}]

\* CreateEncoder has a codec of doubles for these three encodings only.
MCEncodings == [t \in Types |-> IF t = "Double" THEN {"Plain", "RLE", "Dictionary"}
                                ELSE EncodingTypes]

\* for.cpp makes ForEncoder for both integer types.
MCKinds == [t \in Types |-> CASE t = "Int32"  -> ObjectKinds \ {"RLE"}
                              [] t = "Int64"  -> ObjectKinds
                              [] t = "Double" -> {}]

MCMaxRows    == [t \in Types |-> IF t = "Int64" THEN 3 ELSE 4]
MCMaxColumns == [t \in Types |-> IF t = "Int64" THEN 2 ELSE 1]
ThreeColumns == [t \in Types |-> IF t = "Int64" THEN 3 ELSE 0]
=============================================================================
