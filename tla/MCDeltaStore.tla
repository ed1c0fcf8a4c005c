---------------------------- MODULE MCDeltaStore ----------------------------
(* Instances of DeltaStore for TLC: two threads over two row ids. *)
EXTENDS DeltaStore, TLC

CONSTANTS t1, t2

MCThreads  == {t1, t2}
MCDisjoint == t1 :> {1} @@ t2 :> {2}
MCShared   == t1 :> {1} @@ t2 :> {1}
=============================================================================
