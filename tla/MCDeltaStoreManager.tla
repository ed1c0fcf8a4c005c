------------------------ MODULE MCDeltaStoreManager ------------------------
(* Instances of DeltaStoreManager for TLC.  The writers are interchangeable. *)
EXTENDS DeltaStoreManager, TLC

WriterSymmetry == Permutations(Writers)
=============================================================================
