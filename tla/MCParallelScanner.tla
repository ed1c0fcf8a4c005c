------------------------- MODULE MCParallelScanner -------------------------
(* Instances of ParallelScanner for TLC: five segments, one without rows. *)
EXTENDS ParallelScanner

MCRuns == <<<<2, 1>>, <<>>, <<1>>, <<1, 3>>, <<2>>>>
=============================================================================
