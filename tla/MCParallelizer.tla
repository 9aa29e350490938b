--------------------------- MODULE MCParallelizer ---------------------------
(* Values of the constants of Parallelizer for TLC. *)
EXTENDS Parallelizer

MCFaulty == {1}
=============================================================================
