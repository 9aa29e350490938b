------------------------ MODULE MCSystematicSampling ------------------------
(* Values of the constants of SystematicSampling for TLC. *)
EXTENDS SystematicSampling

MCPopulationWeight == {3, 5}
MCSampleSize == 0 .. 4
=============================================================================
