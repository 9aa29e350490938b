------------------------- MODULE MCKernelCollection -------------------------
(* Values of the constants of KernelCollection for TLC. *)
EXTENDS KernelCollection
=============================================================================
