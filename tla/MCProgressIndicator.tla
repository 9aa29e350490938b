------------------------ MODULE MCProgressIndicator ------------------------
(* Values of the constants of ProgressIndicator for TLC. *)
EXTENDS ProgressIndicator

CONSTANTS t1, t2

MCThread == {t1, t2}
=============================================================================
