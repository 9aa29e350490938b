-------------------------- MODULE MCRandomStreams --------------------------
(* Values of the constants of RandomStreams for TLC. *)
EXTENDS RandomStreams
=============================================================================
