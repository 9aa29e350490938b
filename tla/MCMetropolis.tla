---------------------------- MODULE MCMetropolis ----------------------------
(* Values of the constants of Metropolis for TLC. *)
EXTENDS Metropolis

CONSTANTS p1, p2, p3

MCPose == {p1, p2, p3}
MCReachable == {p2, p3}
MCViewSize == 0 .. 6
=============================================================================
