-------------------------- MODULE MCPoseEstimator --------------------------
(* Values of the constants of PoseEstimator for TLC. *)
EXTENDS PoseEstimator
=============================================================================
