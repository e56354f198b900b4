----------------------------- MODULE MCNodesEnv -----------------------------
(* Instances of NodesEnv for TLC.                                          *)
EXTENDS NodesEnv
=============================================================================
