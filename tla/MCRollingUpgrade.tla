-------------------------- MODULE MCRollingUpgrade --------------------------
(* RollingUpgrade on a small instance. *)
EXTENDS RollingUpgrade
=============================================================================
