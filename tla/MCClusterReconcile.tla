------------------------- MODULE MCClusterReconcile -------------------------
(* One phase of the first deployment and one of a later upgrade.           *)
EXTENDS ClusterReconcile

MCWorkPhases == <<"EnsureMasterInit", "EnsureWorkerUpgrade">>
=============================================================================
