------------------------- MODULE MCMachineBootstrap -------------------------
(* Instances of MachineBootstrap for TLC.  Nodes and machines are          *)
(* interchangeable; the runs that check liveness do without the symmetry.  *)
EXTENDS MachineBootstrap, TLC

Symmetry == Permutations(Nodes) \cup Permutations(Machines)
=============================================================================
