--------------------------- MODULE MCAgentCommand ---------------------------
(* Instances of AgentCommand for TLC; the constants are in the .cfg files. *)
EXTENDS AgentCommand
=============================================================================
