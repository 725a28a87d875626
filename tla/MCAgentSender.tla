---------------------------- MODULE MCAgentSender ----------------------------
(* Model-checking instance of AgentSender: the bounds stand in the .cfg files. *)
EXTENDS AgentSender
==============================================================================
