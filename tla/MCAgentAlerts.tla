---------------------------- MODULE MCAgentAlerts ----------------------------
(* Model-checking instance of AgentAlerts: the bounds stand in the .cfg file. *)
EXTENDS AgentAlerts
==============================================================================
