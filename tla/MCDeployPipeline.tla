--------------------------- MODULE MCDeployPipeline ---------------------------
(* Model-checking instance of DeployPipeline: the bounds stand in the .cfg. *)
EXTENDS DeployPipeline
==============================================================================
