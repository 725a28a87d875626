------------------------------ MODULE MCDeploys ------------------------------
(* Model-checking instance of Deploys: the bounds stand in the .cfg files. *)
EXTENDS Deploys
==============================================================================
