------------------------------ MODULE MCMonitor ------------------------------
(* Model-checking instance of Monitor: the bounds stand in the .cfg files. *)
EXTENDS Monitor
==============================================================================
