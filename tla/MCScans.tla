------------------------------- MODULE MCScans -------------------------------
(* Model-checking instance of Scans: the bounds stand in the .cfg file. *)
EXTENDS Scans
==============================================================================
