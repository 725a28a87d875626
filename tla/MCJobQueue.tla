----------------------------- MODULE MCJobQueue -----------------------------
(* Model-checking instance of JobQueue: the bounds stand in the .cfg files. *)
EXTENDS JobQueue
==============================================================================
