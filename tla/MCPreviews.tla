------------------------------ MODULE MCPreviews ------------------------------
(* Model-checking instance of Previews: the bounds stand in the .cfg files. *)
EXTENDS Previews
==============================================================================
