----------------------------- MODULE MCTelemetry -----------------------------
(* Model-checking instance of Telemetry: the bounds stand in the .cfg files. *)
EXTENDS Telemetry
==============================================================================
