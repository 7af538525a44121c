--------------------------- MODULE MCOrchestrator ---------------------------
(* The Orchestrator specification on instances small enough for TLC.       *)
EXTENDS Orchestrator
=============================================================================
