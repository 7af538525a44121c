------------------------- MODULE MCOrchestratorLock -------------------------
(* OrchestratorLock on small instances.                                     *)
EXTENDS OrchestratorLock
=============================================================================
