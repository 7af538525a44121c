------------------------------- MODULE Phases -------------------------------
(* The phases of an orchestrator and the states they start from, run in and *)
(* end in (ProtocolState in mpc/orchestrator.rs).                           *)

Phases == {"aux", "keygen", "signing"}

StartStates == [aux     |-> {"Idle"},
                keygen  |-> {"AuxCompleted", "Idle"},
                signing |-> {"KeygenCompleted", "Idle"}]
InProgress  == [aux     |-> "AuxGeneration",
                keygen  |-> "Keygen",
                signing |-> "Signing"]
Completed   == [aux     |-> "AuxCompleted",
                keygen  |-> "KeygenCompleted",
                signing |-> "SigningCompleted"]
States == {"Idle", "Failed"} \cup {InProgress[p] : p \in Phases}
                             \cup {Completed[p] : p \in Phases}
=============================================================================
