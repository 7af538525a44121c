---------------------------- MODULE PhaseMachine ----------------------------
(***************************************************************************)
(* What one orchestrator (one accepted assignment) promises its callers,   *)
(* without locks, tasks or handlers: the protocol walks through the phases *)
(* aux generation, keygen and signing; a phase is started only from the    *)
(* states src/src/mpc/orchestrator.rs allows; a phase only ever produces a *)
(* result when the outputs of the earlier phases it reads were there; and  *)
(* nothing leaves the two terminal states.                                 *)
(***************************************************************************)
VARIABLES
  phase,   \* the ProtocolState of the orchestrator
  aux,     \* the aux info is visible to whoever reads it
  key      \* the key share is visible to whoever reads it

vars == <<phase, aux, key>>

Phases == {"aux", "keygen", "signing"}

\* The states from which a phase may be started, the state it runs in and
\* the state its success leads to.
StartStates == [aux     |-> {"Idle"},
                keygen  |-> {"Idle", "AuxCompleted"},
                signing |-> {"Idle", "KeygenCompleted"}]
InProgress  == [aux     |-> "AuxGeneration",
                keygen  |-> "Keygen",
                signing |-> "Signing"]
Completed   == [aux     |-> "AuxCompleted",
                keygen  |-> "KeygenCompleted",
                signing |-> "SigningCompleted"]

\* The outputs of earlier phases that a phase computes with.
InputsReady(p) == /\ p \in {"keygen", "signing"} => aux
                  /\ p = "signing" => key

Init == phase = "Idle" /\ aux = FALSE /\ key = FALSE

Start(p) == /\ phase \in StartStates[p]
            /\ phase' = InProgress[p]
            /\ UNCHANGED <<aux, key>>

Finish(p) == /\ phase = InProgress[p]
             /\ InputsReady(p)
             /\ phase' = Completed[p]
             /\ aux' = (aux \/ p = "aux")
             /\ UNCHANGED key

Fail(p) == /\ phase = InProgress[p]
           /\ InputsReady(p)
           /\ phase' = "Failed"
           /\ UNCHANGED <<aux, key>>

\* The key share is stored after KeygenCompleted was announced; by then a
\* signing request may already have moved the phase on.
StoreShare == /\ phase \in {"KeygenCompleted", "Signing"}
              /\ aux
              /\ key' = TRUE
              /\ UNCHANGED <<phase, aux>>

Next == \/ \E p \in Phases : Start(p) \/ Finish(p) \/ Fail(p)
        \/ StoreShare

Spec == Init /\ [][Next]_vars
=============================================================================
