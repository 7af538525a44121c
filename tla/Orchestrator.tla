---------------------------- MODULE Orchestrator ----------------------------
(***************************************************************************)
(* The MPC orchestrator of one node (src/src/mpc/orchestrator.rs), at the  *)
(* granularity of its .await points.                                       *)
(*                                                                         *)
(* A coordination message is handled by the network event loop (it came    *)
(* from a peer) or by a JSON-RPC call (which broadcasts it and then        *)
(* handles it itself).  Both hold the write guard of the node's            *)
(* RwLock<Option<MPCOrchestrator>> from the first step to the last, so at  *)
(* most one handler is active: the variable handler.  The tasks that the   *)
(* handler spawns share state, aux_info and key_share with it through      *)
(* Arc<RwLock<_>> and go on running, on their own, when the assignment     *)
(* handler replaces the orchestrator.  Orchestrators are numbered by       *)
(* generation in the order in which they are created.                      *)
(*                                                                         *)
(* The inner locks need no variables.  A guard that is held across an      *)
(* .await is held exactly while its holder is at a certain program point:  *)
(*   - state.write() by a handler at "readAux" or "readKey";               *)
(*   - aux_info.write() by an aux task at "stored";                        *)
(*   - aux_info.read() by a handler at "readKey".                          *)
(* Every other guard is taken and dropped within one step.                 *)
(***************************************************************************)
EXTENDS Naturals

CONSTANT MaxGen    \* bound: orchestrators created in one run of the node

ASSUME MaxGenAssumption == MaxGen \in Nat

VARIABLES
  cur,          \* the current generation; 0 is None (not initialised)
  st,           \* st[g]: the ProtocolState of generation g
  auxInfo,      \* auxInfo[g]: aux_info is Some
  keyShare,     \* keyShare[g]: key_share is Some
  auxTask,      \* auxTask[g]: where the spawned aux task of g is
  keygenTask,   \* keygenTask[g]: where the spawned keygen task of g is
  signTask,     \* signTask[g]: where the spawned signing task of g is
  handler,      \* the holder of the outer write guard
  gauge         \* the label of MPC_PROTOCOL_STATE whose value is 1

vars == <<cur, st, auxInfo, keyShare, auxTask, keygenTask, signTask,
          handler, gauge>>
taskVars == <<auxTask, keygenTask, signTask>>
outputs  == <<auxInfo, keyShare>>

Gens   == 1..MaxGen
Kinds  == {"aux", "keygen", "signing"}
States == {"Idle", "AuxGeneration", "AuxCompleted", "Keygen",
           "KeygenCompleted", "Signing", "SigningCompleted", "Failed"}

AuxPcs    == {"none", "run", "ok", "err", "stored", "done"}
KeygenPcs == {"none", "run", "ok", "err", "unsaved", "done"}
SignPcs   == {"none", "run", "ok", "err", "done"}

\* A coordination message.  us: the aux message's party_assignments, or the
\* signing message's signers, contain this node (keygen names nobody).
\* args: a keygen threshold within 1..total_parties; for signing a nonempty
\* list of indices below the number of participants.
Messages == {m \in [kind : Kinds, us : BOOLEAN, args : BOOLEAN] :
               m.kind = "keygen" => m.us}

NoMessage == [kind |-> "aux", us |-> FALSE, args |-> FALSE]
NoHandler == [pc |-> "idle", source |-> "peer", msg |-> NoMessage]
Handlers  == {NoHandler} \cup [pc     : {"lockState", "readAux", "readKey"},
                               source : {"rpc", "peer"},
                               msg    : Messages]

----------------------------------------------------------------------------
(* Locks                                                                   *)

\* Nobody holds the state guard of g across an .await.
StateFree(g) == ~(g = cur /\ handler.pc \in {"readAux", "readKey"})

\* Fault: aux_info is awaited until it is there.
AuxReadableOnceDone(g) == auxTask[g] = "done"
\* aux_info.read() and aux_info.write() of g can be granted.
AuxReadable(g) == auxTask[g] # "stored"
AuxWritable(g) == AuxReadable(g) /\ ~(g = cur /\ handler.pc = "readKey")

\* *state = s; update_state_metrics(&*state)
SetState(g, s) == /\ st' = [st EXCEPT ![g] = s]
                  /\ gauge' = s

----------------------------------------------------------------------------
(* Starting a handler                                                      *)

\* Fault: the RPC also starts aux generation over a finished one.
RpcReadyAgain(kind, s) ==
  \/ kind = "aux"     /\ s \in {"Idle", "AuxCompleted"}
  \/ kind = "keygen"  /\ s \in {"AuxCompleted", "Idle"}
  \/ kind = "signing" /\ s \in {"KeygenCompleted", "Idle"}
\* The state test of the RPC methods, made on a clone of the state.
RpcReady(kind, s) ==
  \/ kind = "aux"     /\ s = "Idle"
  \/ kind = "keygen"  /\ s \in {"AuxCompleted", "Idle"}
  \/ kind = "signing" /\ s \in {"KeygenCompleted", "Idle"}

\* initiate_aux_gen, initiate_keygen, initiate_signing up to the broadcast.
\* An RPC that fails one of the tests answers with an error and changes
\* nothing.  An aux message made here carries the orchestrator's own
\* assignments, which always list this node.
RpcInitiate(m) == /\ handler.pc = "idle"
                  /\ cur # 0
                  /\ m.kind \in {"keygen", "signing"} => m.args
                  /\ m.kind = "aux" => m.us
                  /\ RpcReady(m.kind, st[cur])
                  /\ handler' = [pc |-> "lockState", source |-> "rpc", msg |-> m]
                  /\ UNCHANGED <<cur, st, outputs, taskVars, gauge>>

\* The event loop received m from a peer, whose RPC screened its arguments.
\* Without an orchestrator the message is dropped with a warning.
PeerMessage(m) == /\ handler.pc = "idle"
                  /\ cur # 0
                  /\ m.kind \in {"keygen", "signing"} => m.args
                  /\ handler' = [pc |-> "lockState", source |-> "peer", msg |-> m]
                  /\ UNCHANGED <<cur, st, outputs, taskVars, gauge>>

----------------------------------------------------------------------------
(* Handling a message                                                      *)

\* Faults: aux generation without the state test; keygen while aux generation
\* is in progress.
AcceptsAuxAnyTime(m, s)   == m.us
AcceptsKeygenEarly(m, s)  == s \in {"AuxGeneration", "AuxCompleted", "Idle"} /\ m.args
\* The tests made under the state write guard before the state is changed.
AcceptsAux(m, s)     == s = "Idle" /\ m.us
AcceptsKeygen(m, s)  == s \in {"AuxCompleted", "Idle"} /\ m.args
AcceptsSigning(m, s) == s \in {"KeygenCompleted", "Idle"}

Accepts(m, s) == \/ m.kind = "aux"     /\ AcceptsAux(m, s)
                 \/ m.kind = "keygen"  /\ AcceptsKeygen(m, s)
                 \/ m.kind = "signing" /\ AcceptsSigning(m, s)

\* Fault: the handler's message is left behind.
ReturnWithMessage == handler' = [handler EXCEPT !.pc = "idle"]
At(pc)    == handler.pc = pc /\ StateFree(cur)
Return    == handler' = NoHandler
GoTo(pc)  == handler' = [handler EXCEPT !.pc = pc]

\* A handler returns Err before it changed anything.
Reject == /\ At("lockState")
          /\ ~Accepts(handler.msg, st[cur])
          /\ Return
          /\ UNCHANGED <<cur, st, outputs, taskVars, gauge>>

HandleInitiateAux ==
  /\ At("lockState")
  /\ handler.msg.kind = "aux"
  /\ AcceptsAux(handler.msg, st[cur])
  /\ SetState(cur, "AuxGeneration")
  /\ auxTask' = [auxTask EXCEPT ![cur] = "run"]
  /\ Return
  /\ UNCHANGED <<cur, outputs, keygenTask, signTask>>

\* The state becomes Keygen before aux_info is looked at.
HandleInitiateKeygen ==
  /\ At("lockState")
  /\ handler.msg.kind = "keygen"
  /\ AcceptsKeygen(handler.msg, st[cur])
  /\ SetState(cur, "Keygen")
  /\ GoTo("readAux")
  /\ UNCHANGED <<cur, outputs, taskVars>>

\* A node that is not among the signers only observes: it stays in Signing.
HandleInitiateSigning ==
  /\ At("lockState")
  /\ handler.msg.kind = "signing"
  /\ AcceptsSigning(handler.msg, st[cur])
  /\ SetState(cur, "Signing")
  /\ IF handler.msg.us THEN GoTo("readAux") ELSE Return
  /\ UNCHANGED <<cur, outputs, taskVars>>

\* aux_info.read(): without aux info the handler returns Err and leaves the
\* state as it set it; otherwise keygen is spawned, signing reads on.
ReadAuxInfo ==
  /\ handler.pc = "readAux"
  /\ AuxReadable(cur)
  /\ \/ /\ ~auxInfo[cur]
        /\ Return
        /\ UNCHANGED keygenTask
     \/ /\ auxInfo[cur]
        /\ handler.msg.kind = "keygen"
        /\ keygenTask' = [keygenTask EXCEPT ![cur] = "run"]
        /\ Return
     \/ /\ auxInfo[cur]
        /\ handler.msg.kind = "signing"
        /\ GoTo("readKey")
        /\ UNCHANGED keygenTask
  /\ UNCHANGED <<cur, st, outputs, auxTask, signTask, gauge>>

ReadKeyShare ==
  /\ handler.pc = "readKey"
  /\ IF keyShare[cur]
       THEN signTask' = [signTask EXCEPT ![cur] = "run"]
       ELSE UNCHANGED signTask
  /\ Return
  /\ UNCHANGED <<cur, st, outputs, auxTask, keygenTask, gauge>>

HandlerStep == \/ Reject
               \/ HandleInitiateAux
               \/ HandleInitiateKeygen
               \/ HandleInitiateSigning
               \/ ReadAuxInfo
               \/ ReadKeyShare

----------------------------------------------------------------------------
(* The spawned tasks                                                       *)

\* The MPC protocol run returns, with a result or an error.  It need never
\* return: it waits for messages of the other parties.
AuxRunEnds(g, result) ==
  /\ auxTask[g] = "run"
  /\ auxTask' = [auxTask EXCEPT ![g] = result]
  /\ UNCHANGED <<cur, st, outputs, keygenTask, signTask, handler, gauge>>

KeygenRunEnds(g, result) ==
  /\ keygenTask[g] = "run"
  /\ keygenTask' = [keygenTask EXCEPT ![g] = result]
  /\ UNCHANGED <<cur, st, outputs, auxTask, signTask, handler, gauge>>

SigningRunEnds(g, result) ==
  /\ signTask[g] = "run"
  /\ signTask' = [signTask EXCEPT ![g] = result]
  /\ UNCHANGED <<cur, st, outputs, auxTask, keygenTask, handler, gauge>>

\* Fault: the result is not stored.
AuxStoreNothing(g) ==
  /\ auxTask[g] = "ok"
  /\ AuxWritable(g)
  /\ auxTask' = [auxTask EXCEPT ![g] = "stored"]
  /\ UNCHANGED <<cur, st, outputs, keygenTask, signTask, handler, gauge>>
\* aux_info_store.write(): the guard is kept while the state is awaited.
AuxStore(g) ==
  /\ auxTask[g] = "ok"
  /\ AuxWritable(g)
  /\ auxInfo' = [auxInfo EXCEPT ![g] = TRUE]
  /\ auxTask' = [auxTask EXCEPT ![g] = "stored"]
  /\ UNCHANGED <<cur, st, keyShare, keygenTask, signTask, handler, gauge>>

AuxPublish(g) ==
  /\ auxTask[g] = "stored"
  /\ StateFree(g)
  /\ SetState(g, "AuxCompleted")
  /\ auxTask' = [auxTask EXCEPT ![g] = "done"]
  /\ UNCHANGED <<cur, outputs, keygenTask, signTask, handler>>

\* Fault: the key share is not stored.
KeygenPublishOnly(g) ==
  /\ keygenTask[g] = "ok"
  /\ StateFree(g)
  /\ SetState(g, "KeygenCompleted")
  /\ keygenTask' = [keygenTask EXCEPT ![g] = "done"]
  /\ UNCHANGED <<cur, outputs, auxTask, signTask, handler>>
\* The state guard is dropped before the key share is stored.
KeygenPublish(g) ==
  /\ keygenTask[g] = "ok"
  /\ StateFree(g)
  /\ SetState(g, "KeygenCompleted")
  /\ keygenTask' = [keygenTask EXCEPT ![g] = "unsaved"]
  /\ UNCHANGED <<cur, outputs, auxTask, signTask, handler>>

KeygenStore(g) ==
  /\ keygenTask[g] = "unsaved"
  /\ keyShare' = [keyShare EXCEPT ![g] = TRUE]
  /\ keygenTask' = [keygenTask EXCEPT ![g] = "done"]
  /\ UNCHANGED <<cur, st, auxInfo, auxTask, signTask, handler, gauge>>

SigningPublish(g) ==
  /\ signTask[g] = "ok"
  /\ StateFree(g)
  /\ SetState(g, "SigningCompleted")
  /\ signTask' = [signTask EXCEPT ![g] = "done"]
  /\ UNCHANGED <<cur, outputs, auxTask, keygenTask, handler>>

\* Faults: the error is only logged; the state is reset for another attempt.
AuxFailSilently(g) ==
  /\ auxTask[g] = "err"
  /\ auxTask' = [auxTask EXCEPT ![g] = "done"]
  /\ UNCHANGED <<cur, st, outputs, keygenTask, signTask, handler, gauge>>
KeygenFailResets(g) ==
  /\ keygenTask[g] = "err"
  /\ StateFree(g)
  /\ SetState(g, "Idle")
  /\ keygenTask' = [keygenTask EXCEPT ![g] = "done"]
  /\ UNCHANGED <<cur, outputs, auxTask, signTask, handler>>
\* The Err arm of a task: the state becomes Failed.
AuxFail(g) ==
  /\ auxTask[g] = "err"
  /\ StateFree(g)
  /\ SetState(g, "Failed")
  /\ auxTask' = [auxTask EXCEPT ![g] = "done"]
  /\ UNCHANGED <<cur, outputs, keygenTask, signTask, handler>>

KeygenFail(g) ==
  /\ keygenTask[g] = "err"
  /\ StateFree(g)
  /\ SetState(g, "Failed")
  /\ keygenTask' = [keygenTask EXCEPT ![g] = "done"]
  /\ UNCHANGED <<cur, outputs, auxTask, signTask, handler>>

SigningFail(g) ==
  /\ signTask[g] = "err"
  /\ StateFree(g)
  /\ SetState(g, "Failed")
  /\ signTask' = [signTask EXCEPT ![g] = "done"]
  /\ UNCHANGED <<cur, outputs, auxTask, keygenTask, handler>>

\* The steps of a task after its protocol run returned.
TaskStep(g) == \/ AuxStore(g) \/ AuxPublish(g) \/ AuxFail(g)
               \/ KeygenPublish(g) \/ KeygenStore(g) \/ KeygenFail(g)
               \/ SigningPublish(g) \/ SigningFail(g)

RunEnds(g) == \E result \in {"ok", "err"} :
                \/ AuxRunEnds(g, result)
                \/ KeygenRunEnds(g, result)
                \/ SigningRunEnds(g, result)

----------------------------------------------------------------------------
\* The assignment handler stores a new orchestrator over the old one,
\* whatever the state of the old one; MPCOrchestrator::new starts Idle, with
\* no outputs, and leaves the gauge alone.
ReplaceOrchestrator ==
  /\ handler.pc = "idle"
  /\ cur < MaxGen
  /\ cur' = cur + 1
  /\ UNCHANGED <<st, outputs, taskVars, handler, gauge>>

Init == /\ cur = 0
        /\ st = [g \in Gens |-> "Idle"]
        /\ auxInfo = [g \in Gens |-> FALSE]
        /\ keyShare = [g \in Gens |-> FALSE]
        /\ auxTask = [g \in Gens |-> "none"]
        /\ keygenTask = [g \in Gens |-> "none"]
        /\ signTask = [g \in Gens |-> "none"]
        /\ handler = NoHandler
        /\ gauge = "none"

Next == \/ \E m \in Messages : RpcInitiate(m) \/ PeerMessage(m)
        \/ HandlerStep
        \/ \E g \in Gens : RunEnds(g) \/ TaskStep(g)
        \/ ReplaceOrchestrator

Spec == Init /\ [][Next]_vars

\* A handler and a task that can go on are scheduled by the runtime, and the
\* queue of a tokio RwLock is first in, first out.  Nothing is assumed about
\* messages, RPC calls, replacement, or the end of a protocol run.
Fairness == /\ WF_vars(HandlerStep)
            /\ \A g \in Gens : WF_vars(TaskStep(g))

FairSpec == Spec /\ Fairness

----------------------------------------------------------------------------
(* Properties                                                              *)

\* Every variable has its type; a generation that does not exist yet is as
\* MPCOrchestrator::new will create it; only a node that has an orchestrator
\* is handling a message.
TypeOK ==
  /\ cur \in 0..MaxGen
  /\ st \in [Gens -> States]
  /\ auxInfo \in [Gens -> BOOLEAN]
  /\ keyShare \in [Gens -> BOOLEAN]
  /\ auxTask \in [Gens -> AuxPcs]
  /\ keygenTask \in [Gens -> KeygenPcs]
  /\ signTask \in [Gens -> SignPcs]
  /\ handler \in Handlers
  /\ handler.pc # "idle" => cur # 0
  /\ gauge \in States \cup {"none"}

\* A task that has yet to write the state.
AuxLive(g)     == auxTask[g] \in {"run", "ok", "err", "stored"}
KeygenLive(g)  == keygenTask[g] \in {"run", "ok", "err"}
SigningLive(g) == signTask[g] \in {"run", "ok", "err"}

\* While a task has yet to report, the state is the one its handler set for
\* it: no later message, no other task and no replacement moves the state of
\* that orchestrator away, so the task's final write, which looks at nothing,
\* never overwrites another phase; and two tasks of one orchestrator never
\* run at once.
TaskOwnsState ==
  \A g \in Gens : /\ AuxLive(g)     => st[g] = "AuxGeneration"
                  /\ KeygenLive(g)  => st[g] = "Keygen"
                  /\ SigningLive(g) => st[g] = "Signing"

\* The handler takes the state lock and then aux_info; the aux task takes
\* aux_info and then the state lock.  The two never wait for each other.
NoLockCycle == ~(handler.pc = "readAux" /\ auxTask[cur] = "stored")

\* The RPC methods test a copy of the state, broadcast the message to the
\* other parties, and then handle it themselves, testing the state again:
\* once the message is out, the node that sent it does not refuse it, although
\* tasks go on between the two tests.
BroadcastNotRefused ==
  handler.pc = "lockState" /\ handler.source = "rpc"
    => Accepts(handler.msg, st[cur])

\* A state that announces a result is only seen with the result in place, and
\* a task only runs with what it computes from: aux info is stored before
\* AuxCompleted, keygen runs with aux info, signing with aux info and key
\* share.  (The key share is the exception: see KeyShareSoonThere.)
OutputsInPlace ==
  \A g \in Gens : /\ st[g] = "AuxCompleted" => auxInfo[g]
                  /\ keygenTask[g] # "none" => auxInfo[g]
                  /\ signTask[g] # "none" => auxInfo[g] /\ keyShare[g]
                  /\ st[g] = "SigningCompleted" => keyShare[g]

\* Somebody will move a phase in progress on: its task, or the handler that is
\* about to spawn it and holds the state guard meanwhile.
Attended(g) ==
  /\ st[g] = "AuxGeneration" => AuxLive(g)
  /\ st[g] = "Keygen"        => KeygenLive(g) \/ ~StateFree(g)
  /\ st[g] = "Signing"       => SigningLive(g) \/ ~StateFree(g)

\* A handler sets the state of a phase before it knows that it can spawn its
\* task.  A phase in progress is left without anybody at work on it only by a
\* handler that observes a signing of others, that misses aux info because the
\* phase was accepted in Idle and aux generation never ran, or that misses the
\* key share in the moment between KeygenCompleted and its storing; never by the
\* end of a task or by another handler.  What was left so stays so for good.
WorkerLostOnlyByHandler ==
  [][\A g \in Gens :
       /\ Attended(g) /\ ~Attended(g)' =>
            /\ g = cur
            /\ \/ handler.pc = "lockState" /\ handler.msg.kind = "signing" /\ ~handler.msg.us
               \/ handler.pc = "readAux" /\ auxTask[g] = "none"
               \/ handler.pc = "readKey" /\ keygenTask[g] = "unsaved"
       /\ ~Attended(g) => ~Attended(g)']_vars

\* While only one generation has been active, the gauge shows its state.
GaugeFollowsLoneGeneration ==
  \A g \in Gens :
    st[g] # "Idle" /\ (\A h \in Gens \ {g} : st[h] = "Idle") => gauge = st[g]

\* What every orchestrator does is what PhaseMachine promises.  Aux info is
\* visible to others when the aux task dropped its guard, not before.
PM(g) == INSTANCE PhaseMachine
           WITH phase <- st[g],
                aux   <- auxInfo[g] /\ auxTask[g] # "stored",
                key   <- keyShare[g]

ImplementsPhaseMachine ==
  /\ \A g \in Gens : PM(g)!Init
  /\ [][\A g \in Gens : [PM(g)!Next]_(PM(g)!vars)]_vars

\* handle_coordination_message returns: no handler is left waiting for an
\* inner lock, and with it the event loop or the RPC that holds the outer one.
HandlerReturns == handler.pc # "idle" ~> handler.pc = "idle"

\* The result of an aux run that succeeded is published.
AuxResultPublished ==
  \A g \in Gens : auxTask[g] = "ok" ~> st[g] = "AuxCompleted"

\* After KeygenCompleted the key share is there, if not at once.
KeyShareSoonThere ==
  \A g \in Gens : st[g] = "KeygenCompleted" ~> keyShare[g]

----------------------------------------------------------------------------
(* The inductive invariant behind the safety properties                    *)

\* How the tasks and outputs of an orchestrator go with its state.
GenerationInv(g) ==
  /\ AuxLive(g) <=> st[g] = "AuxGeneration"
  /\ KeygenLive(g) => st[g] = "Keygen"
  /\ SigningLive(g) => st[g] = "Signing"
  /\ st[g] = "Idle" => auxTask[g] = "none"
  /\ st[g] \in {"Idle", "AuxGeneration", "AuxCompleted"} => keygenTask[g] = "none"
  /\ st[g] \notin {"Signing", "SigningCompleted", "Failed"} => signTask[g] = "none"
  /\ st[g] = "Keygen" => keygenTask[g] \notin {"unsaved", "done"}
  /\ st[g] = "KeygenCompleted" => keygenTask[g] \in {"unsaved", "done"}
  /\ keygenTask[g] = "unsaved" => st[g] \in {"KeygenCompleted", "Signing"}
  /\ auxInfo[g] => auxTask[g] \in {"stored", "done"}
  /\ auxTask[g] = "stored" => auxInfo[g]
  /\ auxTask[g] = "done" /\ st[g] # "Failed" => auxInfo[g]
  /\ st[g] = "Signing" /\ auxInfo[g] => keygenTask[g] \in {"unsaved", "done"}
  /\ keyShare[g] => keygenTask[g] = "done"
  /\ keygenTask[g] = "done" /\ st[g] # "Failed" => keyShare[g]

\* A handler that waits for an output holds the state guard, has set the
\* state of its phase, and has not spawned the task of that phase yet; and
\* what an RPC call has broadcast is still acceptable.
HandlerInv ==
  /\ handler.pc = "lockState" /\ handler.source = "rpc"
       => Accepts(handler.msg, st[cur])
  /\ handler.pc \in {"readAux", "readKey"} =>
       /\ handler.msg.kind # "aux"
       /\ handler.msg.kind = "keygen" => /\ handler.pc = "readAux"
                                         /\ st[cur] = "Keygen"
                                         /\ keygenTask[cur] = "none"
       /\ handler.msg.kind = "signing" => /\ st[cur] = "Signing"
                                          /\ signTask[cur] = "none"
  /\ handler.pc = "readKey" => handler.msg.kind = "signing" /\ auxInfo[cur]

IInv == /\ TypeOK
        /\ \A g \in Gens : GenerationInv(g)
        /\ HandlerInv
        /\ OutputsInPlace

----------------------------------------------------------------------------
(* What comments and messages of the source say and the code does not do   *)

\* "Key share info not available. Must complete key generation first.": the
\* handler fails so only if key generation has not completed.
MissingShareMeansNoKeygen ==
  handler.pc = "readKey" /\ ~keyShare[cur]
    => keygenTask[cur] \in {"none", "run", "ok", "err"}
=============================================================================
