------------------------- MODULE OrchestratorProofs -------------------------
(* Proofs about Orchestrator, for any number of generations.               *)
EXTENDS Orchestrator, TLAPS

\* A node starts well typed (network.rs, Network::new).
LEMMA TypeInit == Init => TypeOK
BY MaxGenAssumption DEF Init, TypeOK, Gens, States, AuxPcs, KeygenPcs, SignPcs,
     NoHandler, Handlers

\* A handler that moves to another program point is a handler.
LEMMA GoToTyped ==
  ASSUME handler \in Handlers, handler.pc # "idle",
         NEW pc \in {"lockState", "readAux", "readKey"}, GoTo(pc)
  PROVE  /\ handler' \in Handlers
         /\ handler'.pc = pc
         /\ handler'.source = handler.source
         /\ handler'.msg = handler.msg
<1>1. handler \in [pc : {"lockState", "readAux", "readKey"},
                   source : {"rpc", "peer"}, msg : Messages]
  BY DEF Handlers, NoHandler
<1>. QED
  BY <1>1 DEF GoTo, Handlers

\* Every step of a handler, a task or the assignment handler keeps the types.
LEMMA TypeStep == TypeOK /\ [Next]_vars => TypeOK'
<1> SUFFICES ASSUME TypeOK, [Next]_vars PROVE TypeOK'
  OBVIOUS
<1> USE MaxGenAssumption DEF TypeOK, Gens, States, outputs, taskVars
<1>1. ASSUME NEW m \in Messages, RpcInitiate(m) PROVE TypeOK'
  BY <1>1 DEF RpcInitiate, Handlers, NoHandler
<1>2. ASSUME NEW m \in Messages, PeerMessage(m) PROVE TypeOK'
  BY <1>2 DEF PeerMessage, Handlers, NoHandler
<1>3. CASE Reject
  BY <1>3 DEF Reject, Return, Handlers, NoHandler
<1>4. CASE HandleInitiateAux
  BY <1>4 DEF HandleInitiateAux, Return, SetState, Handlers, NoHandler, AuxPcs
<1>5. CASE HandleInitiateKeygen
  BY <1>5, GoToTyped DEF HandleInitiateKeygen, At, SetState
<1>6. CASE HandleInitiateSigning
  <2>1. CASE handler.msg.us
    BY <1>6, <2>1, GoToTyped DEF HandleInitiateSigning, At, SetState
  <2>2. CASE ~handler.msg.us
    BY <1>6, <2>2 DEF HandleInitiateSigning, Return, At, SetState, Handlers, NoHandler
  <2>. QED
    BY <2>1, <2>2
<1>7. CASE ReadAuxInfo
  <2>1. CASE GoTo("readKey")
    BY <1>7, <2>1, GoToTyped DEF ReadAuxInfo, KeygenPcs
  <2>2. CASE Return
    BY <1>7, <2>2 DEF ReadAuxInfo, Return, Handlers, NoHandler, KeygenPcs
  <2>. QED
    BY <1>7, <2>1, <2>2 DEF ReadAuxInfo
<1>8. CASE ReadKeyShare
  BY <1>8 DEF ReadKeyShare, Return, Handlers, NoHandler, SignPcs
<1>9. ASSUME NEW g \in Gens, RunEnds(g) PROVE TypeOK'
  <2>1. ASSUME NEW r \in {"ok", "err"}, AuxRunEnds(g, r) PROVE TypeOK'
    BY <2>1 DEF AuxRunEnds, AuxPcs
  <2>2. ASSUME NEW r \in {"ok", "err"}, KeygenRunEnds(g, r) PROVE TypeOK'
    BY <2>2 DEF KeygenRunEnds, KeygenPcs
  <2>3. ASSUME NEW r \in {"ok", "err"}, SigningRunEnds(g, r) PROVE TypeOK'
    BY <2>3 DEF SigningRunEnds, SignPcs
  <2>. QED
    BY <1>9, <2>1, <2>2, <2>3 DEF RunEnds
<1>10. ASSUME NEW g \in Gens, TaskStep(g) PROVE TypeOK'
  BY <1>10, ZenonT(60) DEF TaskStep, AuxStore, AuxPublish, AuxFail, KeygenPublish,
               KeygenStore, KeygenFail, SigningPublish, SigningFail, SetState,
               AuxPcs, KeygenPcs, SignPcs
<1>11. CASE ReplaceOrchestrator
  BY <1>11 DEF ReplaceOrchestrator
<1>12. CASE UNCHANGED vars
  BY <1>12 DEF vars
<1>. QED
  BY <1>1, <1>2, <1>3, <1>4, <1>5, <1>6, <1>7, <1>8, <1>9, <1>10, <1>11, <1>12
     DEF Next, HandlerStep

\* A node without an orchestrator satisfies the inductive invariant.
LEMMA InitIInv == Init => IInv
<1> SUFFICES ASSUME Init PROVE IInv
  OBVIOUS
<1>1. TypeOK
  BY TypeInit
<1>2. HandlerInv
  BY DEF Init, HandlerInv, NoHandler
<1>. QED
  BY <1>1, <1>2 DEF Init, IInv, GenerationInv, OutputsInPlace,
       AuxLive, KeygenLive, SigningLive

\* Every step of orchestrator.rs preserves the inductive invariant.
LEMMA StepIInv == IInv /\ [Next]_vars => IInv'
<1> SUFFICES ASSUME IInv, [Next]_vars PROVE IInv'
  OBVIOUS
<1>0. TypeOK /\ TypeOK'
  BY TypeStep DEF IInv
<1> DEFINE Goal == /\ \A g \in Gens : GenerationInv(g)'
                   /\ HandlerInv'
                   /\ OutputsInPlace'
<1> USE DEF outputs, taskVars, AuxLive, KeygenLive, SigningLive
<1>1. ASSUME NEW m \in Messages, RpcInitiate(m) PROVE Goal
  BY <1>0, <1>1 DEF RpcInitiate, IInv, TypeOK, GenerationInv, HandlerInv,
       OutputsInPlace, RpcReady, Accepts, AcceptsAux,
       AcceptsKeygen, AcceptsSigning, StateFree, Gens
<1>2. ASSUME NEW m \in Messages, PeerMessage(m) PROVE Goal
  BY <1>0, <1>2 DEF PeerMessage, IInv, TypeOK, GenerationInv, HandlerInv,
       OutputsInPlace, StateFree, Gens
<1>3. CASE Reject
  BY <1>0, <1>3 DEF Reject, At, Return, NoHandler, IInv, TypeOK,
       GenerationInv, HandlerInv, OutputsInPlace,
       StateFree, Gens
<1>4. CASE HandleInitiateAux
  BY <1>0, <1>4 DEF HandleInitiateAux, At, SetState, AcceptsAux, Return,
       NoHandler, IInv, TypeOK, GenerationInv, HandlerInv, OutputsInPlace, StateFree, Gens
<1>5. CASE HandleInitiateKeygen
  BY <1>0, <1>5, GoToTyped DEF HandleInitiateKeygen, At, SetState,
       AcceptsKeygen, IInv, TypeOK, GenerationInv, HandlerInv, OutputsInPlace, StateFree, Gens
<1>6. CASE HandleInitiateSigning
  BY <1>0, <1>6, GoToTyped DEF HandleInitiateSigning, At, SetState,
       AcceptsSigning, Return, NoHandler, IInv, TypeOK, GenerationInv,
       HandlerInv, OutputsInPlace, StateFree, Gens
<1>7. CASE ReadAuxInfo
  BY <1>0, <1>7, GoToTyped DEF ReadAuxInfo, AuxReadable, Return, NoHandler,
       IInv, TypeOK, GenerationInv, HandlerInv, OutputsInPlace, StateFree, Gens
<1>8. CASE ReadKeyShare
  BY <1>0, <1>8 DEF ReadKeyShare, Return, NoHandler, IInv, TypeOK,
       GenerationInv, HandlerInv, OutputsInPlace,
       StateFree, Gens
<1>9. ASSUME NEW g \in Gens, RunEnds(g) PROVE Goal
  <2>1. ASSUME NEW r \in {"ok", "err"}, AuxRunEnds(g, r) PROVE Goal
    BY <1>0, <2>1 DEF AuxRunEnds, IInv, TypeOK, GenerationInv, HandlerInv,
            OutputsInPlace, StateFree
  <2>2. ASSUME NEW r \in {"ok", "err"}, KeygenRunEnds(g, r) PROVE Goal
    BY <1>0, <2>2 DEF KeygenRunEnds, IInv, TypeOK, GenerationInv, HandlerInv,
            OutputsInPlace, StateFree
  <2>3. ASSUME NEW r \in {"ok", "err"}, SigningRunEnds(g, r) PROVE Goal
    BY <1>0, <2>3 DEF SigningRunEnds, IInv, TypeOK, GenerationInv, HandlerInv,
            OutputsInPlace, StateFree
  <2>. QED
    BY <1>9, <2>1, <2>2, <2>3 DEF RunEnds
<1>10. ASSUME NEW g \in Gens, TaskStep(g) PROVE Goal
  <2>1. CASE AuxStore(g)
    BY <1>0, <2>1 DEF AuxStore, AuxWritable, AuxReadable, Accepts, AcceptsAux,
            AcceptsKeygen, AcceptsSigning, IInv, TypeOK, GenerationInv, HandlerInv,
            OutputsInPlace, StateFree
  <2>2. CASE AuxPublish(g)
    BY <1>0, <2>2 DEF AuxPublish, SetState, AuxWritable, AuxReadable, Accepts,
         AcceptsAux,
            AcceptsKeygen, AcceptsSigning, IInv, TypeOK, GenerationInv, HandlerInv,
            OutputsInPlace, StateFree
  <2>3. CASE AuxFail(g)
    BY <1>0, <2>3 DEF AuxFail, SetState, AuxWritable, AuxReadable, Accepts,
         AcceptsAux,
            AcceptsKeygen, AcceptsSigning, IInv, TypeOK, GenerationInv, HandlerInv,
            OutputsInPlace, StateFree
  <2>4. CASE KeygenPublish(g)
    BY <1>0, <2>4 DEF KeygenPublish, SetState, AuxWritable, AuxReadable,
         Accepts, AcceptsAux,
            AcceptsKeygen, AcceptsSigning, IInv, TypeOK, GenerationInv, HandlerInv,
            OutputsInPlace, StateFree
  <2>5. CASE KeygenStore(g)
    BY <1>0, <2>5 DEF KeygenStore, AuxWritable, AuxReadable, Accepts, AcceptsAux,
            AcceptsKeygen, AcceptsSigning, IInv, TypeOK, GenerationInv, HandlerInv,
            OutputsInPlace, StateFree
  <2>6. CASE KeygenFail(g)
    BY <1>0, <2>6 DEF KeygenFail, SetState, AuxWritable, AuxReadable, Accepts,
         AcceptsAux,
            AcceptsKeygen, AcceptsSigning, IInv, TypeOK, GenerationInv, HandlerInv,
            OutputsInPlace, StateFree
  <2>7. CASE SigningPublish(g)
    BY <1>0, <2>7 DEF SigningPublish, SetState, AuxWritable, AuxReadable,
         Accepts, AcceptsAux,
            AcceptsKeygen, AcceptsSigning, IInv, TypeOK, GenerationInv, HandlerInv,
            OutputsInPlace, StateFree
  <2>8. CASE SigningFail(g)
    BY <1>0, <2>8 DEF SigningFail, SetState, AuxWritable, AuxReadable,
         Accepts, AcceptsAux,
            AcceptsKeygen, AcceptsSigning, IInv, TypeOK, GenerationInv, HandlerInv,
            OutputsInPlace, StateFree
  <2>. QED
    BY <1>10, <2>1, <2>2, <2>3, <2>4, <2>5, <2>6, <2>7, <2>8 DEF TaskStep
<1>11. CASE ReplaceOrchestrator
  BY <1>0, <1>11 DEF ReplaceOrchestrator, IInv, TypeOK, GenerationInv,
       HandlerInv, OutputsInPlace, StateFree
<1>12. CASE UNCHANGED vars
  BY <1>0, <1>12 DEF vars, IInv, TypeOK, GenerationInv, HandlerInv,
       OutputsInPlace, StateFree, Accepts, AcceptsAux,
       AcceptsKeygen, AcceptsSigning
<1>. QED
  BY <1>0, <1>1, <1>2, <1>3, <1>4, <1>5, <1>6, <1>7, <1>8, <1>9, <1>10, <1>11, <1>12
     DEF Next, HandlerStep, IInv

----------------------------------------------------------------------------
\* Every reachable state is well typed.
THEOREM TypeCorrect == Spec => []TypeOK
<1>. QED
  BY TypeInit, TypeStep, PTL DEF Spec

\* The inductive invariant holds in every reachable state.
THEOREM Invariance == Spec => []IInv
<1>. QED
  BY InitIInv, StepIInv, PTL DEF Spec

\* No state of an orchestrator is overwritten under a task that has yet to
\* report (orchestrator.rs, the three spawned tasks).
THEOREM TaskOwnership == Spec => []TaskOwnsState
<1>1. IInv => TaskOwnsState
  BY DEF IInv, GenerationInv, TaskOwnsState
<1>. QED
  BY <1>1, Invariance, PTL

\* The opposite lock orders of the handler and the aux task never meet.
THEOREM LockOrder == Spec => []NoLockCycle
<1>1. IInv => NoLockCycle
  BY DEF IInv, TypeOK, Gens, Handlers, Messages, Kinds, HandlerInv, GenerationInv,
         NoLockCycle, AuxLive, NoHandler
<1>. QED
  BY <1>1, Invariance, PTL

\* An RPC call never refuses, locally, what it has just broadcast.
THEOREM BroadcastAccepted == Spec => []BroadcastNotRefused
<1>1. IInv => BroadcastNotRefused
  BY DEF IInv, HandlerInv, BroadcastNotRefused
<1>. QED
  BY <1>1, Invariance, PTL

\* The outputs of a phase are in place before anything relies on them.
THEOREM Outputs == Spec => []OutputsInPlace
<1>1. IInv => OutputsInPlace
  BY DEF IInv
<1>. QED
  BY <1>1, Invariance, PTL

\* A phase in progress loses its worker only by one of the three early returns of
\* the handlers, and then for good (orchestrator.rs, handle_initiate_keygen and
\* handle_initiate_signing).
THEOREM WorkerLost == Spec => WorkerLostOnlyByHandler
<1> DEFINE Cause(g) ==
      /\ g = cur
      /\ \/ handler.pc = "lockState" /\ handler.msg.kind = "signing" /\ ~handler.msg.us
         \/ handler.pc = "readAux" /\ auxTask[g] = "none"
         \/ handler.pc = "readKey" /\ keygenTask[g] = "unsaved"
<1>1. ASSUME IInv, [Next]_vars, NEW g \in Gens
      PROVE  /\ Attended(g) /\ ~Attended(g)' => Cause(g)
             /\ ~Attended(g) => ~Attended(g)'
  <2> DEFINE Goal == /\ Attended(g) /\ ~Attended(g)' => Cause(g)
                     /\ ~Attended(g) => ~Attended(g)'
  <2>0. TypeOK /\ TypeOK' /\ GenerationInv(g) /\ GenerationInv(g)' /\ HandlerInv
    BY <1>1, StepIInv DEF IInv
  <2> USE DEF outputs, taskVars, Attended, StateFree, AuxLive, KeygenLive, SigningLive
  <2>1. ASSUME NEW m \in Messages, RpcInitiate(m) \/ PeerMessage(m) PROVE Goal
    BY <2>0, <2>1 DEF RpcInitiate, PeerMessage
  <2>2. CASE Reject \/ ReplaceOrchestrator \/ UNCHANGED vars
    BY <2>0, <2>2 DEF Reject, ReplaceOrchestrator, At, Return, NoHandler, TypeOK, vars
  <2>3. CASE HandleInitiateAux
    BY <2>0, <2>3 DEF HandleInitiateAux, At, SetState, AcceptsAux, Return, NoHandler,
       TypeOK, GenerationInv
  <2>4. CASE HandleInitiateKeygen
    BY <2>0, <2>4, GoToTyped DEF HandleInitiateKeygen, At, SetState, AcceptsKeygen,
       TypeOK, GenerationInv
  <2>5. CASE HandleInitiateSigning
    BY <2>0, <2>5, GoToTyped DEF HandleInitiateSigning, At, SetState, AcceptsSigning,
       Return, NoHandler, TypeOK, GenerationInv
  <2>6. CASE ReadAuxInfo
    BY <2>0, <2>6, GoToTyped DEF ReadAuxInfo, AuxReadable, Return, NoHandler, TypeOK,
       GenerationInv, HandlerInv, AuxPcs, Handlers, Messages, Kinds
  <2>7. CASE ReadKeyShare
    BY <2>0, <2>7 DEF ReadKeyShare, Return, NoHandler, TypeOK, GenerationInv, HandlerInv
  <2>8. ASSUME NEW h \in Gens, RunEnds(h) PROVE Goal
    BY <2>0, <2>8 DEF RunEnds, AuxRunEnds, KeygenRunEnds, SigningRunEnds, TypeOK
  <2>9. ASSUME NEW h \in Gens, TaskStep(h) PROVE Goal
    <3>1. CASE AuxStore(h) \/ AuxPublish(h) \/ AuxFail(h)
      BY <2>0, <3>1 DEF AuxStore, AuxPublish, AuxFail, SetState, TypeOK, GenerationInv
    <3>2. CASE KeygenPublish(h) \/ KeygenStore(h) \/ KeygenFail(h)
      BY <2>0, <3>2 DEF KeygenPublish, KeygenStore, KeygenFail, SetState, TypeOK,
         GenerationInv
    <3>3. CASE SigningPublish(h) \/ SigningFail(h)
      BY <2>0, <3>3 DEF SigningPublish, SigningFail, SetState, TypeOK, GenerationInv
    <3>. QED
      BY <2>9, <3>1, <3>2, <3>3 DEF TaskStep
  <2>. QED
    BY <1>1, <2>1, <2>2, <2>3, <2>4, <2>5, <2>6, <2>7, <2>8, <2>9 DEF Next, HandlerStep
<1>2. IInv /\ [Next]_vars =>
        [\A g \in Gens : /\ Attended(g) /\ ~Attended(g)' => Cause(g)
                         /\ ~Attended(g) => ~Attended(g)']_vars
  BY <1>1
<1>. QED
  BY <1>2, Invariance, PTL DEF Spec, WorkerLostOnlyByHandler

----------------------------------------------------------------------------
(* Refinement: one orchestrator is a PhaseMachine                          *)

\* MPCOrchestrator::new makes an orchestrator that starts as PhaseMachine does.
LEMMA PhaseInit == Init => \A g \in Gens : PM(g)!Init
BY DEF Init, PM!Init

\* A step from a state of the inductive invariant is a step of PhaseMachine for
\* the orchestrator it touches and a stutter for all others.
LEMMA PhaseStep ==
  IInv /\ [Next]_vars => \A g \in Gens : [PM(g)!Next]_(PM(g)!vars)
<1> SUFFICES ASSUME IInv, [Next]_vars, NEW g \in Gens
             PROVE  PM(g)!Next \/ UNCHANGED PM(g)!vars
  OBVIOUS
<1> DEFINE Stutters == UNCHANGED PM(g)!vars
<1>0. TypeOK /\ GenerationInv(g) /\ OutputsInPlace
  BY DEF IInv
<1> USE DEF outputs, taskVars, PM!vars
<1>1. ASSUME NEW m \in Messages, RpcInitiate(m) PROVE Stutters
  BY <1>1 DEF RpcInitiate
<1>2. ASSUME NEW m \in Messages, PeerMessage(m) PROVE Stutters
  BY <1>2 DEF PeerMessage
<1>3. ASSUME Reject PROVE Stutters
  BY <1>3 DEF Reject
<1>4. ASSUME ReadAuxInfo PROVE Stutters
  BY <1>4 DEF ReadAuxInfo
<1>5. ASSUME ReadKeyShare PROVE Stutters
  BY <1>5 DEF ReadKeyShare
<1>6. ASSUME ReplaceOrchestrator PROVE Stutters
  BY <1>6 DEF ReplaceOrchestrator
<1>7. ASSUME UNCHANGED vars PROVE Stutters
  BY <1>7 DEF vars
<1>8. ASSUME NEW h \in Gens, RunEnds(h) PROVE Stutters
  BY <1>0, <1>8 DEF RunEnds, AuxRunEnds, KeygenRunEnds, SigningRunEnds, TypeOK
<1>9. ASSUME HandleInitiateAux PROVE PM(g)!Start("aux") \/ Stutters
  BY <1>0, <1>9 DEF HandleInitiateAux, At, SetState, AcceptsAux, TypeOK,
     GenerationInv, PM!Start, PM!StartStates, PM!InProgress
<1>10. ASSUME HandleInitiateKeygen PROVE PM(g)!Start("keygen") \/ Stutters
  BY <1>0, <1>10 DEF HandleInitiateKeygen, At, SetState, AcceptsKeygen, TypeOK,
     GenerationInv, PM!Start, PM!StartStates, PM!InProgress
<1>11. ASSUME HandleInitiateSigning PROVE PM(g)!Start("signing") \/ Stutters
  BY <1>0, <1>11 DEF HandleInitiateSigning, At, SetState, AcceptsSigning, TypeOK,
     GenerationInv, PM!Start, PM!StartStates, PM!InProgress
<1>12. ASSUME NEW h \in Gens, AuxStore(h) PROVE Stutters
  BY <1>0, <1>12 DEF AuxStore, TypeOK, GenerationInv
<1>13. ASSUME NEW h \in Gens, AuxPublish(h) PROVE PM(g)!Finish("aux") \/ Stutters
  BY <1>0, <1>13 DEF AuxPublish, SetState, TypeOK, GenerationInv, OutputsInPlace,
     AuxLive, PM!Finish, PM!InputsReady, PM!InProgress, PM!Completed
<1>14. ASSUME NEW h \in Gens, KeygenPublish(h) PROVE PM(g)!Finish("keygen") \/ Stutters
  <2>1. CASE g # h
    BY <1>0, <1>14, <2>1 DEF KeygenPublish, SetState, TypeOK
  <2>2. CASE g = h
    <3>1. /\ st[g] = PM(g)!InProgress["keygen"]
          /\ PM(g)!InputsReady("keygen")
      BY <1>0, <1>14, <2>2 DEF KeygenPublish, GenerationInv, OutputsInPlace, AuxLive,
         KeygenLive, PM!InputsReady, PM!InProgress
    <3>2. /\ st'[g] = PM(g)!Completed["keygen"]
          /\ UNCHANGED <<outputs, auxTask>>
      BY <1>0, <1>14, <2>2 DEF KeygenPublish, SetState, TypeOK, PM!Completed
    <3>. QED
      BY <1>0, <3>1, <3>2 DEF TypeOK, PM!Finish
  <2>. QED
    BY <2>1, <2>2
<1>15. ASSUME NEW h \in Gens, SigningPublish(h) PROVE PM(g)!Finish("signing") \/ Stutters
  <2>1. CASE g # h
    BY <1>0, <1>15, <2>1 DEF SigningPublish, SetState, TypeOK
  <2>2. CASE g = h
    <3>1. /\ st[g] = PM(g)!InProgress["signing"]
          /\ PM(g)!InputsReady("signing")
      BY <1>0, <1>15, <2>2 DEF SigningPublish, GenerationInv, OutputsInPlace, AuxLive,
         SigningLive, PM!InputsReady, PM!InProgress
    <3>2. /\ st'[g] = PM(g)!Completed["signing"]
          /\ UNCHANGED <<outputs, auxTask>>
      BY <1>0, <1>15, <2>2 DEF SigningPublish, SetState, TypeOK, PM!Completed
    <3>. QED
      BY <1>0, <3>1, <3>2 DEF TypeOK, PM!Finish
  <2>. QED
    BY <2>1, <2>2
<1>16. ASSUME NEW h \in Gens, AuxFail(h) PROVE PM(g)!Fail("aux") \/ Stutters
  BY <1>0, <1>16 DEF AuxFail, SetState, TypeOK, GenerationInv, OutputsInPlace,
     AuxLive, PM!Fail, PM!InputsReady, PM!InProgress
<1>17. ASSUME NEW h \in Gens, KeygenFail(h) PROVE PM(g)!Fail("keygen") \/ Stutters
  <2>1. CASE g # h
    BY <1>0, <1>17, <2>1 DEF KeygenFail, SetState, TypeOK
  <2>2. CASE g = h
    <3>1. /\ st[g] = PM(g)!InProgress["keygen"]
          /\ PM(g)!InputsReady("keygen")
      BY <1>0, <1>17, <2>2 DEF KeygenFail, GenerationInv, OutputsInPlace, AuxLive,
         KeygenLive, PM!InputsReady, PM!InProgress
    <3>2. /\ st'[g] = "Failed"
          /\ UNCHANGED <<outputs, auxTask>>
      BY <1>0, <1>17, <2>2 DEF KeygenFail, SetState, TypeOK
    <3>. QED
      BY <1>0, <3>1, <3>2 DEF TypeOK, PM!Fail
  <2>. QED
    BY <2>1, <2>2
<1>18. ASSUME NEW h \in Gens, SigningFail(h) PROVE PM(g)!Fail("signing") \/ Stutters
  <2>1. CASE g # h
    BY <1>0, <1>18, <2>1 DEF SigningFail, SetState, TypeOK
  <2>2. CASE g = h
    <3>1. /\ st[g] = PM(g)!InProgress["signing"]
          /\ PM(g)!InputsReady("signing")
      BY <1>0, <1>18, <2>2 DEF SigningFail, GenerationInv, OutputsInPlace, AuxLive,
         SigningLive, PM!InputsReady, PM!InProgress
    <3>2. /\ st'[g] = "Failed"
          /\ UNCHANGED <<outputs, auxTask>>
      BY <1>0, <1>18, <2>2 DEF SigningFail, SetState, TypeOK
    <3>. QED
      BY <1>0, <3>1, <3>2 DEF TypeOK, PM!Fail
  <2>. QED
    BY <2>1, <2>2
<1>19. ASSUME NEW h \in Gens, KeygenStore(h) PROVE PM(g)!StoreShare \/ Stutters
  BY <1>0, <1>19 DEF KeygenStore, TypeOK, GenerationInv, OutputsInPlace, AuxLive,
     PM!StoreShare
<1>. QED
  BY <1>1, <1>2, <1>3, <1>4, <1>5, <1>6, <1>7, <1>8, <1>9, <1>10, <1>11,
     <1>12, <1>13, <1>14, <1>15, <1>16, <1>17, <1>18, <1>19
     DEF Next, HandlerStep, TaskStep, PM!Next, PM!Phases

\* Every orchestrator implements the abstract phase machine, whatever the
\* others do and however often it was replaced.
THEOREM Refinement == Spec => ImplementsPhaseMachine
<1>1. Init => \A g \in Gens : PM(g)!Init
  BY PhaseInit
<1>2. IInv /\ [Next]_vars => [\A g \in Gens : [PM(g)!Next]_(PM(g)!vars)]_vars
  BY PhaseStep
<1>. QED
  BY <1>1, <1>2, Invariance, PTL DEF Spec, ImplementsPhaseMachine

----------------------------------------------------------------------------
(* The gauge                                                               *)

\* A lone active generation is what MPC_PROTOCOL_STATE shows.
THEOREM Gauge == Spec => []GaugeFollowsLoneGeneration
<1>1. Init => GaugeFollowsLoneGeneration
  BY DEF Init, GaugeFollowsLoneGeneration
<1>2. ASSUME IInv, GaugeFollowsLoneGeneration, [Next]_vars
      PROVE  GaugeFollowsLoneGeneration'
  <2>1. ASSUME NEW h \in Gens, NEW s \in States \ {"Idle"}, SetState(h, s)
        PROVE  GaugeFollowsLoneGeneration'
    BY <1>2, <2>1 DEF SetState, GaugeFollowsLoneGeneration, IInv, TypeOK
  <2>2. ASSUME UNCHANGED <<st, gauge>> PROVE GaugeFollowsLoneGeneration'
    BY <1>2, <2>2 DEF GaugeFollowsLoneGeneration
  <2>3. handler.pc # "idle" => cur \in Gens
    BY <1>2 DEF IInv, TypeOK, Gens
  <2>4. CASE HandlerStep
    BY <2>1, <2>2, <2>3, <2>4 DEF HandlerStep, Reject, HandleInitiateAux,
       HandleInitiateKeygen, HandleInitiateSigning, ReadAuxInfo, ReadKeyShare,
       At, States
  <2>5. ASSUME NEW h \in Gens, TaskStep(h) PROVE GaugeFollowsLoneGeneration'
    BY <2>1, <2>2, <2>5 DEF TaskStep, AuxStore, AuxPublish, AuxFail, KeygenPublish,
       KeygenStore, KeygenFail, SigningPublish, SigningFail, States
  <2>6. ASSUME NEW h \in Gens, RunEnds(h) PROVE GaugeFollowsLoneGeneration'
    BY <2>2, <2>6 DEF RunEnds, AuxRunEnds, KeygenRunEnds, SigningRunEnds
  <2>. QED
    BY <1>2, <2>2, <2>4, <2>5, <2>6 DEF Next, RpcInitiate, PeerMessage,
       ReplaceOrchestrator, vars
<1>. QED
  BY <1>1, <1>2, Invariance, PTL DEF Spec
=============================================================================
