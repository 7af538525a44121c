-------------------------- MODULE OrchestratorLock --------------------------
(***************************************************************************)
(* The outer lock of one node, Arc<RwLock<Option<MPCOrchestrator>>>, and   *)
(* what waits for it: RPC calls (rpc.rs) and the network event loop        *)
(* (network.rs).  initiate_signing, once it has started a run under the    *)
(* write guard, waits for the signature under a read guard, for up to a    *)
(* minute (wait_for_signature in orchestrator.rs).                         *)
(*                                                                         *)
(* tokio's RwLock is fair: requests queue, and a reader does not overtake  *)
(* a writer that waits.                                                    *)
(*                                                                         *)
(* What an actor does under the guard between two requests is one step.    *)
(* The protocol of a run is reduced to one exchange: the node sends its    *)
(* message, the other parties answer it, if they take part in the run, and *)
(* the run ends.                                                           *)
(***************************************************************************)
EXTENDS Naturals, Sequences, FiniteSets, Phases

CONSTANTS
  Calls,        \* bound: RPC calls that initiate a phase
  MaxGen,       \* bound: orchestrators, the first one included
  Initiations   \* bound: initiations by peers

ASSUME LockAssumption == /\ MaxGen \in Nat \ {0}
                         /\ Initiations \in Nat
                         /\ "loop" \notin Calls

Gens   == 1..MaxGen
Actors == Calls \cup {"loop"}

VARIABLES
  queue,     \* requests for the lock that are not granted, in order
  holders,   \* requests that are granted and not released
  cur,       \* the orchestrator in the lock; they are numbered
  st,        \* st[g]: the ProtocolState of orchestrator g
  outputs,   \* outputs[g]: the phases whose output g has
  run,       \* run[g]: the last MPC run of g
  call,      \* call[c]: the progress of an RPC call
  loop,      \* the message the event loop is handling
  inbox,     \* messages from peers, on their way or in the swarm
  commands,  \* messages of runs queued for the event loop
  unanswered, \* published messages of runs that the peers have not answered
  asked      \* initiations by peers so far

lock == <<queue, holders>>
vars == <<queue, holders, cur, st, outputs, run, call, loop, inbox, commands,
          unanswered, asked>>

----------------------------------------------------------------------------
(* The lock                                                                *)

Request(a, mode) == [who |-> a, mode |-> mode]
Requests == [who : Actors, mode : {"read", "write"}]

Ask(a, mode) == /\ queue' = Append(queue, Request(a, mode))
                /\ UNCHANGED holders
Holds(a)     == \E h \in holders : h.who = a
Release(a)   == /\ holders' = {h \in holders : h.who # a}
                /\ UNCHANGED queue

Grantable(r) == IF r.mode = "write" THEN holders = {}
                                    ELSE \A h \in holders : h.mode = "read"
Grant == /\ queue # <<>>
         /\ Grantable(Head(queue))
         /\ holders' = holders \cup {Head(queue)}
         /\ queue' = Tail(queue)
         /\ UNCHANGED <<cur, st, outputs, run, call, loop, inbox, commands,
                        unanswered, asked>>

----------------------------------------------------------------------------
(* Runs                                                                    *)

RunMessage(g, p)  == [kind |-> "run", gen |-> g, phase |-> p]
\* us: this node is among the parties.
Initiation(p, us) == [kind |-> "initiate", phase |-> p, us |-> us]
Assignment        == [kind |-> "assign"]

RunMessages == {RunMessage(g, p) : g \in Gens, p \in Phases}
Messages    == RunMessages \cup {Assignment}
                 \cup {Initiation(p, us) : p \in Phases, us \in BOOLEAN}

NoRun == [phase |-> "none", by |-> "none", stage |-> "over"]
Runs  == {NoRun} \cup [phase : Phases, by : Actors,
                       stage : {"start", "sent", "heard", "over"}]

\* Fault: an orchestrator signs again and again.
MayStartAgain(p) ==
  \/ st[cur] \in StartStates[p]
  \/ p = "signing" /\ st[cur] = "SigningCompleted"
MayStart(p) == st[cur] \in StartStates[p]

HasInputs(p) ==
  /\ p \in {"keygen", "signing"} => "aux" \in outputs[cur]
  /\ p = "signing"               => "keygen" \in outputs[cur]

\* handle_coordination_message, of a message that passes the test of the
\* state.  Who is not a signer only observes.
Start(p, a, us) ==
  /\ st' = [st EXCEPT ![cur] = InProgress[p]]
  /\ run' = IF us /\ HasInputs(p)
              THEN [run EXCEPT ![cur] = [phase |-> p, by |-> a, stage |-> "start"]]
              ELSE run

\* The task sends its message through the command queue.
SendMessage(g) ==
  /\ run[g].stage = "start"
  /\ run' = [run EXCEPT ![g].stage = "sent"]
  /\ commands' = commands \cup {RunMessage(g, run[g].phase)}
  /\ UNCHANGED <<queue, holders, cur, st, outputs, call, loop, inbox,
                 unanswered, asked>>

EndRun(g) ==
  /\ run[g].stage = "heard"
  /\ run' = [run EXCEPT ![g].stage = "over"]
  /\ st' = [st EXCEPT ![g] = Completed[run[g].phase]]
  /\ outputs' = [outputs EXCEPT ![g] = @ \cup {run[g].phase}]
  /\ UNCHANGED <<queue, holders, cur, call, loop, inbox, commands, unanswered,
                 asked>>

\* A run may fail at any time, for one because its channel went with a
\* replaced orchestrator.
FailRun(g) ==
  /\ run[g].stage # "over"
  /\ run' = [run EXCEPT ![g].stage = "over"]
  /\ st' = [st EXCEPT ![g] = "Failed"]
  /\ UNCHANGED <<queue, holders, cur, outputs, call, loop, inbox, commands,
                 unanswered, asked>>

----------------------------------------------------------------------------
(* RPC calls                                                               *)

\* of and from: who initiated the run whose end the call reports, and in
\* which orchestrator.
NoCall == [pc |-> "idle", phase |-> "none", gen |-> 0, out |-> "none",
           of |-> "none", from |-> 0]

CallRecords ==
  [pc : {"idle", "write", "released", "wait", "done"},
   phase : Phases \cup {"none"}, gen : 0..MaxGen,
   out : {"none", "refused", "started", "error", "signature", "failed",
          "timeout", "hasty"},
   of : Actors \cup {"none"}, from : 0..MaxGen]

At(c, pc)      == call[c].pc = pc /\ Holds(c)
Return(c, out) == /\ call' = [call EXCEPT ![c].pc = "done", ![c].out = out]
                  /\ Release(c)

\* mpc_orchestrator.write().await
BeginCall(c, p) ==
  /\ call[c].pc = "idle"
  /\ call' = [call EXCEPT ![c].pc = "write", ![c].phase = p]
  /\ Ask(c, "write")
  /\ UNCHANGED <<cur, st, outputs, run, loop, inbox, commands, unanswered,
                 asked>>

\* An early return, before the broadcast.
RefuseCall(c) ==
  /\ At(c, "write")
  /\ ~MayStart(call[c].phase)
  /\ Return(c, "refused")
  /\ UNCHANGED <<cur, st, outputs, run, loop, inbox, commands, unanswered,
                 asked>>

\* Fault: the call waits for the signature with the write guard in hand.
InitiateKeepingGuard(c, us) ==
  LET p == call[c].phase IN
  /\ At(c, "write")
  /\ MayStart(p)
  /\ p # "signing" => us
  /\ Start(p, c, us)
  /\ IF p = "signing" /\ (us => HasInputs(p))
       THEN /\ call' = [call EXCEPT ![c].pc = "released", ![c].gen = cur]
            /\ UNCHANGED lock
       ELSE Return(c, IF HasInputs(p) THEN "started" ELSE "error")
  /\ UNCHANGED <<cur, outputs, loop, inbox, commands, unanswered, asked>>
\* The initiation is broadcast and handled here.  An error is returned at once,
\* and so is the answer of initiate_aux_gen and initiate_keygen;
\* initiate_signing drops the write guard and goes on.
Initiate(c, us) ==
  LET p == call[c].phase IN
  /\ At(c, "write")
  /\ MayStart(p)
  /\ p # "signing" => us
  /\ Start(p, c, us)
  /\ IF p = "signing" /\ (us => HasInputs(p))
       THEN /\ call' = [call EXCEPT ![c].pc = "released", ![c].gen = cur]
            /\ Release(c)
       ELSE Return(c, IF HasInputs(p) THEN "started" ELSE "error")
  /\ UNCHANGED <<cur, outputs, loop, inbox, commands, unanswered, asked>>

\* mpc_orchestrator.read().await
AskToWait(c) ==
  /\ call[c].pc = "released"
  /\ call' = [call EXCEPT ![c].pc = "wait"]
  /\ Ask(c, "read")
  /\ UNCHANGED <<cur, st, outputs, run, loop, inbox, commands, unanswered,
                 asked>>

\* wait_for_signature looks at whatever orchestrator is in the lock.
Answer(c, out) ==
  /\ call' = [call EXCEPT ![c].pc = "done", ![c].out = out,
                          ![c].of = run[cur].by, ![c].from = cur]
  /\ Release(c)

SeeSignature(c) ==
  /\ At(c, "wait")
  /\ st[cur] = "SigningCompleted"
  /\ Answer(c, "signature")
  /\ UNCHANGED <<cur, st, outputs, run, loop, inbox, commands, unanswered,
                 asked>>

SeeFailure(c) ==
  /\ At(c, "wait")
  /\ st[cur] = "Failed"
  /\ Answer(c, "failed")
  /\ UNCHANGED <<cur, st, outputs, run, loop, inbox, commands, unanswered,
                 asked>>

\* Nothing goes on at this node that could bring the current run forward: neither
\* the run nor the event loop has a step to take.
Resting ==
  /\ run[cur].stage \notin {"start", "heard"}
  /\ queue # <<>> => ~Grantable(Head(queue))
  /\ IF loop.pc = "idle" THEN inbox = {} /\ commands = {} ELSE ~Holds("loop")

\* Fault: the wait ends with the failure of the protocol only.
TimeOutNever(c) ==
  /\ At(c, "wait")
  /\ st[cur] = "Failed"
  /\ Return(c, "timeout")
  /\ UNCHANGED <<cur, st, outputs, run, loop, inbox, commands, unanswered,
                 asked>>
\* The minute is over.  It may be at any time; "timeout" is the answer of a
\* node that came to rest before it was over, "hasty" that of another.
TimeOut(c) ==
  /\ At(c, "wait")
  /\ Return(c, IF Resting THEN "timeout" ELSE "hasty")
  /\ UNCHANGED <<cur, st, outputs, run, loop, inbox, commands, unanswered,
                 asked>>

----------------------------------------------------------------------------
(* The event loop                                                          *)

IdleLoop == [pc |-> "idle"]

\* Messages of runs are forwarded under a read guard; initiations and new
\* orchestrators need the write guard.
TakeMessage(m) ==
  /\ loop = IdleLoop
  /\ m \in inbox
  /\ inbox' = inbox \ {m}
  /\ loop' = [pc |-> "lock", msg |-> m]
  /\ Ask("loop", IF m.kind = "run" THEN "read" ELSE "write")
  /\ UNCHANGED <<cur, st, outputs, run, call, commands, unanswered, asked>>

\* Publishing the message of a run needs no lock.
PublishCommand(m) ==
  /\ loop = IdleLoop
  /\ m \in commands
  /\ commands' = commands \ {m}
  /\ unanswered' = unanswered \cup {m}
  /\ UNCHANGED <<queue, holders, cur, st, outputs, run, call, loop, inbox, asked>>

LoopHolds(kind) == loop # IdleLoop /\ loop.msg.kind = kind /\ Holds("loop")
LoopGoesOn == loop' = IdleLoop /\ Release("loop")

\* Fault: the message is dropped when the lock is not free.
ForwardTrying ==
  /\ LoopHolds("run")
  /\ LET m == loop.msg IN
     IF m.gen = cur /\ run[cur].phase = m.phase /\ run[cur].stage = "sent"
          /\ Cardinality(holders) = 1
       THEN run' = [run EXCEPT ![cur].stage = "heard"]
       ELSE UNCHANGED run
  /\ LoopGoesOn
  /\ UNCHANGED <<cur, st, outputs, call, inbox, commands, unanswered, asked>>
\* A message goes to the channel of the current orchestrator.  One of a run
\* of an earlier orchestrator is of no use to it.
Forward ==
  /\ LoopHolds("run")
  /\ LET m == loop.msg IN
     IF m.gen = cur /\ run[cur].phase = m.phase /\ run[cur].stage = "sent"
       THEN run' = [run EXCEPT ![cur].stage = "heard"]
       ELSE UNCHANGED run
  /\ LoopGoesOn
  /\ UNCHANGED <<cur, st, outputs, call, inbox, commands, unanswered, asked>>

HandleInitiation ==
  /\ LoopHolds("initiate")
  /\ IF MayStart(loop.msg.phase)
       THEN Start(loop.msg.phase, "loop", loop.msg.us)
       ELSE UNCHANGED <<st, run>>
  /\ LoopGoesOn
  /\ UNCHANGED <<cur, outputs, call, inbox, commands, unanswered, asked>>

StoreOrchestrator ==
  /\ LoopHolds("assign")
  /\ cur' = cur + 1
  /\ LoopGoesOn
  /\ UNCHANGED <<st, outputs, run, call, inbox, commands, unanswered, asked>>

----------------------------------------------------------------------------
(* The peers                                                               *)

\* The messages that bring a run forward come in.  They may never come: a peer
\* that has refused the initiation or has no orchestrator does not answer.
PeersAnswer(m) ==
  /\ m \in unanswered
  /\ unanswered' = unanswered \ {m}
  /\ inbox' = inbox \cup {m}
  /\ UNCHANGED <<queue, holders, cur, st, outputs, run, call, loop, commands, asked>>

PeerInitiates(p, us) ==
  /\ asked < Initiations
  /\ p # "signing" => us
  /\ asked' = asked + 1
  /\ inbox' = inbox \cup {Initiation(p, us)}
  /\ UNCHANGED <<queue, holders, cur, st, outputs, run, call, loop, commands,
                 unanswered>>

PeerAssigns ==
  /\ cur < MaxGen
  /\ Assignment \notin inbox
  /\ loop # IdleLoop => loop.msg # Assignment
  /\ inbox' = inbox \cup {Assignment}
  /\ UNCHANGED <<queue, holders, cur, st, outputs, run, call, loop, commands,
                 unanswered, asked>>

----------------------------------------------------------------------------
\* A node that has gone through aux generation and keygen.
Init == /\ queue    = <<>>
        /\ holders  = {}
        /\ cur      = 1
        /\ st       = [g \in Gens |-> IF g = 1 THEN "KeygenCompleted" ELSE "Idle"]
        /\ outputs  = [g \in Gens |-> IF g = 1 THEN {"aux", "keygen"} ELSE {}]
        /\ run      = [g \in Gens |-> NoRun]
        /\ call     = [c \in Calls |-> NoCall]
        /\ loop     = IdleLoop
        /\ inbox    = {}
        /\ commands = {}
        /\ unanswered = {}
        /\ asked    = 0

CallStep(c) == \/ RefuseCall(c)
               \/ \E us \in BOOLEAN : Initiate(c, us)
               \/ AskToWait(c)
               \/ SeeSignature(c)
               \/ SeeFailure(c)
               \/ TimeOut(c)
LoopStep == Forward \/ HandleInitiation \/ StoreOrchestrator
LoopTakes == \/ \E m \in inbox : TakeMessage(m)
             \/ \E m \in commands : PublishCommand(m)
TaskStep(g) == SendMessage(g) \/ EndRun(g)

Next == \/ Grant
        \/ \E c \in Calls : (\E p \in Phases : BeginCall(c, p)) \/ CallStep(c)
        \/ LoopStep
        \/ LoopTakes
        \/ \E g \in Gens : TaskStep(g) \/ FailRun(g)
        \/ \E p \in Phases, us \in BOOLEAN : PeerInitiates(p, us)
        \/ \E m \in unanswered : PeersAnswer(m)
        \/ PeerAssigns

Spec == Init /\ [][Next]_vars

\* The runtime wakes whoever is granted the lock, and goes on with calls, with
\* what the event loop has in hand and with tasks; a minute passes.  Nothing is
\* asked of the peers.
FairSpec == /\ Spec
            /\ WF_vars(Grant)
            /\ \A c \in Calls : WF_vars(CallStep(c))
            /\ WF_vars(LoopStep)
            /\ \A g \in Gens : WF_vars(TaskStep(g))

----------------------------------------------------------------------------
(* Properties                                                              *)

\* Every variable has its type, and the guards are where the code has them:
\* an actor is queued or holds a guard while it is at a lock, and only then,
\* and a writer is alone.
Places(a) == {i \in DOMAIN queue : queue[i].who = a}
AtLock(a) == Holds(a) \/ Places(a) # {}
TypeOK ==
  /\ queue \in Seq(Requests)
  /\ holders \subseteq Requests
  /\ cur \in Gens
  /\ st \in [Gens -> States]
  /\ outputs \in [Gens -> SUBSET Phases]
  /\ run \in [Gens -> Runs]
  /\ call \in [Calls -> CallRecords]
  /\ \A c \in Calls : call[c].pc \in {"write", "wait"} <=> AtLock(c)
  /\ loop \in {IdleLoop} \cup [pc : {"lock"}, msg : Messages]
  /\ loop # IdleLoop <=> AtLock("loop")
  /\ \A h \in holders : h.mode = "write" => holders = {h}
  /\ inbox \subseteq Messages
  /\ commands \subseteq RunMessages
  /\ unanswered \subseteq RunMessages
  /\ asked \in 0..Initiations

\* The state that initiate_signing waits on is read under another guard than
\* the one it started its run under, and it is the state of whatever
\* orchestrator is there.  Nonetheless the signature it returns, or the
\* failure it reports, is that of its own run, unless the orchestrator was
\* replaced in between.
AnswerIsOwn ==
  \A c \in Calls :
    call[c].out \in {"signature", "failed"} /\ call[c].from = call[c].gen
      => call[c].of = c

\* When a call gives up on a node that has come to rest although its run is
\* still in progress, there are two causes, and no third: the peers have not
\* answered the run's message, which is published; or somebody queues for the
\* write guard, the event loop with a message that needs it or another call, and
\* whatever came for the run is behind that.
WriterQueues == \E i \in DOMAIN queue : queue[i].mode = "write"
Unanswered   == RunMessage(cur, run[cur].phase) \in unanswered
TimeoutHasCause ==
  [][\A c \in Calls :
       call[c].out = "none" /\ call'[c].out = "timeout"
         => \/ run[cur].by # c
            \/ run[cur].stage = "over"
            \/ Unanswered
            \/ WriterQueues]_vars

\* Nobody can be given the lock, and neither a call nor the event loop has a step
\* to take that needs nobody else.
Stalled ==
  /\ queue # <<>> => ~Grantable(Head(queue))
  /\ \A c \in Calls : call[c].pc # "released" /\ ~At(c, "write") /\ ~At(c, "wait")
  /\ loop # IdleLoop => ~Holds("loop")

\* Calls, their waits for a signature and the event loop never stop each other
\* at the lock for good: when none of them can go on, all have finished.
NoDeadlockAtLock ==
  Stalled => loop = IdleLoop /\ \A c \in Calls : call[c].pc \in {"idle", "done"}

\* Every call returns: none waits for ever at the lock, whatever the others do.
EveryCallReturns ==
  \A c \in Calls : (call[c].pc = "write") ~> (call[c].pc = "done")

\* The event loop comes back from every message.
LoopComesBack == (loop # IdleLoop) ~> (loop = IdleLoop)

\* What the code does not keep.

\* "Wait for the signature to be generated (with timeout)": the minute is there
\* for a run that makes no progress, and the wait does not keep a run that the
\* peers have answered, or could answer, from making progress.
WaitLetsRunGoOn ==
  [][\A c \in Calls :
       call[c].out = "none" /\ call'[c].out = "timeout"
         => run[cur].by # c \/ run[cur].stage = "over" \/ Unanswered]_vars
=============================================================================
