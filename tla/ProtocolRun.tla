---------------------------- MODULE ProtocolRun ----------------------------
(***************************************************************************)
(* One accepted assignment on N nodes: how aux generation, keygen and      *)
(* signing are initiated on all of them and how the messages of the MPC    *)
(* runs find their way (network.rs, rpc.rs, orchestrator.rs and the party  *)
(* files).  A node is its party index.                                     *)
(*                                                                         *)
(* The handling of one coordination message is one step here, and so is    *)
(* the publishing of a result: what can happen inside them on one node is  *)
(* the subject of Orchestrator.  An RPC call takes two steps, with the     *)
(* write guard of the orchestrator held from one to the other: it          *)
(* broadcasts the initiation and then handles it itself.                   *)
(*                                                                         *)
(* A node gets its orchestrator when it accepts the assignment, or, the     *)
(* coordinator, when all have accepted, and that may be after another node  *)
(* has initiated aux generation.                                           *)
(*                                                                         *)
(* net[a][b] holds what a published (all topics, and a's own command       *)
(* queue) and b's event loop has yet to take, in order.                    *)
(***************************************************************************)
EXTENDS Naturals, Sequences, FiniteSets, Phases

CONSTANTS
  N,         \* number of participants; party indices are 0..N-1
  Quorum,    \* the signers asked for are the parties 0..Quorum-1
  Late,      \* nodes whose orchestrator may be later than an initiation
  Callers,   \* Callers[p]: the nodes whose method initiates phase p
  Seconds,   \* bound: the timestamps, in whole seconds
  Rounds,    \* Rounds[p]: the rounds of phase p, "broadcast" or "p2p"
  Meshed     \* gossip forwards an initiation before what it set off

Nodes  == 0..(N - 1)

\* Aux generation is told that there are three parties, whatever N is, so it
\* only makes sense for N = 3.
AuxParties == 3

ASSUME ProtocolRunAssumption ==
  /\ N = AuxParties
  /\ Quorum \in 1..N
  /\ Late \subseteq Nodes
  /\ Callers \in [Phases -> SUBSET Nodes]
  /\ Rounds \in [Phases -> Seq({"broadcast", "p2p"})]
  /\ \A p \in Phases : Rounds[p] # <<>>
  /\ Meshed \in BOOLEAN

VARIABLES
  st,       \* st[n]: the ProtocolState of n's orchestrator, or NoOrchestrator
  rpc,      \* rpc[n]: an initiation n has broadcast and not yet handled
  tx,       \* tx[n]: the phases whose incoming_tx is Some
  run,      \* run[n]: the MPC run in progress on n
  done,     \* done[n]: the phase and second of n's successful runs
  ran,      \* history: <<n, p, sec>>, n has begun a run of p with timestamp sec
  net,      \* net[a][b]: messages from a on their way to b
  refused,  \* history: <<n, p>>, n did not follow an initiation of p
  dropped   \* history: <<n, p>>, n had no channel for a message of p

vars == <<st, rpc, tx, run, done, ran, net, refused, dropped>>

----------------------------------------------------------------------------
(* Parties and messages                                                    *)

Parties(p) == CASE p = "aux"     -> 0..(AuxParties - 1)
                [] p = "keygen"  -> Nodes
                [] p = "signing" -> 0..(Quorum - 1)

\* An initiation: phase, timestamp and the node that made it.
Initiation(p, sec, by) == [kind |-> "initiate", phase |-> p, sec |-> sec, by |-> by]
NoInitiation == [kind |-> "none"]

\* A message of an MPC run.  to is the set of parties it is meant for: p2p
\* messages go over the same topic as broadcasts, with a recipient.
\* by is the initiator of the sender's run.
RunMessage(r, round, to) == [kind |-> "run", phase |-> r.phase, sec |-> r.sec,
                             by |-> r.by, round |-> round, to |-> to]

NewRun(m) == [phase |-> m.phase, sec |-> m.sec, by |-> m.by, round |-> 0, inbox |-> {}]
NoRun     == [phase |-> "none"]

\* Fault: the timestamp is not part of the id.
ExecutionIdOfPhase(p, sec) == <<p, Cardinality(Parties(p))>>
\* create_shared_execution_id; the number of parties follows from p.
ExecutionId(p, sec) == <<p, Cardinality(Parties(p)), sec>>

Publish(a, ms) == net' = [net EXCEPT ![a] =
                    [b \in Nodes |-> IF b = a THEN @[b] ELSE @[b] \o ms]]

\* Gossip keeps the order of each publisher.  Meshed: each node's mesh has
\* every other node, so that a node forwards an initiation to b before it
\* publishes a message of the run it starts on it.
Deliverable(a, b) ==
  /\ net[a][b] # <<>>
  /\ LET m == Head(net[a][b])
     IN  Meshed /\ m.kind = "run"
           => \A c \in Nodes : \A i \in 1..Len(net[c][b]) :
                net[c][b][i] # Initiation(m.phase, m.sec, m.by)

Take(a, b) == net' = [net EXCEPT ![a][b] = Tail(@)]

----------------------------------------------------------------------------
(* Initiations                                                             *)

\* Fault: the event loop reads the orchestrator during a call.
LockFreeAlways(n) == TRUE
\* The outer lock is not write-locked by an RPC call.
LockFree(n) == rpc[n] = NoInitiation

\* Fault: the outputs of earlier phases are not looked at.
InputsNotNeeded(n, p) == TRUE
\* aux_info and key_share as far as phase p reads them.
HasInputs(n, p) ==
  /\ p \in {"keygen", "signing"} => \E d \in done[n] : d.phase = "aux"
  /\ p = "signing"               => \E d \in done[n] : d.phase = "keygen"

\* mpc_orchestrator is None.
NoOrchestrator == "None"

\* n accepts the assignment, or has all acceptances.
StoreOrchestrator(n) ==
  /\ st[n] = NoOrchestrator
  /\ st' = [st EXCEPT ![n] = "Idle"]
  /\ UNCHANGED <<rpc, tx, run, done, ran, net, refused, dropped>>

\* The run m asks for is on its way at n, or over.
Follows(n, m) == \/ m.phase = run[n].phase /\ m.sec = run[n].sec
                 \/ [phase |-> m.phase, sec |-> m.sec] \in done[n]

\* handle_initiate_aux, _keygen and _signing on n.  Without an orchestrator
\* nothing is handled; a node that is not among the signers only observes.
Handle(n, m) ==
  LET p == m.phase
  IN  \/ /\ st[n] \notin StartStates[p]
         /\ refused' = IF Follows(n, m) THEN refused ELSE refused \cup {<<n, p>>}
         /\ UNCHANGED <<st, tx, run, ran>>
      \/ /\ st[n] \in StartStates[p]
         /\ n \notin Parties(p)
         /\ st' = [st EXCEPT ![n] = InProgress[p]]
         /\ UNCHANGED <<tx, run, ran, refused>>
      \/ /\ st[n] \in StartStates[p]
         /\ n \in Parties(p)
         /\ st' = [st EXCEPT ![n] = InProgress[p]]
         /\ IF HasInputs(n, p)
              THEN /\ tx' = [tx EXCEPT ![n] = @ \cup {p}]
                   /\ run' = [run EXCEPT ![n] = NewRun(m)]
                   /\ ran' = ran \cup {<<n, p, m.sec>>}
                   /\ UNCHANGED refused
              ELSE /\ refused' = refused \cup {<<n, p>>}
                   /\ UNCHANGED <<tx, run, ran>>

\* An RPC method up to its broadcast.
RpcBroadcast(n, p, sec) ==
  /\ n \in Callers[p]
  /\ LockFree(n)
  /\ st[n] \in StartStates[p]
  /\ rpc' = [rpc EXCEPT ![n] = Initiation(p, sec, n)]
  /\ Publish(n, <<Initiation(p, sec, n)>>)
  /\ UNCHANGED <<st, tx, run, done, ran, refused, dropped>>

InitiateAuxGen(n, sec)  == RpcBroadcast(n, "aux", sec)
InitiateKeygen(n, sec)  == RpcBroadcast(n, "keygen", sec)
InitiateSigning(n, sec) == RpcBroadcast(n, "signing", sec)

\* The caller's node handles its own message; then the guard is dropped.
RpcHandle(n) ==
  /\ rpc[n] # NoInitiation
  /\ Handle(n, rpc[n])
  /\ rpc' = [rpc EXCEPT ![n] = NoInitiation]
  /\ UNCHANGED <<done, net, dropped>>

\* The event loop of n takes a coordination message of a.
ReceiveInitiation(a, n) ==
  /\ Deliverable(a, n)
  /\ LockFree(n)
  /\ Head(net[a][n]).kind = "initiate"
  /\ Handle(n, Head(net[a][n]))
  /\ Take(a, n)
  /\ UNCHANGED <<rpc, done, dropped>>

----------------------------------------------------------------------------
(* Messages of the runs                                                    *)

\* Fault: every node takes every p2p message.
MeantForEverybody(n, m) == TRUE
\* The p2p filter: to is None or the node's own party index.
MeantFor(n, m) == n \in m.to

\* The event loop of n takes a message of a's run.  It goes to the run
\* through the channel of its phase; without a channel it is dropped, and
\* once the run is over nobody reads the channel.
Forward(a, n, p) ==
  /\ Deliverable(a, n)
  /\ LockFree(n)
  /\ LET m == Head(net[a][n])
     IN  /\ m.kind = "run"
         /\ m.phase = p
         /\ IF MeantFor(n, m) /\ run[n].phase = p
              THEN run' = [run EXCEPT ![n].inbox = @ \cup
                     {[from |-> a, sec |-> m.sec, round |-> m.round, mine |-> n \in m.to]}]
              ELSE UNCHANGED run
         /\ dropped' = IF MeantFor(n, m) /\ p \notin tx[n]
                         THEN dropped \cup {<<n, p>>} ELSE dropped
  /\ Take(a, n)
  /\ UNCHANGED <<st, rpc, tx, done, ran, refused>>

ForwardAux(a, n)     == Forward(a, n, "aux")
ForwardKeygen(a, n)  == Forward(a, n, "keygen")
ForwardSigning(a, n) == Forward(a, n, "signing")

Heard(r, round) == {x.from : x \in {y \in r.inbox : y.round = round}}
\* A party goes on when it has the message of the round of each other party.
RoundComplete(n) ==
  LET r == run[n]
  IN  r.round > 0 => Parties(r.phase) \ {n} \subseteq Heard(r, r.round)

\* Fault: the recipients are off by one.
RoundMessagesOffByOne(n, r, round) ==
  IF Rounds[r.phase][round] = "broadcast"
    THEN <<RunMessage(r, round, Nodes \ {n})>>
    ELSE [k \in 1..Cardinality(Parties(r.phase) \ {n}) |->
            RunMessage(r, round, {IF k < n THEN k - 1 ELSE k})]
\* The messages of one round: one for all the others, or one for each.
RoundMessages(n, r, round) ==
  IF Rounds[r.phase][round] = "broadcast"
    THEN <<RunMessage(r, round, Nodes \ {n})>>
    ELSE [k \in 1..Cardinality(Parties(r.phase) \ {n}) |->
            RunMessage(r, round, {IF k <= n THEN k - 1 ELSE k})]

\* The run of phase p starts, or has finished a round that is not the last; its
\* messages pass through the command queue to the topic of the phase.
SendRound(n, p) ==
  /\ run[n].phase = p
  /\ run[n].round < Len(Rounds[p])
  /\ RoundComplete(n)
  /\ run' = [run EXCEPT ![n].round = @ + 1]
  /\ Publish(n, RoundMessages(n, run[n], run[n].round + 1))
  /\ UNCHANGED <<st, rpc, tx, done, ran, refused, dropped>>

SendAuxMessage(n)     == SendRound(n, "aux")
SendKeygenMessage(n)  == SendRound(n, "keygen")
SendSigningMessage(n) == SendRound(n, "signing")

\* A message made under another execution id, or for another party, is not
\* what the run expects.
Sound(n, x) ==
  /\ x.mine
  /\ ExecutionId(run[n].phase, x.sec) = ExecutionId(run[n].phase, run[n].sec)

\* Fault: the task goes on reading its channel.
FinishRunStill(n) ==
  /\ run[n] # NoRun
  /\ run[n].round = Len(Rounds[run[n].phase])
  /\ RoundComplete(n)
  /\ \A x \in run[n].inbox : Sound(n, x)
  /\ st' = [st EXCEPT ![n] = Completed[run[n].phase]]
  /\ done' = [done EXCEPT ![n] = @ \cup {[phase |-> run[n].phase, sec |-> run[n].sec]}]
  /\ UNCHANGED <<rpc, tx, run, ran, net, refused, dropped>>
\* The run returns its result and the task publishes it.
FinishRun(n) ==
  /\ run[n] # NoRun
  /\ run[n].round = Len(Rounds[run[n].phase])
  /\ RoundComplete(n)
  /\ \A x \in run[n].inbox : Sound(n, x)
  /\ st' = [st EXCEPT ![n] = Completed[run[n].phase]]
  /\ done' = [done EXCEPT ![n] = @ \cup {[phase |-> run[n].phase, sec |-> run[n].sec]}]
  /\ run' = [run EXCEPT ![n] = NoRun]
  /\ UNCHANGED <<rpc, tx, ran, net, refused, dropped>>

\* The library finds the fault sooner or later, at the latest in place of a
\* result.
FailRun(n) ==
  /\ run[n] # NoRun
  /\ \E x \in run[n].inbox : ~Sound(n, x)
  /\ st' = [st EXCEPT ![n] = "Failed"]
  /\ run' = [run EXCEPT ![n] = NoRun]
  /\ UNCHANGED <<rpc, tx, done, ran, net, refused, dropped>>

----------------------------------------------------------------------------
Init == /\ st      = [n \in Nodes |-> IF n \in Late THEN NoOrchestrator ELSE "Idle"]
        /\ rpc     = [n \in Nodes |-> NoInitiation]
        /\ tx      = [n \in Nodes |-> {}]
        /\ run     = [n \in Nodes |-> NoRun]
        /\ done    = [n \in Nodes |-> {}]
        /\ ran     = {}
        /\ net     = [a \in Nodes |-> [b \in Nodes |-> <<>>]]
        /\ refused = {}
        /\ dropped = {}

EventLoop(n) == \E a \in Nodes : \/ ReceiveInitiation(a, n)
                                 \/ ForwardAux(a, n)
                                 \/ ForwardKeygen(a, n)
                                 \/ ForwardSigning(a, n)
Task(n) == \/ SendAuxMessage(n)
           \/ SendKeygenMessage(n)
           \/ SendSigningMessage(n)
           \/ FinishRun(n)
           \/ FailRun(n)
Call(n) == \E sec \in Seconds : \/ InitiateAuxGen(n, sec)
                              \/ InitiateKeygen(n, sec)
                              \/ InitiateSigning(n, sec)

Progress == \E n \in Nodes : RpcHandle(n) \/ EventLoop(n) \/ Task(n)

Next == \/ \E n \in Nodes : Call(n) \/ StoreOrchestrator(n)
        \/ Progress

Spec == Init /\ [][Next]_vars

\* RPC calls run to their end, messages are delivered and taken, tasks are
\* scheduled.  One condition for all of them is enough: only a call, which
\* nobody need ever make, gives them more to do, so that none can keep
\* another waiting for ever.
FairSpec == Spec /\ WF_vars(Progress)

----------------------------------------------------------------------------
(* Properties                                                              *)

\* Every variable has its type.
RunInitiations == {Initiation(p, sec, n) : p \in Phases, sec \in Seconds, n \in Nodes}
Results == [phase : Phases, sec : Seconds]
TypeOK ==
  /\ st \in [Nodes -> States \cup {NoOrchestrator}]
  /\ \A n \in Nodes : rpc[n] \in RunInitiations \cup {NoInitiation}
  /\ tx \in [Nodes -> SUBSET Phases]
  /\ \A n \in Nodes : run[n] # NoRun =>
       /\ run[n].phase \in tx[n]
       /\ st[n] = InProgress[run[n].phase]
       /\ run[n].round \in 0..Len(Rounds[run[n].phase])
  /\ done \in [Nodes -> SUBSET Results]
  /\ refused \subseteq Nodes \X Phases
  /\ dropped \subseteq Nodes \X Phases

\* A node that has a result has it from a run that all parties of the phase
\* ran with the same timestamp: each of the others has the result as well or
\* is in the last round of that run.
ResultMeansAllRan ==
  \A n \in Nodes : \A d \in done[n] : \A m \in Parties(d.phase) :
    \/ d \in done[m]
    \/ /\ run[m].phase = d.phase
       /\ run[m].sec = d.sec
       /\ run[m].round = Len(Rounds[d.phase])

\* Results build on each other: where a node has a key share, all nodes have
\* the aux info of one and the same run, and so on.
ResultsBuildOnOneRun ==
  \A n \in Nodes : \A d \in done[n] :
    /\ d.phase = "keygen"  => \E e \in done[n] :
         e.phase = "aux" /\ \A m \in Parties("keygen") : e \in done[m]
    /\ d.phase = "signing" => \E e \in done[n] :
         e.phase = "keygen" /\ \A m \in Parties("signing") : e \in done[m]

\* A party loses a message for lack of a channel only if it did not follow
\* the initiation: the guard an RPC call holds keeps the messages of faster
\* nodes waiting until its own run has a channel.
DropsOnlyWhatItRefused ==
  \A n \in Nodes, p \in Phases : <<n, p>> \in dropped /\ n \in Parties(p)
                                   => <<n, p>> \in refused

\* A phase that somebody initiates and that no node refuses gives every party
\* its result.
Everywhere(p) == \A m \in Parties(p) : \E d \in done[m] : d.phase = p
UnrefusedPhaseCompletes ==
  \A p \in Phases :
    (\E n \in Nodes : st[n] = InProgress[p])
      ~> (Everywhere(p) \/ \E m \in Nodes : <<m, p>> \in refused)

\* Nothing is left to do, unless somebody makes a call: no call is half-way, no
\* message can be taken and every run that goes on waits for one.
Resting ==
  /\ \A n \in Nodes : rpc[n] = NoInitiation
  /\ \A a, b \in Nodes : ~Deliverable(a, b)
  /\ \A n \in Nodes : run[n] # NoRun => /\ ~RoundComplete(n)
                                       /\ \A x \in run[n].inbox : Sound(n, x)

\* What is said of the end in UnrefusedPhaseCompletes is so whenever the nodes
\* come to rest: no run waits for a message that was lost, went to the wrong
\* party or is kept back by another, and no initiation is left over.
Begun(p) == \E n \in Nodes : \/ st[n] = InProgress[p]
                             \/ \E s \in Seconds : <<n, p, s>> \in ran
RestMeansDone ==
  Resting => \A p \in Phases : Begun(p) =>
               Everywhere(p) \/ \E m \in Nodes : <<m, p>> \in refused

\* What the code does not keep.

\* "Timeout duration for each protocol phase": a run that has begun ends, with
\* a result, an error or a time-out.
EveryRunEnds == \A n \in Nodes : (run[n] # NoRun) ~> (run[n] = NoRun)
=============================================================================
