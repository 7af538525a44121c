# p2p-mpc in TLA+

A formal model of p2p-mpc, a libp2p node that runs threshold-ECDSA key
generation and signing (CGGMP24) with its peers. This directory holds TLA+
modules translated from the Rust sources in `src/src/`, TLC configurations that
model-check them, and TLAPS proofs. `PROJECT.json` maps every definition to the
lines it stands for.

## 1. The system

One process is one node. It runs, on the tokio runtime,

- the **network event loop** (`network.rs`, `Network::run`): a `select!` over
  commands from the rest of the process and events of the libp2p swarm; it
  handles one of them at a time and awaits locks inline;
- the **JSON-RPC server** (`rpc.rs`): every call is a task of its own;
- the **MPC tasks** that the orchestrator spawns, one per phase;
- a metrics endpoint and tracing.

| Component | State | Operations |
|---|---|---|
| MPC orchestrator (`mpc/orchestrator.rs`) | `state`, `aux_info`, `key_share`, each under its own `RwLock`; senders to the tasks; the whole under an outer `RwLock<Option<_>>` | `handle_initiate_aux/keygen/signing`, the success and error arms of the spawned tasks, `wait_for_signature`, replacement by a new one |
| Index assignment (`rpc.rs`, `network.rs`) | `sessions`, `current_session_id`, the orchestrator slot | `assign_peer_indices`, the request and acceptance handlers, `get_session_status` |
| Peer list (`network.rs`) | `peer_list`, the `peers` counter, the `CONNECTED_PEERS` gauge | identify, connection-established and connection-closed events |
| Message routing (`network.rs`) | the `*_incoming_tx` channels, the command queue | `Send*Message` commands, the three protocol topics |
| MPC parties (`mpc/*_party.rs`) | one protocol run | run to a result or an error, in the library |
| Outer orchestrator lock (`rpc.rs`, `network.rs`) | the fair queue of the outer `RwLock` | RPC calls and the event loop asking for it, waiting, giving it back |
| Identity key (`main.rs`) | a key file | load, or generate and save |
| Prime cache (`mpc/aux_party.rs`, development builds) | a file of primes per party index | load, or generate and save |
| Configuration, metrics endpoint, tracing | none that matters here | |

Interactions. An RPC call broadcasts through the command queue of the event
loop and, for the MPC phases, then calls the orchestrator itself under the outer
write lock; a peer's event loop does the same when the message arrives. The
spawned tasks share `state`, `aux_info` and `key_share` with whoever holds the
orchestrator. Acceptances and requests travel over gossip to *every* node. The
assignment handler overwrites the orchestrator slot, running tasks or not.

What is hard: lock order between handlers and tasks; state published before its
data; blind final writes of tasks; replacement under running tasks; acceptances
of several sessions arriving in any order; lost and reordered gossip; protocol
messages that meet a node which has not started, or has refused, the phase; two
initiators at once; a call that waits a minute under a lock the event loop needs;
two steps under two locks where readers expect one; files that are written in
place by processes that may be stopped; events of several connections of one
peer. `PROJECT.json` lists the hazards at their lines with the properties that
cover them.

What makes each part correct:

- *orchestrator*: the phases follow one another as `PhaseMachine` says; a task
  finds the state its handler set; results are in place before they are
  announced; nobody waits for ever at an inner lock;
- *assignment*: every node of a session holds the same indices; a ready session
  means that everybody is in; only the coordinator draws that conclusion; each
  session goes the way of `Session`; if nothing is lost, every session becomes ready;
- *phases across nodes*: a result on one node means that every party ran the
  same run; a phase that no node refuses completes everywhere; the initiator
  never loses a message of the run it started;
- *outer lock*: every caller and the event loop get through; a call answers with
  the end of its own run, and gives up only for a cause that can be named;
- *files*: the peer id others have seen comes back after any stop; parties of one
  aux generation never share primes;
- *peer list*: no duplicates, no peer that is gone, every peer that stays.

## 2. Modules

| Module | Models | Composes |
|---|---|---|
| `Phases` | the phases and the states they start, run and end in | used by the others |
| `PhaseMachine` | what one orchestrator promises, without locks, tasks, handlers | |
| `Orchestrator` | one node's orchestrators at the granularity of `.await` | implements `PhaseMachine` |
| `OrchestratorLock` | the outer lock of one node: calls, event loop, the wait for a signature | RPC server, event loop and orchestrators of one node |
| `Session` | what assignment promises of one session, without calls, queues or a network | |
| `Assignment` | index assignment on several nodes over gossip | RPC server and event loops of all nodes; implements `Session` |
| `ProtocolRun` | the three phases on all nodes of one assignment: initiations, MPC messages, runs | nodes, each an abstraction of an `Orchestrator`, over gossip |
| `PeerList` | the peer list, counter and gauge of one node | |
| `NodeFiles` | the identity key and the cache of primes, across stops and starts | nodes that share a directory |
| `OrchestratorProofs`, `OrchestratorLockProofs`, `AssignmentProofs`, `ProtocolRunProofs`, `PeerListProofs`, `NodeFilesProofs` | theorems about the module of that name | extend it |
| `AssignmentSessionProofs` | that `Assignment` implements `Session`, and what it has done when it comes to rest | extends `AssignmentProofs` |
| `ProtocolRestProofs` | what `ProtocolRun` has done when it comes to rest | extends `ProtocolRunProofs` |
| `MCOrchestrator`, `MCOrchestratorLock`, `MCAssignment`, `MCProtocolRun`, `MCPeerList`, `MCNodeFiles` | instances for TLC | extend it |

Conventions. An action is what a task does between two points at which it may
be suspended while another actor can interfere. A lock guard that is taken and
dropped within one such step needs no variable; one that is held across an
`.await` is a function of the holder's program counter (`StateFree`,
`AuxReadable`, `AuxWritable` in `Orchestrator`). Operators introduced by
`\* Fault:` are deliberately wrong variants of the definition below them; the
specifications do not use them. They stand for mistakes the code could have
contained, and each shows that some property would notice.

### Orchestrator

| Variable | Code |
|---|---|
| `cur` | the outer `Option<MPCOrchestrator>`; generations are numbered, 0 is `None` |
| `st[g]`, `auxInfo[g]`, `keyShare[g]` | `state`, `aux_info`, `key_share` of generation `g` |
| `auxTask[g]`, `keygenTask[g]`, `signTask[g]` | where the spawned task is: `run` (the protocol), `ok`/`err` (it returned), `stored` (aux info stored, guard held), `unsaved` (keygen announced, share not stored), `done` |
| `handler` | who holds the outer write guard, and at which inner lock it is |
| `gauge` | the label of `MPC_PROTOCOL_STATE` that is 1 |

`RpcInitiate` is an RPC method up to its broadcast; `PeerMessage` the event loop
taking a coordination message. `Reject`, `HandleInitiateAux`,
`HandleInitiateKeygen`, `HandleInitiateSigning` are the handlers under the state
lock; `ReadAuxInfo` and `ReadKeyShare` their further awaits, with the early
returns that leave the state as it is. `AuxRunEnds` and its siblings are the
library returning; `AuxStore` to `SigningFail` are the arms of the spawned
tasks. `ReplaceOrchestrator` is a new assignment. Peers' messages are those
that a peer's RPC lets through; execution ids, timestamps and the contents of
aux info and key shares are abstracted. A protocol run may end either way at
any time, or never.

### OrchestratorLock

| Variable | Code |
|---|---|
| `queue`, `holders` | the outer `RwLock`: requests in tokio's order, guards given out |
| `cur`, `st[g]`, `outputs[g]` | the orchestrator in the lock, and the state and results of each |
| `run[g]` | the last MPC run of orchestrator `g`: phase, who initiated it, how far it is |
| `call[c]` | an RPC call: before the lock, between its two guards, in `wait_for_signature`, returned, with the answer |
| `loop` | the message the event loop has in hand |
| `inbox`, `commands` | messages from peers; messages of runs in the command queue |
| `unanswered` | messages of runs that are published and that the peers have not answered |
| `asked` | the bound on initiations by peers |

`BeginCall` asks for the write guard; `RefuseCall` and `Initiate` are the two ways
on from there; a signing call then drops the guard and asks for a read guard
(`AskToWait`), under which it polls (`SeeSignature`, `SeeFailure`, `TimeOut`).
`TakeMessage` is the event loop meeting the lock, `Forward`,
`HandleInitiation` and `StoreOrchestrator` what it does under it. `Grant` is the
lock: the head of the queue gets it when the guards that are out allow it, so a
reader waits behind a writer that waits. A run is reduced to one exchange with
the peers, which is enough to tell a run that can go on from one that cannot. The
peers' part (`PeersAnswer`) may never come: a peer that refused the initiation, or
has no orchestrator, takes no part in the run. A
guard is held from a grant to a release, whatever lies between.

### Assignment

| Variable | Code |
|---|---|
| `now` | the clock, in the seconds of the session id |
| `call[c]` | the progress of one `assign_peer_indices` call |
| `sessions[n][s]`, `current[n]`, `orch[n]` | `sessions`, `current_session_id`, and the session and indices of `mpc_orchestrator` on node `n` |
| `commands[n]` | broadcasts queued for the event loop |
| `loop[n]` | where the event loop is in a message |
| `published[n]` | messages published, which gossipsub refuses to publish again if the bytes are the same |
| `made[n]` | history: every orchestrator `n` has ever had |
| `net` | copies of messages on their way |

A call reads any list of other nodes as its peer list, deals the indices,
inserts the session, sets the current session and queues the request, in that
order. The event loop sets the current session, stores the session, publishes
the acceptance and stores an orchestrator; for an acceptance it counts and,
when complete, stores an orchestrator. Gossip delivers in any order, at most
once, and with `Lossy` perhaps never; with `Lossy` publishing may also fail.
gossipsub's duplicate cache is taken not to expire within a run (one minute in
the library). `peer_assignments` and `assignment_acceptances` are written and
never read; they are left out.

`Session` is the promise of all this for one session id, for as long as no second
call makes it: the coordinator deals indices from 0 on without a gap, nodes join
under these indices and no others, the coordinator counts only who has joined,
and an orchestrator is made with these indices, by the coordinator only when
everyone is counted. `AsSession(s)`
maps the indices to those stored by the coordinator (`Dealt`), the joined nodes
to those that store the session with them (`Joined`), the counted ones to the
coordinator's acceptances (`Counted`), and each node's indices to those of its
orchestrator, if that is one of session `s` (`InUse`). Counting by participants,
queues, messages and calls are steps that `Session` does not see.

### ProtocolRun

| Variable | Code |
|---|---|
| `st[n]` | `state` of `n`'s orchestrator; `NoOrchestrator` while the slot is `None` |
| `rpc[n]` | an `initiate_*` call of `n` between its broadcast and its own handling; it holds the outer write guard |
| `tx[n]` | which of `aux_incoming_tx`, `keygen_incoming_tx`, `signing_incoming_tx` are `Some` |
| `run[n]` | the spawned task's protocol run: phase, timestamp, initiator, round, messages read from its channel |
| `done[n]` | the results `n` has, with the timestamps of the runs they came from |
| `net[a][b]` | what `a` published, or queued to publish, and `b` has yet to take |
| `ran` | history: who has begun which run |
| `refused`, `dropped` | history: who did not follow an initiation; who had no channel for a message |

`StoreOrchestrator` is the end of the assignment on a node, which for the nodes in
`Late` may come after another node's initiation: a participant has its
orchestrator when it accepts, the coordinator only when all have accepted. Until
then the node drops initiations, and counts as refusing them.
`InitiateAuxGen`, `InitiateKeygen`, `InitiateSigning` are the RPC methods up to
the broadcast, `RpcHandle` their local handling, `ReceiveInitiation` the same on
a peer. `ForwardAux`, `ForwardKeygen`, `ForwardSigning` are the event loop's
three protocol topics: the p2p filter by party index, then the channel, if there
is one. `SendAuxMessage` and its siblings send the messages of a round through
the command queue. `FinishRun` and `FailRun` are the ends of a task.

A handler, and the publishing of a result, is one step here; what can come
between their parts on one node is `Orchestrator`'s subject. The protocol inside
a run is the library's: a party sends its message of a round, waits for those of
all others, and goes on; messages of another execution id or for another party
make it fail, sooner or later. Each publisher's messages arrive in order and
none is lost. With `Meshed`, a node also passes an initiation on before it
publishes what the initiation made it send; this is what gossipsub does when
every node is in every other node's mesh. Without `Meshed`,
`UnrefusedPhaseCompletes` does not hold: a message that overtakes the initiation
is dropped.

Aux generation is always told that there are three parties, so `N` is 3. The
signers asked for are `0..Quorum-1`: for any other list the party index that the
code passes is not the position in the list that the library asks for.

### PeerList

`conns`, `events` and `identified` are the environment: open connections per
peer, swarm events in order, and (history) the peers whose identify event was
handled since they last had no connection. `peerList`, `counter`, `gauge` are
the code's state; `loop` is the peer between the test of the list and the push.

### NodeFiles

| Variable | Code |
|---|---|
| `pc[n]`, `id[n]` | how far `main` is in loading or making the identity key; the key in memory |
| `keyFile[n]`, `cache[i]` | the key file of a node; the file of primes of a party index. Nothing, a part (created or truncated, and not written), or whole |
| `aux[n]` | `AuxParty::generate_aux_info` on `n`: generation, party index, primes |
| `keys[n]`, `primes` | how many were generated: each one is new |
| `seen`, `refused`, `unread` | history: peer ids others saw; nodes that did not start; key files there and not readable |

`fs::write` is two steps, `OpenKeyFile` and `WriteKeyFile` for the key,
`OpenPrimesFile` and `WritePrimesFile` for primes. `Stop` may come between any
two and leaves the files. A key file that does not decode stops the start; any
error of the *read* makes a new key (`main.rs`:51), and so may replace a key that
was there. Primes that cannot be read are made again, and a save that fails is
only logged. The indices of one aux generation differ (`IndicesAgree` of
`AssignmentProofs`); nodes of other generations may share the directory.

## 3. Runs

Passing runs:

| Run | Instance | Shows |
|---|---|---|
| `Orchestrator` | 2 generations | all safety properties, refinement and liveness of `Orchestrator`; which handlers leave a phase without a task |
| `AssignmentSafety` | 3 nodes, one coordinator, 2 calls in one second or two, lossy | refinement of `Session`, agreement and readiness with overlapping sessions of one coordinator, with two ids or with one |
| `AssignmentTwoCallers` | 2 nodes, both coordinators, 2 calls in one second or two, lossless | that assignments complete and coordinators get an orchestrator, with overlapping coordinators; what a network that has come to rest has done |
| `OrchestratorLock` | 2 calls, 2 orchestrators, one initiation by a peer, peers that may not answer | no wait at the lock lasts for ever; whose end a signing call reports; what can make it time out |
| `ProtocolRun` | 3 nodes, 2 signers, two callers of aux generation, one node late with its orchestrator, 2 timestamps, rounds of both kinds | what results mean across nodes, no loss without refusal, completion of phases nobody refuses, and nothing left undone at rest |
| `NodeFiles` | 2 nodes, 2 party indices, 2 aux generations, 2 keys, 3 sets of primes | identity and primes across stops at any point, with read errors |
| `PeerList` | 2 peers, 2 connections each, 4 pending events | list, counter, eventual listing |

Runs that find a violation, each of a sentence of the documentation, a comment
or a message of the source (`findings` in `PROJECT.json`):

| Run | What happens |
|---|---|
| `MissingShare` | signing requested right after `KeygenCompleted` fails: the share is not stored yet |
| `LateAcceptance` | a late acceptance of an older session replaces the orchestrator of a ready one |
| `RunWithoutEnd` | a slow node refuses the next phase's initiation; the other parties wait for ever |
| `SignatureWait` | a signing call waits under a read guard; an initiation queues for the write guard, the event loop stops behind it, and with it the messages the signature needs |
| `ConnectedPeerUnlisted` | closing one of two connections unlists a connected peer |

Other limits of the code that the models have, and that the properties above leave
room for, in words:

- keygen requested in `Idle` sets the state `Keygen` and then fails for lack of aux
  info; nothing is in progress and nothing leaves the state. A node that is not a
  signer enters `Signing` and stays there in the same way, and so does one that is
  asked to sign before its key share is stored. `WorkerLostOnlyByHandler` says
  that these three are all;
- two calls of one node within a second make one session id, against the comment
  "Generate unique session ID" (`rpc.rs`:311), and the second overwrites the session
  of the first. The runs and the theorems include it: `OrchestratorsAgree` says
  that nodes whose orchestrators are of one session id hold the same indices
  *unless* two calls made the id, and the other properties are about session ids
  made once (`CalledOnce`);
- two nodes that initiate a phase at once run it under two execution ids if
  their timestamps differ, and neither run completes (`ResultMeansAllRan` says
  that then nobody has a result);
- a signing call reports the end of another run if the orchestrator is replaced
  between its two guards (`AnswerIsOwn` is about calls that find the same one);
- a read error of the identity key that is not "not found" replaces the key
  (`unread` in `NodeFiles`).

Bounds. *Two generations*: orchestrators share only `cur`, `handler` and
`gauge`, so two show every interference; the proofs are for any number. *Three
nodes*: the least number with two acceptances to wait for, in which a
participant sees an acceptance that is not its own; *two calls*: the least that
overlap, where a late acceptance meets a newer session. *Two connections per
peer*: both sides dial; more add nothing that a second does not. *Four pending
events*: the close of one connection can overtake the identify of another.
*Rounds*: one or two per phase with both kinds of message,
since every later round waits in the same way. *Two timestamps, two callers of
aux generation*: initiators that agree and that do not; one caller of the later
phases, which needs no rival to meet a slow node. *Two calls at
the outer lock* with one initiation and one replacement: every pair of a waiting
reader and a writer of each kind (call, initiation, assignment); the safety
properties are proved for any number. *Two keys, three sets of primes*: a node
that loses its key and makes another; two parties of one generation and a third
set left by another generation. `MaxSec` 1: calls in the same second and in different ones.

Symmetry: calls, and nodes that are never called, are interchangeable in
`AssignmentSafety`, and nodes and party indices in `NodeFiles`; neither checks
liveness. `CHECK_DEADLOCK FALSE` where the
system may stop: no more orchestrators and all tasks done; all calls made and
all messages delivered; all phases over or stuck; all calls returned and nothing
left to handle. `PeerList` and `NodeFiles` are checked for deadlock.

Fairness. `Orchestrator`: weak fairness of a handler and of each task's steps
after its protocol run: the runtime schedules them, and tokio's `RwLock` queue
is first in, first out, so a waiting writer is not overtaken for ever. The end
of a protocol run, messages and calls are not fair. `Assignment`: weak fairness
of a call in progress and of the event loop in the middle of a message, strong
fairness of taking a command and of receiving a message, because `select!`
chooses at random among the ready branches. `OrchestratorLock`: weak fairness of
`Grant` (tokio wakes who is next), of a call that has the lock or is to ask for
it, of the event loop with a guard in hand, and of the tasks; the `TimeOut` step
is part of a call, because a minute passes. Taking a message, and everything
peers do, is not fair: calls return and the event loop comes back although peers
never answer, and `TimeoutHasCause` names peers that have not answered as a cause.
`ProtocolRun`: weak fairness of everything but calls and `StoreOrchestrator`; every
message is delivered once and each run has finitely many rounds, so one
condition for all nodes says that each gets through. `PeerList`: weak fairness of the
event loop, strong fairness of identification: identify repeats on every open
connection.

## 4. Proofs

Every theorem is for all values of the constants that satisfy the assumptions of
its module. Each module's argument is the same: an inductive invariant `IInv`,
one lemma for the initial state and one for a step, with a part for each action,
and theorems that follow from `IInv`. TLC checked each `IInv` on the instances of
section 3 first.

| Module | Proved | Assumed |
|---|---|---|
| `OrchestratorProofs` | types, every safety property of the run, refinement of `PhaseMachine`; also `GaugeFollowsLoneGeneration` | `MaxGen \in Nat` |
| `OrchestratorLockProofs` | types and places at the lock, `AnswerIsOwn`, `TimeoutHasCause`; also `NoDeadlockAtLock` | `LockAssumption` |
| `AssignmentProofs` | types and every other safety invariant of `AssignmentSafety`; also `AcceptanceMatchesAssignment` | `ConstantsAssumption`, `NoneAssumption` |
| `AssignmentSessionProofs` | `ImplementsSession`; with `~Lossy`, `RestMeansInitialised` | `ConstantsAssumption`, `NoneAssumption` |
| `ProtocolRunProofs` | types, `ResultMeansAllRan`, `ResultsBuildOnOneRun`, and, with `Meshed`, `DropsOnlyWhatItRefused` | `ProtocolRunAssumption` (`N = 3`) |
| `ProtocolRestProofs` | with `Meshed`, `RestMeansDone` | `ProtocolRunAssumption` |
| `PeerListProofs` | every safety property of the run | `PeerListAssumption` |
| `NodeFilesProofs` | every property of the run | `FilesAssumption` |

**Orchestrator.** The properties are not inductive on their own. That the aux task and a handler
never wait for each other (`NoLockCycle`), for instance, rests on the handler
having found a state that excludes a running aux task, on that state still
being the same, and on the task not having moved it. `IInv` therefore adds, for
each generation (`GenerationInv`), which tasks and outputs go with which state,
and, for the handler (`HandlerInv`), what it has done when it waits. TLC checks
`IInv` easily (2 and 3 generations); `InitIInv` and `StepIInv` show that it is
inductive, with one step per action; the theorems follow from it one by one.
`Refinement` maps the phase to `st[g]`, the key to `keyShare[g]`, and the aux
info to `auxInfo[g]` once the aux task has dropped its guard, since nobody can
read it earlier; every step is a step of `PhaseMachine` for the generation it
touches and a stutter for the others.

**OrchestratorLock.** That a signing call reports its own run although it looks
under another guard is `WaitInv`: the orchestrator the call started its run in
still has that run as its last one, since a signing run leaves it in a state
(`SigningCompleted` or `Failed`) that no phase starts from. `TimeoutHasCause`
needs to know where the message of a run is (`MessageInv`: queued, at the peers, on
its way or in the event loop's hand), who can be at the lock (`PlaceInv`) and that a queue
without writers behind readers is granted (`LockOK`). `LockOK` and `PlaceInv` also
give `NoDeadlockAtLock`: an actor that holds a guard has a step to take that needs
nobody else, and a lock without guards is granted; when all that comes to an end,
every call has returned.

**Assignment.** `KInv`: the current session is stored, or about to be. `AgreeInv`:
every copy of an assignment (in a queue, on its way, stored, in an orchestrator
now or earlier) was dealt by some call for that session id; if the id was made
once (`CalledOnce`), that is one assignment. `MemberInv`: who stores a session is
in it. `AcceptInv`: an acceptance on its way or counted, never by its own sender,
comes from a node that has stored the session and has made an orchestrator for it
or is about to. None of this needs the ids to be unique. That only the coordinator
sees a session complete is then counting: it needs one acceptance of each other
participant, and nobody hears its own. That orchestrators of one session agree
unless two calls made its id (`IndicesAgree`) is `AgreeInv` for two nodes: each
has the indices of a call, and it is the same call or another.

*A session is what `Session` says* (`SessionRefinement`). Most of `IInv` is what
the mapping needs: by `AgreeInv` whoever knows a session whose id was made once
knows it under the coordinator's indices, so that storing it is `Join`; by `AcceptInv` an acceptance
that is counted comes from a node that has joined, so that counting is `Count`.
The steps where the event loop awaits the orchestrator's lock need `StoreInv` as
well: whoever is about to store an orchestrator still knows the session, and the
coordinator has counted everyone, although the test was made on an earlier state
of it. `IndicesDealt` is the fact about the enumeration of the peer list: without
repetitions, each peer gets its own index, and none is left out.

*At rest* (`RestIsInitialised`, if nothing is lost). Resting spells out that no
fair action is enabled, so this is the safety part of `EveryAssignmentReady` and
`CoordinatorInitialised`. `AskedInv` follows the request of each session id made once to each peer it names:
it is queued at the coordinator, on its way, in the event loop's hand, or the
answer comes; the answer is on its way to the coordinator or counted there
(`AnswerComes`). A node may have nothing to answer with because gossipsub refuses
a second equal message; `PublishedInv` says that then the first one comes.
`CoordinatorInv` is about the last acceptance: the step that counts it leads
the event loop to the orchestrator. At rest nothing is queued, on its way or in
hand, so everyone is counted.

**ProtocolRun.** `RanInv`: a node begins a phase once, with one timestamp, and has
the results it builds on. `ResultInv` says of every message, on its way or read,
and of every result, that the party it came from had come that far (`Reached`)
with that timestamp, or that somebody runs the phase with another timestamp (a
`Clash`, which lets a run fail). A result implies all parties with one timestamp,
and that excludes a clash, so what was reached is still so. `InitiationInv`
says that a node that has not handled an initiation has it coming; a message of
a run therefore finds a node that began the run, refused it, or has the
initiation before the message.

*At rest* (`RestIsDone`). Resting again says that no fair action can be
taken; this is the safety part of `UnrefusedPhaseCompletes`. First, every queue
is empty: `OrderInv` says that an initiation comes after messages of earlier
phases only, so what holds back the head of a queue is the initiation of an
earlier phase than the head's, in another queue whose own head is of an earlier
phase still; the earliest head can be taken. Second, nobody has an initiation
pending, so all have answered the one that began the phase (`BegunInv`), and, if
none refused, all began it, with its timestamp. Third, `DeliveryInv` follows each message
of each round: once its sender has come that far, it is on its way, read,
or its receiver has refused the phase, or there is a clash. Of the runs that go on,
one that is in the earliest round of all has what it waits for, which is a
contradiction; so all have a result.

**PeerList.** `GoneAnnounced` says when a peer without connections may still be
listed, about to be, or the subject of a pending identify event: when the end of
a connection of it is announced later. The other properties need that
`Without` (`retain` in the code) takes one entry out of a list without repetitions
and keeps the others (`WithoutOne`), which is shown by induction on the prefixes of the list. The
library's induction theorems cannot be instantiated here; `SetInduction` states
induction for a *set* of naturals and follows from `WFMin`, and `KeepsExists` uses
it to show that the recursion in `Without` has a solution.

**NodeFiles.** `KeyInv`: whoever was seen has the one key it was seen under whole
on disk and is not writing; a node that refused to start was not seen. `PrimesInv`:
a set of primes belongs to one party index, in files and in use.

Only model-checked: liveness, which is beyond the prover (`AuxResultPublished`,
`HandlerReturns`, `KeyShareSoonThere`, `EveryAssignmentReady`,
`CoordinatorInitialised`, `EveryCallReturns`, `LoopComesBack`,
`UnrefusedPhaseCompletes`, `ConnectedListed`). Of `EveryAssignmentReady`,
`CoordinatorInitialised` and `UnrefusedPhaseCompletes` the proofs have what is
not about fairness: that the system cannot come to rest before they hold.
`NoDeadlockAtLock` is that for `EveryCallReturns` and `LoopComesBack`, `NoLockCycle`
for `HandlerReturns`. What TLC alone shows is that the system does come to rest.
`Resting` (`Assignment`, `ProtocolRun`) and `Stalled` (`OrchestratorLock`) spell out that
the fair actions are disabled, because `ENABLED` is beyond the prover too.

Three properties are proved and not run: `NoDeadlockAtLock`, which
the liveness properties of `OrchestratorLock` imply; `AcceptanceMatchesAssignment`, of
which `ImplementsSession` says what concerns the coordinator, and
`GaugeFollowsLoneGeneration`.

## 5. Not modelled

The cryptography (the library), configuration, tracing, counters and histograms, Kademlia, ping and
listen-address events, `crypto.rs` (commented out as a whole), the in-process
test network. Commands `Subscribe`, `Unsubscribe` and `Dial` are never sent, and
`abort_protocol`, `monitor_timeouts` and the `handle_*_completed` functions are
stubs or never called. Of the library's requirements, what it does with three
parties told and another number present, or with an index that is not the
position among the signers, is not in this repository; `ProtocolRun` takes `N = 3`
and the signers `0..Quorum-1`.

## 6. What could follow

- A new assignment in `ProtocolRun`: messages of runs of a replaced orchestrator
  that reach the channels of the new one. `OrchestratorLock` has this for one
  node, without the contents of messages.
- Refinement from `ProtocolRun` to an abstract "one run of a phase" with the
  parties' results, for one initiator per phase.
