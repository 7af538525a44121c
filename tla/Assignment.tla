----------------------------- MODULE Assignment -----------------------------
(***************************************************************************)
(* Index assignment (src/src/rpc.rs, src/src/network.rs): a node calls      *)
(* assign_peer_indices, its peers answer with acceptances, and both sides   *)
(* end up with an MPC orchestrator.                                         *)
(*                                                                         *)
(* On each node two kinds of activity share sessions, current_session_id   *)
(* and mpc_orchestrator, each under its own RwLock: any number of RPC      *)
(* calls, and the network event loop, which handles one command or one     *)
(* message at a time.  One action is what happens between two .await       *)
(* points; no guard of these locks is held across one.                     *)
(*                                                                         *)
(* Gossip is external: a published message reaches every other node that   *)
(* is subscribed, in any order, at most once, or, when Lossy, perhaps not  *)
(* at all.                                                                 *)
(***************************************************************************)
EXTENDS Naturals, Sequences, FiniteSets

CONSTANTS
  Nodes,          \* peer ids
  Callers,        \* the nodes on which assign_peer_indices is called
  Calls,          \* bound: the calls made in one run
  MaxSec,         \* bound: the clock runs from 0 to MaxSec seconds
  Lossy,          \* may gossip lose messages, and publishing fail?
  None            \* no session, no orchestrator

ASSUME ConstantsAssumption ==
  /\ IsFiniteSet(Nodes)
  /\ Callers \subseteq Nodes
  /\ MaxSec \in Nat
  /\ Lossy \in BOOLEAN

\* "{peer_id}-{seconds}"
Sids == [coord : Nodes, sec : 0..MaxSec]

VARIABLES
  now,       \* the clock, in seconds
  call,      \* call[c]: the progress of an assign_peer_indices call
  sessions,  \* sessions[n][s]: the SessionInfo of s at n, or None
  current,   \* current[n]: current_session_id
  orch,      \* orch[n]: session and assignments of the orchestrator, or None
  commands,  \* commands[n]: Broadcast commands waiting for the event loop
  loop,      \* loop[n]: where the event loop of n is in a message
  published, \* published[n]: the messages n has published
  net,       \* messages on their way, each with its receiver
  made       \* history: made[n], every orchestrator n has ever had

vars == <<now, call, sessions, current, orch, commands, loop, published, net,
          made>>

----------------------------------------------------------------------------
(* Data                                                                    *)

\* The connected peers of a node, in the order in which they were identified.
PeerLists(n) ==
  {p \in UNION {[1..k -> Nodes \ {n}] : k \in 0..(Cardinality(Nodes) - 1)} :
     \A i, j \in DOMAIN p : p[i] = p[j] => i = j}

\* Fault: the peers start at index 2.
IndexAssignmentOffByOne(n, peers) ==
  [m \in {n} \cup {peers[i] : i \in DOMAIN peers} |->
     IF m = n THEN 0 ELSE 1 + CHOOSE i \in DOMAIN peers : peers[i] = m]
\* The coordinator gets index 0, the i-th peer of the list index i.
IndexAssignment(n, peers) ==
  [m \in {n} \cup {peers[i] : i \in DOMAIN peers} |->
     IF m = n THEN 0 ELSE CHOOSE i \in DOMAIN peers : peers[i] = m]

Indices     == 0..(Cardinality(Nodes) - 1)
Assignments == UNION {[P -> Indices] : P \in SUBSET Nodes}

\* SessionInfo::new; acceptances maps peers to true, so the set of its keys
\* stands for it.
NewSession(assign) == [assign |-> assign, acc |-> {}]
SessionInfos == [assign : Assignments, acc : SUBSET Nodes]
Orchestrators == [sid : Sids, assign : Assignments]

ASSUME NoneAssumption == None \notin SessionInfos \cup Orchestrators

Participants(session) == DOMAIN session.assign

\* Fault: total_nodes - 1 taken to exclude the node itself as well.
AllAcceptedButOne(session) ==
  Cardinality(session.acc) + 2 = Cardinality(Participants(session))
\* SessionInfo::all_accepted
AllAccepted(session) ==
  Cardinality(session.acc) = Cardinality(Participants(session)) - 1

\* Fault: the request numbers the parties from 1.
RequestFromOne(s, assign) ==
  [type |-> "Request", sid |-> s, assign |-> [n \in DOMAIN assign |-> assign[n] + 1]]
Request(s, assign) == [type |-> "Request", sid |-> s, assign |-> assign]
\* The index an acceptance repeats is only logged by its receivers.
Acceptance(p, s, i) ==
  [type |-> "Acceptance", peer |-> p, sid |-> s, index |-> i]

Acceptances == [type : {"Acceptance"}, peer : Nodes, sid : Sids, index : Indices]
Messages == [type : {"Request"}, sid : Sids, assign : Assignments]
              \cup Acceptances

Known(n, s) == sessions[n][s] # None

Idle == [pc |-> "idle"]
Work(pc, s, assign) == [pc |-> pc, sid |-> s, assign |-> assign]
Works(pcs) == [pc : pcs, sid : Sids, assign : Assignments]

\* gossipsub.publish by n: one copy for every other node.
Published(n, m) == net \cup {[to |-> q, msg |-> m] : q \in Nodes \ {n}}

----------------------------------------------------------------------------
(* assign_peer_indices                                                     *)

\* The peer list is read, the indices are dealt, the session id is made from
\* the clock, and the session is inserted, over an earlier one of that id.
AssignPeerIndices(c, n, peers) ==
  LET s == [coord |-> n, sec |-> now]
      a == IndexAssignment(n, peers)
  IN  /\ call[c] = Idle
      /\ sessions' = [sessions EXCEPT ![n][s] = NewSession(a)]
      /\ call' = [call EXCEPT ![c] = Work("inserted", s, a)]
      /\ UNCHANGED <<now, current, orch, commands, loop, published, net, made>>

SetCurrent(c) ==
  LET w == call[c] IN
  /\ w.pc = "inserted"
  /\ current' = [current EXCEPT ![w.sid.coord] = w.sid]
  /\ call' = [call EXCEPT ![c] = Work("current", w.sid, w.assign)]
  /\ UNCHANGED <<now, sessions, orch, commands, loop, published, net, made>>

\* The request is queued for the event loop and the call returns.
SendRequest(c) ==
  LET w == call[c] IN
  /\ w.pc = "current"
  /\ commands' = [commands EXCEPT ![w.sid.coord] =
                    Append(@, Request(w.sid, w.assign))]
  /\ call' = [call EXCEPT ![c] = Work("done", w.sid, w.assign)]
  /\ UNCHANGED <<now, sessions, current, orch, loop, published, net, made>>

----------------------------------------------------------------------------
(* The event loop                                                          *)

\* NetworkCommand::Broadcast.  gossipsub refuses a message whose bytes it has
\* published before.  An equal request, made by another call of the same second,
\* need not have the same bytes: they follow the order of a HashMap.
Broadcast(n) ==
  LET m == Head(commands[n]) IN
  /\ loop[n] = Idle
  /\ commands[n] # <<>>
  /\ \/ net' = Published(n, m)
     \/ m \in published[n] /\ UNCHANGED net
  /\ published' = [published EXCEPT ![n] = @ \cup {m}]
  /\ commands' = [commands EXCEPT ![n] = Tail(@)]
  /\ UNCHANGED <<now, call, sessions, current, orch, loop, made>>

\* A request that lists n makes its session the current one first.
ReceiveRequest(n, m) ==
  /\ loop[n] = Idle
  /\ m.type = "Request"
  /\ [to |-> n, msg |-> m] \in net
  /\ net' = net \ {[to |-> n, msg |-> m]}
  /\ IF n \in DOMAIN m.assign
       THEN /\ current' = [current EXCEPT ![n] = m.sid]
            /\ loop' = [loop EXCEPT ![n] = Work("storeSession", m.sid, m.assign)]
       ELSE UNCHANGED <<current, loop>>
  /\ UNCHANGED <<now, call, sessions, orch, commands, published, made>>

\* Faults: the test for a known session inverted; any session known.
StoredSessionIfKnown(n, w) ==
  IF ~Known(n, w.sid) THEN sessions
  ELSE [sessions EXCEPT ![n][w.sid] = NewSession(w.assign)]
StoredSessionOnce(n, w) ==
  IF \E s \in Sids : Known(n, s) THEN sessions
  ELSE [sessions EXCEPT ![n][w.sid] = NewSession(w.assign)]
\* Then the session is stored, unless it is known.
StoredSession(n, w) ==
  IF Known(n, w.sid) THEN sessions
  ELSE [sessions EXCEPT ![n][w.sid] = NewSession(w.assign)]

\* Faults: no orchestrator is made; only a first session is accepted.
SendAcceptanceOnly(n) ==
  LET w == loop[n]
      m == Acceptance(n, w.sid, w.assign[n])
  IN
  /\ w.pc = "storeSession"
  /\ w.sid.coord # n
  /\ m \notin published[n]
  /\ sessions' = StoredSession(n, w)
  /\ net' = Published(n, m)
  /\ published' = [published EXCEPT ![n] = @ \cup {m}]
  /\ loop' = [loop EXCEPT ![n] = Idle]
  /\ UNCHANGED <<now, call, current, orch, commands, made>>
SendAcceptanceOnce(n) ==
  LET w == loop[n]
      m == Acceptance(n, w.sid, w.assign[n])
  IN
  /\ w.pc = "storeSession"
  /\ w.sid.coord # n
  /\ published[n] = {}
  /\ sessions' = StoredSession(n, w)
  /\ net' = Published(n, m)
  /\ published' = [published EXCEPT ![n] = @ \cup {m}]
  /\ loop' = [loop EXCEPT ![n] = Work("storeOrch", w.sid, w.assign)]
  /\ UNCHANGED <<now, call, current, orch, commands, made>>
\* The acceptance is published.
SendAcceptance(n) ==
  LET w == loop[n]
      m == Acceptance(n, w.sid, w.assign[n])
  IN
  /\ w.pc = "storeSession"
  /\ w.sid.coord # n
  /\ m \notin published[n]
  /\ sessions' = StoredSession(n, w)
  /\ net' = Published(n, m)
  /\ published' = [published EXCEPT ![n] = @ \cup {m}]
  /\ loop' = [loop EXCEPT ![n] = Work("storeOrch", w.sid, w.assign)]
  /\ UNCHANGED <<now, call, current, orch, commands, made>>

\* Without a published acceptance there is no orchestrator: the coordinator
\* does not accept its own assignment, and gossipsub refuses a message equal
\* to one it published before and, when Lossy, any (no subscribed peers).
NoAcceptance(n) ==
  LET w == loop[n] IN
  /\ w.pc = "storeSession"
  /\ \/ w.sid.coord = n
     \/ Acceptance(n, w.sid, w.assign[n]) \in published[n]
     \/ Lossy
  /\ sessions' = StoredSession(n, w)
  /\ loop' = [loop EXCEPT ![n] = Idle]
  /\ UNCHANGED <<now, call, current, orch, commands, published, net, made>>

\* Faults: an acceptance counts only for the current session; the last one
\* does not make the orchestrator.
ReceiveAcceptanceOfCurrent(n, m) ==
  /\ loop[n] = Idle
  /\ m.type = "Acceptance"
  /\ [to |-> n, msg |-> m] \in net
  /\ net' = net \ {[to |-> n, msg |-> m]}
  /\ IF m.sid = current[n]
       THEN LET new == [sessions[n][m.sid] EXCEPT !.acc = @ \cup {m.peer}] IN
            /\ sessions' = [sessions EXCEPT ![n][m.sid] = new]
            /\ IF AllAccepted(new)
                 THEN loop' = [loop EXCEPT ![n] =
                                 Work("storeOrch", m.sid, new.assign)]
                 ELSE UNCHANGED loop
       ELSE UNCHANGED <<sessions, loop>>
  /\ UNCHANGED <<now, call, current, orch, commands, published, made>>
ReceiveAcceptanceOnly(n, m) ==
  /\ loop[n] = Idle
  /\ m.type = "Acceptance"
  /\ [to |-> n, msg |-> m] \in net
  /\ net' = net \ {[to |-> n, msg |-> m]}
  /\ sessions' = IF Known(n, m.sid)
                   THEN [sessions EXCEPT ![n][m.sid].acc = @ \cup {m.peer}]
                   ELSE sessions
  /\ UNCHANGED <<now, call, current, orch, commands, loop, published, made>>
\* An acceptance is recorded on every node that knows the session.  The one
\* that completes it lets the orchestrator be made, from the assignments
\* that the session had then.
ReceiveAcceptance(n, m) ==
  /\ loop[n] = Idle
  /\ m.type = "Acceptance"
  /\ [to |-> n, msg |-> m] \in net
  /\ net' = net \ {[to |-> n, msg |-> m]}
  /\ IF Known(n, m.sid)
       THEN LET new == [sessions[n][m.sid] EXCEPT !.acc = @ \cup {m.peer}] IN
            /\ sessions' = [sessions EXCEPT ![n][m.sid] = new]
            /\ IF AllAccepted(new)
                 THEN loop' = [loop EXCEPT ![n] =
                                 Work("storeOrch", m.sid, new.assign)]
                 ELSE UNCHANGED loop
       ELSE UNCHANGED <<sessions, loop>>
  /\ UNCHANGED <<now, call, current, orch, commands, published, made>>

\* MPCOrchestrator::new replaces whatever orchestrator there was.
StoreOrchestrator(n) ==
  LET w == loop[n]
      o == [sid |-> w.sid, assign |-> w.assign]
  IN
  /\ w.pc = "storeOrch"
  /\ orch' = [orch EXCEPT ![n] = o]
  /\ made' = [made EXCEPT ![n] = @ \cup {o}]
  /\ loop' = [loop EXCEPT ![n] = Idle]
  /\ UNCHANGED <<now, call, sessions, current, commands, published, net>>

----------------------------------------------------------------------------
(* The environment                                                         *)

\* Only assign_peer_indices looks at the clock, so only the time between the
\* first call and the last matters.
Tick == /\ now < MaxSec
        /\ \E c, d \in Calls : call[c] # Idle /\ call[d] = Idle
        /\ now' = now + 1
        /\ UNCHANGED <<call, sessions, current, orch, commands, loop,
                       published, net, made>>

Lose(p) == /\ Lossy
           /\ p \in net
           /\ net' = net \ {p}
           /\ UNCHANGED <<now, call, sessions, current, orch, commands, loop,
                          published, made>>

Init == /\ now = 0
        /\ call = [c \in Calls |-> Idle]
        /\ sessions = [n \in Nodes |-> [s \in Sids |-> None]]
        /\ current = [n \in Nodes |-> None]
        /\ orch = [n \in Nodes |-> None]
        /\ commands = [n \in Nodes |-> <<>>]
        /\ loop = [n \in Nodes |-> Idle]
        /\ published = [n \in Nodes |-> {}]
        /\ net = {}
        /\ made = [n \in Nodes |-> {}]

CallStep(c) == SetCurrent(c) \/ SendRequest(c)

Deliver(n) == \E p \in net : /\ p.to = n
                             /\ \/ ReceiveRequest(n, p.msg)
                                \/ ReceiveAcceptance(n, p.msg)

LoopStep(n) == SendAcceptance(n) \/ NoAcceptance(n) \/ StoreOrchestrator(n)

Next == \/ \E c \in Calls, n \in Callers : \E peers \in PeerLists(n) :
             AssignPeerIndices(c, n, peers)
        \/ \E c \in Calls : CallStep(c)
        \/ \E n \in Nodes : Broadcast(n) \/ Deliver(n) \/ LoopStep(n)
        \/ Tick
        \/ \E p \in net : Lose(p)

Spec == Init /\ [][Next]_vars

\* The runtime goes on with a call that started and with the event loop; a
\* message that is not lost is delivered in the end.
Fairness ==
  /\ \A c \in Calls : WF_vars(CallStep(c))
  /\ \A n \in Nodes : WF_vars(LoopStep(n)) /\ SF_vars(Broadcast(n))
  /\ \A n \in Nodes : SF_vars(Deliver(n))

FairSpec == Spec /\ Fairness

----------------------------------------------------------------------------
(* Properties                                                              *)

Ready(n, s) == Known(n, s) /\ AllAccepted(sessions[n][s])

\* Every variable has its type; in particular party indices stay within
\* 0..n-1 on their way from the peer list to every orchestrator.
TypeOK ==
  /\ now \in 0..MaxSec
  /\ call \in [Calls -> {Idle} \cup Works({"inserted", "current", "done"})]
  /\ sessions \in [Nodes -> [Sids -> SessionInfos \cup {None}]]
  /\ current \in [Nodes -> Sids \cup {None}]
  /\ orch \in [Nodes -> Orchestrators \cup {None}]
  /\ commands \in [Nodes -> Seq(Messages)]
  /\ loop \in [Nodes -> {Idle} \cup Works({"storeSession", "storeOrch"})]
  /\ published \in [Nodes -> SUBSET Messages]
  /\ net \subseteq [to : Nodes, msg : Messages]
  /\ made \in [Nodes -> SUBSET Orchestrators]

\* get_session_status without an id reads current_session_id and then looks
\* the session up.  The lookup can only miss while the event loop is between
\* the two writes of a request that made this very session the current one;
\* an RPC call inserts its session before it becomes current.
CurrentSessionKnown ==
  \A n \in Nodes :
    current[n] # None /\ ~Known(n, current[n])
      => loop[n].pc = "storeSession" /\ loop[n].sid = current[n]

\* assign_peer_indices has made the session id s only once.  Two calls of a node
\* within a second make the same id, and the second overwrites the session of
\* the first; what is promised of a session is promised of those called once.
CalledOnce(s) ==
  \A c, d \in Calls :
    call[c] # Idle /\ call[d] # Idle /\ call[c].sid = s /\ call[d].sid = s => c = d

\* p has made an orchestrator with the indices a of session s, or is about to.
Initialised(p, s, a) == \/ [sid |-> s, assign |-> a] \in made[p]
                        \/ loop[p] = Work("storeOrch", s, a)

\* An acceptance counted anywhere was given by a participant that is not the
\* coordinator, and that participant holds the same assignment.
AcceptanceMatchesAssignment ==
  \A n \in Nodes, s \in Sids :
    Known(n, s) =>
      \A p \in sessions[n][s].acc :
        /\ p # s.coord
        /\ Known(p, s)
        /\ CalledOnce(s) => sessions[p][s].assign = sessions[n][s].assign

\* Acceptances go to everyone, yet only the coordinator ever sees them all:
\* no participant takes itself for the one who may make the orchestrator.
OnlyCoordinatorReady ==
  \A n \in Nodes, s \in Sids : CalledOnce(s) /\ Ready(n, s) => n = s.coord

\* When a session is ready, each of its participants other than the
\* coordinator has stored it and has made an orchestrator for it, with the
\* indices the coordinator dealt, or is about to make it.
ReadyMeansInitialised ==
  \A s \in Sids :
    CalledOnce(s) /\ Ready(s.coord, s) =>
      LET a == sessions[s.coord][s].assign IN
      \A p \in DOMAIN a \ {s.coord} : Known(p, s) /\ Initialised(p, s, a)

\* The indices of o were dealt by the call c for the session of o.
DealtBy(c, o) == call[c] # Idle /\ call[c].sid = o.sid /\ call[c].assign = o.assign

\* Two orchestrators of one session agree on every party index, unless two calls
\* made that session id, one with the indices of the one, one with those of the
\* other.
OrchestratorsAgree ==
  \A n, m \in Nodes :
    orch[n] # None /\ orch[m] # None /\ orch[n].sid = orch[m].sid =>
      \/ orch[n].assign = orch[m].assign
      \/ \E c, d \in Calls : c # d /\ DealtBy(c, orch[n]) /\ DealtBy(d, orch[m])

\* The state of a session as Session sees it: the indices its coordinator dealt,
\* the nodes that hold it under these, the peers the coordinator has counted, and
\* the indices of each node's orchestrator, if it is of this session.
Dealt(s)   == IF Known(s.coord, s) THEN sessions[s.coord][s].assign ELSE <<>>
Joined(s)  == {n \in Nodes : Known(n, s) /\ sessions[n][s].assign = Dealt(s)}
Counted(s) == IF Known(s.coord, s) THEN sessions[s.coord][s].acc ELSE {}
InUse(s)   == [n \in Nodes |-> IF orch[n] # None /\ orch[n].sid = s
                                 THEN orch[n].assign ELSE <<>>]

AsSession(s) == INSTANCE Session
          WITH coord   <- s.coord,   assign  <- Dealt(s), joined <- Joined(s),
               counted <- Counted(s), indices <- InUse(s)

\* Every session that some call may open is what Session promises, for as long as
\* no second call makes its id again.
Openable == {s \in Sids : s.coord \in Callers}
ImplementsSession ==
  /\ \A s \in Openable : AsSession(s)!Init
  /\ [][\/ UNCHANGED <<sessions, orch>>
        \/ \A s \in Openable :
             CalledOnce(s)' => [AsSession(s)!Next]_(AsSession(s)!vars)]_vars

\* If nothing is lost, every assignment is accepted by everyone in the end,
\* unless another call makes its session id again.
EveryAssignmentReady ==
  \A s \in Sids :
    (\E c \in Calls : call[c].pc = "done" /\ call[c].sid = s)
      ~> Ready(s.coord, s) \/ ~CalledOnce(s)

\* ... and the coordinator of a session that all its peers have accepted gets an
\* orchestrator for that session.
CoordinatorInitialised ==
  \A s \in Openable :
    Ready(s.coord, s) /\ sessions[s.coord][s].acc # {}
      ~> \E o \in made[s.coord] : o.sid = s

\* Every call has returned, and no event loop has anything to do.
Resting ==
  /\ \A c \in Calls : call[c].pc \in {"idle", "done"}
  /\ \A n \in Nodes : commands[n] = <<>> /\ loop[n] = Idle
  /\ net = {}

\* Without loss, a network that has come to rest has answered every call: each
\* session whose id was made once is ready at its coordinator, however the
\* sessions overlapped, and all who take part in it have made an orchestrator
\* with the indices of the call.
RestMeansInitialised ==
  Resting =>
    \A c \in Calls : call[c].pc = "done" /\ CalledOnce(call[c].sid) =>
      LET s == call[c].sid
          a == call[c].assign
      IN  /\ Ready(s.coord, s)
          /\ DOMAIN a # {s.coord} =>
               \A p \in DOMAIN a : [sid |-> s, assign |-> a] \in made[p]

----------------------------------------------------------------------------
(* What the README and comments say and the code does not do               *)

\* "Use this method to verify all peers are ready before starting MPC
\* computation": once the coordinator's current session is ready and its event
\* loop has finished with it, its orchestrator is the one of that session.
ReadySessionIsUsed ==
  \A n \in Nodes, s \in Sids :
    s = current[n] /\ s.coord = n /\ Ready(n, s) /\ sessions[n][s].acc # {}
      => loop[n] # Idle \/ (orch[n] # None /\ orch[n].sid = s)
=============================================================================
