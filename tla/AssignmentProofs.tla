-------------------------- MODULE AssignmentProofs --------------------------
(* Proofs about Assignment, for any nodes, callers, number of calls and      *)
(* clock.                                                                   *)
EXTENDS Assignment, FiniteSetTheorems, SequenceTheorems, TLAPS

----------------------------------------------------------------------------
(* The inductive invariants                                                 *)

\* A call has inserted its session, so a current session is known.
CurrentInv ==
  /\ \A c \in Calls : call[c] # Idle => Known(call[c].sid.coord, call[c].sid)
  /\ CurrentSessionKnown

\* The event loop accepts only an assignment of which the node is part.
ListedInv ==
  \A n \in Nodes : loop[n].pc = "storeSession" => n \in DOMAIN loop[n].assign

KInv == TypeOK /\ CurrentInv /\ ListedInv

\* a is what some call dealt for the session s.
Assigned(s, a) ==
  \E c \in Calls : call[c] # Idle /\ call[c].sid = s /\ call[c].assign = a

\* Wherever a session turns up, its assignment was dealt by a call.
AgreeInv ==
  /\ \A n \in Nodes : \A i \in DOMAIN commands[n] :
       /\ commands[n][i].type = "Request"
       /\ commands[n][i].sid.coord = n
       /\ Assigned(commands[n][i].sid, commands[n][i].assign)
  /\ \A p \in net : p.msg.type = "Request" =>
       /\ p.to # p.msg.sid.coord
       /\ Assigned(p.msg.sid, p.msg.assign)
  /\ \A n \in Nodes : loop[n] # Idle => Assigned(loop[n].sid, loop[n].assign)
  /\ \A n \in Nodes, s \in Sids :
       Known(n, s) => Assigned(s, sessions[n][s].assign)
  /\ \A n \in Nodes : orch[n] # None => Assigned(orch[n].sid, orch[n].assign)
  /\ \A n \in Nodes : \A o \in made[n] : Assigned(o.sid, o.assign)

\* Who knows a session takes part in it, and so does its coordinator.
MemberInv ==
  /\ \A n \in Nodes, s \in Sids :
       Known(n, s) => n \in Participants(sessions[n][s])
  /\ \A n \in Nodes : loop[n].pc = "storeSession" => n # loop[n].sid.coord

\* n has made an orchestrator for s or is about to store one.
Began(n, s) == \/ \E o \in made[n] : o.sid = s
               \/ loop[n].pc = "storeOrch" /\ loop[n].sid = s

\* p accepted s: it is not the coordinator, knows s, and has an orchestrator
\* for s or is about to store one.
Accepted(p, s) == /\ p \in Nodes /\ p # s.coord
                  /\ Known(p, s)
                  /\ Began(p, s)
AcceptInv ==
  /\ \A p \in net : p.msg.type = "Acceptance" =>
       p.to # p.msg.peer /\ Accepted(p.msg.peer, p.msg.sid)
  /\ \A n \in Nodes, s \in Sids : Known(n, s) =>
       \A p \in sessions[n][s].acc : p # n /\ Accepted(p, s)

IInv == KInv /\ AgreeInv /\ MemberInv /\ AcceptInv

----------------------------------------------------------------------------
(* Types                                                                    *)

\* The indices a node deals make an assignment of which it is part itself.
LEMMA IndexAssignmentType ==
  ASSUME NEW n \in Nodes, NEW peers \in PeerLists(n)
  PROVE  IndexAssignment(n, peers) \in Assignments /\ n \in DOMAIN IndexAssignment(n, peers)
<1> DEFINE S == {n} \cup {peers[i] : i \in DOMAIN peers}
<1>1. Cardinality(Nodes) \in Nat /\ Cardinality(Nodes) # 0
  BY ConstantsAssumption, FS_CardinalityType, FS_EmptySet
<1>2. PICK k \in 0..(Cardinality(Nodes) - 1) : peers \in [1..k -> Nodes \ {n}]
  BY DEF PeerLists
<1>3. S \subseteq Nodes
  BY <1>2
<1>4. ASSUME NEW m \in S, m # n
      PROVE  (CHOOSE i \in DOMAIN peers : peers[i] = m) \in 1..k
  BY <1>2, <1>4
<1>5. IndexAssignment(n, peers) \in [S -> Indices]
  BY <1>1, <1>4 DEF IndexAssignment, Indices
<1>. QED
  BY <1>3, <1>5 DEF Assignments

\* A new session is one, and known.
LEMMA NewSessionType ==
  ASSUME NEW a \in Assignments
  PROVE  /\ NewSession(a) \in SessionInfos /\ NewSession(a) # None
         /\ NewSession(a).assign = a /\ NewSession(a).acc = {}
BY NoneAssumption DEF NewSession, SessionInfos

\* What a call or the event loop works on.
CallPcs == {"inserted", "current", "done"}
LoopPcs == {"storeSession", "storeOrch"}
LEMMA WorkType ==
  ASSUME NEW s \in Sids, NEW a \in Assignments
  PROVE  /\ \A pc \in CallPcs : Work(pc, s, a) \in Works(CallPcs) /\ Work(pc, s, a) # Idle
         /\ \A pc \in LoopPcs : Work(pc, s, a) \in Works(LoopPcs) /\ Work(pc, s, a) # Idle
BY DEF Work, Works, Idle, CallPcs, LoopPcs

\* The fields of such work.
LEMMA WorkFields ==
  \A pc, s, a : /\ Work(pc, s, a).pc = pc
                /\ Work(pc, s, a).sid = s
                /\ Work(pc, s, a).assign = a
BY DEF Work

\* Whoever is not idle works on a session.
LEMMA WorkGiven ==
  ASSUME TypeOK
  PROVE  /\ \A c \in Calls : call[c] # Idle =>
              call[c].sid \in Sids /\ call[c].assign \in Assignments
         /\ \A n \in Nodes : loop[n] # Idle =>
              /\ loop[n].pc \in LoopPcs
              /\ loop[n].sid \in Sids /\ loop[n].assign \in Assignments
BY DEF TypeOK, Works, Idle, LoopPcs

\* Sessions after an event loop has stored w's.
LEMMA StoredSessionType ==
  ASSUME TypeOK, NEW n \in Nodes, NEW w, w.sid \in Sids, w.assign \in Assignments
  PROVE  /\ StoredSession(n, w) \in [Nodes -> [Sids -> SessionInfos \cup {None}]]
         /\ StoredSession(n, w)[n][w.sid] # None
         /\ \A m \in Nodes, s \in Sids :
              StoredSession(n, w)[m][s] =
                IF m = n /\ s = w.sid /\ ~Known(n, s)
                  THEN NewSession(w.assign) ELSE sessions[m][s]
BY NewSessionType DEF StoredSession, TypeOK, Known

\* A published message has types.
LEMMA PublishedType ==
  ASSUME TypeOK, NEW n \in Nodes, NEW m \in Messages
  PROVE  Published(n, m) \subseteq [to : Nodes, msg : Messages]
BY DEF TypeOK, Published

\* A node starts without sessions.
LEMMA InitKInv == Init => KInv
<1> SUFFICES ASSUME Init PROVE KInv
  OBVIOUS
<1>1. TypeOK
  BY ConstantsAssumption DEF Init, TypeOK
<1>2. CurrentInv
  BY DEF Init, CurrentInv, CurrentSessionKnown
<1>3. ListedInv
  BY DEF Init, ListedInv, Idle
<1>. QED
  BY <1>1, <1>2, <1>3 DEF KInv

\* Every step keeps the types.
LEMMA TypeStep == KInv /\ [Next]_vars => TypeOK'
<1> SUFFICES ASSUME KInv, [Next]_vars PROVE TypeOK'
  OBVIOUS
<1> USE ConstantsAssumption
<1>0. TypeOK
  BY DEF KInv
<1>1. ASSUME NEW c \in Calls, NEW n \in Callers, NEW peers \in PeerLists(n),
             AssignPeerIndices(c, n, peers)
      PROVE  TypeOK'
  <2> DEFINE s == [coord |-> n, sec |-> now]
             a == IndexAssignment(n, peers)
  <2>1. s \in Sids /\ a \in Assignments /\ n \in Nodes
    BY <1>0, IndexAssignmentType DEF TypeOK, Sids
  <2>2. Work("inserted", s, a) \in Works(CallPcs)
    BY <2>1, WorkType DEF CallPcs
  <2>3. sessions' \in [Nodes -> [Sids -> SessionInfos \cup {None}]]
    <3>1. sessions' = [sessions EXCEPT ![n][s] = NewSession(a)]
      BY <1>1 DEF AssignPeerIndices
    <3>. QED
      BY <1>0, <2>1, <3>1, NewSessionType DEF TypeOK
  <2>. QED
    BY <1>0, <1>1, <2>1, <2>2, <2>3 DEF AssignPeerIndices, TypeOK, CallPcs
<1>2. ASSUME NEW c \in Calls, SetCurrent(c) PROVE TypeOK'
  <2>1. call[c].sid \in Sids /\ call[c].assign \in Assignments
    BY <1>0, <1>2, WorkGiven DEF SetCurrent, Idle
  <2>2. Work("current", call[c].sid, call[c].assign) \in Works(CallPcs)
    BY <2>1, WorkType DEF CallPcs
  <2>. QED
    BY <1>0, <1>2, <2>1, <2>2 DEF SetCurrent, TypeOK, CallPcs
<1>3. ASSUME NEW c \in Calls, SendRequest(c) PROVE TypeOK'
  <2>1. call[c].sid \in Sids /\ call[c].assign \in Assignments
    BY <1>0, <1>3, WorkGiven DEF SendRequest, Idle
  <2>2. Work("done", call[c].sid, call[c].assign) \in Works(CallPcs)
    BY <2>1, WorkType DEF CallPcs
  <2>3. Request(call[c].sid, call[c].assign) \in Messages
    BY <2>1 DEF Request, Messages
  <2>4. call[c].sid.coord \in Nodes
    BY <2>1 DEF Sids
  <2>5. commands' \in [Nodes -> Seq(Messages)]
    BY <1>0, <1>3, <2>3, <2>4, AppendProperties DEF SendRequest, TypeOK
  <2>. QED
    BY <1>0, <1>3, <2>1, <2>2, <2>5 DEF SendRequest, TypeOK, CallPcs
<1>4. ASSUME NEW n \in Nodes, Broadcast(n) PROVE TypeOK'
  <2>1. Head(commands[n]) \in Messages /\ Tail(commands[n]) \in Seq(Messages)
    BY <1>0, <1>4, HeadTailProperties DEF Broadcast, TypeOK
  <2>2. net' \subseteq [to : Nodes, msg : Messages]
    BY <1>0, <1>4, <2>1, PublishedType DEF Broadcast, TypeOK
  <2>3. published' \in [Nodes -> SUBSET Messages]
    BY <1>0, <1>4, <2>1 DEF Broadcast, TypeOK
  <2>. QED
    BY <1>0, <1>4, <2>1, <2>2, <2>3 DEF Broadcast, TypeOK
<1>5. ASSUME NEW n \in Nodes, NEW p \in net, ReceiveRequest(n, p.msg) PROVE TypeOK'
  <2>1. p.msg.sid \in Sids /\ p.msg.assign \in Assignments
    BY <1>0, <1>5 DEF ReceiveRequest, TypeOK, Messages, Acceptances
  <2>2. Work("storeSession", p.msg.sid, p.msg.assign) \in Works(LoopPcs)
    BY <2>1, WorkType DEF LoopPcs
  <2>3. loop' \in [Nodes -> {Idle} \cup Works(LoopPcs)]
    BY <1>0, <1>5, <2>2 DEF ReceiveRequest, TypeOK, LoopPcs
  <2>4. current' \in [Nodes -> Sids \cup {None}]
    BY <1>0, <1>5, <2>1 DEF ReceiveRequest, TypeOK
  <2>5. net' \subseteq net /\ UNCHANGED <<now, call, sessions, orch, commands, published, made>>
    BY <1>5 DEF ReceiveRequest
  <2>. QED
    BY <1>0, <2>3, <2>4, <2>5 DEF TypeOK, LoopPcs
<1>6. ASSUME NEW n \in Nodes, SendAcceptance(n) PROVE TypeOK'
  <2> DEFINE w == loop[n]
             m == Acceptance(n, w.sid, w.assign[n])
  <2>1. w.sid \in Sids /\ w.assign \in Assignments /\ n \in DOMAIN w.assign
    BY <1>0, <1>6, WorkGiven DEF SendAcceptance, Idle, KInv, ListedInv
  <2>2. Work("storeOrch", w.sid, w.assign) \in Works(LoopPcs)
    BY <2>1, WorkType DEF LoopPcs
  <2>3. w.assign[n] \in Indices
    BY <2>1 DEF Assignments
  <2>4. m \in Acceptances /\ m \in Messages
    BY <2>1, <2>3 DEF Acceptance, Acceptances, Messages
  <2>5. net' \subseteq [to : Nodes, msg : Messages]
    BY <1>0, <1>6, <2>4, PublishedType DEF SendAcceptance
  <2>6. sessions' \in [Nodes -> [Sids -> SessionInfos \cup {None}]]
    BY <1>0, <1>6, <2>1, StoredSessionType DEF SendAcceptance
  <2>7. published' \in [Nodes -> SUBSET Messages]
    BY <1>0, <1>6, <2>4 DEF SendAcceptance, TypeOK
  <2>8. loop' \in [Nodes -> {Idle} \cup Works(LoopPcs)]
    BY <1>0, <1>6, <2>2 DEF SendAcceptance, TypeOK, LoopPcs
  <2>9. UNCHANGED <<now, call, current, orch, commands, made>>
    BY <1>6 DEF SendAcceptance
  <2>. QED
    BY <1>0, <2>5, <2>6, <2>7, <2>8, <2>9 DEF TypeOK, LoopPcs
<1>7. ASSUME NEW n \in Nodes, NoAcceptance(n) PROVE TypeOK'
  <2>1. loop[n].sid \in Sids /\ loop[n].assign \in Assignments
    BY <1>0, <1>7, WorkGiven DEF NoAcceptance, Idle
  <2>2. sessions' \in [Nodes -> [Sids -> SessionInfos \cup {None}]]
    BY <1>0, <1>7, <2>1, StoredSessionType DEF NoAcceptance
  <2>. QED
    BY <1>0, <1>7, <2>2 DEF NoAcceptance, TypeOK
<1>8. ASSUME NEW n \in Nodes, NEW p \in net, ReceiveAcceptance(n, p.msg)
      PROVE  TypeOK'
  <2> DEFINE m == p.msg
             new == [sessions[n][m.sid] EXCEPT !.acc = @ \cup {m.peer}]
  <2>1. m.sid \in Sids /\ m.peer \in Nodes
    BY <1>0, <1>8 DEF ReceiveAcceptance, TypeOK, Messages, Acceptances
  <2>2. CASE Known(n, m.sid)
    <3>1. sessions[n][m.sid] \in SessionInfos
      BY <1>0, <2>1, <2>2 DEF TypeOK, Known
    <3>2. new \in SessionInfos /\ new.assign \in Assignments
      BY <2>1, <3>1 DEF SessionInfos
    <3>3. sessions' = [sessions EXCEPT ![n][m.sid] = new]
      BY <1>8, <2>2 DEF ReceiveAcceptance
    <3>4. sessions' \in [Nodes -> [Sids -> SessionInfos \cup {None}]]
      BY <1>0, <2>1, <3>2, <3>3 DEF TypeOK
    <3>5. Work("storeOrch", m.sid, new.assign) \in Works(LoopPcs)
      BY <2>1, <3>2, WorkType DEF LoopPcs
    <3>6. loop' \in [Nodes -> {Idle} \cup Works(LoopPcs)]
      BY <1>0, <1>8, <2>2, <3>5, ZenonT(30) DEF ReceiveAcceptance, TypeOK, LoopPcs
    <3>. QED
      BY <1>0, <1>8, <3>4, <3>6 DEF ReceiveAcceptance, TypeOK, LoopPcs
  <2>3. CASE ~Known(n, m.sid)
    BY <1>0, <1>8, <2>3 DEF ReceiveAcceptance, TypeOK
  <2>. QED
    BY <2>2, <2>3
<1>9. ASSUME NEW n \in Nodes, StoreOrchestrator(n) PROVE TypeOK'
  <2>1. loop[n].sid \in Sids /\ loop[n].assign \in Assignments
    BY <1>0, <1>9, WorkGiven DEF StoreOrchestrator, Idle
  <2>2. [sid |-> loop[n].sid, assign |-> loop[n].assign] \in Orchestrators
    BY <2>1 DEF Orchestrators
  <2>. QED
    BY <1>0, <1>9, <2>2 DEF StoreOrchestrator, TypeOK
<1>10. CASE Tick
  BY <1>0, <1>10 DEF Tick, TypeOK
<1>11. ASSUME NEW p \in net, Lose(p) PROVE TypeOK'
  BY <1>0, <1>11 DEF Lose, TypeOK
<1>12. CASE UNCHANGED vars
  BY <1>0, <1>12 DEF vars, TypeOK
<1>. QED
  BY <1>1, <1>2, <1>3, <1>4, <1>5, <1>6, <1>7, <1>8, <1>9, <1>10, <1>11, <1>12
  DEF Next, CallStep, Deliver, LoopStep

----------------------------------------------------------------------------
(* What a step does to the sessions                                         *)

\* A session that is known stays known.
LEMMA KnownStep ==
  ASSUME KInv, [Next]_vars
  PROVE  \A n \in Nodes, s \in Sids : Known(n, s) => Known(n, s)'
<1> USE ConstantsAssumption
<1>0. TypeOK
  BY DEF KInv
<1>1. ASSUME NEW c \in Calls, NEW n \in Callers, NEW peers \in PeerLists(n),
             AssignPeerIndices(c, n, peers)
      PROVE  \A m \in Nodes, s \in Sids : Known(m, s) => Known(m, s)'
  <2> DEFINE t == [coord |-> n, sec |-> now]
             a == IndexAssignment(n, peers)
  <2>1. NewSession(a) # None
    BY <1>0, IndexAssignmentType, NewSessionType
  <2>2. sessions' = [sessions EXCEPT ![n][t] = NewSession(a)]
    BY <1>1 DEF AssignPeerIndices
  <2>. QED
    BY <1>0, <2>1, <2>2 DEF Known, TypeOK
<1>2. ASSUME NEW n \in Nodes, SendAcceptance(n) \/ NoAcceptance(n)
      PROVE  \A m \in Nodes, s \in Sids : Known(m, s) => Known(m, s)'
  <2>1. loop[n].sid \in Sids /\ loop[n].assign \in Assignments
    BY <1>0, <1>2, WorkGiven DEF SendAcceptance, NoAcceptance, Idle
  <2>2. sessions' = StoredSession(n, loop[n])
    BY <1>2 DEF SendAcceptance, NoAcceptance
  <2>. QED
    BY <1>0, <2>1, <2>2, StoredSessionType, NewSessionType DEF Known
<1>3. ASSUME NEW n \in Nodes, NEW p \in net, ReceiveAcceptance(n, p.msg)
      PROVE  \A m \in Nodes, s \in Sids : Known(m, s) => Known(m, s)'
  <2> DEFINE t == p.msg.sid
             new == [sessions[n][t] EXCEPT !.acc = @ \cup {p.msg.peer}]
  <2>1. t \in Sids /\ p.msg.peer \in Nodes
    BY <1>0, <1>3 DEF ReceiveAcceptance, TypeOK, Messages, Acceptances
  <2>2. CASE Known(n, t)
    <3>1. sessions[n][t] \in SessionInfos
      BY <1>0, <2>1, <2>2 DEF TypeOK, Known
    <3>2. new \in SessionInfos
      BY <2>1, <3>1 DEF SessionInfos
    <3>3. sessions' = [sessions EXCEPT ![n][t] = new]
      BY <1>3, <2>2 DEF ReceiveAcceptance
    <3>4. new # None
      BY <3>2, NoneAssumption
    <3>. QED
      BY <1>0, <2>1, <3>3, <3>4 DEF Known, TypeOK
  <2>3. CASE ~Known(n, t)
    BY <1>3, <2>3 DEF ReceiveAcceptance, Known
  <2>. QED
    BY <2>2, <2>3
<1>4. CASE UNCHANGED sessions
  BY <1>4 DEF Known
<1>. QED
  BY <1>1, <1>2, <1>3, <1>4
  DEF Next, vars, CallStep, Deliver, LoopStep, SetCurrent, SendRequest, Broadcast,
      ReceiveRequest, StoreOrchestrator, Tick, Lose

\* Every step keeps the current session known.
LEMMA CurrentStep == KInv /\ [Next]_vars => CurrentInv' /\ ListedInv'
<1> SUFFICES ASSUME KInv, [Next]_vars PROVE CurrentInv' /\ ListedInv'
  OBVIOUS
<1> USE ConstantsAssumption
<1> DEFINE CallsKnown == \A c \in Calls : call[c] # Idle =>
             Known(call[c].sid.coord, call[c].sid)
<1>0. TypeOK /\ CallsKnown /\ CurrentSessionKnown /\ ListedInv
  BY DEF KInv, CurrentInv
<1>a. \A n \in Nodes, s \in Sids :
        sessions[n][s] # None => sessions'[n][s] # None
  BY KnownStep DEF Known
<1>b. \A s \in Sids : s.coord \in Nodes
  BY DEF Sids
<1>1. ASSUME NEW c \in Calls, NEW n \in Callers, NEW peers \in PeerLists(n),
             AssignPeerIndices(c, n, peers)
      PROVE  CallsKnown' /\ CurrentSessionKnown' /\ ListedInv'
  <2> DEFINE t == [coord |-> n, sec |-> now]
             a == IndexAssignment(n, peers)
  <2>1. t \in Sids /\ t.coord = n /\ n \in Nodes /\ a \in Assignments
    BY <1>0, IndexAssignmentType DEF TypeOK, Sids
  <2>2. sessions'[n][t] # None
    <3>1. sessions' = [sessions EXCEPT ![n][t] = NewSession(a)]
      BY <1>1 DEF AssignPeerIndices
    <3>2. NewSession(a) # None
      BY <2>1, NewSessionType
    <3>. QED
      BY <1>0, <2>1, <3>1, <3>2 DEF TypeOK
  <2>3. call' = [call EXCEPT ![c] = Work("inserted", t, a)]
    BY <1>1 DEF AssignPeerIndices
  <2>4. CallsKnown'
    <3>1. ASSUME NEW d \in Calls, call'[d] # Idle
          PROVE  sessions'[call'[d].sid.coord][call'[d].sid] # None
      <4>1. CASE d = c
        <5>1. call'[d].sid = t
          BY <1>0, <2>3, <4>1, WorkFields DEF TypeOK
        <5>. QED
          BY <2>1, <2>2, <5>1
      <4>2. CASE d # c
        <5>1. call'[d] = call[d]
          BY <1>0, <2>3, <4>2 DEF TypeOK
        <5>2. call[d].sid \in Sids /\ sessions[call[d].sid.coord][call[d].sid] # None
          BY <1>0, <3>1, <5>1, WorkGiven DEF Known
        <5>. QED
          BY <1>a, <1>b, <5>1, <5>2
      <4>. QED
        BY <4>1, <4>2
    <3>. QED
      BY <3>1 DEF Known
  <2>5. CurrentSessionKnown'
    BY <1>0, <1>1, <1>a DEF AssignPeerIndices, CurrentSessionKnown, TypeOK, Known
  <2>. QED
    BY <1>0, <1>1, <2>4, <2>5 DEF AssignPeerIndices, ListedInv
<1>2. ASSUME NEW c \in Calls, SetCurrent(c)
      PROVE  CallsKnown' /\ CurrentSessionKnown' /\ ListedInv'
  <2>1. /\ call[c] # Idle /\ call[c].sid \in Sids /\ call[c].sid.coord \in Nodes
        /\ Known(call[c].sid.coord, call[c].sid)
    BY <1>0, <1>2, <1>b, WorkGiven DEF SetCurrent, Idle
  <2>2. CallsKnown'
    BY <1>0, <1>2, <2>1, WorkFields, WorkGiven DEF SetCurrent, TypeOK, Known
  <2>3. CurrentSessionKnown'
    BY <1>0, <1>2, <2>1 DEF SetCurrent, CurrentSessionKnown, TypeOK, Known
  <2>. QED
    BY <1>0, <1>2, <2>2, <2>3 DEF SetCurrent, ListedInv
<1>3. ASSUME NEW c \in Calls, SendRequest(c)
      PROVE  CallsKnown' /\ CurrentSessionKnown' /\ ListedInv'
  <2>1. call[c] # Idle /\ Known(call[c].sid.coord, call[c].sid)
    BY <1>0, <1>3 DEF SendRequest, Idle
  <2>2. CallsKnown'
    BY <1>0, <1>3, <2>1, WorkFields, WorkGiven DEF SendRequest, TypeOK, Known
  <2>. QED
    BY <1>0, <1>3, <2>2 DEF SendRequest, CurrentSessionKnown, ListedInv, Known
<1>4. ASSUME NEW n \in Nodes, NEW p \in net, ReceiveRequest(n, p.msg)
      PROVE  CallsKnown' /\ CurrentSessionKnown' /\ ListedInv'
  <2>1. CASE n \in DOMAIN p.msg.assign
    <3>1. /\ current' = [current EXCEPT ![n] = p.msg.sid]
          /\ loop' = [loop EXCEPT ![n] = Work("storeSession", p.msg.sid, p.msg.assign)]
          /\ loop[n] = Idle
          /\ sessions' = sessions /\ call' = call
      BY <1>4, <2>1 DEF ReceiveRequest
    <3>2. /\ loop'[n].pc = "storeSession"
          /\ loop'[n].sid = p.msg.sid
          /\ loop'[n].assign = p.msg.assign
      BY <1>0, <3>1, WorkFields DEF TypeOK
    <3>. QED
      BY <1>0, <2>1, <3>1, <3>2
      DEF CurrentSessionKnown, ListedInv, TypeOK, Known
  <2>2. CASE n \notin DOMAIN p.msg.assign
    BY <1>0, <1>4, <2>2 DEF ReceiveRequest, CurrentSessionKnown, ListedInv, Known
  <2>. QED
    BY <2>1, <2>2
<1>5. ASSUME NEW n \in Nodes, SendAcceptance(n) \/ NoAcceptance(n)
      PROVE  CallsKnown' /\ CurrentSessionKnown' /\ ListedInv'
  <2>1. loop[n].sid \in Sids /\ loop[n].assign \in Assignments
    BY <1>0, <1>5, WorkGiven DEF SendAcceptance, NoAcceptance, Idle
  <2>2. /\ sessions' = StoredSession(n, loop[n])
        /\ call' = call /\ current' = current
        /\ loop' = [loop EXCEPT ![n] = Idle]
             \/ loop' = [loop EXCEPT ![n] = Work("storeOrch", loop[n].sid, loop[n].assign)]
    BY <1>5 DEF SendAcceptance, NoAcceptance
  <2>3. sessions'[n][loop[n].sid] # None
    BY <1>0, <2>1, <2>2, StoredSessionType
  <2>4. CallsKnown'
    BY <1>0, <1>a, <1>b, <2>2, WorkGiven DEF Known
  <2>5. ListedInv'
    <3>1. \A m \in Nodes : /\ m # n => loop'[m] = loop[m]
                           /\ loop'[n].pc # "storeSession"
      BY <1>0, <2>2, WorkFields DEF TypeOK, Idle
    <3>. QED
      BY <1>0, <3>1 DEF ListedInv
  <2>6. CurrentSessionKnown'
    <3> SUFFICES ASSUME NEW m \in Nodes, current[m] # None,
                        sessions'[m][current[m]] = None
                 PROVE  loop'[m].pc = "storeSession" /\ loop'[m].sid = current[m]
      BY <2>2 DEF CurrentSessionKnown, Known
    <3>1. sessions[m][current[m]] = None
      BY <1>0, <1>a DEF TypeOK
    <3>2. loop[m].pc = "storeSession" /\ loop[m].sid = current[m]
      BY <1>0, <3>1 DEF CurrentSessionKnown, Known
    <3>3. m # n
      BY <2>3, <3>2
    <3>. QED
      BY <1>0, <2>2, <3>2, <3>3 DEF TypeOK
  <2>. QED
    BY <2>4, <2>5, <2>6
<1>6. ASSUME NEW n \in Nodes, NEW p \in net, ReceiveAcceptance(n, p.msg)
      PROVE  CallsKnown' /\ CurrentSessionKnown' /\ ListedInv'
  <2>1. /\ call' = call /\ current' = current
        /\ loop[n] = Idle
        /\ \/ loop' = loop
           \/ \E a : loop' = [loop EXCEPT ![n] = Work("storeOrch", p.msg.sid, a)]
    BY <1>6 DEF ReceiveAcceptance
  <2>2. CallsKnown'
    BY <1>0, <1>a, <1>b, <2>1, WorkGiven DEF Known
  <2>3. \A m \in Nodes : /\ m # n => loop'[m] = loop[m]
                         /\ loop[n].pc # "storeSession" /\ loop'[n].pc # "storeSession"
    BY <1>0, <2>1, WorkFields DEF TypeOK, Idle
  <2>4. ListedInv'
    BY <1>0, <2>3 DEF ListedInv
  <2>5. CurrentSessionKnown'
    <3> SUFFICES ASSUME NEW m \in Nodes, current[m] # None,
                        sessions'[m][current[m]] = None
                 PROVE  loop'[m].pc = "storeSession" /\ loop'[m].sid = current[m]
      BY <2>1 DEF CurrentSessionKnown, Known
    <3>1. sessions[m][current[m]] = None
      BY <1>0, <1>a DEF TypeOK
    <3>2. loop[m].pc = "storeSession" /\ loop[m].sid = current[m]
      BY <1>0, <3>1 DEF CurrentSessionKnown, Known
    <3>. QED
      BY <2>3, <3>2
  <2>. QED
    BY <2>2, <2>4, <2>5
<1>7. ASSUME NEW n \in Nodes, StoreOrchestrator(n)
      PROVE  CallsKnown' /\ CurrentSessionKnown' /\ ListedInv'
  BY <1>0, <1>7 DEF StoreOrchestrator, CurrentSessionKnown, ListedInv, TypeOK, Known, Idle
<1>8. ASSUME UNCHANGED <<call, sessions, current, loop>>
      PROVE  CallsKnown' /\ CurrentSessionKnown' /\ ListedInv'
  <2>1. CallsKnown'
    BY <1>0, <1>8 DEF Known
  <2>2. CurrentSessionKnown'
    BY <1>0, <1>8 DEF CurrentSessionKnown, Known
  <2>3. ListedInv'
    BY <1>0, <1>8 DEF ListedInv
  <2>. QED
    BY <2>1, <2>2, <2>3
<1>. QED
  <2> HIDE DEF CallsKnown
  <2>1. CallsKnown' /\ CurrentSessionKnown' /\ ListedInv'
    BY <1>1, <1>2, <1>3, <1>4, <1>5, <1>6, <1>7, <1>8
    DEF Next, vars, CallStep, Deliver, LoopStep, Broadcast, Tick, Lose
  <2>. QED
    BY <2>1 DEF CallsKnown, CurrentInv

\* KInv holds in every state.
LEMMA KInvariance == Spec => []KInv
<1>1. KInv /\ [Next]_vars => KInv'
  BY TypeStep, CurrentStep DEF KInv
<1>. QED
  BY InitKInv, <1>1, PTL DEF Spec

----------------------------------------------------------------------------
(* Where things come from: what a step may put into each variable           *)

\* A call that has started keeps to its session and its indices.
LEMMA CallStays ==
  ASSUME TypeOK, [Next]_vars, NEW c \in Calls, call[c] # Idle
  PROVE  call'[c] # Idle /\ call'[c].sid = call[c].sid /\ call'[c].assign = call[c].assign
<1>1. ASSUME NEW d \in Calls, NEW n \in Callers, NEW peers \in PeerLists(n),
             AssignPeerIndices(d, n, peers)
      PROVE  call'[c] = call[c]
  BY <1>1 DEF AssignPeerIndices, TypeOK
<1>2. ASSUME NEW d \in Calls, CallStep(d)
      PROVE  call'[c] # Idle /\ call'[c].sid = call[c].sid /\ call'[c].assign = call[c].assign
  <2>1. \E pc \in CallPcs : call' = [call EXCEPT ![d] = Work(pc, call[d].sid, call[d].assign)]
    BY <1>2 DEF CallStep, SetCurrent, SendRequest, CallPcs
  <2>2. CASE d = c
    <3>1. PICK pc \in CallPcs : call'[c] = Work(pc, call[c].sid, call[c].assign)
      BY <2>1, <2>2 DEF TypeOK
    <3>2. call'[c] # Idle
      BY <3>1, WorkGiven, WorkType
    <3>. QED
      BY <3>1, <3>2, WorkFields
  <2>3. CASE d # c
    BY <2>1, <2>3 DEF TypeOK
  <2>. QED
    BY <2>2, <2>3
<1>3. CASE call' = call
  BY <1>3
<1>. QED
  BY <1>1, <1>2, <1>3, ZenonT(60)
  DEF Next, vars, Broadcast, Deliver, ReceiveRequest, ReceiveAcceptance, LoopStep,
      SendAcceptance, NoAcceptance, StoreOrchestrator, Tick, Lose

\* What was dealt stays dealt, and a session made once was made once before.
LEMMA AssignedStays ==
  ASSUME TypeOK, [Next]_vars, NEW s
  PROVE  /\ \A a : Assigned(s, a) => Assigned(s, a)'
         /\ CalledOnce(s)' => CalledOnce(s)
BY CallStays DEF Assigned, CalledOnce

\* The session of a call is known to its coordinator.
LEMMA AssignedKnown ==
  ASSUME KInv, NEW s, NEW a, Assigned(s, a)
  PROVE  s \in Sids /\ s.coord \in Nodes /\ a \in Assignments /\ Known(s.coord, s)
<1>1. PICK c \in Calls : call[c] # Idle /\ call[c].sid = s /\ call[c].assign = a
  BY DEF Assigned
<1>2. s \in Sids /\ a \in Assignments
  BY <1>1, WorkGiven DEF KInv
<1>. QED
  BY <1>1, <1>2 DEF KInv, CurrentInv, Sids

\* One call deals one assignment.
LEMMA OneAssignment ==
  ASSUME NEW s, CalledOnce(s), NEW a, NEW b, Assigned(s, a), Assigned(s, b)
  PROVE  a = b
BY DEF CalledOnce, Assigned

\* A queued command was queued before, or is the request of a call.
LEMMA CommandOrigin ==
  ASSUME KInv, [Next]_vars, NEW n \in Nodes, NEW i \in DOMAIN commands'[n]
  PROVE  \/ \E j \in DOMAIN commands[n] : commands'[n][i] = commands[n][j]
         \/ \E c \in Calls : /\ call[c] # Idle
                             /\ call[c].sid.coord = n
                             /\ commands'[n][i] = Request(call[c].sid, call[c].assign)
<1> USE ConstantsAssumption
<1>0. TypeOK
  BY DEF KInv
<1>1. ASSUME NEW c \in Calls, SendRequest(c)
      PROVE  \/ \E j \in DOMAIN commands[n] : commands'[n][i] = commands[n][j]
             \/ /\ call[c] # Idle
                /\ call[c].sid.coord = n
                /\ commands'[n][i] = Request(call[c].sid, call[c].assign)
  <2> DEFINE m == Request(call[c].sid, call[c].assign)
  <2>1. call[c] # Idle /\ call[c].sid \in Sids /\ call[c].assign \in Assignments
    BY <1>0, <1>1, WorkGiven DEF SendRequest, Idle
  <2>2. m \in Messages /\ commands[n] \in Seq(Messages)
    BY <1>0, <2>1 DEF Request, Messages, TypeOK
  <2>3. CASE call[c].sid.coord # n
    BY <1>0, <1>1, <2>3 DEF SendRequest, TypeOK
  <2>4. CASE call[c].sid.coord = n
    <3>1. commands'[n] = Append(commands[n], m)
      BY <1>0, <1>1, <2>4 DEF SendRequest, TypeOK
    <3>. QED
      BY <2>1, <2>2, <2>4, <3>1, AppendProperties
  <2>. QED
    BY <2>3, <2>4
<1>2. ASSUME NEW m \in Nodes, Broadcast(m)
      PROVE  \E j \in DOMAIN commands[n] : commands'[n][i] = commands[n][j]
  <2>1. CASE m # n
    BY <1>0, <1>2, <2>1 DEF Broadcast, TypeOK
  <2>2. CASE m = n
    <3>1. commands'[n] = Tail(commands[n]) /\ commands[n] \in Seq(Messages)
          /\ commands[n] # <<>>
      BY <1>0, <1>2, <2>2 DEF Broadcast, TypeOK
    <3>2. /\ DOMAIN commands[n] = 1..Len(commands[n])
          /\ i \in 1..(Len(commands[n]) - 1)
          /\ commands'[n][i] = commands[n][i + 1]
      BY <3>1, HeadTailProperties
    <3>. QED
      BY <3>1, <3>2
  <2>. QED
    BY <2>1, <2>2
<1>3. CASE commands' = commands
  BY <1>3
<1>. QED
  BY <1>1, <1>2, <1>3, ZenonT(60)
  DEF Next, vars, CallStep, AssignPeerIndices, SetCurrent, Deliver, ReceiveRequest,
      ReceiveAcceptance, LoopStep, SendAcceptance, NoAcceptance,
      StoreOrchestrator, Tick, Lose

\* A message was on its way before, or was queued by a node, or is an
\* acceptance by a node that is about to store its orchestrator.
LEMMA NetOrigin ==
  ASSUME KInv, [Next]_vars, NEW p \in net'
  PROVE  \/ p \in net
         \/ \E n \in Nodes : /\ p.to # n
                             /\ 1 \in DOMAIN commands[n]
                             /\ p.msg = commands[n][1]
         \/ \E n \in Nodes :
              /\ p.to # n
              /\ loop[n].pc = "storeSession"
              /\ p.msg.type = "Acceptance"
              /\ p.msg.peer = n /\ p.msg.sid = loop[n].sid
              /\ p.msg.sid.coord # n
              /\ sessions'[n][loop[n].sid] # None
              /\ loop'[n].pc = "storeOrch" /\ loop'[n].sid = loop[n].sid
<1> USE ConstantsAssumption
<1>0. TypeOK
  BY DEF KInv
<1>1. ASSUME NEW n \in Nodes, Broadcast(n), p \notin net
      PROVE  p.to # n /\ 1 \in DOMAIN commands[n] /\ p.msg = commands[n][1]
  <2>1. p.to # n /\ p.msg = Head(commands[n])
    BY <1>1 DEF Broadcast, Published
  <2>2. commands[n] \in Seq(Messages) /\ commands[n] # <<>>
    BY <1>0, <1>1 DEF Broadcast, TypeOK
  <2>3. 1 \in DOMAIN commands[n] /\ Head(commands[n]) = commands[n][1]
    BY <2>2, EmptySeq
  <2>. QED
    BY <2>1, <2>3
<1>2. ASSUME NEW n \in Nodes, SendAcceptance(n), p \notin net
      PROVE  /\ p.to # n
             /\ loop[n].pc = "storeSession"
             /\ p.msg.type = "Acceptance"
             /\ p.msg.peer = n /\ p.msg.sid = loop[n].sid
             /\ p.msg.sid.coord # n
             /\ sessions'[n][loop[n].sid] # None
             /\ loop'[n].pc = "storeOrch" /\ loop'[n].sid = loop[n].sid
  <2>1. /\ p.to # n /\ p.msg = Acceptance(n, loop[n].sid, loop[n].assign[n])
        /\ loop[n].pc = "storeSession" /\ loop[n].sid.coord # n
    BY <1>2 DEF SendAcceptance, Published
  <2>2. loop[n].sid \in Sids /\ loop[n].assign \in Assignments
    BY <1>0, <2>1, WorkGiven DEF Idle
  <2>3. sessions'[n][loop[n].sid] # None
    BY <1>0, <1>2, <2>2, StoredSessionType DEF SendAcceptance
  <2>4. loop'[n].pc = "storeOrch" /\ loop'[n].sid = loop[n].sid
    BY <1>0, <1>2, WorkFields DEF SendAcceptance, TypeOK
  <2>. QED
    BY <2>1, <2>3, <2>4 DEF Acceptance
<1>3. CASE p \in net
  BY <1>3
<1>4. ASSUME NEW n \in Nodes, Deliver(n) PROVE p \in net
  BY <1>4 DEF Deliver, ReceiveRequest, ReceiveAcceptance
<1>5. ASSUME NEW q \in net, Lose(q) PROVE p \in net
  BY <1>5 DEF Lose
<1>6. CASE net' = net
  BY <1>6
<1>7. \/ \E n \in Nodes : Broadcast(n) \/ Deliver(n) \/ SendAcceptance(n)
      \/ \E q \in net : Lose(q)
      \/ net' = net
  BY DEF Next, vars, CallStep, AssignPeerIndices, SetCurrent, SendRequest, LoopStep,
     NoAcceptance, StoreOrchestrator, Tick
<1>. QED
  BY <1>1, <1>2, <1>3, <1>4, <1>5, <1>6, <1>7

\* The event loop works on what it worked on before, on a request, or on a
\* session it knows.
LEMMA LoopOrigin ==
  ASSUME KInv, [Next]_vars, NEW n \in Nodes, loop'[n] # Idle
  PROVE  \/ loop'[n] = loop[n]
         \/ \E p \in net : /\ p.to = n
                           /\ p.msg.type = "Request"
                           /\ n \in DOMAIN p.msg.assign
                           /\ loop'[n] = Work("storeSession", p.msg.sid, p.msg.assign)
         \/ /\ loop[n] # Idle
            /\ loop'[n] = Work("storeOrch", loop[n].sid, loop[n].assign)
         \/ \E s \in Sids : /\ sessions[n][s] # None
                            /\ loop'[n] = Work("storeOrch", s, sessions[n][s].assign)
<1> USE ConstantsAssumption
<1>0. TypeOK
  BY DEF KInv
<1>1. ASSUME NEW m \in Nodes, NEW p \in net, ReceiveRequest(m, p.msg), p.to = m
      PROVE  \/ loop'[n] = loop[n]
             \/ /\ p.to = n
                /\ p.msg.type = "Request"
                /\ n \in DOMAIN p.msg.assign
                /\ loop'[n] = Work("storeSession", p.msg.sid, p.msg.assign)
  BY <1>0, <1>1 DEF ReceiveRequest, TypeOK
<1>2. ASSUME NEW m \in Nodes, LoopStep(m)
      PROVE  \/ loop'[n] = loop[n]
             \/ /\ loop[n] # Idle
                /\ loop'[n] = Work("storeOrch", loop[n].sid, loop[n].assign)
  BY <1>0, <1>2 DEF LoopStep, SendAcceptance, NoAcceptance, StoreOrchestrator, TypeOK, Idle
<1>3. ASSUME NEW m \in Nodes, NEW p \in net, ReceiveAcceptance(m, p.msg)
      PROVE  \/ loop'[n] = loop[n]
             \/ \E s \in Sids : /\ sessions[n][s] # None
                                /\ loop'[n] = Work("storeOrch", s, sessions[n][s].assign)
  <2> DEFINE t == p.msg.sid
             new == [sessions[m][t] EXCEPT !.acc = @ \cup {p.msg.peer}]
  <2>1. t \in Sids
    BY <1>0, <1>3 DEF ReceiveAcceptance, TypeOK, Messages, Acceptances
  <2>2. CASE loop' = [loop EXCEPT ![m] = Work("storeOrch", t, new.assign)]
             /\ sessions[m][t] # None
    <3>1. sessions[m][t] \in SessionInfos
      BY <1>0, <2>1, <2>2 DEF TypeOK
    <3>2. new.assign = sessions[m][t].assign
      BY <3>1 DEF SessionInfos
    <3>. QED
      BY <1>0, <2>1, <2>2, <3>2 DEF TypeOK
  <2>3. CASE loop' = loop
    BY <2>3
  <2>. QED
    BY <1>3, <2>2, <2>3 DEF ReceiveAcceptance, Known
<1>4. CASE loop' = loop
  BY <1>4
<1>. QED
  BY <1>1, <1>2, <1>3, <1>4
  DEF Next, vars, CallStep, AssignPeerIndices, SetCurrent, SendRequest, Broadcast,
      Deliver, Tick, Lose

\* The orchestrator is the one there was, or the event loop has just made it.
LEMMA OrchOrigin ==
  ASSUME KInv, [Next]_vars, NEW n \in Nodes
  PROVE  \/ /\ orch'[n] = orch[n] /\ made'[n] = made[n]
            /\ loop[n].pc = "storeOrch" => loop'[n] = loop[n]
         \/ /\ loop[n].pc = "storeOrch"
            /\ orch'[n] # None
            /\ orch'[n] = [sid |-> loop[n].sid, assign |-> loop[n].assign]
            /\ made'[n] = made[n] \cup {orch'[n]}
<1> DEFINE o == [sid |-> loop[n].sid, assign |-> loop[n].assign]
           Same == /\ orch'[n] = orch[n] /\ made'[n] = made[n]
                   /\ loop[n].pc = "storeOrch" => loop'[n] = loop[n]
           New == /\ loop[n].pc = "storeOrch"
                  /\ orch'[n] # None
                  /\ orch'[n] = o
                  /\ made'[n] = made[n] \cup {orch'[n]}
<1> USE ConstantsAssumption
<1>0. TypeOK
  BY DEF KInv
<1>1. ASSUME NEW m \in Nodes, StoreOrchestrator(m) PROVE Same \/ New
  <2>1. CASE m = n
    <3>1. loop[n].sid \in Sids /\ loop[n].assign \in Assignments
      BY <1>0, <1>1, <2>1, WorkGiven DEF StoreOrchestrator, Idle
    <3>2. o \in Orchestrators
      BY <3>1 DEF Orchestrators
    <3>. QED
      BY <1>0, <1>1, <2>1, <3>2, NoneAssumption DEF StoreOrchestrator, TypeOK
  <2>2. CASE m # n
    BY <1>0, <1>1, <2>2 DEF StoreOrchestrator, TypeOK
  <2>. QED
    BY <2>1, <2>2
<1>2. ASSUME NEW m \in Nodes, SendAcceptance(m) \/ NoAcceptance(m) PROVE Same
  BY <1>0, <1>2 DEF SendAcceptance, NoAcceptance, TypeOK
<1>3. ASSUME NEW m \in Nodes, Deliver(m) PROVE Same
  <2>1. /\ loop[m].pc = "idle" /\ orch' = orch /\ made' = made
        /\ loop' = loop \/ \E w : loop' = [loop EXCEPT ![m] = w]
    BY <1>3 DEF Deliver, ReceiveRequest, ReceiveAcceptance, Idle
  <2>. QED
    BY <1>0, <2>1 DEF TypeOK
<1>4. ASSUME orch' = orch, made' = made, loop' = loop PROVE Same
  BY <1>4
<1>5. \/ \E m \in Nodes : LoopStep(m) \/ Deliver(m)
      \/ orch' = orch /\ made' = made /\ loop' = loop
  BY DEF Next, vars, CallStep, AssignPeerIndices, SetCurrent, SendRequest, Broadcast,
     Tick, Lose
<1> HIDE DEF Same, New
<1>6. Same \/ New
  BY <1>1, <1>2, <1>3, <1>4, <1>5 DEF LoopStep
<1>. QED
  BY <1>6 DEF Same, New

\* Whoever has begun an orchestrator makes it, and has made it from then on.
LEMMA BeganStays ==
  ASSUME KInv, [Next]_vars, NEW n \in Nodes, NEW s, Began(n, s)
  PROVE  Began(n, s)'
<1>1. CASE made'[n] = made[n] /\ (loop[n].pc = "storeOrch" => loop'[n] = loop[n])
  BY <1>1 DEF Began
<1>2. ASSUME NEW o, o = [sid |-> loop[n].sid, assign |-> loop[n].assign],
             made'[n] = made[n] \cup {o}
      PROVE  Began(n, s)'
  <2>1. o.sid = loop[n].sid
    BY <1>2
  <2>. QED
    BY <1>2, <2>1 DEF Began
<1>3. \/ made'[n] = made[n] /\ (loop[n].pc = "storeOrch" => loop'[n] = loop[n])
      \/ \E o : /\ o = [sid |-> loop[n].sid, assign |-> loop[n].assign]
                /\ made'[n] = made[n] \cup {o}
  BY OrchOrigin
<1>. QED
  BY <1>1, <1>2, <1>3

\* A session is as it was but for an acceptance, or the event loop has just
\* stored it, or a call of its coordinator has just inserted it.
LEMMA SessionOrigin ==
  ASSUME KInv, [Next]_vars,
         NEW n \in Nodes, NEW s \in Sids, sessions'[n][s] # None
  PROVE  \/ /\ sessions[n][s] # None
            /\ sessions'[n][s] = sessions[n][s]
         \/ /\ sessions[n][s] # None
            /\ sessions'[n][s].assign = sessions[n][s].assign
            /\ \E p \in net :
                 /\ p.to = n
                 /\ p.msg.type = "Acceptance" /\ p.msg.sid = s
                 /\ sessions'[n][s].acc = sessions[n][s].acc \cup {p.msg.peer}
            /\ AllAccepted(sessions'[n][s]) =>
                 loop'[n].pc = "storeOrch" /\ loop'[n].sid = s
         \/ /\ sessions[n][s] = None
            /\ sessions'[n][s].acc = {}
            /\ loop[n].pc = "storeSession" /\ loop[n].sid = s
            /\ sessions'[n][s].assign = loop[n].assign
         \/ /\ sessions'[n][s].acc = {}
            /\ s.coord = n
            /\ n \in DOMAIN sessions'[n][s].assign
            /\ \E c \in Calls :
                 /\ call[c] = Idle /\ call'[c] # Idle /\ call'[c].sid = s
                 /\ call'[c].assign = sessions'[n][s].assign
<1> USE ConstantsAssumption
<1>0. TypeOK
  BY DEF KInv
<1>1. ASSUME NEW c \in Calls, NEW m \in Callers, NEW peers \in PeerLists(m),
             AssignPeerIndices(c, m, peers)
      PROVE  \/ sessions'[n][s] = sessions[n][s]
             \/ /\ sessions'[n][s].acc = {}
                /\ s.coord = n
                /\ n \in DOMAIN sessions'[n][s].assign
                /\ call[c] = Idle /\ call'[c] # Idle /\ call'[c].sid = s
                /\ call'[c].assign = sessions'[n][s].assign
  <2> DEFINE t == [coord |-> m, sec |-> now]
             a == IndexAssignment(m, peers)
  <2>1. /\ t \in Sids /\ t.coord = m /\ m \in Nodes
        /\ a \in Assignments /\ m \in DOMAIN a
    BY <1>0, IndexAssignmentType DEF TypeOK, Sids
  <2>2. /\ sessions' = [sessions EXCEPT ![m][t] = NewSession(a)]
        /\ call' = [call EXCEPT ![c] = Work("inserted", t, a)] /\ call[c] = Idle
    BY <1>1 DEF AssignPeerIndices
  <2>3. /\ NewSession(a).assign = a /\ NewSession(a).acc = {}
        /\ Work("inserted", t, a) # Idle
    BY <2>1, NewSessionType, WorkType DEF CallPcs
  <2>4. CASE n = m /\ s = t
    <3>1. sessions'[n][s] = NewSession(a)
      BY <1>0, <2>1, <2>2, <2>4 DEF TypeOK
    <3>2. call'[c] # Idle /\ call'[c].sid = s /\ call'[c].assign = a
      BY <1>0, <2>2, <2>3, <2>4, WorkFields DEF TypeOK
    <3>. QED
      BY <2>1, <2>2, <2>3, <2>4, <3>1, <3>2
  <2>5. CASE ~(n = m /\ s = t)
    BY <1>0, <2>1, <2>2, <2>5 DEF TypeOK
  <2>. QED
    BY <2>4, <2>5
<1>2. ASSUME NEW m \in Nodes, SendAcceptance(m) \/ NoAcceptance(m)
      PROVE  \/ sessions'[n][s] = sessions[n][s]
             \/ /\ sessions[n][s] = None
                /\ sessions'[n][s].acc = {}
                /\ loop[n].pc = "storeSession" /\ loop[n].sid = s
                /\ sessions'[n][s].assign = loop[n].assign
  <2>1. loop[m].pc = "storeSession"
        /\ loop[m].sid \in Sids /\ loop[m].assign \in Assignments
    BY <1>0, <1>2, WorkGiven DEF SendAcceptance, NoAcceptance, Idle
  <2>2. sessions' = StoredSession(m, loop[m])
    BY <1>2 DEF SendAcceptance, NoAcceptance
  <2>3. sessions'[n][s] = IF n = m /\ s = loop[m].sid /\ ~Known(m, s)
                            THEN NewSession(loop[m].assign) ELSE sessions[n][s]
    BY <1>0, <2>1, <2>2, StoredSessionType
  <2>4. NewSession(loop[m].assign).assign = loop[m].assign
        /\ NewSession(loop[m].assign).acc = {}
    BY <2>1, NewSessionType
  <2>. QED
    BY <2>1, <2>3, <2>4 DEF Known
<1>3. ASSUME NEW m \in Nodes, NEW p \in net, p.to = m, ReceiveAcceptance(m, p.msg)
      PROVE  \/ sessions'[n][s] = sessions[n][s]
             \/ /\ sessions[n][s] # None
                /\ sessions'[n][s].assign = sessions[n][s].assign
                /\ p.to = n
                /\ p.msg.type = "Acceptance" /\ p.msg.sid = s
                /\ sessions'[n][s].acc = sessions[n][s].acc \cup {p.msg.peer}
                /\ AllAccepted(sessions'[n][s]) =>
                     loop'[n].pc = "storeOrch" /\ loop'[n].sid = s
  <2> DEFINE t == p.msg.sid
             new == [sessions[m][t] EXCEPT !.acc = @ \cup {p.msg.peer}]
  <2>1. t \in Sids
    BY <1>0, <1>3 DEF ReceiveAcceptance, TypeOK, Messages, Acceptances
  <2>2. CASE sessions[m][t] # None
    <3>1. sessions[m][t] \in SessionInfos
      BY <1>0, <2>1, <2>2 DEF TypeOK
    <3>2. /\ new.assign = sessions[m][t].assign
          /\ new.acc = sessions[m][t].acc \cup {p.msg.peer}
      BY <3>1 DEF SessionInfos
    <3>3. sessions' = [sessions EXCEPT ![m][t] = new] /\ p.msg.type = "Acceptance"
      BY <1>3, <2>2 DEF ReceiveAcceptance, Known
    <3>4. CASE n = m /\ s = t
      <4>1. sessions'[n][s] = new
        BY <1>0, <2>1, <3>3, <3>4 DEF TypeOK
      <4>2. ASSUME AllAccepted(new) PROVE loop'[n].pc = "storeOrch" /\ loop'[n].sid = s
        <5>1. loop' = [loop EXCEPT ![n] = Work("storeOrch", t, new.assign)]
          BY <1>3, <2>2, <3>4, <4>2 DEF ReceiveAcceptance, Known
        <5>. QED
          BY <1>0, <3>4, <5>1, WorkFields DEF TypeOK
      <4>. QED
        BY <1>3, <2>2, <3>2, <3>3, <3>4, <4>1, <4>2
    <3>5. CASE ~(n = m /\ s = t)
      BY <1>0, <2>1, <3>3, <3>5 DEF TypeOK
    <3>. QED
      BY <3>4, <3>5
  <2>3. CASE sessions[m][t] = None
    BY <1>3, <2>3 DEF ReceiveAcceptance, Known
  <2>. QED
    BY <2>2, <2>3
<1>4. CASE sessions' = sessions
  BY <1>4
<1>. QED
  BY <1>1, <1>2, <1>3, <1>4
  DEF Next, vars, CallStep, SetCurrent, SendRequest, Broadcast, Deliver,
      ReceiveRequest, LoopStep, StoreOrchestrator, Tick, Lose

----------------------------------------------------------------------------
(* One call, one assignment                                                 *)

\* For as long as one call only has made a session, each node keeps the session's
\* assignment and acceptances.
LEMMA KeptStep ==
  ASSUME IInv, [Next]_vars, NEW n \in Nodes, NEW s \in Sids,
         CalledOnce(s)', sessions[n][s] # None
  PROVE  /\ sessions'[n][s] # None
         /\ sessions'[n][s].assign = sessions[n][s].assign
         /\ sessions[n][s].acc \subseteq sessions'[n][s].acc
<1>0. KInv /\ TypeOK
  BY DEF IInv, KInv
<1>1. sessions'[n][s] # None
  BY <1>0, KnownStep DEF Known
<1>2. ASSUME NEW c \in Calls, call[c] = Idle, call'[c] # Idle, call'[c].sid = s
      PROVE  FALSE
  <2>1. PICK d \in Calls : call[d] # Idle /\ call[d].sid = s
    BY DEF IInv, AgreeInv, Assigned, Known
  <2>2. call'[d] # Idle /\ call'[d].sid = s
    BY <1>0, <2>1, CallStays
  <2>3. c = d
    BY <1>2, <2>2 DEF CalledOnce
  <2>. QED
    BY <1>2, <2>1, <2>3
<1>. QED
  BY <1>0, <1>1, <1>2, SessionOrigin

\* Nothing has been assigned at the start.
LEMMA InitIInv == Init => IInv
<1> SUFFICES ASSUME Init PROVE IInv
  OBVIOUS
<1>1. AgreeInv
  BY DEF Init, AgreeInv, Assigned, Known
<1>2. MemberInv
  BY DEF Init, MemberInv, Known, Idle
<1>3. AcceptInv
  BY DEF Init, AcceptInv, Known
<1>. QED
  BY <1>1, <1>2, <1>3, InitKInv DEF IInv

\* Every step keeps to what the calls have dealt.
LEMMA AgreeStep == IInv /\ [Next]_vars => AgreeInv'
<1> SUFFICES ASSUME IInv, [Next]_vars PROVE AgreeInv'
  OBVIOUS
<1> DEFINE Now(s, a)  == \E c \in Calls :
             call[c] # Idle /\ call[c].sid = s /\ call[c].assign = a
           Then(s, a) == \E c \in Calls :
             call'[c] # Idle /\ call'[c].sid = s /\ call'[c].assign = a
<1>0. KInv /\ TypeOK
  BY DEF IInv, KInv
<1>1. \A s, a : Now(s, a) => Then(s, a)
  BY <1>0, CallStays
<1>2. /\ \A n \in Nodes : \A i \in DOMAIN commands[n] :
           /\ commands[n][i].type = "Request"
           /\ commands[n][i].sid.coord = n
           /\ Now(commands[n][i].sid, commands[n][i].assign)
      /\ \A p \in net : p.msg.type = "Request" =>
           p.to # p.msg.sid.coord /\ Now(p.msg.sid, p.msg.assign)
      /\ \A n \in Nodes : loop[n] # Idle => Now(loop[n].sid, loop[n].assign)
      /\ \A n \in Nodes, s \in Sids :
           sessions[n][s] # None => Now(s, sessions[n][s].assign)
      /\ \A n \in Nodes : orch[n] # None => Now(orch[n].sid, orch[n].assign)
      /\ \A n \in Nodes : \A o \in made[n] : Now(o.sid, o.assign)
  BY DEF IInv, AgreeInv, Assigned, Known
<1>3. \A c \in Calls : call[c] # Idle => Now(call[c].sid, call[c].assign)
  OBVIOUS
<1>4. \A c \in Calls : call'[c] # Idle => Then(call'[c].sid, call'[c].assign)
  OBVIOUS
<1> HIDE DEF Now, Then
<1>5. ASSUME NEW n \in Nodes, NEW i \in DOMAIN commands'[n]
      PROVE  /\ commands'[n][i].type = "Request"
             /\ commands'[n][i].sid.coord = n
             /\ Then(commands'[n][i].sid, commands'[n][i].assign)
  <2>1. ASSUME NEW j \in DOMAIN commands[n], commands'[n][i] = commands[n][j]
        PROVE  /\ commands'[n][i].type = "Request"
               /\ commands'[n][i].sid.coord = n
               /\ Then(commands'[n][i].sid, commands'[n][i].assign)
    <3>1. commands[n][j] \in Messages
      BY <1>0 DEF TypeOK
    <3>2. commands[n][j].sid \in Sids
      BY <3>1 DEF Messages, Acceptances
    <3>. QED
      BY <1>1, <1>2, <2>1, <3>2
  <2>2. ASSUME NEW c \in Calls, call[c] # Idle, call[c].sid.coord = n,
               commands'[n][i] = Request(call[c].sid, call[c].assign)
        PROVE  /\ commands'[n][i].type = "Request"
               /\ commands'[n][i].sid.coord = n
               /\ Then(commands'[n][i].sid, commands'[n][i].assign)
    BY <1>1, <1>3, <2>2 DEF Request
  <2>. QED
    BY <1>0, <1>5, <2>1, <2>2, CommandOrigin
<1>6. ASSUME NEW p \in net', p.msg.type = "Request"
      PROVE  p.to # p.msg.sid.coord /\ Then(p.msg.sid, p.msg.assign)
  <2>1. CASE p \in net
    <3>1. p.msg.sid \in Sids
      BY <1>0, <2>1 DEF TypeOK, Messages, Acceptances
    <3>. QED
      BY <1>1, <1>2, <1>6, <2>1, <3>1
  <2>2. ASSUME NEW n \in Nodes, p.to # n, 1 \in DOMAIN commands[n], p.msg = commands[n][1]
        PROVE  p.to # p.msg.sid.coord /\ Then(p.msg.sid, p.msg.assign)
    <3>1. commands[n][1] \in Messages
      BY <1>0, <2>2 DEF TypeOK
    <3>2. commands[n][1].sid \in Sids
      BY <3>1 DEF Messages, Acceptances
    <3>. QED
      BY <1>1, <1>2, <2>2, <3>2
  <2>. QED
    BY <1>0, <1>6, <2>1, <2>2, NetOrigin
<1>7. ASSUME NEW n \in Nodes, loop'[n] # Idle PROVE Then(loop'[n].sid, loop'[n].assign)
  <2>1. CASE loop'[n] = loop[n]
    BY <1>0, <1>1, <1>2, <1>7, <2>1, WorkGiven
  <2>2. ASSUME NEW p \in net, p.msg.type = "Request",
               loop'[n] = Work("storeSession", p.msg.sid, p.msg.assign)
        PROVE  Then(loop'[n].sid, loop'[n].assign)
    <3>1. p.msg.sid \in Sids
      BY <1>0, <2>2 DEF TypeOK, Messages, Acceptances
    <3>. QED
      BY <1>1, <1>2, <2>2, <3>1, WorkFields
  <2>3. CASE /\ loop[n] # Idle
             /\ loop'[n] = Work("storeOrch", loop[n].sid, loop[n].assign)
    BY <1>0, <1>1, <1>2, <2>3, WorkGiven, WorkFields
  <2>4. ASSUME NEW s \in Sids, sessions[n][s] # None,
               loop'[n] = Work("storeOrch", s, sessions[n][s].assign)
        PROVE  Then(loop'[n].sid, loop'[n].assign)
    BY <1>1, <1>2, <2>4, WorkFields
  <2>. QED
    BY <1>0, <1>7, <2>1, <2>2, <2>3, <2>4, LoopOrigin
<1>8. ASSUME NEW n \in Nodes, NEW s \in Sids, sessions'[n][s] # None
      PROVE  Then(s, sessions'[n][s].assign)
  <2>1. CASE sessions[n][s] # None /\ sessions'[n][s].assign = sessions[n][s].assign
    BY <1>1, <1>2, <2>1
  <2>2. CASE loop[n].pc = "storeSession" /\ loop[n].sid = s
             /\ sessions'[n][s].assign = loop[n].assign
    BY <1>1, <1>2, <2>2 DEF Idle
  <2>3. ASSUME NEW c \in Calls, call'[c] # Idle, call'[c].sid = s,
               call'[c].assign = sessions'[n][s].assign
        PROVE  Then(s, sessions'[n][s].assign)
    BY <1>4, <2>3
  <2>. QED
    BY <1>0, <1>8, <2>1, <2>2, <2>3, SessionOrigin
<1>9. ASSUME NEW n \in Nodes, loop[n].pc = "storeOrch"
      PROVE  Then(loop[n].sid, loop[n].assign)
  BY <1>1, <1>2, <1>9 DEF Idle
<1>10. ASSUME NEW n \in Nodes, orch'[n] # None PROVE Then(orch'[n].sid, orch'[n].assign)
  <2>1. CASE orch'[n] = orch[n]
    BY <1>1, <1>2, <1>10, <2>1
  <2>2. CASE /\ loop[n].pc = "storeOrch"
             /\ orch'[n] = [sid |-> loop[n].sid, assign |-> loop[n].assign]
    BY <1>9, <2>2
  <2>. QED
    BY <1>0, <2>1, <2>2, OrchOrigin
<1>11. ASSUME NEW n \in Nodes, NEW o \in made'[n] PROVE Then(o.sid, o.assign)
  <2>1. CASE o \in made[n]
    BY <1>1, <1>2, <2>1
  <2>2. CASE /\ loop[n].pc = "storeOrch"
             /\ o = [sid |-> loop[n].sid, assign |-> loop[n].assign]
    BY <1>9, <2>2
  <2>. QED
    BY <1>0, <1>11, <2>1, <2>2, OrchOrigin
<1>. QED
  BY <1>5, <1>6, <1>7, <1>8, <1>10, <1>11 DEF AgreeInv, Assigned, Known, Then

\* Every step keeps it to members of a session to know it.
LEMMA MemberStep == IInv /\ [Next]_vars => MemberInv'
<1> SUFFICES ASSUME IInv, [Next]_vars PROVE MemberInv'
  OBVIOUS
<1>0. KInv /\ TypeOK /\ ListedInv
  BY DEF IInv, KInv
<1>1. ASSUME NEW n \in Nodes, NEW s \in Sids, sessions'[n][s] # None
      PROVE  n \in DOMAIN sessions'[n][s].assign
  <2>1. CASE sessions[n][s] # None /\ sessions'[n][s].assign = sessions[n][s].assign
    BY <2>1 DEF IInv, MemberInv, Known, Participants
  <2>2. CASE loop[n].pc = "storeSession" /\ sessions'[n][s].assign = loop[n].assign
    BY <1>0, <2>2 DEF ListedInv
  <2>. QED
    BY <1>0, <1>1, <2>1, <2>2, SessionOrigin
<1>2. ASSUME NEW n \in Nodes, loop'[n].pc = "storeSession"
      PROVE  n # loop'[n].sid.coord
  <2>1. loop'[n] # Idle
    BY <1>2 DEF Idle
  <2>2. CASE loop'[n] = loop[n]
    BY <1>2, <2>2 DEF IInv, MemberInv
  <2>3. ASSUME NEW p \in net, p.to = n, p.msg.type = "Request",
               loop'[n] = Work("storeSession", p.msg.sid, p.msg.assign)
        PROVE  n # loop'[n].sid.coord
    BY <2>3, WorkFields DEF IInv, AgreeInv
  <2>. QED
    BY <1>0, <1>2, <2>1, <2>2, <2>3, LoopOrigin, WorkFields
<1>. QED
  BY <1>1, <1>2 DEF MemberInv, Known, Participants

\* Every step keeps acceptances to those who know the session and have an
\* orchestrator for it.
LEMMA AcceptStep == IInv /\ [Next]_vars => AcceptInv'
<1> SUFFICES ASSUME IInv, [Next]_vars PROVE AcceptInv'
  OBVIOUS
<1> DEFINE Now(p, s)  == p \in Nodes /\ p # s.coord /\ Known(p, s) /\ Began(p, s)
           Then(p, s) == p \in Nodes /\ p # s.coord /\ Known(p, s)' /\ Began(p, s)'
<1>0. KInv /\ TypeOK
  BY DEF IInv, KInv
<1>1. \A p : \A s \in Sids : Now(p, s) => Then(p, s)
  BY <1>0, KnownStep, BeganStays
<1>2. /\ \A p \in net : p.msg.type = "Acceptance" =>
           p.to # p.msg.peer /\ Now(p.msg.peer, p.msg.sid)
      /\ \A n \in Nodes, s \in Sids : sessions[n][s] # None =>
           \A p \in sessions[n][s].acc : p # n /\ Now(p, s)
  BY DEF IInv, AcceptInv, Accepted, Known
<1> HIDE DEF Now
<1>3. ASSUME NEW p \in net', p.msg.type = "Acceptance"
      PROVE  p.to # p.msg.peer /\ Then(p.msg.peer, p.msg.sid)
  <2>1. CASE p \in net
    <3>1. p.msg.sid \in Sids
      BY <1>0, <2>1 DEF TypeOK, Messages, Acceptances
    <3>. QED
      BY <1>1, <1>2, <1>3, <2>1, <3>1
  <2>2. ASSUME NEW n \in Nodes, 1 \in DOMAIN commands[n], p.msg = commands[n][1]
        PROVE  FALSE
    BY <1>3, <2>2 DEF IInv, AgreeInv
  <2>3. ASSUME NEW n \in Nodes, p.to # n, p.msg.peer = n, p.msg.sid = loop[n].sid,
               p.msg.sid.coord # n, sessions'[n][loop[n].sid] # None,
               loop'[n].pc = "storeOrch", loop'[n].sid = loop[n].sid
        PROVE  p.to # p.msg.peer /\ Then(p.msg.peer, p.msg.sid)
    BY <2>3 DEF Known, Began
  <2>. QED
    BY <1>0, <1>3, <2>1, <2>2, <2>3, NetOrigin
<1>4. ASSUME NEW n \in Nodes, NEW s \in Sids, sessions'[n][s] # None,
             NEW q \in sessions'[n][s].acc
      PROVE  q # n /\ Then(q, s)
  <2>1. CASE sessions[n][s] # None /\ q \in sessions[n][s].acc
    BY <1>1, <1>2, <2>1
  <2>2. ASSUME NEW p \in net, p.to = n, p.msg.type = "Acceptance", p.msg.sid = s,
               q = p.msg.peer
        PROVE  q # n /\ Then(q, s)
    BY <1>1, <1>2, <2>2
  <2>. QED
    BY <1>0, <1>4, <2>1, <2>2, SessionOrigin
<1>. QED
  BY <1>3, <1>4 DEF AcceptInv, Accepted, Known

\* IInv holds in every state.
LEMMA Invariance == Spec => []IInv
<1>1. IInv /\ [Next]_vars => IInv'
  BY TypeStep, CurrentStep, AgreeStep, MemberStep, AcceptStep DEF IInv, KInv
<1>. QED
  BY InitIInv, <1>1, PTL DEF Spec

----------------------------------------------------------------------------
(* Theorems                                                                 *)

\* Party indices, sessions and messages keep their types on every node.
THEOREM TypeCorrect == Spec => []TypeOK
BY KInvariance, PTL DEF KInv

\* The current session of a node is one it knows, but for one moment.
THEOREM CurrentKnown == Spec => []CurrentSessionKnown
BY KInvariance, PTL DEF KInv, CurrentInv

\* Whoever's acceptance is counted is a participant that knows the session, and
\* holds the assignment it is counted for unless the session was made twice.
THEOREM AcceptancesMatch == Spec => []AcceptanceMatchesAssignment
<1>1. IInv => AcceptanceMatchesAssignment
  <2> SUFFICES ASSUME IInv, NEW n \in Nodes, NEW s \in Sids, Known(n, s),
                      NEW p \in sessions[n][s].acc
               PROVE  /\ p # s.coord
                      /\ Known(p, s)
                      /\ CalledOnce(s) => sessions[p][s].assign = sessions[n][s].assign
    BY DEF AcceptanceMatchesAssignment
  <2>1. Accepted(p, s)
    BY DEF IInv, AcceptInv
  <2>2. /\ Assigned(s, sessions[n][s].assign)
        /\ Assigned(s, sessions[p][s].assign)
    BY <2>1 DEF IInv, AgreeInv, Accepted
  <2>. QED
    BY <2>1, <2>2, OneAssignment DEF Accepted
<1>. QED
  BY <1>1, Invariance, PTL

\* All who know a session that was made once hold the indices of its coordinator.
LEMMA SameIndices ==
  ASSUME IInv, NEW n \in Nodes, NEW s \in Sids, Known(n, s), CalledOnce(s)
  PROVE  /\ s.coord \in Nodes /\ Known(s.coord, s)
         /\ sessions[n][s].assign = sessions[s.coord][s].assign
<1>1. Assigned(s, sessions[n][s].assign)
  BY DEF IInv, AgreeInv
<1>2. s.coord \in Nodes /\ Known(s.coord, s)
  BY <1>1, AssignedKnown DEF IInv
<1>3. Assigned(s, sessions[s.coord][s].assign)
  BY <1>2 DEF IInv, AgreeInv
<1>. QED
  BY <1>1, <1>2, <1>3, OneAssignment

\* Who has accepted is a participant other than the coordinator and the node
\* itself.
LEMMA AcceptanceBounds ==
  ASSUME IInv, NEW n \in Nodes, NEW s \in Sids, Known(n, s), CalledOnce(s)
  PROVE  /\ sessions[n][s].acc \subseteq Participants(sessions[n][s]) \ {n, s.coord}
         /\ {n, s.coord} \subseteq Participants(sessions[n][s])
         /\ IsFiniteSet(Participants(sessions[n][s]))
<1>1. sessions[n][s] \in SessionInfos
  <2>1. sessions \in [Nodes -> [Sids -> SessionInfos \cup {None}]]
    BY DEF IInv, KInv, TypeOK
  <2>. QED
    BY <2>1 DEF Known
<1>2. /\ s.coord \in Nodes /\ Known(s.coord, s)
      /\ sessions[n][s].assign = sessions[s.coord][s].assign
  BY SameIndices
<1>3. {n, s.coord} \subseteq Participants(sessions[n][s])
  BY <1>2 DEF IInv, MemberInv, Participants
<1>4. ASSUME NEW p \in sessions[n][s].acc
      PROVE  p \in Participants(sessions[n][s]) \ {n, s.coord}
  <2>1. p # n /\ p # s.coord /\ p \in Nodes /\ Known(p, s)
    BY DEF IInv, AcceptInv, Accepted
  <2>2. sessions[p][s].assign = sessions[n][s].assign
    BY <1>2, <2>1, SameIndices
  <2>3. p \in Participants(sessions[p][s])
    BY <2>1 DEF IInv, MemberInv
  <2>. QED
    BY <2>1, <2>2, <2>3 DEF Participants
<1>5. Participants(sessions[n][s]) \subseteq Nodes
  BY <1>1 DEF SessionInfos, Assignments, Participants
<1>6. IsFiniteSet(Participants(sessions[n][s]))
  BY <1>5, ConstantsAssumption, FS_Subset
<1>. QED
  BY <1>3, <1>4, <1>6

\* Only the coordinator of a session made once ever finds it ready: a participant
\* counts neither itself nor the coordinator.
THEOREM CoordinatorDecides == Spec => []OnlyCoordinatorReady
<1>1. IInv => OnlyCoordinatorReady
  <2> SUFFICES ASSUME IInv, NEW n \in Nodes, NEW s \in Sids, CalledOnce(s),
                      Ready(n, s), n # s.coord
               PROVE  FALSE
    BY DEF OnlyCoordinatorReady
  <2> DEFINE P == Participants(sessions[n][s])
             A == sessions[n][s].acc
  <2>1. /\ A \subseteq (P \ {n}) \ {s.coord}
        /\ n \in P /\ s.coord \in P \ {n}
        /\ IsFiniteSet(P)
    BY AcceptanceBounds DEF Ready
  <2>2. Cardinality(P) \in Nat
    BY <2>1, FS_CardinalityType
  <2>3. IsFiniteSet(P \ {n}) /\ Cardinality(P \ {n}) = Cardinality(P) - 1
    BY <2>1, FS_RemoveElement
  <2>4. /\ IsFiniteSet((P \ {n}) \ {s.coord})
        /\ Cardinality((P \ {n}) \ {s.coord}) = Cardinality(P \ {n}) - 1
    BY <2>1, <2>3, FS_RemoveElement
  <2>5. Cardinality(A) \in Nat /\ Cardinality(A) <= Cardinality((P \ {n}) \ {s.coord})
    BY <2>1, <2>4, FS_Subset, FS_CardinalityType
  <2>6. Cardinality(A) = Cardinality(P) - 1
    BY DEF Ready, AllAccepted
  <2>. QED
    BY <2>2, <2>3, <2>4, <2>5, <2>6
<1>. QED
  BY <1>1, Invariance, PTL

\* An orchestrator that was begun for a session made once has its indices.
LEMMA BeganIndices ==
  ASSUME IInv, NEW n \in Nodes, NEW s \in Sids, CalledOnce(s), Began(n, s),
         NEW a, Assigned(s, a)
  PROVE  Initialised(n, s, a)
<1>0. TypeOK /\ AgreeInv
  BY DEF IInv, KInv
<1>1. ASSUME NEW o \in made[n], o.sid = s PROVE [sid |-> s, assign |-> a] \in made[n]
  <2>1. o \in Orchestrators
    BY <1>0 DEF TypeOK
  <2>2. o.assign = a
    BY <1>0, <1>1, OneAssignment DEF AgreeInv
  <2>3. o = [sid |-> s, assign |-> a]
    BY <1>1, <2>1, <2>2 DEF Orchestrators
  <2>. QED
    BY <2>3
<1>2. ASSUME loop[n].pc = "storeOrch", loop[n].sid = s
      PROVE  loop[n] = Work("storeOrch", s, a)
  <2>1. loop[n] \in Works(LoopPcs)
    BY <1>0, <1>2 DEF TypeOK, Idle, LoopPcs
  <2>2. loop[n].assign = a
    BY <1>0, <1>2, OneAssignment DEF AgreeInv, Idle
  <2>. QED
    BY <1>2, <2>1, <2>2 DEF Works, Work
<1>. QED
  BY <1>1, <1>2 DEF Began, Initialised

\* When a session made once is ready, each of its participants other than the
\* coordinator has stored it and has made an orchestrator for this session with
\* the coordinator's indices, or is about to.
THEOREM ReadyInitialised == Spec => []ReadyMeansInitialised
<1>1. IInv => ReadyMeansInitialised
  <2> SUFFICES ASSUME IInv, NEW s \in Sids, CalledOnce(s), Ready(s.coord, s),
                      NEW p \in DOMAIN sessions[s.coord][s].assign \ {s.coord}
               PROVE  Known(p, s) /\ Initialised(p, s, sessions[s.coord][s].assign)
    BY DEF ReadyMeansInitialised
  <2> DEFINE P == Participants(sessions[s.coord][s])
             A == sessions[s.coord][s].acc
  <2>0. s.coord \in Nodes /\ Known(s.coord, s)
    BY DEF Sids, Ready
  <2>1. A \subseteq P \ {s.coord} /\ s.coord \in P /\ IsFiniteSet(P)
    BY <2>0, AcceptanceBounds
  <2>2. IsFiniteSet(P \ {s.coord}) /\ Cardinality(P \ {s.coord}) = Cardinality(P) - 1
    BY <2>1, FS_RemoveElement
  <2>3. Cardinality(A) = Cardinality(P) - 1
    BY DEF Ready, AllAccepted
  <2>4. A = P \ {s.coord}
    BY <2>1, <2>2, <2>3, FS_Subset
  <2>5. Accepted(p, s)
    BY <2>0, <2>4 DEF IInv, AcceptInv, Participants
  <2>6. Assigned(s, sessions[s.coord][s].assign)
    BY <2>0 DEF IInv, AgreeInv
  <2>. QED
    BY <2>5, <2>6, BeganIndices DEF Accepted
<1>. QED
  BY <1>1, Invariance, PTL

\* Orchestrators of one session agree on every party index, unless two calls
\* dealt the two.
THEOREM IndicesAgree == Spec => []OrchestratorsAgree
<1>1. IInv => OrchestratorsAgree
  <2> SUFFICES ASSUME IInv, NEW n \in Nodes, NEW m \in Nodes,
                      orch[n] # None, orch[m] # None, orch[n].sid = orch[m].sid
               PROVE  \/ orch[n].assign = orch[m].assign
                      \/ \E c, d \in Calls :
                           c # d /\ DealtBy(c, orch[n]) /\ DealtBy(d, orch[m])
    BY DEF OrchestratorsAgree
  <2>1. (\E c \in Calls : DealtBy(c, orch[n])) /\ (\E d \in Calls : DealtBy(d, orch[m]))
    BY DEF IInv, AgreeInv, Assigned, DealtBy
  <2>. QED
    BY <2>1 DEF DealtBy
<1>. QED
  BY <1>1, Invariance, PTL
=============================================================================
