---------------------- MODULE AssignmentSessionProofs ----------------------
(* What assignment promises of a session, for any nodes, callers, number of *)
(* calls and clock: the session is what Session says, and, when nothing is   *)
(* lost, it becomes what it was meant to be.                                 *)
EXTENDS AssignmentProofs

----------------------------------------------------------------------------
(* Indices                                                                  *)

\* Each node of a peer list without repetitions gets an index of its own, from
\* 0 on without a gap.
LEMMA IndicesDealt ==
  ASSUME NEW n \in Nodes, NEW peers \in PeerLists(n)
  PROVE  LET a == IndexAssignment(n, peers)
             P == DOMAIN a
         IN  /\ P \subseteq Nodes
             /\ a \in [P -> Nat]
             /\ \A p, q \in P : a[p] = a[q] => p = q
             /\ \A p \in P : \A i \in 0..a[p] : \E q \in P : a[q] = i
             /\ n \in P
             /\ a[n] = 0
<1> DEFINE a == IndexAssignment(n, peers)
           R == {peers[i] : i \in DOMAIN peers}
           P == {n} \cup R
<1>1. PICK k \in Nat : peers \in [1..k -> Nodes \ {n}]
  <2>1. Cardinality(Nodes) \in Nat
    BY ConstantsAssumption, FS_CardinalityType
  <2>2. PICK k \in 0..(Cardinality(Nodes) - 1) : peers \in [1..k -> Nodes \ {n}]
    BY DEF PeerLists
  <2>. QED
    BY <2>1, <2>2
<1>2. \A i, j \in 1..k : peers[i] = peers[j] => i = j
  BY <1>1 DEF PeerLists
<1>3. R \subseteq Nodes \ {n} /\ n \notin R
  BY <1>1
<1>4. ASSUME NEW m \in R
      PROVE  /\ (CHOOSE i \in DOMAIN peers : peers[i] = m) \in 1..k
             /\ peers[CHOOSE i \in DOMAIN peers : peers[i] = m] = m
  BY <1>1
<1>5. DOMAIN a = P /\ a[n] = 0
  BY DEF IndexAssignment
<1>6. \A m \in R : a[m] \in 1..k /\ peers[a[m]] = m
  BY <1>3, <1>4 DEF IndexAssignment
<1>7. a \in [P -> Nat]
  <2>1. \A m \in P : a[m] \in Nat
    BY <1>5, <1>6
  <2>2. a = [m \in P |-> a[m]]
    BY <1>5 DEF IndexAssignment
  <2>. QED
    BY <2>1, <2>2
<1>8. \A p, q \in P : a[p] = a[q] => p = q
  BY <1>1, <1>5, <1>6
<1>9. ASSUME NEW p \in P, NEW i \in 0..a[p] PROVE \E q \in P : a[q] = i
  <2>1. CASE i = 0
    BY <1>5, <2>1
  <2>2. CASE i # 0
    <3>1. i \in 1..k
      BY <1>1, <1>5, <1>6, <2>2
    <3>2. peers[i] \in R
      BY <1>1, <3>1
    <3>3. peers[a[peers[i]]] = peers[i] /\ a[peers[i]] \in 1..k
      BY <1>6, <3>2
    <3>4. a[peers[i]] = i
      BY <1>2, <3>1, <3>3
    <3>. QED
      BY <3>2, <3>4
  <2>. QED
    BY <2>1, <2>2
<1>. QED
  BY <1>3, <1>5, <1>7, <1>8, <1>9


----------------------------------------------------------------------------
(* Every step is one of Session, or changes nothing that Session sees       *)

\* An orchestrator is about to be made for a session that the node holds, by the
\* coordinator only when everyone else has been counted.
StoreInv ==
  \A n \in Nodes : loop[n].pc = "storeOrch" =>
    LET s == loop[n].sid IN
    /\ Known(n, s)
    /\ n = s.coord /\ CalledOnce(s) =>
         \A q \in Participants(sessions[n][s]) \ {n} : q \in sessions[n][s].acc

\* Whoever has accepted a session is a party of it other than its coordinator.
LEMMA AcceptedParty ==
  ASSUME IInv, NEW n \in Nodes, NEW s \in Sids, Known(n, s), CalledOnce(s),
         NEW p, Accepted(p, s)
  PROVE  p \in Participants(sessions[n][s]) \ {s.coord}
<1>1. sessions[n][s].assign = sessions[p][s].assign /\ p \in Nodes /\ p # s.coord
  BY SameIndices DEF Accepted
<1>2. p \in Participants(sessions[p][s])
  BY <1>1 DEF IInv, MemberInv, Accepted
<1>. QED
  BY <1>1, <1>2 DEF Participants

\* As many acceptances as there are peers are one of each peer.
LEMMA AllCounted ==
  ASSUME IInv, NEW n \in Nodes, NEW s \in Sids, Known(n, s), n = s.coord,
         CalledOnce(s), NEW A, A \subseteq Participants(sessions[n][s]) \ {s.coord},
         Cardinality(A) = Cardinality(Participants(sessions[n][s])) - 1
  PROVE  A = Participants(sessions[n][s]) \ {n}
<1> DEFINE P == Participants(sessions[n][s])
<1>1. n \in P /\ IsFiniteSet(P)
  BY AcceptanceBounds
<1>2. IsFiniteSet(P \ {n}) /\ Cardinality(P \ {n}) = Cardinality(P) - 1
  BY <1>1, FS_RemoveElement
<1>. QED
  BY <1>2, FS_Subset

\* Every step keeps StoreInv.
LEMMA StoreStep == IInv /\ StoreInv /\ [Next]_vars => StoreInv'
<1> SUFFICES ASSUME IInv, StoreInv, [Next]_vars,
                    NEW n \in Nodes, loop'[n].pc = "storeOrch",
                    NEW s, s = loop'[n].sid
             PROVE  /\ Known(n, s)'
                    /\ n = s.coord /\ CalledOnce(s)' =>
                         \A q \in Participants(sessions'[n][s]) \ {n} :
                           q \in sessions'[n][s].acc
  BY DEF StoreInv, Participants, CalledOnce
<1>0. KInv /\ TypeOK /\ (CalledOnce(s)' => CalledOnce(s))
  BY AssignedStays DEF IInv, KInv
<1>1. CASE loop'[n] = loop[n]
  <2>1. s \in Sids /\ sessions[n][s] # None
    BY <1>0, <1>1, WorkGiven DEF StoreInv, Known, Idle
  <2>2. n = s.coord /\ CalledOnce(s)' =>
          \A q \in Participants(sessions[n][s]) \ {n} : q \in sessions[n][s].acc
    BY <1>0, <1>1 DEF StoreInv
  <2>3. sessions'[n][s] # None
    BY <1>0, <2>1, KnownStep DEF Known
  <2>. QED
    BY <2>1, <2>2, <2>3, KeptStep DEF Known, Participants
<1>2. CASE SendAcceptance(n)
  <2>1. loop[n].sid \in Sids /\ loop[n].assign \in Assignments
    BY <1>0, <1>2, WorkGiven DEF SendAcceptance, Idle
  <2>2. s = loop[n].sid /\ n # s.coord
    BY <1>0, <1>2, WorkFields DEF SendAcceptance, TypeOK
  <2>3. sessions'[n][s] # None
    BY <1>0, <1>2, <2>1, <2>2, StoredSessionType DEF SendAcceptance
  <2>. QED
    BY <2>2, <2>3 DEF Known
<1>3. ASSUME NEW p \in net, p.to = n, ReceiveAcceptance(n, p.msg), loop'[n] # loop[n]
      PROVE  /\ Known(n, s)'
             /\ n = s.coord /\ CalledOnce(s)' =>
                  \A q \in Participants(sessions'[n][s]) \ {n} :
                    q \in sessions'[n][s].acc
  <2>1. PICK new : new = [sessions[n][p.msg.sid] EXCEPT !.acc = @ \cup {p.msg.peer}]
    OBVIOUS
  <2>2. /\ Known(n, p.msg.sid) /\ AllAccepted(new) /\ p.msg.type = "Acceptance"
        /\ sessions' = [sessions EXCEPT ![n][p.msg.sid] = new]
        /\ loop' = [loop EXCEPT ![n] = Work("storeOrch", p.msg.sid, new.assign)]
    BY <1>3, <2>1 DEF ReceiveAcceptance
  <2>3. s \in Sids /\ s = p.msg.sid
    BY <1>0, <2>2, WorkFields DEF TypeOK, Messages, Acceptances
  <2>4. sessions'[n][s] = new
    BY <1>0, <2>2, <2>3 DEF TypeOK
  <2>5. /\ new.assign = sessions[n][s].assign
        /\ new.acc = sessions[n][s].acc \cup {p.msg.peer}
    <3>1. sessions[n][s] \in SessionInfos
      BY <1>0, <2>2, <2>3 DEF TypeOK, Known
    <3>2. PICK v \in SessionInfos, q \in {p.msg.peer} : v = sessions[n][s]
      BY <3>1
    <3>3. new = [v EXCEPT !.acc = @ \cup {q}]
      BY <2>1, <2>3, <3>2
    <3>4. v.acc \subseteq Nodes /\ v = [assign |-> v.assign, acc |-> v.acc]
      BY DEF SessionInfos
    <3>5. new = [assign |-> v.assign, acc |-> v.acc \cup {q}]
      BY <3>3, <3>4
    <3>. QED
      BY <3>2, <3>5
  <2>6. Accepted(p.msg.peer, s)
    BY <2>2, <2>3 DEF IInv, AcceptInv
  <2>7. ASSUME n = s.coord, CalledOnce(s)'
        PROVE  new.acc = Participants(sessions[n][s]) \ {n}
    <3>0. CalledOnce(s)
      BY <1>0, <2>7
    <3>1. Known(n, s) /\ Participants(new) = Participants(sessions[n][s])
      BY <2>2, <2>3, <2>5 DEF Participants
    <3>2. sessions[n][s].acc \subseteq Participants(sessions[n][s]) \ {s.coord}
      BY <2>3, <3>0, <3>1, AcceptanceBounds
    <3>3. p.msg.peer \in Participants(sessions[n][s]) \ {s.coord}
      BY <2>3, <2>6, <3>0, <3>1, AcceptedParty
    <3>4. new.acc \subseteq Participants(sessions[n][s]) \ {s.coord}
      BY <2>5, <3>2, <3>3
    <3>5. Cardinality(new.acc) = Cardinality(Participants(sessions[n][s])) - 1
      BY <2>2, <3>1 DEF AllAccepted
    <3>. QED
      BY <2>3, <2>7, <3>0, <3>1, <3>4, <3>5, AllCounted
  <2>8. Known(n, s)'
    BY <1>0, <2>2, <2>3, KnownStep
  <2>. QED
    BY <2>4, <2>5, <2>7, <2>8 DEF Participants
<1>4. ASSUME NEW m \in Nodes, m # n, Deliver(m) \/ LoopStep(m)
      PROVE  loop'[n] = loop[n]
  <2>1. loop' = loop \/ \E w : loop' = [loop EXCEPT ![m] = w]
    BY <1>4 DEF Deliver, ReceiveRequest, ReceiveAcceptance, LoopStep, SendAcceptance,
       NoAcceptance, StoreOrchestrator
  <2>. QED
    BY <1>0, <1>4, <2>1 DEF TypeOK
<1>5. ASSUME NEW p \in net, p.to = n, ReceiveRequest(n, p.msg) PROVE loop'[n] = loop[n]
  BY <1>0, <1>5, WorkFields DEF ReceiveRequest, TypeOK
<1>6. ~NoAcceptance(n) /\ ~StoreOrchestrator(n)
  BY <1>0 DEF NoAcceptance, StoreOrchestrator, TypeOK, Idle
<1>7. \/ loop'[n] = loop[n]
      \/ SendAcceptance(n)
      \/ \E p \in net : p.to = n /\ ReceiveAcceptance(n, p.msg)
  <2>1. \/ \E m \in Nodes : Deliver(m) \/ LoopStep(m)
        \/ loop' = loop
    BY DEF Next, vars, CallStep, AssignPeerIndices, SetCurrent, SendRequest, Broadcast,
       Tick, Lose
  <2>. QED
    BY <1>4, <1>5, <1>6, <2>1 DEF Deliver, LoopStep
<1>. QED
  BY <1>1, <1>2, <1>3, <1>7


\* ... so it holds in every state.
LEMMA StoreInvariance == Spec => []StoreInv
<1>1. Init => StoreInv
  BY DEF Init, StoreInv, Idle
<1>2. IInv /\ StoreInv /\ [Next]_vars => StoreInv'
  BY StoreStep
<1>3. Spec => []IInv
  BY Invariance
<1>. QED
  BY <1>1, <1>2, <1>3, PTL DEF Spec

\* Whoever knows a session made once has joined it, under the dealt indices.
LEMMA JoinedKnown ==
  ASSUME IInv, NEW s \in Sids, CalledOnce(s)
  PROVE  /\ Joined(s) = {n \in Nodes : Known(n, s)}
         /\ \A a : Assigned(s, a) => s.coord \in Joined(s) /\ Dealt(s) = a
<1>1. Joined(s) = {n \in Nodes : Known(n, s)}
  BY SameIndices DEF Joined, Dealt
<1>2. ASSUME NEW a, Assigned(s, a) PROVE s.coord \in Joined(s) /\ Dealt(s) = a
  <2>1. s.coord \in Nodes /\ Known(s.coord, s)
    BY <1>2, AssignedKnown DEF IInv
  <2>2. Assigned(s, sessions[s.coord][s].assign)
    BY <2>1 DEF IInv, AgreeInv
  <2>. QED
    BY <1>1, <1>2, <2>1, <2>2, OneAssignment DEF Dealt
<1>. QED
  BY <1>1, <1>2

\* A step that leaves a session and the orchestrators alone is none of Session.
LEMMA SessionStutter ==
  ASSUME NEW s \in Sids, \A n \in Nodes : sessions'[n][s] = sessions[n][s],
         orch' = orch
  PROVE  UNCHANGED AsSession(s)!vars
<1>1. s.coord \in Nodes
  BY DEF Sids
<1>2. UNCHANGED <<Dealt(s), Counted(s), InUse(s)>>
  BY <1>1 DEF Dealt, Counted, InUse, Known
<1>3. UNCHANGED Joined(s)
  BY <1>2 DEF Joined, Known
<1>. QED
  BY <1>2, <1>3 DEF AsSession!vars

\* A call deals the indices of a session that nobody has joined.
LEMMA DealStep ==
  ASSUME IInv, [Next]_vars, NEW s \in Sids, CalledOnce(s)',
         NEW c \in Calls, NEW n \in Callers, NEW peers \in PeerLists(n),
         AssignPeerIndices(c, n, peers)
  PROVE  [AsSession(s)!Next]_(AsSession(s)!vars)
<1> DEFINE t == [coord |-> n, sec |-> now]
           a == IndexAssignment(n, peers)
<1>0. TypeOK /\ AgreeInv
  BY DEF IInv, KInv
<1>1. t \in Sids /\ t.coord = n /\ n \in Nodes /\ a \in Assignments
  BY <1>0, ConstantsAssumption, IndexAssignmentType DEF TypeOK, Sids
<1>2. /\ sessions' = [sessions EXCEPT ![n][t] = NewSession(a)]
      /\ call[c] = Idle /\ call' = [call EXCEPT ![c] = Work("inserted", t, a)]
      /\ orch' = orch
  BY DEF AssignPeerIndices
<1>3. CASE s # t
  <2>1. \A m \in Nodes : sessions'[m][s] = sessions[m][s]
    BY <1>0, <1>1, <1>2, <1>3 DEF TypeOK
  <2>. QED
    BY <1>2, <2>1, SessionStutter
<1>4. CASE s = t
  <2>1. s.coord = n
    BY <1>1, <1>4
  <2>2. ASSUME NEW m \in Nodes, Known(m, s) PROVE FALSE
    <3>1. PICK d \in Calls : call[d] # Idle /\ call[d].sid = s
      BY <1>0, <2>2 DEF AgreeInv, Assigned
    <3>2. call'[d] # Idle /\ call'[d].sid = s
      BY <1>0, <3>1, CallStays
    <3>3. call'[c] # Idle /\ call'[c].sid = s
      BY <1>0, <1>1, <1>2, <1>4, WorkType, WorkFields DEF TypeOK, CallPcs
    <3>. QED
      BY <1>2, <3>1, <3>2, <3>3 DEF CalledOnce
  <2>3. \A m \in Nodes :
          sessions'[m][s] = IF m = n THEN NewSession(a) ELSE sessions[m][s]
    BY <1>0, <1>1, <1>2, <1>4 DEF TypeOK
  <2>4. /\ NewSession(a) # None
        /\ NewSession(a).assign = a /\ NewSession(a).acc = {}
    BY <1>1, NewSessionType
  <2>5. Joined(s) = {} /\ Counted(s) = {} /\ Dealt(s) = <<>>
    BY <1>1, <2>1, <2>2 DEF Joined, Counted, Dealt
  <2>6. Known(n, s)' /\ \A m \in Nodes : Known(m, s)' => m = n
    BY <1>1, <2>2, <2>3, <2>4 DEF Known
  <2>7. Dealt(s)' = a /\ Counted(s)' = {}
    BY <1>1, <2>1, <2>3, <2>4, <2>6 DEF Dealt, Counted
  <2>8. Joined(s)' = {n}
    BY <1>1, <2>3, <2>4, <2>6, <2>7 DEF Joined
  <2>9. InUse(s)' = InUse(s)
    BY <1>2 DEF InUse
  <2>10. AsSession(s)!Dealt(a)
    <3>1. /\ DOMAIN a \subseteq Nodes
          /\ a \in [DOMAIN a -> Nat]
          /\ \A p, q \in DOMAIN a : a[p] = a[q] => p = q
          /\ \A p \in DOMAIN a : \A i \in 0..a[p] : \E q \in DOMAIN a : a[q] = i
          /\ n \in DOMAIN a /\ a[n] = 0
      BY <1>1, IndicesDealt
    <3> HIDE DEF a
    <3>. QED
      BY <2>1, <3>1 DEF AsSession!Dealt
  <2>11. AsSession(s)!Deal
    BY <2>1, <2>5, <2>7, <2>8, <2>9, <2>10 DEF AsSession!Deal
  <2>. QED
    BY <2>11 DEF AsSession!Next
<1>. QED
  BY <1>3, <1>4

\* A node that stores a session, or would have, joins it.
LEMMA JoinStep ==
  ASSUME IInv, NEW s \in Sids, CalledOnce(s),
         NEW n \in Nodes, SendAcceptance(n) \/ NoAcceptance(n)
  PROVE  [AsSession(s)!Next]_(AsSession(s)!vars)
<1> DEFINE w == loop[n]
<1>0. TypeOK /\ AgreeInv
  BY DEF IInv, KInv
<1>1. /\ w.pc = "storeSession" /\ w # Idle
      /\ sessions' = StoredSession(n, w) /\ orch' = orch
  BY DEF SendAcceptance, NoAcceptance, Idle
<1>2. w.sid \in Sids /\ w.assign \in Assignments
  BY <1>0, <1>1, WorkGiven
<1>3. \A m \in Nodes :
        sessions'[m][s] = IF m = n /\ s = w.sid /\ ~Known(m, s)
                            THEN NewSession(w.assign) ELSE sessions[m][s]
  BY <1>0, <1>1, <1>2, StoredSessionType
<1>4. CASE s # w.sid \/ Known(n, s)
  <2>1. \A m \in Nodes : sessions'[m][s] = sessions[m][s]
    BY <1>3, <1>4
  <2>. QED
    BY <1>1, <2>1, SessionStutter
<1>5. CASE s = w.sid /\ ~Known(n, s)
  <2>1. n # s.coord /\ n \in DOMAIN w.assign
    BY <1>1, <1>5 DEF IInv, KInv, MemberInv, ListedInv
  <2>2. s.coord \in Joined(s) /\ Dealt(s) = w.assign
    <3>1. Assigned(s, w.assign)
      BY <1>0, <1>1, <1>5 DEF AgreeInv
    <3>. QED
      BY <3>1, JoinedKnown
  <2>3. /\ sessions'[n][s] = NewSession(w.assign) /\ NewSession(w.assign) # None
        /\ NewSession(w.assign).assign = w.assign
        /\ \A m \in Nodes \ {n} : sessions'[m][s] = sessions[m][s]
    BY <1>2, <1>3, <1>5, NewSessionType
  <2>4. UNCHANGED <<Dealt(s), Counted(s), InUse(s)>>
    BY <1>1, <2>1, <2>2, <2>3 DEF Dealt, Counted, InUse, Joined, Known
  <2>5. Joined(s)' = {m \in Nodes : Known(m, s)' /\ sessions'[m][s].assign = w.assign}
    BY <2>2, <2>4 DEF Joined
  <2>6. Joined(s)' = Joined(s) \cup {n}
    BY <2>2, <2>3, <2>5 DEF Joined, Known
  <2>9. AsSession(s)!Join(n)
    BY <2>1, <2>2, <2>4, <2>6 DEF AsSession!Join, AsSession!Peers
  <2>. QED
    BY <2>9 DEF AsSession!Next
<1>. QED
  BY <1>4, <1>5

\* The coordinator counts an acceptance of a node that has joined; what other
\* nodes make of it is not seen.
LEMMA CountStep ==
  ASSUME IInv, [Next]_vars, NEW s \in Sids, CalledOnce(s),
         NEW n \in Nodes, NEW p \in net, p.to = n, ReceiveAcceptance(n, p.msg)
  PROVE  [AsSession(s)!Next]_(AsSession(s)!vars)
<1> DEFINE t == p.msg.sid
<1>0. KInv /\ TypeOK
  BY DEF KInv, IInv
<1>1. t \in Sids /\ orch' = orch /\ p.msg.type = "Acceptance"
  BY <1>0 DEF ReceiveAcceptance, TypeOK, Messages, Acceptances
<1>2. CASE ~Known(n, t)
  BY <1>1, <1>2, SessionStutter DEF ReceiveAcceptance
<1>3. ASSUME Known(n, t), s # t PROVE UNCHANGED AsSession(s)!vars
  <2>1. PICK new : sessions' = [sessions EXCEPT ![n][t] = new]
    BY <1>3 DEF ReceiveAcceptance
  <2>2. \A m \in Nodes : sessions'[m][s] = sessions[m][s]
    BY <1>0, <1>1, <1>3, <2>1 DEF TypeOK
  <2>. QED
    BY <1>1, <2>2, SessionStutter
<1>4. ASSUME Known(n, t), s = t PROVE [AsSession(s)!Next]_(AsSession(s)!vars)
  <2>1. PICK v \in SessionInfos, q \in {p.msg.peer} : v = sessions[n][s]
    BY <1>0, <1>1, <1>4 DEF TypeOK, Known
  <2>2. PICK new : /\ new = [v EXCEPT !.acc = @ \cup {q}]
                   /\ sessions' = [sessions EXCEPT ![n][s] = new]
    BY <1>4, <2>1 DEF ReceiveAcceptance
  <2>3. v = [assign |-> v.assign, acc |-> v.acc]
    BY DEF SessionInfos
  <2>4. new.assign = v.assign /\ new.acc = v.acc \cup {q}
    BY <2>2, <2>3
  <2>5. \A m \in Nodes : sessions'[m][s] = IF m = n THEN new ELSE sessions[m][s]
    BY <1>0, <2>2 DEF TypeOK
  <2>6. s.coord \in Nodes /\ Known(s.coord, s) /\ Known(n, s)
    BY <1>1, <1>4, SameIndices
  <2>7. \A m \in Nodes : Known(m, s)' <=> Known(m, s)
    BY <1>0, <2>5, <2>6, KnownStep DEF Known
  <2>8. \A m \in Nodes : sessions'[m][s].assign = sessions[m][s].assign
    BY <2>1, <2>4, <2>5
  <2>9. UNCHANGED <<Dealt(s), Joined(s), InUse(s)>>
    BY <1>1, <2>6, <2>7, <2>8 DEF Dealt, Joined, InUse
  <2>10. CASE n # s.coord
    BY <2>5, <2>6, <2>7, <2>9, <2>10 DEF AsSession!vars, Counted
  <2>11. CASE n = s.coord
    <3>1. Counted(s)' = Counted(s) \cup {q}
      BY <2>1, <2>4, <2>5, <2>6, <2>7, <2>11 DEF Counted
    <3>2. Accepted(q, s)
      BY <1>1, <1>4, <2>1 DEF IInv, AcceptInv
    <3>3. q \in DOMAIN Dealt(s) \ {s.coord}
      BY <2>6, <2>11, <3>2, AcceptedParty DEF Dealt, Participants
    <3>4. q \in Joined(s) /\ q \in Nodes
      BY <3>2, JoinedKnown DEF Accepted
    <3>5. AsSession(s)!Count(q)
      BY <2>9, <3>1, <3>3, <3>4 DEF AsSession!Count, AsSession!Peers
    <3>. QED
      BY <3>4, <3>5 DEF AsSession!Next
  <2>. QED
    BY <2>10, <2>11
<1>. QED
  BY <1>2, <1>3, <1>4

\* An orchestrator is made of a session that the node has joined, and by the
\* coordinator when it has counted everyone; for other sessions it replaces what
\* there was.
LEMMA MakeStep ==
  ASSUME IInv, StoreInv, NEW s \in Sids, CalledOnce(s),
         NEW n \in Nodes, StoreOrchestrator(n)
  PROVE  [AsSession(s)!Next]_(AsSession(s)!vars)
<1> DEFINE w == loop[n]
<1>0. TypeOK /\ AgreeInv
  BY DEF IInv, KInv
<1>1. /\ w.pc = "storeOrch" /\ w # Idle
      /\ orch' = [orch EXCEPT ![n] = [sid |-> w.sid, assign |-> w.assign]]
      /\ UNCHANGED sessions
  BY DEF StoreOrchestrator, Idle
<1>2. w.sid \in Sids /\ w.assign \in Assignments
  BY <1>0, <1>1, WorkGiven
<1>3. UNCHANGED <<Dealt(s), Joined(s), Counted(s)>>
  BY <1>1 DEF Dealt, Joined, Counted, Known
<1>4. [sid |-> w.sid, assign |-> w.assign] # None
  BY <1>2, NoneAssumption DEF Orchestrators
<1>5. \A m \in Nodes :
        orch'[m] = IF m = n THEN [sid |-> w.sid, assign |-> w.assign] ELSE orch[m]
  BY <1>0, <1>1 DEF TypeOK
<1>6. InUse(s)' = [InUse(s) EXCEPT ![n] = IF s = w.sid THEN w.assign ELSE <<>>]
  <2>1. PICK o : o = [sid |-> w.sid, assign |-> w.assign]
    OBVIOUS
  <2>2. \A m \in Nodes : orch'[m] = IF m = n THEN o ELSE orch[m]
    BY <1>5, <2>1
  <2>3. o.sid = w.sid /\ o.assign = w.assign /\ o # None
    BY <1>4, <2>1
  <2>4. \A m \in Nodes :
          (IF orch'[m] # None /\ orch'[m].sid = s THEN orch'[m].assign ELSE <<>>)
            = IF m = n THEN (IF s = w.sid THEN w.assign ELSE <<>>) ELSE InUse(s)[m]
    BY <2>2, <2>3 DEF InUse
  <2>. QED
    BY <2>4 DEF InUse
<1>7. CASE s # w.sid
  <2>1. AsSession(s)!ReplaceOrchestrator(n)
    BY <1>3, <1>6, <1>7 DEF AsSession!ReplaceOrchestrator, AsSession!Nobody
  <2>. QED
    BY <2>1 DEF AsSession!Next
<1>8. CASE s = w.sid
  <2>0. Known(n, s) /\ Assigned(s, w.assign)
    BY <1>0, <1>1, <1>8 DEF StoreInv, AgreeInv
  <2>1. Known(n, s) /\ Known(s.coord, s) /\ Dealt(s) = w.assign
    BY <2>0, JoinedKnown DEF Joined
  <2>2. n \in Joined(s)
    BY <2>1, JoinedKnown
  <2>3. ASSUME n = s.coord PROVE Counted(s) = DOMAIN Dealt(s) \ {s.coord}
    <3>1. \A q \in Participants(sessions[n][s]) \ {n} : q \in sessions[n][s].acc
      BY <1>1, <1>8, <2>3 DEF StoreInv
    <3>2. sessions[n][s].acc \subseteq Participants(sessions[n][s]) \ {n}
      BY <2>1, AcceptanceBounds
    <3>. QED
      BY <2>1, <2>3, <3>1, <3>2 DEF Counted, Dealt, Participants
  <2>4. AsSession(s)!MakeOrchestrator(n)
    BY <1>3, <1>6, <1>8, <2>1, <2>2, <2>3
    DEF AsSession!MakeOrchestrator, AsSession!Peers
  <2>. QED
    BY <2>4 DEF AsSession!Next
<1>. QED
  BY <1>7, <1>8

\* Every step is a step of Session, or none, for every session
\* made once.
LEMMA SessionStep ==
  IInv /\ StoreInv /\ [Next]_vars =>
    \A s \in Sids : CalledOnce(s)' => [AsSession(s)!Next]_(AsSession(s)!vars)
<1> SUFFICES ASSUME IInv, StoreInv, [Next]_vars, NEW s \in Sids, CalledOnce(s)'
             PROVE  [AsSession(s)!Next]_(AsSession(s)!vars)
  OBVIOUS
<1>0. CalledOnce(s)
  BY AssignedStays DEF IInv, KInv
<1>1. ASSUME NEW c \in Calls, NEW n \in Callers, NEW peers \in PeerLists(n),
             AssignPeerIndices(c, n, peers)
      PROVE  [AsSession(s)!Next]_(AsSession(s)!vars)
  BY <1>1, DealStep
<1>2. ASSUME NEW n \in Nodes, SendAcceptance(n) \/ NoAcceptance(n)
      PROVE  [AsSession(s)!Next]_(AsSession(s)!vars)
  BY <1>0, <1>2, JoinStep
<1>3. ASSUME NEW n \in Nodes, NEW p \in net, p.to = n, ReceiveAcceptance(n, p.msg)
      PROVE  [AsSession(s)!Next]_(AsSession(s)!vars)
  BY <1>0, <1>3, CountStep
<1>4. ASSUME NEW n \in Nodes, StoreOrchestrator(n)
      PROVE  [AsSession(s)!Next]_(AsSession(s)!vars)
  BY <1>0, <1>4, MakeStep
<1>5. CASE sessions' = sessions /\ orch' = orch
  BY <1>5, SessionStutter
<1>. QED
  BY <1>1, <1>2, <1>3, <1>4, <1>5
  DEF Next, vars, CallStep, SetCurrent, SendRequest, Broadcast, Deliver,
      ReceiveRequest, LoopStep, Tick, Lose

\* Every session is what Session promises for as long as no second call makes its
\* id: dealt once, joined under the coordinator's indices only, counted only after
\* joining, and an orchestrator only where and when it may be made.
THEOREM SessionRefinement == Spec => ImplementsSession
<1>1. Init => \A s \in Openable : AsSession(s)!Init
  BY NoneAssumption DEF Init, Openable, Sids, Known, Dealt, Joined, Counted, InUse,
     AsSession!Init, AsSession!Nobody
<1>2. IInv /\ StoreInv /\ [Next]_vars =>
        [\/ UNCHANGED <<sessions, orch>>
         \/ \A s \in Openable :
              CalledOnce(s)' => [AsSession(s)!Next]_(AsSession(s)!vars)]_vars
  BY SessionStep DEF Openable
<1>3. Spec => []IInv /\ []StoreInv
  BY Invariance, StoreInvariance
<1>. QED
  BY <1>1, <1>2, <1>3, PTL DEF Spec, ImplementsSession

----------------------------------------------------------------------------
(* What is still to come, when nothing is lost                              *)

\* The acceptance of s by q is on its way to the coordinator, or counted there.
AnswerComes(q, s) ==
  /\ Known(s.coord, s)
  /\ \/ \E p \in net : /\ p.to = s.coord
                       /\ p.msg.type = "Acceptance"
                       /\ p.msg.peer = q /\ p.msg.sid = s
     \/ q \in sessions[s.coord][s].acc

\* The request of s is on its way to q, or being handled by q, or q's answer
\* comes.
Underway(q, s, a) ==
  \/ [to |-> q, msg |-> Request(s, a)] \in net
  \/ loop[q].pc = "storeSession" /\ loop[q].sid = s
  \/ AnswerComes(q, s)

\* ... or it is still in the coordinator's queue.
RequestComes(q, s, a) ==
  \/ \E i \in DOMAIN commands[s.coord] : commands[s.coord][i] = Request(s, a)
  \/ Underway(q, s, a)

\* Everyone a call has asked is still to answer, or has answered.
AskedInv ==
  \A c \in Calls : call[c] # Idle /\ CalledOnce(call[c].sid) =>
    \A q \in DOMAIN call[c].assign \ {call[c].sid.coord} :
      \/ call[c].pc \in {"inserted", "current"}
      \/ RequestComes(q, call[c].sid, call[c].assign)

\* What a node has published, because of which gossipsub may refuse to publish
\* it again, reaches those it is for: an acceptance the coordinator, a request
\* the other parties.
PublishedInv ==
  \A n \in Nodes : \A m \in published[n] : CalledOnce(m.sid) =>
    /\ m.type = "Acceptance" =>
         m.peer = n /\ n # m.sid.coord /\ AnswerComes(n, m.sid)
    /\ m.type = "Request" =>
         \A q \in DOMAIN m.assign \ {m.sid.coord} : Underway(q, m.sid, m.assign)

\* The coordinator of a session with peers that is ready has made an orchestrator
\* for it, or is about to.
CoordinatorInv ==
  \A s \in Sids :
    Ready(s.coord, s) /\ sessions[s.coord][s].acc # {} => Began(s.coord, s)

RestInv == IInv /\ AskedInv /\ PublishedInv /\ CoordinatorInv

\* An answer that comes goes on to come until it is counted.
LEMMA AnswerStays ==
  ASSUME ~Lossy, IInv, [Next]_vars,
         NEW q \in Nodes, NEW s \in Sids, CalledOnce(s)', AnswerComes(q, s)
  PROVE  AnswerComes(q, s)'
<1>0. KInv /\ TypeOK /\ s.coord \in Nodes /\ sessions[s.coord][s] # None
  BY DEF IInv, KInv, Sids, AnswerComes, Known
<1>1. /\ sessions'[s.coord][s] # None
      /\ sessions[s.coord][s].acc \subseteq sessions'[s.coord][s].acc
  BY <1>0, KeptStep
<1>2. ASSUME NEW p \in net, p.to = s.coord, p.msg.type = "Acceptance",
             p.msg.peer = q, p.msg.sid = s
      PROVE  p \in net' \/ q \in sessions'[s.coord][s].acc
  <2>1. ASSUME NEW n \in Nodes, NEW r \in net, r.to = n, ReceiveRequest(n, r.msg)
        PROVE  p \in net'
    <3>1. r.msg.type = "Request" /\ net' = net \ {[to |-> n, msg |-> r.msg]}
      BY <2>1 DEF ReceiveRequest
    <3>. QED
      BY <1>2, <3>1
  <2>2. ASSUME NEW n \in Nodes, NEW r \in net, r.to = n, ReceiveAcceptance(n, r.msg)
        PROVE  p \in net' \/ q \in sessions'[s.coord][s].acc
    <3>1. net' = net \ {[to |-> n, msg |-> r.msg]}
      BY <2>2 DEF ReceiveAcceptance
    <3>2. CASE n = s.coord /\ r.msg = p.msg
      <4>1. sessions' = [sessions EXCEPT ![s.coord][s] =
              [sessions[s.coord][s] EXCEPT !.acc = @ \cup {q}]]
        BY <1>0, <1>2, <2>2, <3>2 DEF ReceiveAcceptance, Known
      <4>2. sessions[s.coord][s] \in SessionInfos
        BY <1>0 DEF TypeOK
      <4>3. sessions'[s.coord][s] = [sessions[s.coord][s] EXCEPT !.acc = @ \cup {q}]
        BY <1>0, <4>1 DEF TypeOK
      <4>. QED
        BY <4>2, <4>3 DEF SessionInfos
    <3>3. CASE ~(n = s.coord /\ r.msg = p.msg)
      BY <1>2, <3>1, <3>3
    <3>. QED
      BY <3>2, <3>3
  <2>3. ASSUME NEW n \in Nodes, Broadcast(n) \/ SendAcceptance(n) PROVE p \in net'
    BY <1>2, <2>3 DEF Broadcast, SendAcceptance, Published
  <2>4. CASE net' = net
    BY <1>2, <2>4
  <2>. QED
    BY <2>1, <2>2, <2>3, <2>4
    DEF Next, vars, CallStep, AssignPeerIndices, SetCurrent, SendRequest, Deliver,
        LoopStep, NoAcceptance, StoreOrchestrator, Tick, Lose
<1>. QED
  BY <1>1, <1>2 DEF AnswerComes, Known

\* A request underway goes on until it is answered.
LEMMA UnderwayStays ==
  ASSUME ~Lossy, IInv, PublishedInv, [Next]_vars,
         NEW s \in Sids, NEW a \in Assignments, NEW q \in DOMAIN a \ {s.coord},
         CalledOnce(s)', Underway(q, s, a)
  PROVE  Underway(q, s, a)'
<1> DEFINE req == Request(s, a)
<1>0. /\ KInv /\ TypeOK /\ s.coord \in Nodes /\ q \in Nodes
      /\ req.type = "Request" /\ req.sid = s /\ req.assign = a /\ CalledOnce(s)
  BY AssignedStays DEF IInv, KInv, Sids, Assignments, Request
<1>1. CASE AnswerComes(q, s)
  BY <1>0, <1>1, AnswerStays DEF Underway
<1>2. ASSUME loop[q].pc = "storeSession", loop[q].sid = s
      PROVE  Underway(q, s, a)'
  <2>1. ASSUME SendAcceptance(q) PROVE AnswerComes(q, s)'
    <3>1. PICK m : m = Acceptance(q, s, loop[q].assign[q])
      OBVIOUS
    <3>2. [to |-> s.coord, msg |-> m] \in net'
      BY <1>0, <1>2, <2>1, <3>1 DEF SendAcceptance, Published
    <3>3. m.type = "Acceptance" /\ m.peer = q /\ m.sid = s
      BY <3>1 DEF Acceptance
    <3>4. Known(s.coord, s)'
      <4>1. Assigned(s, loop[q].assign)
        BY <1>0, <1>2 DEF IInv, AgreeInv, Idle
      <4>. QED
        BY <1>0, <4>1, AssignedKnown, KnownStep
    <3>. QED
      BY <3>2, <3>3, <3>4 DEF AnswerComes
  <2>2. ASSUME NoAcceptance(q) PROVE AnswerComes(q, s)
    <3>1. Acceptance(q, s, loop[q].assign[q]) \in published[q]
      BY <1>2, <2>2 DEF NoAcceptance
    <3>. QED
      BY <1>0, <3>1 DEF PublishedInv, Acceptance
  <2>3. ASSUME NEW n \in Nodes, n # q, LoopStep(n) PROVE loop'[q] = loop[q]
    BY <1>0, <2>3 DEF LoopStep, SendAcceptance, NoAcceptance, StoreOrchestrator, TypeOK
  <2>4. ~StoreOrchestrator(q)
    BY <1>2 DEF StoreOrchestrator
  <2>5. ASSUME NEW n \in Nodes, Deliver(n) PROVE loop'[q] = loop[q]
    <3>1. /\ loop[n] = Idle
          /\ loop' = loop \/ \E w : loop' = [loop EXCEPT ![n] = w]
      BY <2>5 DEF Deliver, ReceiveRequest, ReceiveAcceptance
    <3>2. n # q
      BY <1>2, <3>1 DEF Idle
    <3>. QED
      BY <1>0, <3>1, <3>2 DEF TypeOK
  <2>6. loop'[q] = loop[q] \/ SendAcceptance(q) \/ NoAcceptance(q)
    BY <2>3, <2>4, <2>5
    DEF Next, vars, CallStep, AssignPeerIndices, SetCurrent, SendRequest, Broadcast,
        LoopStep, Tick, Lose
  <2>7. CASE loop'[q] = loop[q]
    BY <1>2, <2>7 DEF Underway
  <2>. QED
    BY <1>0, <2>1, <2>2, <2>6, <2>7, AnswerStays DEF Underway
<1>3. ASSUME [to |-> q, msg |-> req] \in net
      PROVE  Underway(q, s, a)'
  <2> DEFINE p == [to |-> q, msg |-> req]
  <2>1. ASSUME NEW n \in Nodes, NEW r \in net, r.to = n, ReceiveRequest(n, r.msg)
        PROVE  p \in net' \/ (loop'[q].pc = "storeSession" /\ loop'[q].sid = s)
    <3>1. net' = net \ {[to |-> n, msg |-> r.msg]}
      BY <2>1 DEF ReceiveRequest
    <3>2. CASE n = q /\ r.msg = req
      <4>1. loop' = [loop EXCEPT ![q] = Work("storeSession", s, a)]
        BY <1>0, <2>1, <3>2 DEF ReceiveRequest
      <4>. QED
        BY <1>0, <4>1, WorkFields DEF TypeOK
    <3>3. CASE ~(n = q /\ r.msg = req)
      BY <1>3, <3>1, <3>3
    <3>. QED
      BY <3>2, <3>3
  <2>2. ASSUME NEW n \in Nodes, NEW r \in net, r.to = n, ReceiveAcceptance(n, r.msg)
        PROVE  p \in net'
    <3>1. r.msg.type = "Acceptance" /\ net' = net \ {[to |-> n, msg |-> r.msg]}
      BY <2>2 DEF ReceiveAcceptance
    <3>. QED
      BY <1>0, <1>3, <3>1
  <2>3. ASSUME NEW n \in Nodes, Broadcast(n) \/ SendAcceptance(n) PROVE p \in net'
    BY <1>3, <2>3 DEF Broadcast, SendAcceptance, Published
  <2>4. p \in net' \/ (loop'[q].pc = "storeSession" /\ loop'[q].sid = s)
    BY <1>3, <2>1, <2>2, <2>3
    DEF Next, vars, CallStep, AssignPeerIndices, SetCurrent, SendRequest, Deliver,
        LoopStep, NoAcceptance, StoreOrchestrator, Tick, Lose
  <2>. QED
    BY <2>4 DEF Underway, Request
<1>. QED
  BY <1>1, <1>2, <1>3 DEF Underway

\* What a node has published is heard by those it is for.
LEMMA PublishedStep ==
  ~Lossy /\ IInv /\ PublishedInv /\ [Next]_vars => PublishedInv'
<1> DEFINE Heard(n, m) ==
             /\ m.type = "Acceptance" =>
                  m.peer = n /\ n # m.sid.coord /\ AnswerComes(n, m.sid)
             /\ m.type = "Request" =>
                  \A q \in DOMAIN m.assign \ {m.sid.coord} : Underway(q, m.sid, m.assign)
<1> SUFFICES ASSUME ~Lossy, IInv, PublishedInv, [Next]_vars,
                    NEW n \in Nodes, NEW m \in published'[n], CalledOnce(m.sid)'
             PROVE  Heard(n, m)'
  BY DEF PublishedInv, CalledOnce
<1>0. KInv /\ TypeOK /\ CalledOnce(m.sid)
  BY AssignedStays DEF IInv, KInv
<1>1. CASE m \in published[n]
  <2>1. Heard(n, m)
    BY <1>0, <1>1 DEF PublishedInv
  <2>2. m \in Messages /\ m.sid \in Sids
    BY <1>0, <1>1 DEF TypeOK, Messages, Acceptances
  <2>3. ASSUME m.type = "Acceptance"
        PROVE  m.peer = n /\ n # m.sid.coord /\ AnswerComes(n, m.sid)'
    BY <2>1, <2>2, <2>3, AnswerStays
  <2>4. ASSUME m.type = "Request", NEW q \in DOMAIN m.assign \ {m.sid.coord}
        PROVE  Underway(q, m.sid, m.assign)'
    <3>1. m.assign \in Assignments
      BY <2>2, <2>4 DEF Messages, Acceptances
    <3>2. Underway(q, m.sid, m.assign)
      BY <2>1, <2>4
    <3>. QED
      BY <2>2, <2>4, <3>1, <3>2, UnderwayStays
  <2>. QED
    BY <2>3, <2>4
<1>2. ASSUME NEW k \in Nodes, SendAcceptance(k), m \notin published[n]
      PROVE  Heard(n, m)'
  <2>1. loop[k] # Idle
    BY <1>2 DEF SendAcceptance, Idle
  <2>2. PICK s \in Sids : s = loop[k].sid
    BY <1>0, <2>1, WorkGiven
  <2>3. PICK a : a = Acceptance(k, s, loop[k].assign[k])
    OBVIOUS
  <2>4. /\ s.coord # k
        /\ net' = Published(k, a)
        /\ published' = [published EXCEPT ![k] = @ \cup {a}]
    BY <1>2, <2>2, <2>3 DEF SendAcceptance
  <2>5. k = n /\ m = a
    BY <1>0, <1>2, <2>4 DEF TypeOK
  <2>6. m.type = "Acceptance" /\ m.peer = n /\ m.sid = s
    BY <2>3, <2>5 DEF Acceptance
  <2>7. s.coord \in Nodes /\ Known(s.coord, s)
    <3>1. Assigned(s, loop[k].assign)
      BY <2>1, <2>2 DEF IInv, AgreeInv
    <3>. QED
      BY <1>0, <3>1, AssignedKnown
  <2>8. [to |-> s.coord, msg |-> m] \in net'
    BY <2>4, <2>5, <2>7 DEF Published
  <2>9. Known(s.coord, s)'
    BY <1>0, <2>7, KnownStep
  <2>10. AnswerComes(n, s)'
    BY <2>6, <2>8, <2>9 DEF AnswerComes
  <2>. QED
    BY <2>4, <2>5, <2>6, <2>10
<1>3. ASSUME NEW k \in Nodes, Broadcast(k), m \notin published[n]
      PROVE  Heard(n, m)'
  <2>1. /\ k = n /\ m = Head(commands[n])
        /\ net' = Published(n, m) \/ m \in published[n]
    BY <1>0, <1>3 DEF Broadcast, TypeOK
  <2>2. net' = Published(n, m)
    BY <1>3, <2>1
  <2>3. 1 \in DOMAIN commands[n] /\ m = commands[n][1] /\ m \in Messages
    <3>1. commands[n] \in Seq(Messages) /\ commands[n] # <<>>
      BY <1>0, <1>3, <2>1 DEF Broadcast, TypeOK
    <3>2. 1 \in DOMAIN commands[n] /\ Head(commands[n]) = commands[n][1]
      BY <3>1, EmptySeq
    <3>3. commands[n][1] \in Messages
      BY <3>1, <3>2
    <3>. QED
      BY <2>1, <3>2, <3>3
  <2>4. m.type = "Request" /\ m.sid.coord = n
    BY <2>3 DEF IInv, AgreeInv
  <2>5. m.assign \in Assignments /\ m = Request(m.sid, m.assign)
    BY <2>3, <2>4 DEF Messages, Acceptances, Request
  <2>6. ASSUME NEW q \in DOMAIN m.assign \ {m.sid.coord}
        PROVE  Underway(q, m.sid, m.assign)'
    <3>1. q \in Nodes \ {n}
      BY <2>4, <2>5, <2>6 DEF Assignments
    <3>2. [to |-> q, msg |-> m] \in net'
      BY <2>2, <3>1 DEF Published
    <3>. QED
      BY <2>5, <3>2 DEF Underway, Request
  <2>. QED
    BY <2>4, <2>6
<1>4. CASE published' = published
  BY <1>1, <1>4
<1> HIDE DEF Heard
<1>5. \/ \E k \in Nodes : SendAcceptance(k) \/ Broadcast(k)
      \/ published' = published
  BY DEF Next, vars, CallStep, AssignPeerIndices, SetCurrent, SendRequest,
     Deliver, ReceiveRequest, ReceiveAcceptance, LoopStep, NoAcceptance,
     StoreOrchestrator, Tick, Lose
<1>. QED
  BY <1>1, <1>2, <1>3, <1>4, <1>5

\* A request that comes goes on to come until it is answered.
LEMMA RequestStays ==
  ASSUME ~Lossy, IInv, PublishedInv, [Next]_vars,
         NEW s \in Sids, NEW a \in Assignments, NEW q \in DOMAIN a \ {s.coord},
         CalledOnce(s)', RequestComes(q, s, a)
  PROVE  RequestComes(q, s, a)'
<1> DEFINE req == Request(s, a)
           n == s.coord
<1>0. /\ KInv /\ TypeOK /\ n \in Nodes /\ q \in Nodes
      /\ req.type = "Request" /\ req.sid = s /\ req.assign = a /\ CalledOnce(s)
      /\ commands[n] \in Seq(Messages)
  BY AssignedStays DEF IInv, KInv, Sids, Assignments, Request, TypeOK
<1>1. CASE Underway(q, s, a)
  BY <1>1, UnderwayStays DEF RequestComes
<1>2. ASSUME NEW i \in DOMAIN commands[n], commands[n][i] = req
      PROVE  RequestComes(q, s, a)'
  <2>1. ASSUME Broadcast(n), i = 1 PROVE Underway(q, s, a)'
    <3>1. Head(commands[n]) = req
      BY <1>0, <1>2, <2>1, EmptySeq DEF Broadcast
    <3>2. CASE net' = Published(n, req)
      <4>1. [to |-> q, msg |-> req] \in net'
        BY <1>0, <3>2 DEF Published
      <4>. QED
        BY <4>1 DEF Underway, Request
    <3>3. CASE req \in published[n]
      <4>1. Underway(q, s, a)
        BY <1>0, <3>3 DEF PublishedInv
      <4>. QED
        BY <4>1, UnderwayStays
    <3>. QED
      BY <2>1, <3>1, <3>2, <3>3 DEF Broadcast
  <2>2. ASSUME Broadcast(n), i # 1
        PROVE  \E j \in DOMAIN commands'[n] : commands'[n][j] = req
    <3>1. commands'[n] = Tail(commands[n]) /\ commands[n] # <<>>
      BY <1>0, <2>2 DEF Broadcast, TypeOK
    <3>2. /\ Tail(commands[n]) \in Seq(Messages)
          /\ Len(Tail(commands[n])) = Len(commands[n]) - 1
          /\ \A j \in 1..Len(Tail(commands[n])) :
               Tail(commands[n])[j] = commands[n][j + 1]
      BY <1>0, <3>1, HeadTailProperties
    <3>3. i \in 2..Len(commands[n])
      BY <1>2, <1>0, <2>2
    <3>4. i - 1 \in DOMAIN Tail(commands[n]) /\ Tail(commands[n])[i - 1] = req
      <4>1. Len(commands[n]) \in Nat
        BY <1>0
      <4>2. i - 1 \in 1..Len(Tail(commands[n])) /\ (i - 1) + 1 = i
        BY <3>2, <3>3, <4>1
      <4>. QED
        BY <1>2, <3>2, <4>2
    <3>. QED
      BY <3>1, <3>4
  <2>3. ASSUME NEW c \in Calls, SendRequest(c)
        PROVE  \E j \in DOMAIN commands'[n] : commands'[n][j] = req
    <3> DEFINE m == Request(call[c].sid, call[c].assign)
    <3>1. call[c] # Idle
      BY <2>3 DEF SendRequest, Idle
    <3>2. m \in Messages
      BY <1>0, <3>1, WorkGiven DEF Request, Messages
    <3>3. commands'[n] = commands[n] \/ commands'[n] = Append(commands[n], m)
      BY <1>0, <2>3 DEF SendRequest, TypeOK
    <3>. QED
      BY <1>2, <1>0, <3>2, <3>3, AppendProperties
  <2>4. ASSUME NEW k \in Nodes, k # n, Broadcast(k) PROVE commands'[n] = commands[n]
    BY <1>0, <2>4 DEF Broadcast, TypeOK
  <2>5. \/ \E c \in Calls : SendRequest(c)
        \/ \E k \in Nodes : Broadcast(k)
        \/ commands' = commands
    BY DEF Next, vars, CallStep, AssignPeerIndices, SetCurrent, Deliver,
       ReceiveRequest, ReceiveAcceptance, LoopStep, SendAcceptance, NoAcceptance,
       StoreOrchestrator, Tick, Lose
  <2>6. \/ \E j \in DOMAIN commands'[n] : commands'[n][j] = req
        \/ Underway(q, s, a)'
    BY <1>2, <2>1, <2>2, <2>3, <2>4, <2>5
  <2>. QED
    BY <2>6 DEF RequestComes, Request
<1>. QED
  BY <1>1, <1>2 DEF RequestComes

\* Every step leaves those who have been asked about to answer.
LEMMA AskedStep ==
  ~Lossy /\ IInv /\ AskedInv /\ PublishedInv /\ [Next]_vars => AskedInv'
<1> SUFFICES ASSUME ~Lossy, IInv, AskedInv, PublishedInv, [Next]_vars,
                    NEW c \in Calls, call'[c] # Idle, CalledOnce(call[c].sid)',
                    call'[c].pc \notin {"inserted", "current"},
                    NEW q \in DOMAIN call'[c].assign \ {call'[c].sid.coord}
             PROVE  RequestComes(q, call[c].sid, call[c].assign)'
  BY DEF AskedInv
<1>0. KInv /\ TypeOK
  BY DEF IInv, KInv
<1>1. /\ ~\E n \in Callers : \E peers \in PeerLists(n) : AssignPeerIndices(c, n, peers)
      /\ ~SetCurrent(c)
  <2>1. ASSUME NEW n \in Callers, NEW peers \in PeerLists(n),
               AssignPeerIndices(c, n, peers)
        PROVE  call'[c].pc = "inserted"
    BY <1>0, <2>1, WorkFields DEF AssignPeerIndices, TypeOK
  <2>2. ASSUME SetCurrent(c) PROVE call'[c].pc = "current"
    BY <1>0, <2>2, WorkFields DEF SetCurrent, TypeOK
  <2>. QED
    BY <2>1, <2>2
<1>2. call'[c] = call[c] \/ SendRequest(c)
  <2>1. ASSUME NEW d \in Calls, d # c, NEW n \in Callers, NEW peers \in PeerLists(n),
               AssignPeerIndices(d, n, peers)
        PROVE  call'[c] = call[c]
    BY <1>0, <2>1 DEF AssignPeerIndices, TypeOK
  <2>2. ASSUME NEW d \in Calls, d # c, CallStep(d) PROVE call'[c] = call[c]
    BY <1>0, <2>2 DEF CallStep, SetCurrent, SendRequest, TypeOK
  <2>. QED
    BY <1>1, <2>1, <2>2
    DEF Next, vars, CallStep, Broadcast, Deliver, ReceiveRequest, ReceiveAcceptance,
        LoopStep, SendAcceptance, NoAcceptance, StoreOrchestrator, Tick, Lose
<1>3. /\ call[c] # Idle
      /\ call'[c].sid = call[c].sid /\ call'[c].assign = call[c].assign
  BY <1>0, <1>2, WorkFields DEF SendRequest, TypeOK, Idle
<1>4. PICK s \in Sids, a \in Assignments : s = call[c].sid /\ a = call[c].assign
  BY <1>0, <1>3, WorkGiven
<1>5. /\ q \in DOMAIN a \ {s.coord} /\ s.coord \in Nodes
      /\ CalledOnce(s)' /\ CalledOnce(s)
  <2>1. q \in DOMAIN a \ {s.coord} /\ s.coord \in Nodes
    BY <1>3, <1>4 DEF Sids
  <2>2. CalledOnce(s)'
    BY <1>3, <1>4 DEF CalledOnce
  <2>. QED
    BY <1>0, <2>1, <2>2, AssignedStays
<1>6. RequestComes(q, s, a)'
  <2>1. CASE SendRequest(c)
    <3> DEFINE m == Request(s, a)
    <3>1. commands' = [commands EXCEPT ![s.coord] = Append(@, m)]
      BY <1>4, <2>1 DEF SendRequest
    <3>2. commands[s.coord] \in Seq(Messages) /\ m \in Messages
      BY <1>0, <1>4, <1>5 DEF TypeOK, Request, Messages
    <3>3. commands'[s.coord] = Append(commands[s.coord], m)
      BY <1>0, <1>5, <3>1 DEF TypeOK
    <3>4. \E i \in DOMAIN commands'[s.coord] : commands'[s.coord][i] = m
      BY <3>2, <3>3, AppendProperties
    <3>. QED
      BY <3>4 DEF RequestComes, Request
  <2>2. CASE call'[c] = call[c]
    <3>1. RequestComes(q, s, a)
      BY <1>3, <1>4, <1>5, <2>2 DEF AskedInv
    <3>. QED
      BY <1>4, <1>5, <3>1, RequestStays
  <2>. QED
    BY <1>2, <2>1, <2>2
<1>. QED
  BY <1>3, <1>4, <1>6

\* The step that completes a session starts making its orchestrator.
LEMMA CoordinatorStep == IInv /\ CoordinatorInv /\ [Next]_vars => CoordinatorInv'
<1> SUFFICES ASSUME IInv, CoordinatorInv, [Next]_vars,
                    NEW s \in Sids, Ready(s.coord, s)', sessions'[s.coord][s].acc # {}
             PROVE  Began(s.coord, s)'
  BY DEF CoordinatorInv
<1>0. KInv /\ s.coord \in Nodes
  BY DEF IInv, Sids
<1>1. sessions'[s.coord][s] # None /\ AllAccepted(sessions'[s.coord][s])
  BY DEF Ready, Known, AllAccepted, Participants
<1>2. CASE sessions[s.coord][s] # None /\ sessions'[s.coord][s] = sessions[s.coord][s]
  <2>1. Began(s.coord, s)
    BY <1>1, <1>2 DEF CoordinatorInv, Ready, Known
  <2>. QED
    BY <1>0, <2>1, BeganStays
<1>3. CASE loop'[s.coord].pc = "storeOrch" /\ loop'[s.coord].sid = s
  BY <1>3 DEF Began
<1>. QED
  BY <1>0, <1>1, <1>2, <1>3, SessionOrigin

\* RestInv holds in every state, if nothing is lost.
LEMMA RestInvariance == ~Lossy => (Spec => []RestInv)
<1> SUFFICES ASSUME ~Lossy PROVE Spec => []RestInv
  OBVIOUS
<1>1. Init => AskedInv /\ PublishedInv /\ CoordinatorInv
  BY DEF Init, AskedInv, PublishedInv, CoordinatorInv, Ready, Known, Sids
<1>2. IInv /\ [Next]_vars => IInv'
  BY TypeStep, CurrentStep, AgreeStep, MemberStep, AcceptStep DEF IInv, KInv
<1>3. RestInv /\ [Next]_vars => RestInv'
  BY <1>2, AskedStep, PublishedStep, CoordinatorStep DEF RestInv
<1>. QED
  BY InitIInv, <1>1, <1>3, PTL DEF Spec, RestInv

\* A network that loses nothing and has come to rest has answered every call that
\* made its session alone: the session is ready and all who take part have made
\* an orchestrator with the indices of the call.
THEOREM RestIsInitialised == ~Lossy => (Spec => []RestMeansInitialised)
<1>1. RestInv => RestMeansInitialised
  <2> SUFFICES ASSUME RestInv, Resting, NEW c \in Calls, call[c].pc = "done",
                      CalledOnce(call[c].sid),
                      NEW s, s = call[c].sid, NEW a, a = call[c].assign
               PROVE  /\ Ready(s.coord, s)
                      /\ DOMAIN a # {s.coord} =>
                           \A p \in DOMAIN a : [sid |-> s, assign |-> a] \in made[p]
    BY DEF RestMeansInitialised
  <2> DEFINE P == DOMAIN a
             A == sessions[s.coord][s].acc
  <2>0. /\ IInv /\ KInv /\ TypeOK /\ AskedInv /\ CoordinatorInv
        /\ call[c] # Idle
    BY DEF RestInv, IInv, KInv, Idle
  <2>1. /\ s \in Sids /\ s.coord \in Nodes /\ a \in Assignments
        /\ Known(s.coord, s) /\ Assigned(s, a)
    BY <2>0, AssignedKnown DEF Assigned
  <2>2. P = Participants(sessions[s.coord][s])
    BY <2>0, <2>1, OneAssignment DEF IInv, AgreeInv, Participants
  <2>3. A \subseteq P \ {s.coord} /\ s.coord \in P /\ IsFiniteSet(P)
    BY <2>0, <2>1, <2>2, AcceptanceBounds
  <2>4. ASSUME NEW q \in P \ {s.coord} PROVE q \in A
    <3>1. RequestComes(q, s, a)
      BY <2>0, <2>1 DEF AskedInv
    <3>2. q \in Nodes
      BY <2>1 DEF Assignments
    <3>3. net = {} /\ commands[s.coord] = <<>> /\ loop[q].pc = "idle"
      BY <2>1, <3>2 DEF Resting, Idle
    <3>. QED
      BY <3>1, <3>3 DEF RequestComes, Underway, AnswerComes
  <2>5. A = P \ {s.coord}
    BY <2>3, <2>4
  <2>6. Ready(s.coord, s)
    <3>1. Cardinality(P \ {s.coord}) = Cardinality(P) - 1
      BY <2>3, FS_RemoveElement
    <3>. QED
      BY <2>1, <2>2, <2>5, <3>1 DEF Ready, AllAccepted
  <2>7. ASSUME P # {s.coord}, NEW p \in P
        PROVE  [sid |-> s, assign |-> a] \in made[p]
    <3>1. p \in Nodes /\ loop[p] = Idle
      BY <2>1 DEF Assignments, Resting
    <3>2. ASSUME p = s.coord PROVE Began(p, s)
      <4>1. A # {}
        BY <2>3, <2>5, <2>7
      <4>. QED
        BY <2>0, <2>1, <2>6, <3>2, <4>1 DEF CoordinatorInv
    <3>3. ASSUME p # s.coord PROVE Began(p, s)
      BY <2>0, <2>1, <2>5, <3>3 DEF IInv, AcceptInv, Accepted
    <3>4. Began(p, s)
      BY <3>2, <3>3
    <3>5. Initialised(p, s, a)
      BY <2>0, <2>1, <3>1, <3>4, BeganIndices
    <3>. QED
      BY <3>1, <3>5 DEF Initialised, Idle, Work
  <2>. QED
    BY <2>6, <2>7
<1>. QED
  BY <1>1, RestInvariance, PTL
=============================================================================
