------------------------ MODULE ProtocolRestProofs ------------------------
(* Proof that the nodes of ProtocolRun come to rest only with every phase   *)
(* done or refused, for any quorum, callers, timestamps and rounds.         *)
EXTENDS ProtocolRunProofs, NaturalsInduction, WellFoundedInduction

----------------------------------------------------------------------------
(* The inductive invariant                                                  *)

\* All nodes have answered one and the same initiation of p, or will.
Announced(p, s) ==
  \E by \in Nodes : \A n \in Nodes :
    Answered(n, Initiation(p, s, by)) \/ Pending(n, Initiation(p, s, by))
BegunInv ==
  /\ \A n \in Nodes, p \in Phases, s \in Seconds : <<n, p, s>> \in ran => Announced(p, s)
  /\ \A n \in Nodes, p \in Phases : st[n] = InProgress[p] => \E s \in Seconds : Announced(p, s)

\* A run that began goes on, has its result or has failed on a clash.
ReachedInv ==
  \A n \in Nodes, p \in Phases, s \in Seconds : <<n, p, s>> \in ran => Reached(n, p, s, 0)

\* An initiation comes after the messages of earlier phases only.
Order == [aux |-> 1, keygen |-> 2, signing |-> 3]
OrderInv ==
  \A a, b \in Nodes : \A i, j \in DOMAIN net[a][b] :
    i < j /\ net[a][b][i].kind = "run" /\ net[a][b][j].kind = "initiate"
      => Order[net[a][b][i].phase] < Order[net[a][b][j].phase]

\* j has sent round r of the run of p with timestamp s; k has the message, or
\* will, or has refused the phase, or there is a clash.
Sent(j, p, s, r) == \/ [phase |-> p, sec |-> s] \in done[j]
                    \/ run[j].phase = p /\ run[j].sec = s /\ run[j].round >= r
Coming(j, k, p, s, r) ==
  \E x \in Way(j, k) : /\ x.kind = "run" /\ x.phase = p /\ x.sec = s
                       /\ x.round = r /\ k \in x.to
Heeds(j, k, p, s, r) == <<k, p, s>> \in ran /\ (run[k].phase = p => j \in Heard(run[k], r))
Delivered(j, k, p, s, r) == \/ Coming(j, k, p, s, r)
                            \/ <<k, p>> \in refused
                            \/ Clash(p, s)
                            \/ Heeds(j, k, p, s, r)
DeliveryInv ==
  \A p \in Phases, s \in Seconds, j \in Nodes, k \in Nodes : \A r \in 1..Len(Rounds[p]) :
    k \in Parties(p) \ {j} /\ j \in Parties(p) /\ Sent(j, p, s, r) => Delivered(j, k, p, s, r)

RestInv == IInv /\ BegunInv /\ ReachedInv /\ OrderInv /\ DeliveryInv

----------------------------------------------------------------------------
(* Initiations and runs                                                     *)

\* What was announced stays so.
LEMMA AnnouncedStays ==
  ASSUME IInv, [Next]_vars, NEW p \in Phases, NEW s \in Seconds, Announced(p, s)
  PROVE  Announced(p, s)'
<1>1. PICK by \in Nodes : \A n \in Nodes :
        Answered(n, Initiation(p, s, by)) \/ Pending(n, Initiation(p, s, by))
  BY DEF Announced
<1> DEFINE x == Initiation(p, s, by)
<1>2. x \in RunInitiations
  BY InitiationFacts
<1> HIDE DEF x
<1>3. Grows
  BY Evolution DEF IInv
<1>4. \A n \in Nodes : Answered(n, x) => Answered(n, x)'
  BY <1>3 DEF Answered, Grows
<1>5. \A n \in Nodes : Pending(n, x) => Pending(n, x)' \/ Answered(n, x)'
  BY <1>2, PendingStays
<1>6. \A n \in Nodes : Answered(n, x)' \/ Pending(n, x)'
  BY <1>1, <1>4, <1>5 DEF x
<1>. QED
  BY <1>6 DEF Announced, x

\* An initiation that was made is announced.
LEMMA MadeAnnounced ==
  ASSUME InitiationInv, NEW x \in RunInitiations, Made(x)
  PROVE  Announced(x.phase, x.sec)
<1>1. x.by \in Nodes /\ x = Initiation(x.phase, x.sec, x.by)
  BY InitiationFacts
<1>2. \A n \in Nodes : Answered(n, x) \/ Pending(n, x)
  BY DEF InitiationInv
<1>. QED
  BY <1>1, <1>2 DEF Announced

\* A phase is entered, and a run begun, on an initiation that was made.
LEMMA EntryOrigin ==
  ASSUME IInv, [Next]_vars
  PROVE  /\ \A n \in Nodes, p \in Phases : st'[n] = InProgress[p] =>
              st[n] = InProgress[p] \/ \E x \in RunInitiations : x.phase = p /\ Made(x)
         /\ \A n \in Nodes, p \in Phases, s \in Seconds : <<n, p, s>> \in ran' =>
              \/ <<n, p, s>> \in ran
              \/ \E x \in RunInitiations : x.phase = p /\ x.sec = s /\ Made(x)
<1> DEFINE Entered == \A n \in Nodes, p \in Phases : st'[n] = InProgress[p] =>
              st[n] = InProgress[p] \/ \E x \in RunInitiations : x.phase = p /\ Made(x)
           Ran == \A n \in Nodes, p \in Phases, s \in Seconds : <<n, p, s>> \in ran' =>
              \/ <<n, p, s>> \in ran
              \/ \E x \in RunInitiations : x.phase = p /\ x.sec = s /\ Made(x)
<1>0. /\ TypeInv /\ net \in [Nodes -> [Nodes -> Seq(Wires)]]
      /\ st \in [Nodes -> States \cup {NoOrchestrator}]
  BY DEF IInv, TypeInv, TypeOK
<1>1. /\ \A p, q \in Phases : InProgress[p] = InProgress[q] => p = q
      /\ \A p, q \in Phases : Completed[q] # InProgress[p]
      /\ \A p \in Phases : InProgress[p] # "Failed" /\ InProgress[p] # "Idle"
  BY DEF Phases, InProgress, Completed
<1>2. ASSUME NEW k \in Nodes, NEW m \in RunInitiations, Made(m), Handle(k, m)
      PROVE  Entered /\ Ran
  <2>1. m.phase \in Phases
    BY InitiationFacts
  <2>2. st' = st \/ st' = [st EXCEPT ![k] = InProgress[m.phase]]
    BY <1>2 DEF Handle
  <2>3. ran' = ran \/ ran' = ran \cup {<<k, m.phase, m.sec>>}
    BY <1>2 DEF Handle
  <2>4. Entered
    BY <1>0, <1>1, <1>2, <2>1, <2>2
  <2>5. Ran
    BY <1>2, <2>3
  <2>. QED
    BY <2>4, <2>5
<1>3. ASSUME NEW k \in Nodes, RpcHandle(k) PROVE Entered /\ Ran
  <2>1. rpc[k] \in RunInitiations /\ Handle(k, rpc[k])
    BY <1>0, <1>3 DEF RpcHandle, TypeInv
  <2>2. Made(rpc[k])
    BY DEF Made
  <2> HIDE DEF Entered, Ran
  <2>. QED
    BY <1>2, <2>1, <2>2
<1>4. ASSUME NEW a \in Nodes, NEW k \in Nodes, ReceiveInitiation(a, k)
      PROVE  Entered /\ Ran
  <2>1. Head(net[a][k]) \in Way(a, k) /\ Head(net[a][k]) \in Wires
    BY <1>0, <1>4, TakeWay DEF ReceiveInitiation, Deliverable
  <2>2. Head(net[a][k]) \in RunInitiations /\ Handle(k, Head(net[a][k]))
    BY <1>4, <2>1, WireFacts DEF ReceiveInitiation
  <2>3. Made(Head(net[a][k]))
    BY <2>1 DEF Made
  <2> HIDE DEF Entered, Ran
  <2>. QED
    BY <1>2, <2>2, <2>3
<1>5. ASSUME NEW k \in Nodes, FinishRun(k) PROVE Entered /\ Ran
  <2>1. run[k].phase \in Phases
    BY <1>0, <1>5, RunFacts DEF FinishRun
  <2>2. st' = [st EXCEPT ![k] = Completed[run[k].phase]] /\ ran' = ran
    BY <1>5 DEF FinishRun
  <2>. QED
    BY <1>0, <1>1, <2>1, <2>2
<1>6. ASSUME NEW k \in Nodes, FailRun(k) \/ StoreOrchestrator(k) PROVE Entered /\ Ran
  <2>1. /\ \/ st' = [st EXCEPT ![k] = "Failed"]
           \/ st' = [st EXCEPT ![k] = "Idle"]
        /\ ran' = ran
    BY <1>6 DEF FailRun, StoreOrchestrator
  <2>. QED
    BY <1>0, <1>1, <2>1
<1>7. ASSUME UNCHANGED <<st, ran>> PROVE Entered /\ Ran
  <2>1. st' = st /\ ran' = ran
    BY <1>7
  <2>2. Entered
    BY <2>1
  <2>3. Ran
    BY <2>1
  <2>. QED
    BY <2>2, <2>3
<1> HIDE DEF Entered, Ran
<1>8. /\ \A k \in Nodes, p \in Phases, s \in Seconds :
           RpcBroadcast(k, p, s) => UNCHANGED <<st, ran>>
      /\ \A a, k \in Nodes, p \in Phases : Forward(a, k, p) => UNCHANGED <<st, ran>>
      /\ \A k \in Nodes, p \in Phases : SendRound(k, p) => UNCHANGED <<st, ran>>
      /\ UNCHANGED vars => UNCHANGED <<st, ran>>
  BY DEF RpcBroadcast, Forward, SendRound, vars
<1>9. Entered /\ Ran
  BY <1>3, <1>4, <1>5, <1>6, <1>7, <1>8, NextCases
<1>. QED
  BY <1>9 DEF Entered, Ran

\* Every step keeps a phase that has begun announced.
LEMMA BegunStep == IInv /\ BegunInv /\ [Next]_vars => BegunInv'
<1> SUFFICES ASSUME IInv, BegunInv, [Next]_vars PROVE BegunInv'
  OBVIOUS
<1>0. InitiationInv
  BY DEF IInv
<1>1. \A x \in RunInitiations : Made(x) =>
        x.phase \in Phases /\ x.sec \in Seconds /\ Announced(x.phase, x.sec)
  BY <1>0, MadeAnnounced, InitiationFacts
<1>2. ASSUME NEW n \in Nodes, NEW p \in Phases, NEW s \in Seconds, <<n, p, s>> \in ran'
      PROVE  Announced(p, s)'
  <2>1. Announced(p, s)
    BY <1>1, <1>2, EntryOrigin DEF BegunInv
  <2>. QED
    BY <2>1, AnnouncedStays
<1>3. ASSUME NEW n \in Nodes, NEW p \in Phases, st'[n] = InProgress[p]
      PROVE  \E s \in Seconds : Announced(p, s)'
  <2>1. \E s \in Seconds : Announced(p, s)
    BY <1>1, <1>3, EntryOrigin DEF BegunInv
  <2>. QED
    BY <2>1, AnnouncedStays
<1>. QED
  BY <1>2, <1>3 DEF BegunInv

\* Every step leaves a run that began going on, or ends it.
LEMMA RunStep == IInv /\ ReachedInv /\ [Next]_vars => ReachedInv'
<1> SUFFICES ASSUME IInv, ReachedInv, [Next]_vars,
                    NEW n \in Nodes, NEW p \in Phases, NEW s \in Seconds, <<n, p, s>> \in ran'
             PROVE  Reached(n, p, s, 0)'
  BY DEF ReachedInv
<1>1. CASE <<n, p, s>> \in ran
  BY <1>1, ReachedStays DEF ReachedInv
<1>2. CASE <<n, p, s>> \notin ran
  <2>1. RanGrows
    BY Evolution DEF IInv
  <2>2. PICK m : Begins(n, m) /\ p = m.phase /\ s = m.sec
    BY <1>2, <2>1 DEF RanGrows, Begins
  <2>. QED
    BY <2>2 DEF Begins, NewRun, Reached
<1>. QED
  BY <1>1, <1>2

----------------------------------------------------------------------------
(* The order of messages                                                    *)

\* The elements of a concatenation are those of the first sequence, then those of
\* the second.
LEMMA ConcatFacts ==
  ASSUME NEW S, NEW s \in Seq(S), NEW t \in Seq(S)
  PROVE  /\ \A k \in DOMAIN (s \o t) :
              \/ k \in DOMAIN s /\ (s \o t)[k] = s[k]
              \/ k \notin DOMAIN s /\ k - Len(s) \in DOMAIN t /\ (s \o t)[k] = t[k - Len(s)]
         /\ \A k, l \in DOMAIN (s \o t) : k < l =>
              (l \in DOMAIN s => k \in DOMAIN s) /\ k - Len(s) < l - Len(s)
<1>1. /\ Len(s) \in Nat /\ Len(t) \in Nat
      /\ DOMAIN s = 1..Len(s) /\ DOMAIN t = 1..Len(t)
      /\ DOMAIN (s \o t) = 1..(Len(s) + Len(t))
      /\ \A k \in 1..(Len(s) + Len(t)) :
           (s \o t)[k] = IF k <= Len(s) THEN s[k] ELSE t[k - Len(s)]
  BY ConcatProperties, LenProperties
<1>2. \A k, l \in DOMAIN (s \o t) : k < l =>
        (l \in DOMAIN s => k \in DOMAIN s) /\ k - Len(s) < l - Len(s)
  BY <1>1
<1>3. ASSUME NEW k \in DOMAIN (s \o t)
      PROVE  \/ k \in DOMAIN s /\ (s \o t)[k] = s[k]
             \/ k \notin DOMAIN s /\ k - Len(s) \in DOMAIN t /\ (s \o t)[k] = t[k - Len(s)]
  <2>1. CASE k <= Len(s)
    BY <1>1, <2>1
  <2>2. CASE ~(k <= Len(s))
    <3>1. k \in 1..(Len(s) + Len(t)) /\ k \notin 1..Len(s) /\ k - Len(s) \in 1..Len(t)
      BY <1>1, <2>2
    <3>. QED
      BY <1>1, <2>2, <3>1
  <2>. QED
    BY <2>1, <2>2
<1>. QED
  BY <1>2, <1>3

\* What is published keeps the order if it does so by itself and after what is
\* on its way already.
LEMMA PublishOrder ==
  ASSUME net \in [Nodes -> [Nodes -> Seq(Wires)]], OrderInv, NEW a \in Nodes,
         NEW ms \in Seq(Wires), Publish(a, ms),
         \A j \in DOMAIN ms : ms[j].kind = "initiate" =>
           /\ \A b \in Nodes : \A x \in Way(a, b) :
                x.kind = "run" => Order[x.phase] < Order[ms[j].phase]
           /\ \A i \in DOMAIN ms : i < j => ms[i].kind # "run"
  PROVE  OrderInv'
<1> SUFFICES ASSUME NEW c \in Nodes, NEW b \in Nodes,
                    NEW i \in DOMAIN net'[c][b], NEW j \in DOMAIN net'[c][b],
                    i < j, net'[c][b][i].kind = "run", net'[c][b][j].kind = "initiate"
             PROVE  Order[net'[c][b][i].phase] < Order[net'[c][b][j].phase]
  BY DEF OrderInv
<1>1. net'[c][b] = IF c = a /\ b # a THEN net[c][b] \o ms ELSE net[c][b]
  BY DEF Publish
<1>2. CASE ~(c = a /\ b # a)
  BY <1>1, <1>2 DEF OrderInv
<1>3. CASE c = a /\ b # a
  <2> DEFINE s == net[a][b]
             u == s \o ms
  <2>1. s \in Seq(Wires) /\ net'[c][b] = u
    BY <1>1, <1>3
  <2>2. i \in DOMAIN u /\ j \in DOMAIN u /\ u[i].kind = "run" /\ u[j].kind = "initiate"
    BY <2>1
  <2>3. \A k, l \in DOMAIN s : k < l /\ s[k].kind = "run" /\ s[l].kind = "initiate"
                                => Order[s[k].phase] < Order[s[l].phase]
    BY DEF OrderInv
  <2>4. \A k \in DOMAIN s : s[k] \in Way(a, b)
    BY DEF Way
  <2> HIDE DEF s
  <2>5. CASE j \in DOMAIN s
    <3>1. u[j] = s[j] /\ i \in DOMAIN s
      BY <2>1, <2>2, <2>5, ConcatFacts
    <3>2. u[i] = s[i]
      BY <2>1, <2>2, <3>1, ConcatFacts
    <3>. QED
      BY <2>1, <2>2, <2>3, <2>5, <3>1, <3>2
  <2>6. CASE j \notin DOMAIN s
    <3>1. j - Len(s) \in DOMAIN ms /\ u[j] = ms[j - Len(s)]
      BY <2>1, <2>2, <2>6, ConcatFacts
    <3>2. CASE i \in DOMAIN s
      <4>1. u[i] \in Way(a, b)
        BY <2>1, <2>2, <2>4, <3>2, ConcatFacts
      <4>. QED
        BY <2>1, <2>2, <3>1, <4>1
    <3>3. CASE i \notin DOMAIN s
      <4>1. i - Len(s) \in DOMAIN ms /\ u[i] = ms[i - Len(s)]
        BY <2>1, <2>2, <3>3, ConcatFacts
      <4>2. i - Len(s) < j - Len(s)
        BY <2>1, <2>2, ConcatFacts
      <4>. QED
        BY <2>2, <3>1, <4>1, <4>2
    <3>. QED
      BY <3>2, <3>3
  <2>. QED
    BY <2>5, <2>6
<1>. QED
  BY <1>2, <1>3

\* The tail of a sequence has the elements after the first, one place further on.
LEMMA TailFacts ==
  ASSUME NEW S, NEW s \in Seq(S), s # <<>>
  PROVE  /\ \A k \in DOMAIN Tail(s) : k + 1 \in DOMAIN s /\ Tail(s)[k] = s[k + 1]
         /\ \A k, l \in DOMAIN Tail(s) : k < l => k + 1 < l + 1
<1>1. /\ Len(s) \in Nat /\ DOMAIN s = 1..Len(s) /\ DOMAIN Tail(s) = 1..(Len(s) - 1)
      /\ \A k \in 1..(Len(s) - 1) : Tail(s)[k] = s[k + 1]
  BY HeadTailProperties, EmptySeq, LenProperties
<1>. QED
  BY <1>1

\* What is left when a message was taken is in order.
LEMMA TakeOrder ==
  ASSUME net \in [Nodes -> [Nodes -> Seq(Wires)]], OrderInv, NEW a \in Nodes,
         NEW b \in Nodes, net[a][b] # <<>>, Take(a, b)
  PROVE  OrderInv'
<1> SUFFICES ASSUME NEW c \in Nodes, NEW d \in Nodes,
                    NEW i \in DOMAIN net'[c][d], NEW j \in DOMAIN net'[c][d],
                    i < j, net'[c][d][i].kind = "run", net'[c][d][j].kind = "initiate"
             PROVE  Order[net'[c][d][i].phase] < Order[net'[c][d][j].phase]
  BY DEF OrderInv
<1>1. CASE ~(c = a /\ d = b)
  BY <1>1 DEF Take, OrderInv
<1>2. CASE c = a /\ d = b
  <2> DEFINE s == net[a][b]
             u == Tail(s)
  <2>1. s \in Seq(Wires) /\ s # <<>> /\ net'[c][d] = u
    BY <1>2 DEF Take
  <2>2. i \in DOMAIN u /\ j \in DOMAIN u /\ u[i].kind = "run" /\ u[j].kind = "initiate"
    BY <2>1
  <2>3. \A k, l \in DOMAIN s : k < l /\ s[k].kind = "run" /\ s[l].kind = "initiate"
                                => Order[s[k].phase] < Order[s[l].phase]
    BY DEF OrderInv
  <2> HIDE DEF s
  <2>4. \A k \in DOMAIN u : k + 1 \in DOMAIN s /\ u[k] = s[k + 1]
    BY <2>1, TailFacts
  <2>5. i + 1 < j + 1
    BY <2>1, <2>2, TailFacts
  <2> HIDE DEF u
  <2>6. Order[u[i].phase] < Order[u[j].phase]
    BY <2>2, <2>3, <2>4, <2>5
  <2>. QED
    BY <2>1, <2>6
<1>. QED
  BY <1>1, <1>2

\* A node that may start a phase has begun earlier phases only.
LEMMA StartAfter ==
  ASSUME NEW p \in Phases, NEW q \in Phases, NEW z \in StartStates[q], z \notin Before[p]
  PROVE  Order[p] < Order[q]
BY DEF Phases, StartStates, Before, Order, NoOrchestrator

\* Every step keeps the order.
LEMMA OrderStep == IInv /\ OrderInv /\ [Next]_vars => OrderInv'
<1> SUFFICES ASSUME IInv, OrderInv, [Next]_vars PROVE OrderInv'
  OBVIOUS
<1>0. TypeInv /\ RanInv /\ ResultInv /\ net \in [Nodes -> [Nodes -> Seq(Wires)]]
  BY DEF IInv, TypeInv
<1>1. ASSUME NEW k \in Nodes, NEW q \in Phases, NEW s \in Seconds, RpcBroadcast(k, q, s)
      PROVE  OrderInv'
  <2> DEFINE m == Initiation(q, s, k)
             ms == <<m>>
  <2>1. m.phase = q /\ ms \in Seq(Wires) /\ DOMAIN ms = {1} /\ ms[1] = m
    BY InitiationFacts, WireFacts DEF Initiation
  <2>2. Publish(k, ms) /\ st[k] \in StartStates[q]
    BY <1>1 DEF RpcBroadcast
  <2> HIDE DEF m, ms
  <2>3. ASSUME NEW b \in Nodes, NEW x \in Way(k, b), x.kind = "run"
        PROVE  Order[x.phase] < Order[q]
    <3>1. x.phase \in Phases /\ x.sec \in Seconds
      BY <1>0, <2>3, WayTyped, WireFacts
    <3>2. <<k, x.phase, x.sec>> \in ran
      BY <1>0, <2>3 DEF ResultInv, Reached
    <3>3. st[k] \notin Before[x.phase]
      BY <1>0, <3>1, <3>2 DEF RanInv, Past
    <3>. QED
      BY <2>2, <3>1, <3>3, StartAfter
  <2>4. \A j \in DOMAIN ms : ms[j].kind = "initiate" =>
          /\ \A b \in Nodes : \A x \in Way(k, b) :
               x.kind = "run" => Order[x.phase] < Order[ms[j].phase]
          /\ \A i \in DOMAIN ms : i < j => ms[i].kind # "run"
    BY <2>1, <2>3
  <2>. QED
    BY <1>0, <2>1, <2>2, <2>4, PublishOrder
<1>2. ASSUME NEW k \in Nodes, NEW q \in Phases, SendRound(k, q) PROVE OrderInv'
  <2> DEFINE ms == RoundMessages(k, run[k], run[k].round + 1)
  <2>1. ms \in Seq(Wires) /\ \A i \in DOMAIN ms : ms[i].kind = "run"
    BY <1>0, <1>2, SendRoundMessages
  <2>2. Publish(k, ms)
    BY <1>2 DEF SendRound
  <2> HIDE DEF ms
  <2>. QED
    BY <1>0, <2>1, <2>2, PublishOrder
<1>3. ASSUME NEW a \in Nodes, NEW k \in Nodes, ReceiveInitiation(a, k) PROVE OrderInv'
  BY <1>0, <1>3, TakeOrder DEF ReceiveInitiation, Deliverable
<1>4. ASSUME NEW a \in Nodes, NEW k \in Nodes, NEW p \in Phases, Forward(a, k, p)
      PROVE  OrderInv'
  BY <1>0, <1>4, TakeOrder DEF Forward, Deliverable
<1>5. ASSUME net' = net PROVE OrderInv'
  BY <1>5 DEF OrderInv
<1>. QED
  BY <1>1, <1>2, <1>3, <1>4, <1>5, NextCases
  DEF RpcHandle, FinishRun, FailRun, StoreOrchestrator, vars

\* The head of a sequence is its first element.
LEMMA HeadFacts ==
  ASSUME NEW S, NEW s \in Seq(S), s # <<>>
  PROVE  /\ Len(s) \in Nat /\ DOMAIN s = 1..Len(s)
         /\ 1 \in DOMAIN s /\ Head(s) = s[1] /\ s[1] \in S
<1>1. Len(s) \in Nat /\ DOMAIN s = 1..Len(s) /\ Len(s) > 0
  BY EmptySeq, LenProperties
<1>2. Head(s) = s[1] /\ s[1] \in S
  BY HeadTailProperties
<1>. QED
  BY <1>1, <1>2

\* When nothing can be taken any more, nothing is on its way.
LEMMA NothingLeft ==
  ASSUME TypeInv, OrderInv, Resting, NEW a \in Nodes, NEW b \in Nodes
  PROVE  net[a][b] = <<>>
<1>0. net \in [Nodes -> [Nodes -> Seq(Wires)]]
  BY DEF TypeInv
<1>1. ASSUME NEW c \in Nodes, NEW d \in Nodes, net[c][d] # <<>>
      PROVE  /\ Len(net[c][d]) \in Nat /\ DOMAIN net[c][d] = 1..Len(net[c][d])
             /\ 1 \in DOMAIN net[c][d] /\ Head(net[c][d]) = net[c][d][1]
             /\ net[c][d][1] \in Wires
  <2>1. net[c][d] \in Seq(Wires)
    BY <1>0
  <2>. QED
    BY <1>1, <2>1, HeadFacts
<1>2. ASSUME NEW c \in Nodes, NEW d \in Nodes, net[c][d] # <<>>
      PROVE  /\ net[c][d][1].kind = "run" /\ net[c][d][1].phase \in Phases
             /\ \E e \in Nodes : /\ net[e][d] # <<>>
                                 /\ net[e][d][1].kind = "run"
                                 /\ Order[net[e][d][1].phase] < Order[net[c][d][1].phase]
  <2> DEFINE m == net[c][d][1]
  <2>1. ~Deliverable(c, d)
    BY DEF Resting
  <2>2. m.kind = "run" /\ \E e \in Nodes : \E i \in 1..Len(net[e][d]) :
                             net[e][d][i] = Initiation(m.phase, m.sec, m.by)
    BY <1>1, <1>2, <2>1 DEF Deliverable
  <2>3. m.phase \in Phases
    BY <1>1, <1>2, <2>2, WireFacts
  <2>4. PICK e \in Nodes : \E i \in 1..Len(net[e][d]) :
          net[e][d][i] = Initiation(m.phase, m.sec, m.by)
    BY <2>2
  <2>5. PICK i \in 1..Len(net[e][d]) : net[e][d][i] = Initiation(m.phase, m.sec, m.by)
    BY <2>4
  <2>6. net[e][d] \in Seq(Wires)
    BY <1>0
  <2>7. net[e][d] # <<>>
    BY <2>5, <2>6, EmptySeq
  <2>8. ~Deliverable(e, d)
    BY DEF Resting
  <2>9. net[e][d][1].kind = "run"
    BY <1>1, <2>7, <2>8 DEF Deliverable
  <2>10. net[e][d][i].kind = "initiate" /\ net[e][d][i].phase = m.phase
    BY <2>5 DEF Initiation
  <2>11. 1 < i /\ i \in DOMAIN net[e][d]
    BY <1>1, <2>7, <2>9, <2>10
  <2>12. Order[net[e][d][1].phase] < Order[m.phase]
    BY <1>1, <2>7, <2>9, <2>10, <2>11 DEF OrderInv
  <2>. QED
    BY <2>2, <2>3, <2>7, <2>9, <2>12
<1>3. \A p \in Phases : Order[p] \in 1..3
  BY DEF Phases, Order
<1> SUFFICES ASSUME net[a][b] # <<>> PROVE FALSE
  OBVIOUS
<1>4. PICK c \in Nodes : net[c][b] # <<>> /\ Order[net[c][b][1].phase] < Order[net[a][b][1].phase]
  BY <1>2
<1>5. PICK d \in Nodes : net[d][b] # <<>> /\ Order[net[d][b][1].phase] < Order[net[c][b][1].phase]
  BY <1>2, <1>4
<1>6. PICK e \in Nodes : net[e][b] # <<>> /\ Order[net[e][b][1].phase] < Order[net[d][b][1].phase]
  BY <1>2, <1>5
<1> DEFINE Place(f) == Order[net[f][b][1].phase]
<1>7. \A f \in Nodes : net[f][b] # <<>> => Place(f) \in 1..3
  BY <1>2, <1>3
<1>8. Place(a) \in 1..3 /\ Place(c) \in 1..3 /\ Place(d) \in 1..3 /\ Place(e) \in 1..3
  BY <1>4, <1>5, <1>6, <1>7
<1>9. Place(e) < Place(d) /\ Place(d) < Place(c) /\ Place(c) < Place(a)
  BY <1>4, <1>5, <1>6
<1> HIDE DEF Place
<1>. QED
  BY <1>8, <1>9

----------------------------------------------------------------------------
(* Delivery                                                                 *)

\* The parties of a phase are numbered from 0.
LEMMA PartyNumbers ==
  ASSUME NEW p \in Phases
  PROVE  \E c \in Nat : /\ Parties(p) = 0..c
                        /\ \A n \in Parties(p) : Cardinality(Parties(p) \ {n}) = c
<1>1. N = 3 /\ AuxParties = 3 /\ Quorum \in 1..3
  BY ProtocolRunAssumption DEF AuxParties
<1>2. \E c \in Nat : Parties(p) = 0..c
  <2>1. CASE p = "aux" \/ p = "keygen"
    <3>1. Parties(p) = 0..(3 - 1) /\ 3 - 1 \in Nat
      BY <1>1, <2>1, PartiesFacts DEF Nodes
    <3>. QED
      BY <3>1
  <2>2. CASE p = "signing"
    <3>1. Parties(p) = 0..(Quorum - 1) /\ Quorum - 1 \in Nat
      BY <1>1, <2>2 DEF Parties
    <3>. QED
      BY <3>1
  <2>. QED
    BY <2>1, <2>2 DEF Phases
<1>3. PICK c \in Nat : Parties(p) = 0..c
  BY <1>2
<1>4. IsFiniteSet(0..c) /\ Cardinality(0..c) = c + 1
  BY FS_Interval
<1>5. ASSUME NEW n \in Parties(p) PROVE Cardinality(Parties(p) \ {n}) = c
  <2>1. Cardinality((0..c) \ {n}) = (c + 1) - 1
    BY <1>3, <1>4, FS_RemoveElement
  <2>. QED
    BY <1>3, <2>1
<1>. QED
  BY <1>3, <1>5

\* Among the messages of a round there is one for each of the other parties.
LEMMA RoundMessagesReach ==
  ASSUME NEW r \in RunRecords, NEW n \in Parties(r.phase), NEW k \in Parties(r.phase),
         k # n, NEW q \in 1..Len(Rounds[r.phase])
  PROVE  \E i \in DOMAIN RoundMessages(n, r, q) : k \in RoundMessages(n, r, q)[i].to
<1>0. r.phase \in Phases
  BY DEF RunRecords
<1>1. n \in Nodes /\ k \in Nodes
  BY <1>0, PartiesFacts
<1>2. CASE Rounds[r.phase][q] = "broadcast"
  <2>1. RoundMessages(n, r, q) = <<RunMessage(r, q, Nodes \ {n})>>
    BY <1>2 DEF RoundMessages
  <2>. QED
    BY <1>1, <2>1 DEF RunMessage
<1>3. CASE Rounds[r.phase][q] # "broadcast"
  <2>1. PICK c \in Nat : /\ Parties(r.phase) = 0..c
                         /\ \A m \in Parties(r.phase) : Cardinality(Parties(r.phase) \ {m}) = c
    BY <1>0, PartyNumbers
  <2>2. RoundMessages(n, r, q) = [j \in 1..c |-> RunMessage(r, q, {IF j <= n THEN j - 1 ELSE j})]
    BY <1>3, <2>1 DEF RoundMessages
  <2>3. n \in 0..c /\ k \in 0..c
    BY <2>1
  <2>4. \E j \in 1..c : k = IF j <= n THEN j - 1 ELSE j
    <3>1. CASE k < n
      <4>1. k + 1 \in 1..c /\ k + 1 <= n /\ k = (k + 1) - 1
        BY <2>3, <3>1
      <4>. QED
        BY <4>1
    <3>2. CASE k > n
      <4>1. k \in 1..c /\ ~(k <= n)
        BY <2>3, <3>2
      <4>. QED
        BY <4>1
    <3>. QED
      BY <2>3, <3>1, <3>2
  <2>5. PICK j \in 1..c : k = IF j <= n THEN j - 1 ELSE j
    BY <2>4
  <2>6. j \in DOMAIN RoundMessages(n, r, q) /\ RoundMessages(n, r, q)[j].to = {k}
    BY <2>2, <2>5 DEF RunMessage
  <2>. QED
    BY <2>6
<1>. QED
  BY <1>2, <1>3

\* A message of a run is taken off its way by Forward.
LEMMA TakenBy ==
  ASSUME TypeInv, [Next]_vars, NEW a \in Nodes, NEW b \in Nodes, NEW x \in Way(a, b),
         x \notin Way(a, b)', x.kind = "run"
  PROVE  \E q \in Phases : Forward(a, b, q) /\ x = Head(net[a][b])
<1>0. net \in [Nodes -> [Nodes -> Seq(Wires)]]
  BY DEF TypeInv
<1>1. ASSUME NEW k \in Nodes, NEW p \in Phases, NEW s \in Seconds, RpcBroadcast(k, p, s)
      PROVE  FALSE
  <2>1. <<Initiation(p, s, k)>> \in Seq(Wires) /\ Publish(k, <<Initiation(p, s, k)>>)
    BY <1>1, InitiationFacts, WireFacts DEF RpcBroadcast
  <2>. QED
    BY <1>0, <2>1, PublishWay
<1>2. ASSUME NEW k \in Nodes, NEW p \in Phases, SendRound(k, p) PROVE FALSE
  <2>1. /\ RoundMessages(k, run[k], run[k].round + 1) \in Seq(Wires)
        /\ Publish(k, RoundMessages(k, run[k], run[k].round + 1))
    BY <1>2, SendRoundMessages DEF SendRound
  <2>. QED
    BY <1>0, <2>1, PublishWay
<1>3. ASSUME NEW c \in Nodes, NEW k \in Nodes, ReceiveInitiation(c, k) PROVE FALSE
  <2>1. net[c][k] # <<>> /\ Take(c, k) /\ Head(net[c][k]).kind = "initiate"
    BY <1>3 DEF ReceiveInitiation, Deliverable
  <2>2. x = Head(net[c][k])
    BY <1>0, <2>1, TakeWay
  <2>. QED
    BY <2>1, <2>2
<1>4. ASSUME NEW c \in Nodes, NEW k \in Nodes, NEW p \in Phases, Forward(c, k, p)
      PROVE  c = a /\ k = b /\ x = Head(net[a][b])
  <2>1. net[c][k] # <<>> /\ Take(c, k)
    BY <1>4 DEF Forward, Deliverable
  <2>. QED
    BY <1>0, <2>1, TakeWay
<1>5. ASSUME net' = net PROVE FALSE
  BY <1>5 DEF Way
<1>. QED
  BY <1>1, <1>2, <1>3, <1>4, <1>5, NextCases
  DEF RpcHandle, FinishRun, FailRun, StoreOrchestrator, vars

\* A run comes to another round by sending its messages.
LEMMA RoundOrigin ==
  ASSUME TypeInv, [Next]_vars, NEW n \in Nodes, Continues(n), run'[n].round # run[n].round
  PROVE  /\ SendRound(n, run[n].phase)
         /\ run'[n].round = run[n].round + 1
<1>0. /\ run \in [Nodes -> RunRecords \cup {NoRun}]
      /\ run[n] # NoRun /\ run[n] \in RunRecords /\ run[n].phase \in Phases
      /\ \A p \in Phases : st[n] \notin StartStates[p]
  BY RunFacts DEF TypeInv, Continues
<1>1. ASSUME NEW k \in Nodes, NEW m \in RunInitiations, Handle(k, m) PROVE FALSE
  <2>1. run'[n] = run[n]
    BY <1>0, <1>1, InitiationFacts DEF Handle
  <2>. QED
    BY <2>1
<1>2. ASSUME NEW k \in Nodes, RpcHandle(k) PROVE FALSE
  <2>1. rpc[k] \in RunInitiations /\ Handle(k, rpc[k])
    BY <1>2 DEF RpcHandle, TypeInv
  <2>. QED
    BY <1>1, <2>1
<1>3. ASSUME NEW a \in Nodes, NEW k \in Nodes, ReceiveInitiation(a, k) PROVE FALSE
  <2>1. Head(net[a][k]) \in Wires
    BY <1>3, TakeWay DEF ReceiveInitiation, Deliverable, TypeInv
  <2>2. Head(net[a][k]) \in RunInitiations /\ Handle(k, Head(net[a][k]))
    BY <1>3, <2>1, WireFacts DEF ReceiveInitiation
  <2>. QED
    BY <1>1, <2>2
<1>4. ASSUME NEW a \in Nodes, NEW k \in Nodes, NEW p \in Phases, Forward(a, k, p)
      PROVE  FALSE
  <2>1. \/ run' = run
        \/ \E y : run' = [run EXCEPT ![k].inbox = @ \cup {y}]
    BY <1>4 DEF Forward
  <2>2. run'[n].round = run[n].round
    BY <1>0, <2>1 DEF RunRecords
  <2>. QED
    BY <2>2
<1>5. ASSUME NEW k \in Nodes, FinishRun(k) \/ FailRun(k) PROVE FALSE
  <2>1. run' = [run EXCEPT ![k] = NoRun]
    BY <1>5 DEF FinishRun, FailRun
  <2>2. run'[n] # NoRun
    BY NoRunFacts DEF Continues
  <2>. QED
    BY <1>0, <2>1, <2>2
<1>6. ASSUME run' = run PROVE FALSE
  BY <1>6
<1>7. ASSUME NEW k \in Nodes, NEW p \in Phases, SendRound(k, p)
      PROVE  k = n /\ p = run[n].phase /\ run'[n].round = run[n].round + 1
  BY <1>0, <1>7 DEF SendRound, RunRecords
<1>. QED
  BY <1>2, <1>3, <1>4, <1>5, <1>6, <1>7, NextCases
  DEF RpcBroadcast, StoreOrchestrator, vars

\* A party has sent its messages of a round, or does so now.
LEMMA SentOrigin ==
  ASSUME TypeInv, [Next]_vars, NEW j \in Nodes, NEW p \in Phases, NEW s \in Seconds,
         NEW r \in 1..Len(Rounds[p]), Sent(j, p, s, r)'
  PROVE  \/ Sent(j, p, s, r)
         \/ /\ SendRound(j, p) /\ run[j] # NoRun
            /\ run[j].phase = p /\ run[j].sec = s /\ run[j].round + 1 = r
<1>0. Len(Rounds[p]) \in Nat /\ r \in Nat /\ 1 <= r /\ r <= Len(Rounds[p])
  BY RoundsFacts
<1>1. CASE Rests(j)
  BY <1>1 DEF Rests, Sent
<1>2. CASE Enters(j)
  <2>1. ~(run'[j].phase = p /\ run'[j].round >= r)
    <3>1. CASE run'[j] = NoRun
      BY <3>1, NoRunFacts
    <3>2. CASE \E m : Begins(j, m)
      BY <1>0, <3>2 DEF Begins, NewRun
    <3>. QED
      BY <1>2, <3>1, <3>2 DEF Enters
  <2>. QED
    BY <1>2, <2>1 DEF Enters, Sent
<1>3. CASE Continues(j)
  <2>0. run[j] # NoRun /\ run[j].round \in Nat /\ run'[j].round \in Nat
    BY <1>3, RunFacts DEF Continues, RunRecords
  <2>1. CASE run'[j].round = run[j].round
    BY <1>3, <2>1 DEF Continues, Sent
  <2>2. CASE run'[j].round # run[j].round
    <3>1. SendRound(j, run[j].phase) /\ run'[j].round = run[j].round + 1
      BY <1>3, <2>2, RoundOrigin
    <3>2. run'[j].phase = run[j].phase /\ run'[j].sec = run[j].sec /\ done'[j] = done[j]
      BY <1>3 DEF Continues
    <3>3. CASE run[j].phase = p /\ run[j].sec = s /\ run'[j].round >= r
      <4>1. run[j].round >= r \/ run[j].round + 1 = r
        BY <1>0, <2>0, <3>1, <3>3
      <4>. QED
        BY <2>0, <3>1, <3>3, <4>1 DEF Sent
    <3>. QED
      BY <3>2, <3>3 DEF Sent
  <2>. QED
    BY <2>1, <2>2
<1>4. CASE Finishes(j)
  <2>1. run'[j].phase # p
    BY <1>4, NoRunFacts DEF Finishes
  <2>2. [phase |-> p, sec |-> s] \in done'[j]
    BY <2>1 DEF Sent
  <2>3. CASE [phase |-> p, sec |-> s] \notin done[j]
    <3>1. FinishRun(j) /\ [phase |-> p, sec |-> s] = Result(run[j])
      BY <2>2, <2>3, ResultOrigin
    <3>2. run[j].phase = p /\ run[j].sec = s
      BY <3>1 DEF Result
    <3>3. run[j].round = Len(Rounds[p])
      BY <3>1, <3>2 DEF FinishRun
    <3>. QED
      BY <1>0, <3>2, <3>3 DEF Sent
  <2>. QED
    BY <2>3 DEF Sent
<1>5. CASE Fails(j)
  <2>1. run'[j].phase # p
    BY <1>5, NoRunFacts DEF Fails
  <2>. QED
    BY <1>5, <2>1 DEF Fails, Sent
<1>. QED
  BY <1>1, <1>2, <1>3, <1>4, <1>5, Evolution DEF Evolves

\* What a run has heard it goes on having heard, and it begins once.
LEMMA HeedsStays ==
  ASSUME TypeInv, RanInv, [Next]_vars, NEW j, NEW k \in Nodes, NEW p \in Phases,
         NEW s \in Seconds, NEW r, Heeds(j, k, p, s, r)
  PROVE  Heeds(j, k, p, s, r)'
<1>1. <<k, p, s>> \in ran /\ <<k, p, s>> \in ran'
  BY Evolution DEF Heeds, Grows
<1> SUFFICES ASSUME run'[k].phase = p PROVE j \in Heard(run'[k], r)
  BY <1>1 DEF Heeds
<1>2. CASE Rests(k)
  BY <1>2 DEF Rests, Heeds
<1>3. CASE Enters(k)
  <2>1. PICK m : Begins(k, m)
    BY <1>3, NoRunFacts DEF Enters
  <2>2. st[k] \in StartStates[p]
    BY <2>1 DEF Begins, NewRun
  <2>. QED
    BY <1>1, <2>2, StateOrder DEF RanInv, Past
<1>4. CASE Continues(k)
  BY <1>4 DEF Continues, Heeds, Heard
<1>5. CASE Finishes(k) \/ Fails(k)
  BY <1>5, NoRunFacts DEF Finishes, Fails
<1>. QED
  BY <1>2, <1>3, <1>4, <1>5, Evolution DEF Evolves

\* A message that is taken from its way is heard, if the run it is for goes on,
\* and the party has been in that run or refused it if not.
LEMMA ComingStays ==
  ASSUME Meshed, IInv, [Next]_vars, NEW j \in Nodes, NEW k \in Nodes, NEW p \in Phases,
         NEW s \in Seconds, NEW r \in Nat, k \in Parties(p), Coming(j, k, p, s, r)
  PROVE  Delivered(j, k, p, s, r)'
<1>0. /\ TypeInv /\ RanInv /\ Grows
      /\ net \in [Nodes -> [Nodes -> Seq(Wires)]]
      /\ run \in [Nodes -> RunRecords \cup {NoRun}]
  BY Evolution DEF IInv, TypeInv
<1>1. PICK x \in Way(j, k) : /\ x.kind = "run" /\ x.phase = p /\ x.sec = s
                             /\ x.round = r /\ k \in x.to
  BY DEF Coming
<1>2. CASE x \in Way(j, k)'
  BY <1>1, <1>2 DEF Coming, Delivered
<1>3. CASE x \notin Way(j, k)'
  <2>1. PICK q \in Phases : Forward(j, k, q) /\ x = Head(net[j][k])
    BY <1>0, <1>1, <1>3, TakenBy
  <2>2. q = p
    BY <1>1, <2>1 DEF Forward
  <2>3. CASE run[k].phase = p
    <3> DEFINE y == [from |-> j, sec |-> s, round |-> r, mine |-> TRUE]
    <3>1. run' = [run EXCEPT ![k].inbox = @ \cup {y}]
      BY <1>1, <2>1, <2>2, <2>3 DEF Forward, MeantFor
    <3>2. run[k] # NoRun
      BY <2>3, NoRunFacts
    <3>3. run[k] \in RunRecords /\ <<k, p, run[k].sec>> \in ran /\ run[k].sec \in Seconds
      BY <1>0, <2>3, <3>2, RunFacts DEF RanInv
    <3>4. y \in run'[k].inbox
      BY <1>0, <3>1, <3>3 DEF RunRecords
    <3>5. j \in Heard(run'[k], r)
      BY <3>4 DEF Heard
    <3>6. CASE run[k].sec = s
      BY <1>0, <3>3, <3>5, <3>6 DEF Heeds, Delivered, Grows
    <3>7. CASE run[k].sec # s
      BY <1>0, <3>3, <3>7 DEF Clash, Delivered, Grows
    <3>. QED
      BY <3>6, <3>7
  <2>4. CASE run[k].phase # p
    <3>1. Answered(k, Initiation(p, s, x.by))
      BY <1>1, <2>1, <2>2, TakenAnswered
    <3>2. <<k, p, s>> \in ran \/ <<k, p>> \in refused
      BY <3>1 DEF Answered, Initiation
    <3>3. run' = run
      BY <2>1, <2>2, <2>4 DEF Forward
    <3>. QED
      BY <1>0, <2>4, <3>2, <3>3 DEF Delivered, Heeds, Grows
  <2>. QED
    BY <2>3, <2>4
<1>. QED
  BY <1>2, <1>3

\* Every step delivers what it sends and what was sent before, or leaves it on
\* its way.
LEMMA DeliveryStep ==
  ASSUME Meshed, IInv, DeliveryInv, [Next]_vars
  PROVE  DeliveryInv'
<1> SUFFICES ASSUME NEW p \in Phases, NEW s \in Seconds, NEW j \in Nodes, NEW k \in Nodes,
                    NEW r \in 1..Len(Rounds[p]), k \in Parties(p) \ {j}, j \in Parties(p),
                    Sent(j, p, s, r)'
             PROVE  Delivered(j, k, p, s, r)'
  BY DEF DeliveryInv
<1>0. TypeInv /\ RanInv /\ Grows /\ net \in [Nodes -> [Nodes -> Seq(Wires)]]
  BY Evolution DEF IInv, TypeInv
<1>1. r \in Nat
  BY RoundsFacts
<1>2. CASE Sent(j, p, s, r)
  <2>1. Delivered(j, k, p, s, r)
    BY <1>2 DEF DeliveryInv
  <2>2. CASE Coming(j, k, p, s, r)
    BY <1>1, <2>2, ComingStays
  <2>3. CASE <<k, p>> \in refused \/ Clash(p, s)
    BY <1>0, <2>3 DEF Grows, Clash, Delivered
  <2>4. CASE Heeds(j, k, p, s, r)
    BY <1>0, <2>4, HeedsStays DEF Delivered
  <2>. QED
    BY <2>1, <2>2, <2>3, <2>4 DEF Delivered
<1>3. CASE /\ SendRound(j, p) /\ run[j] # NoRun
           /\ run[j].phase = p /\ run[j].sec = s /\ run[j].round + 1 = r
  <2> DEFINE ms == RoundMessages(j, run[j], r)
  <2>1. /\ ms \in Seq(Wires)
        /\ \A i \in DOMAIN ms : ms[i].kind = "run" /\ SameRun(ms[i], run[j]) /\ ms[i].round = r
    BY <1>0, <1>3, SendRoundMessages
  <2>2. PICK i \in DOMAIN ms : k \in ms[i].to
    BY <1>0, <1>3, RunFacts, RoundMessagesReach
  <2>3. Publish(j, ms)
    BY <1>3 DEF SendRound
  <2> HIDE DEF ms
  <2>4. ms[i] \in Way(j, k)'
    BY <1>0, <2>1, <2>3, PublishWay
  <2>5. ms[i].kind = "run" /\ ms[i].phase = p /\ ms[i].sec = s /\ ms[i].round = r
    BY <1>3, <2>1 DEF SameRun
  <2>. QED
    BY <2>2, <2>4, <2>5 DEF Coming, Delivered
<1>. QED
  BY <1>0, <1>2, <1>3, SentOrigin

----------------------------------------------------------------------------
(* Rest                                                                     *)

\* Every reachable state has the invariant, if gossip forwards initiations first.
LEMMA RestInvariance == Meshed => (Spec => []RestInv)
<1> SUFFICES ASSUME Meshed PROVE Spec => []RestInv
  OBVIOUS
<1>1. Init => RestInv
  <2> SUFFICES ASSUME Init PROVE RestInv
    OBVIOUS
  <2>1. /\ ran = {} /\ \A n \in Nodes : done[n] = {} /\ run[n] = NoRun
        /\ \A n \in Nodes : st[n] = NoOrchestrator \/ st[n] = "Idle"
        /\ \A a, b \in Nodes : net[a][b] = <<>>
    BY DEF Init
  <2>2. \A p \in Phases : InProgress[p] # NoOrchestrator /\ InProgress[p] # "Idle"
    BY DEF Phases, InProgress, NoOrchestrator
  <2>3. BegunInv /\ ReachedInv
    BY <2>1, <2>2 DEF BegunInv, ReachedInv
  <2>4. OrderInv
    BY <2>1 DEF OrderInv
  <2>5. DeliveryInv
    BY <2>1, NoRunFacts DEF DeliveryInv, Sent
  <2>. QED
    BY <2>3, <2>4, <2>5, InitIInv DEF RestInv
<1>2. RestInv /\ [Next]_vars => RestInv'
  <2>1. IInv /\ [Next]_vars => IInv'
    BY TypeStep, RanStep, ResultStep, InitiationStep DEF IInv
  <2>. QED
    BY <2>1, BegunStep, RunStep, OrderStep, DeliveryStep DEF RestInv
<1>. QED
  BY <1>1, <1>2, PTL DEF Spec

\* Of some nodes one is in a round that none of the others has yet to reach.
LEMMA Slowest ==
  ASSUME NEW R \in SUBSET Nodes, R # {}, \A n \in R : run[n].round \in Nat
  PROVE  \E n \in R : \A m \in R : run[m].round >= run[n].round
<1> DEFINE V == {run[n].round : n \in R}
<1>1. V \subseteq Nat /\ V # {}
  OBVIOUS
<1>2. IsWellFoundedOn(OpToRel(<, Nat), Nat)
  BY NatLessThanWellFounded
<1>3. PICK v \in V : \A w \in V : <<w, v>> \notin OpToRel(<, Nat)
  BY <1>1, <1>2, WFMin
<1>4. \A w \in V : w \in Nat /\ v \in Nat /\ ~(w < v)
  BY <1>1, <1>3 DEF OpToRel
<1>5. PICK n \in R : v = run[n].round
  OBVIOUS
<1>. QED
  BY <1>4, <1>5

\* At rest no run of a phase that all parties have begun together goes on: the
\* slowest would have what it waits for.
LEMMA NoneWaits ==
  ASSUME RestInv, Resting, NEW p \in Phases, NEW s \in Seconds, AllRan(p, s),
         \A m \in Nodes : <<m, p>> \notin refused
  PROVE  \A m \in Parties(p) : [phase |-> p, sec |-> s] \in done[m]
<1> DEFINE R == {m \in Parties(p) : [phase |-> p, sec |-> s] \notin done[m]}
<1>0. TypeInv /\ RanInv /\ OrderInv /\ DeliveryInv /\ ReachedInv
  BY DEF RestInv, IInv
<1>1. ~Clash(p, s) /\ Parties(p) \subseteq Nodes
  BY <1>0, NoClash, PartiesFacts
<1>2. ASSUME NEW m \in R
      PROVE  /\ run[m] # NoRun /\ run[m].phase = p /\ run[m].sec = s
             /\ run[m].round \in Nat /\ run[m].round <= Len(Rounds[p])
  <2>1. Reached(m, p, s, 0)
    BY <1>0, <1>1 DEF AllRan, ReachedInv
  <2>2. run[m].phase = p /\ run[m].sec = s
    BY <1>1, <2>1 DEF Reached
  <2>. QED
    BY <1>0, <1>1, <2>2, NoRunFacts, RunFacts
<1> SUFFICES ASSUME R # {} PROVE FALSE
  OBVIOUS
<1>3. PICK k \in R : \A m \in R : run[m].round >= run[k].round
  BY <1>1, <1>2, Slowest
<1> DEFINE r == run[k].round
<1>4. k \in Nodes /\ r \in Nat /\ r <= Len(Rounds[p]) /\ Len(Rounds[p]) \in Nat
  BY <1>1, <1>2, RoundsFacts
<1>5. ~RoundComplete(k)
  BY <1>2, <1>4 DEF Resting
<1>6. r > 0 /\ \E j \in Parties(p) \ {k} : j \notin Heard(run[k], r)
  BY <1>2, <1>5 DEF RoundComplete
<1>7. PICK j \in Parties(p) \ {k} : j \notin Heard(run[k], r)
  BY <1>6
<1>8. Sent(j, p, s, r)
  <2>1. CASE j \in R
    BY <1>2, <1>3, <2>1 DEF Sent
  <2>2. CASE j \notin R
    BY <2>2 DEF Sent
  <2>. QED
    BY <2>1, <2>2
<1>9. r \in 1..Len(Rounds[p]) /\ k \in Parties(p) \ {j} /\ j \in Nodes
  BY <1>1, <1>4, <1>6, <1>7
<1>10. Delivered(j, k, p, s, r)
  BY <1>0, <1>4, <1>7, <1>8, <1>9 DEF DeliveryInv
<1>11. ~Coming(j, k, p, s, r)
  BY <1>0, <1>4, <1>9, NothingLeft DEF Coming, Way
<1>12. ~Heeds(j, k, p, s, r)
  BY <1>2, <1>7 DEF Heeds
<1>. QED
  BY <1>1, <1>4, <1>10, <1>11, <1>12 DEF Delivered

\* When nothing is left to do, every phase that began is complete or refused:
\* no message of run_aux_generation, run_keygen or run_signing gets lost between
\* the channels, and handle_coordination_message leaves no initiation behind.
THEOREM RestIsDone == Meshed => (Spec => []RestMeansDone)
<1> SUFFICES ASSUME Meshed PROVE Spec => []RestMeansDone
  OBVIOUS
<1>1. RestInv => RestMeansDone
  <2> SUFFICES ASSUME RestInv, Resting, NEW p \in Phases, Begun(p),
                      \A m \in Nodes : <<m, p>> \notin refused
               PROVE  Everywhere(p)
    BY DEF RestMeansDone
  <2>0. TypeInv /\ OrderInv /\ BegunInv /\ Parties(p) \subseteq Nodes
    BY PartiesFacts DEF RestInv, IInv
  <2>1. PICK s \in Seconds : Announced(p, s)
    BY <2>0 DEF Begun, BegunInv
  <2>2. PICK by \in Nodes : \A n \in Nodes :
          Answered(n, Initiation(p, s, by)) \/ Pending(n, Initiation(p, s, by))
    BY <2>1 DEF Announced
  <2>3. \A n \in Nodes : ~Pending(n, Initiation(p, s, by))
    <3>1. \A n \in Nodes : rpc[n] # Initiation(p, s, by)
      BY InitiationFacts DEF Resting
    <3>. QED
      BY <2>0, <3>1, NothingLeft DEF Pending, Way
  <2>4. AllRan(p, s)
    BY <2>0, <2>2, <2>3 DEF Answered, Initiation, AllRan
  <2>5. \A m \in Parties(p) : [phase |-> p, sec |-> s] \in done[m]
    BY <2>4, NoneWaits
  <2>. QED
    BY <2>5 DEF Everywhere
<1>. QED
  BY <1>1, RestInvariance, PTL
=============================================================================
