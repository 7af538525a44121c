------------------------- MODULE ProtocolRunProofs -------------------------
(* Proofs about ProtocolRun, for any quorum, callers, timestamps and rounds. *)
EXTENDS ProtocolRun, SequenceTheorems, FiniteSetTheorems, TLAPS

----------------------------------------------------------------------------
(* The inductive invariant                                                  *)

\* Messages and runs.
Wires == RunInitiations \cup
           [kind : {"run"}, phase : Phases, sec : Seconds, by : Nodes,
            round : Nat, to : SUBSET Nat]
HeardMessages == [from : Nodes, sec : Seconds, round : Nat, mine : BOOLEAN]
RunRecords == [phase : Phases, sec : Seconds, by : Nodes, round : Nat,
               inbox : SUBSET HeardMessages]

TypeInv == /\ TypeOK
           /\ rpc \in [Nodes -> RunInitiations \cup {NoInitiation}]
           /\ run \in [Nodes -> RunRecords \cup {NoRun}]
           /\ ran \subseteq Nodes \X Phases \X Seconds
           /\ net \in [Nodes -> [Nodes -> Seq(Wires)]]

\* The messages of a that b has yet to take.
Way(a, b) == {net[a][b][i] : i \in DOMAIN net[a][b]}

\* The states from which a node may still come to begin a phase.
Before == [aux     |-> {NoOrchestrator, "Idle"},
           keygen  |-> {NoOrchestrator, "Idle", "AuxGeneration", "AuxCompleted"},
           signing |-> {NoOrchestrator, "Idle", "AuxGeneration", "AuxCompleted",
                        "Keygen", "KeygenCompleted"}]
Past(n, p) == st[n] \notin Before[p]

\* A node begins a phase once, with the results of the earlier phases.
RanInv ==
  /\ \A n \in Nodes, p \in Phases, s, t \in Seconds :
       <<n, p, s>> \in ran /\ <<n, p, t>> \in ran => s = t
  /\ \A n \in Nodes, p \in Phases, s \in Seconds : <<n, p, s>> \in ran =>
       n \in Parties(p) /\ Past(n, p) /\ p \in tx[n] /\ HasInputs(n, p)
  /\ \A n \in Nodes : run[n] # NoRun => <<n, run[n].phase, run[n].sec>> \in ran
  /\ \A n \in Nodes : \A d \in done[n] : <<n, d.phase, d.sec>> \in ran

\* Some party runs p with another timestamp than s.
Clash(p, s)  == \E k \in Nodes, t \in Seconds : t # s /\ <<k, p, t>> \in ran
AllRan(p, s) == \A m \in Parties(p) : <<m, p, s>> \in ran

\* m has sent its messages of round r of the run of p with timestamp s; if it
\* has failed since, it was because of a clash.
Reached(m, p, s, r) ==
  /\ <<m, p, s>> \in ran
  /\ \/ [phase |-> p, sec |-> s] \in done[m]
     \/ run[m].phase = p /\ run[m].sec = s /\ run[m].round >= r
     \/ Clash(p, s)

ResultInv ==
  /\ \A a, b \in Nodes : \A x \in Way(a, b) :
       x.kind = "run" => Reached(a, x.phase, x.sec, x.round)
  /\ \A n \in Nodes : run[n] # NoRun => \A y \in run[n].inbox :
       y.mine /\ Reached(y.from, run[n].phase, y.sec, y.round)
  /\ \A n \in Nodes : \A d \in done[n] : \A m \in Parties(d.phase) :
       Reached(m, d.phase, d.sec, Len(Rounds[d.phase]))

\* An initiation that was made: n has taken it, or will.
Pending(n, x)  == rpc[n] = x \/ \E c \in Nodes : x \in Way(c, n)
Answered(n, x) == n \in Parties(x.phase) => \/ <<n, x.phase, x.sec>> \in ran
                                           \/ <<n, x.phase>> \in refused
SameRun(x, r)  == x.phase = r.phase /\ x.sec = r.sec /\ x.by = r.by
Made(x) == \/ \E n \in Nodes : rpc[n] = x
           \/ \E a, b \in Nodes : x \in Way(a, b)
           \/ \E n \in Nodes : run[n] # NoRun /\ SameRun(x, run[n])
           \/ \E a, b \in Nodes : \E y \in Way(a, b) : y.kind = "run" /\ SameRun(x, y)
InitiationInv ==
  \A x \in RunInitiations : Made(x) =>
    \A n \in Nodes : Answered(n, x) \/ Pending(n, x)

IInv == TypeInv /\ RanInv /\ ResultInv /\ InitiationInv

----------------------------------------------------------------------------
(* Parties and messages                                                     *)

\* All nodes are parties of aux generation and of keygen.
LEMMA PartiesFacts ==
  /\ Parties("aux") = Nodes /\ Parties("keygen") = Nodes
  /\ \A p \in Phases : Parties(p) \subseteq Nodes
  /\ \A p \in Phases, n \in Nodes : Cardinality(Parties(p) \ {n}) \in Nat
<1>1. N = 3 /\ AuxParties = 3 /\ Quorum \in 1..3
  BY ProtocolRunAssumption DEF AuxParties
<1>2. Parties("aux") = Nodes /\ Parties("keygen") = Nodes /\ Parties("signing") \subseteq Nodes
  BY <1>1 DEF Parties, Nodes
<1>3. IsFiniteSet(Nodes)
  <2>1. Nodes = 0..2 /\ 0 \in Int /\ 2 \in Int
    BY <1>1 DEF Nodes
  <2>. QED
    BY <2>1, FS_Interval
<1>4. \A p \in Phases : Parties(p) \subseteq Nodes
  BY <1>2 DEF Phases
<1>5. ASSUME NEW p \in Phases, NEW n \in Nodes PROVE Cardinality(Parties(p) \ {n}) \in Nat
  <2>1. Parties(p) \ {n} \subseteq Nodes
    BY <1>4
  <2>. QED
    BY <1>3, <2>1, FS_Subset, FS_CardinalityType
<1>. QED
  BY <1>2, <1>4, <1>5

\* Every phase has a last round.
LEMMA RoundsFacts ==
  ASSUME NEW p \in Phases
  PROVE  Rounds[p] \in Seq({"broadcast", "p2p"}) /\ Len(Rounds[p]) \in Nat /\ Len(Rounds[p]) > 0
BY ProtocolRunAssumption, EmptySeq, LenProperties

\* What messages are made of.
LEMMA InitiationFacts ==
  /\ \A p \in Phases, s \in Seconds, n \in Nodes : Initiation(p, s, n) \in RunInitiations
  /\ \A x \in RunInitiations :
       /\ x.kind = "initiate" /\ x.phase \in Phases /\ x.sec \in Seconds /\ x.by \in Nodes
       /\ x = Initiation(x.phase, x.sec, x.by)
       /\ x # NoInitiation
BY DEF RunInitiations, Initiation, NoInitiation

\* Among the messages, those with the kind of an initiation are initiations.
LEMMA WireFacts ==
  /\ RunInitiations \subseteq Wires
  /\ \A x \in Wires : x.kind = "initiate" => x \in RunInitiations
  /\ \A x \in Wires : x.kind = "run" =>
       /\ x.phase \in Phases /\ x.sec \in Seconds /\ x.by \in Nodes /\ x.round \in Nat
       /\ x \notin RunInitiations
BY InitiationFacts DEF Wires

\* The messages of a round are messages of that round of the run.
LEMMA RoundMessagesFacts ==
  ASSUME NEW n \in Nodes, NEW r \in RunRecords, NEW k \in 1..Len(Rounds[r.phase])
  PROVE  /\ RoundMessages(n, r, k) \in Seq(Wires)
         /\ \A i \in DOMAIN RoundMessages(n, r, k) :
              LET x == RoundMessages(n, r, k)[i]
              IN  x.kind = "run" /\ x.phase = r.phase /\ x.sec = r.sec /\ x.by = r.by
                  /\ x.round = k
<1>0. r.phase \in Phases /\ r.sec \in Seconds /\ r.by \in Nodes /\ k \in Nat
  BY RoundsFacts DEF RunRecords
<1>1. ASSUME NEW to \in SUBSET Nat
      PROVE  /\ RunMessage(r, k, to) \in Wires
             /\ RunMessage(r, k, to).kind = "run" /\ RunMessage(r, k, to).phase = r.phase
             /\ RunMessage(r, k, to).sec = r.sec /\ RunMessage(r, k, to).by = r.by
             /\ RunMessage(r, k, to).round = k
  BY <1>0 DEF RunMessage, Wires
<1>2. CASE Rounds[r.phase][k] = "broadcast"
  <2>1. RoundMessages(n, r, k) = <<RunMessage(r, k, Nodes \ {n})>> /\ Nodes \ {n} \subseteq Nat
    BY <1>2 DEF RoundMessages, Nodes
  <2>. QED
    BY <1>1, <2>1
<1>3. CASE Rounds[r.phase][k] # "broadcast"
  <2> DEFINE c == Cardinality(Parties(r.phase) \ {n})
  <2>1. c \in Nat
    BY <1>0, PartiesFacts
  <2>2. RoundMessages(n, r, k) =
          [j \in 1..c |-> RunMessage(r, k, {IF j <= n THEN j - 1 ELSE j})]
    BY <1>3 DEF RoundMessages
  <2>3. \A j \in 1..c : {IF j <= n THEN j - 1 ELSE j} \in SUBSET Nat
    BY <2>1 DEF Nodes
  <2> HIDE DEF c
  <2>4. \A j \in 1..c : RunMessage(r, k, {IF j <= n THEN j - 1 ELSE j}) \in Wires
    BY <1>1, <2>3
  <2>5. RoundMessages(n, r, k) \in [1..c -> Wires]
    BY <2>2, <2>4
  <2>6. RoundMessages(n, r, k) \in Seq(Wires)
    BY <2>1, <2>5, SeqDef
  <2>7. \A j \in 1..c :
          LET x == RoundMessages(n, r, k)[j]
          IN  x.kind = "run" /\ x.phase = r.phase /\ x.sec = r.sec /\ x.by = r.by
              /\ x.round = k
    BY <1>1, <2>2, <2>3
  <2>. QED
    BY <2>2, <2>6, <2>7
<1>. QED
  BY <1>2, <1>3

\* A node publishes to all the others.
LEMMA PublishWay ==
  ASSUME net \in [Nodes -> [Nodes -> Seq(Wires)]], NEW a \in Nodes, NEW ms \in Seq(Wires),
         Publish(a, ms)
  PROVE  /\ net' \in [Nodes -> [Nodes -> Seq(Wires)]]
         /\ \A c, b \in Nodes : \A x : x \in Way(c, b)' <=>
              x \in Way(c, b) \/ (c = a /\ b # a /\ \E i \in DOMAIN ms : x = ms[i])
<1>1. \A c, b \in Nodes :
        net'[c][b] = IF c = a /\ b # a THEN net[c][b] \o ms ELSE net[c][b]
  BY DEF Publish
<1>2. \A c, b \in Nodes : net[c][b] \in Seq(Wires)
  OBVIOUS
<1>3. net' \in [Nodes -> [Nodes -> Seq(Wires)]]
  <2>1. \A b \in Nodes : net[a][b] \o ms \in Seq(Wires)
    BY <1>2, ConcatProperties
  <2>2. [b \in Nodes |-> IF b = a THEN net[a][b] ELSE net[a][b] \o ms] \in [Nodes -> Seq(Wires)]
    BY <1>2, <2>1
  <2>. QED
    BY <2>2 DEF Publish
<1>4. ASSUME NEW c \in Nodes, NEW b \in Nodes, c = a /\ b # a, NEW x
      PROVE  x \in Way(c, b)' <=> x \in Way(c, b) \/ \E i \in DOMAIN ms : x = ms[i]
  <2> DEFINE s == net[c][b]
             u == net'[c][b]
  <2>1. u = s \o ms /\ s \in Seq(Wires)
    BY <1>1, <1>2, <1>4
  <2>2. /\ Len(s) \in Nat /\ Len(ms) \in Nat
        /\ DOMAIN s = 1..Len(s) /\ DOMAIN ms = 1..Len(ms)
        /\ DOMAIN u = 1..(Len(s) + Len(ms))
        /\ \A i \in 1..(Len(s) + Len(ms)) :
             u[i] = IF i <= Len(s) THEN s[i] ELSE ms[i - Len(s)]
    BY <2>1, ConcatProperties, LenProperties
  <2> HIDE DEF s, u
  <2>3. \A i \in DOMAIN s : i \in DOMAIN u /\ u[i] = s[i]
    BY <2>2
  <2>4. \A i \in DOMAIN ms : Len(s) + i \in DOMAIN u /\ u[Len(s) + i] = ms[i]
    <3> SUFFICES ASSUME NEW i \in DOMAIN ms
                 PROVE  Len(s) + i \in DOMAIN u /\ u[Len(s) + i] = ms[i]
      OBVIOUS
    <3>1. /\ Len(s) + i \in 1..(Len(s) + Len(ms))
          /\ ~(Len(s) + i <= Len(s)) /\ (Len(s) + i) - Len(s) = i
      BY <2>2
    <3>. QED
      BY <2>2, <3>1
  <2>5. \A i \in DOMAIN u :
          (i \in DOMAIN s /\ u[i] = s[i])
          \/ (i - Len(s) \in DOMAIN ms /\ u[i] = ms[i - Len(s)])
    BY <2>2, SMTT(60)
  <2>6. x \in Way(c, b)' <=> \E i \in DOMAIN u : x = u[i]
    BY DEF Way, u
  <2>7. x \in Way(c, b) <=> \E i \in DOMAIN s : x = s[i]
    BY DEF Way, s
  <2>. QED
    BY <2>3, <2>4, <2>5, <2>6, <2>7
<1>5. ASSUME NEW c \in Nodes, NEW b \in Nodes, ~(c = a /\ b # a)
      PROVE  Way(c, b)' = Way(c, b)
  BY <1>1, <1>5 DEF Way
<1>6. ASSUME NEW c \in Nodes, NEW b \in Nodes, NEW x
      PROVE  x \in Way(c, b)' <=>
               x \in Way(c, b) \/ (c = a /\ b # a /\ \E i \in DOMAIN ms : x = ms[i])
  BY <1>4, <1>5
<1>. QED
  BY <1>3, <1>6

\* Taking a message takes nothing else off its way.
LEMMA TakeWay ==
  ASSUME net \in [Nodes -> [Nodes -> Seq(Wires)]], NEW a \in Nodes, NEW b \in Nodes,
         net[a][b] # <<>>, Take(a, b)
  PROVE  /\ net' \in [Nodes -> [Nodes -> Seq(Wires)]]
         /\ Head(net[a][b]) \in Way(a, b) /\ Head(net[a][b]) \in Wires
         /\ \A c, d \in Nodes : \A x :
              /\ x \in Way(c, d)' => x \in Way(c, d)
              /\ x \in Way(c, d) => x \in Way(c, d)' \/ (c = a /\ d = b /\ x = Head(net[a][b]))
<1> DEFINE s == net[a][b]
           u == net'[a][b]
<1>1. s \in Seq(Wires) /\ s # <<>> /\ u = Tail(s)
  BY DEF Take
<1>2. /\ Len(s) \in Nat /\ DOMAIN s = 1..Len(s) /\ 1 \in DOMAIN s
      /\ Head(s) = s[1] /\ s[1] \in Wires
      /\ u \in Seq(Wires)
      /\ DOMAIN u = 1..(Len(s) - 1)
      /\ \A i \in 1..(Len(s) - 1) : u[i] = s[i + 1]
  BY <1>1, HeadTailProperties, EmptySeq, LenProperties
<1>3. net' \in [Nodes -> [Nodes -> Seq(Wires)]]
  BY <1>2 DEF Take
<1>4. \A c, d \in Nodes : ~(c = a /\ d = b) => Way(c, d)' = Way(c, d)
  BY DEF Take, Way
<1>5. \A x : x \in Way(a, b)' <=> \E i \in DOMAIN u : x = u[i]
  BY DEF Way
<1>6. \A x : x \in Way(a, b) <=> \E i \in DOMAIN s : x = s[i]
  BY DEF Way
<1> HIDE DEF s, u
<1>7. \A i \in DOMAIN u : i + 1 \in DOMAIN s /\ u[i] = s[i + 1]
  BY <1>2
<1>8. \A i \in DOMAIN s : i = 1 \/ (i - 1 \in DOMAIN u /\ u[i - 1] = s[i])
  <2> SUFFICES ASSUME NEW i \in DOMAIN s, i # 1
               PROVE  i - 1 \in DOMAIN u /\ u[i - 1] = s[i]
    OBVIOUS
  <2>1. i - 1 \in 1..(Len(s) - 1) /\ (i - 1) + 1 = i
    BY <1>2
  <2>. QED
    BY <1>2, <2>1
<1>9. \A x : /\ x \in Way(a, b)' => x \in Way(a, b)
             /\ x \in Way(a, b) => x \in Way(a, b)' \/ x = Head(s)
  <2>1. ASSUME NEW x, x \in Way(a, b)' PROVE x \in Way(a, b)
    BY <1>5, <1>6, <1>7, <2>1
  <2>2. ASSUME NEW x, x \in Way(a, b), x # Head(s) PROVE x \in Way(a, b)'
    <3>1. PICK i \in DOMAIN s : x = s[i]
      BY <1>6, <2>2
    <3>2. i # 1
      BY <1>2, <2>2, <3>1
    <3>. QED
      BY <1>5, <1>8, <3>1, <3>2
  <2>. QED
    BY <2>1, <2>2
<1>10. Head(s) \in Way(a, b) /\ Head(s) \in Wires
  BY <1>2, <1>6
<1>. QED
  BY <1>3, <1>4, <1>9, <1>10 DEF s

\* What is on its way is a message.
LEMMA WayTyped ==
  ASSUME net \in [Nodes -> [Nodes -> Seq(Wires)]], NEW a \in Nodes, NEW b \in Nodes,
         NEW x \in Way(a, b)
  PROVE  x \in Wires
BY ElementOfSeq DEF Way

----------------------------------------------------------------------------
(* Steps                                                                    *)

\* Every step is one of these.
LEMMA NextCases ==
  ASSUME [Next]_vars
  PROVE  \/ \E n \in Nodes, p \in Phases, s \in Seconds : RpcBroadcast(n, p, s)
         \/ \E n \in Nodes : RpcHandle(n)
         \/ \E a, n \in Nodes : ReceiveInitiation(a, n)
         \/ \E a, n \in Nodes, p \in Phases : Forward(a, n, p)
         \/ \E n \in Nodes, p \in Phases : SendRound(n, p)
         \/ \E n \in Nodes : FinishRun(n)
         \/ \E n \in Nodes : FailRun(n)
         \/ \E n \in Nodes : StoreOrchestrator(n)
         \/ UNCHANGED vars
<1>1. "aux" \in Phases /\ "keygen" \in Phases /\ "signing" \in Phases
  BY DEF Phases
<1>. QED
  BY <1>1
  DEF Next, Call, Progress, EventLoop, Task, InitiateAuxGen, InitiateKeygen,
      InitiateSigning, ForwardAux, ForwardKeygen, ForwardSigning, SendAuxMessage,
      SendKeygenMessage, SendSigningMessage

\* The order of states: nothing leads back to where a phase may begin.
LEMMA StateOrder ==
  /\ \A p \in Phases : /\ InProgress[p] \in States /\ Completed[p] \in States
                       /\ StartStates[p] \subseteq Before[p]
                       /\ InProgress[p] \notin Before[p]
                       /\ "Failed" \notin Before[p]
                       /\ NoOrchestrator \in Before[p]
                       /\ InProgress[p] # NoOrchestrator
  /\ \A p, q \in Phases : /\ InProgress[p] \notin StartStates[q]
                          /\ \A s \in StartStates[p] :
                               s \notin Before[q] => InProgress[p] \notin Before[q]
                          /\ InProgress[p] \notin Before[q] => Completed[p] \notin Before[q]
BY DEF Phases, InProgress, Completed, StartStates, States, Before, NoOrchestrator

\* A run that goes on is a record, and in the state of its phase.
LEMMA RunFacts ==
  ASSUME TypeInv, NEW n \in Nodes, run[n] # NoRun
  PROVE  /\ run[n] \in RunRecords
         /\ run[n].phase \in Phases /\ run[n].sec \in Seconds /\ run[n].by \in Nodes
         /\ run[n].round \in Nat /\ run[n].round <= Len(Rounds[run[n].phase])
         /\ run[n].inbox \subseteq HeardMessages
         /\ run[n].phase \in tx[n]
         /\ st[n] = InProgress[run[n].phase]
         /\ \A p \in Phases : st[n] \notin StartStates[p]
<1>1. run[n] \in RunRecords
  BY DEF TypeInv
<1>2. run[n].phase \in Phases /\ run[n].round \in Nat
  BY <1>1 DEF RunRecords
<1>3. run[n].round <= Len(Rounds[run[n].phase])
  BY <1>2, RoundsFacts DEF TypeInv, TypeOK
<1>. QED
  BY <1>1, <1>2, <1>3, StateOrder DEF TypeInv, TypeOK, RunRecords

\* No run is not a run.
LEMMA NoRunFacts ==
  /\ \A p \in Phases : NoRun.phase # p
  /\ \A r \in RunRecords : r # NoRun
  /\ \A m \in RunInitiations : NewRun(m) \in RunRecords
BY InitiationFacts DEF NoRun, Phases, RunRecords, NewRun

\* What can become of node k in one step.
Rests(k)     == /\ st'[k] = st[k] \/ (st[k] = NoOrchestrator /\ st'[k] = "Idle")
                /\ run'[k] = run[k] /\ done'[k] = done[k]
Begins(k, m) == /\ m \in RunInitiations
                /\ st[k] \in StartStates[m.phase] /\ st'[k] = InProgress[m.phase]
                /\ k \in Parties(m.phase) /\ HasInputs(k, m.phase)
                /\ m.phase \in tx'[k]
                /\ run'[k] = NewRun(m)
                /\ ran' = ran \cup {<<k, m.phase, m.sec>>}
Enters(k)    == /\ \E p \in Phases : st[k] \in StartStates[p] /\ st'[k] = InProgress[p]
                /\ run[k] = NoRun /\ done'[k] = done[k]
                /\ run'[k] = NoRun \/ \E m : Begins(k, m)
Continues(k) == /\ run[k] # NoRun /\ run'[k] \in RunRecords
                /\ run'[k].phase = run[k].phase /\ run'[k].sec = run[k].sec
                /\ run'[k].by = run[k].by
                /\ run[k].inbox \subseteq run'[k].inbox
                /\ run'[k].round >= run[k].round
                /\ run'[k].round <= Len(Rounds[run[k].phase])
                /\ st'[k] = st[k] /\ done'[k] = done[k]
Result(r)    == [phase |-> r.phase, sec |-> r.sec]
Finishes(k)  == /\ run[k] # NoRun /\ run'[k] = NoRun
                /\ st'[k] = Completed[run[k].phase]
                /\ done'[k] = done[k] \cup {Result(run[k])}
Fails(k)     == /\ run[k] # NoRun /\ run'[k] = NoRun
                /\ st'[k] = "Failed" /\ done'[k] = done[k]
                /\ \E y \in run[k].inbox : ~Sound(k, y)

Evolves(k) == Rests(k) \/ Enters(k) \/ Continues(k) \/ Finishes(k) \/ Fails(k)
Grows == /\ ran \subseteq ran' /\ refused \subseteq refused'
         /\ \A k \in Nodes : tx[k] \subseteq tx'[k] /\ done[k] \subseteq done'[k]
RanGrows == ran' = ran \/ \E k \in Nodes : \E m : Begins(k, m)

\* Types that change with a node.
NodeTypes == /\ st \in [Nodes -> States \cup {NoOrchestrator}]
             /\ tx \in [Nodes -> SUBSET Phases]
             /\ run \in [Nodes -> RunRecords \cup {NoRun}]
             /\ done \in [Nodes -> SUBSET Results]
             /\ ran \subseteq Nodes \X Phases \X Seconds
             /\ refused \subseteq Nodes \X Phases

\* What handling an initiation does.
LEMMA HandleEffect ==
  ASSUME TypeInv, NEW n \in Nodes, NEW m \in RunInitiations, Handle(n, m), done' = done
  PROVE  /\ NodeTypes' /\ Grows /\ RanGrows
         /\ \A k \in Nodes : Rests(k) \/ Enters(k)
<1> DEFINE p == m.phase
<1>0. /\ p \in Phases /\ m.sec \in Seconds
      /\ st \in [Nodes -> States \cup {NoOrchestrator}]
      /\ tx \in [Nodes -> SUBSET Phases]
      /\ run \in [Nodes -> RunRecords \cup {NoRun}]
      /\ done \in [Nodes -> SUBSET Results]
      /\ ran \subseteq Nodes \X Phases \X Seconds /\ refused \subseteq Nodes \X Phases
      /\ InProgress[p] \in States /\ NewRun(m) \in RunRecords
  BY InitiationFacts, StateOrder, NoRunFacts DEF TypeInv, TypeOK
<1>1. CASE st[n] \notin StartStates[p]
  <2>1. /\ UNCHANGED <<st, tx, run, ran>>
        /\ refused' = refused \/ refused' = refused \cup {<<n, p>>}
    BY <1>1 DEF Handle
  <2>. QED
    BY <1>0, <2>1 DEF NodeTypes, Grows, RanGrows, Rests
<1>2. CASE st[n] \in StartStates[p]
  <2>0. run[n] = NoRun
    BY <1>0, <1>2, RunFacts
  <2>1. st' = [st EXCEPT ![n] = InProgress[p]]
    BY <1>2 DEF Handle
  <2>2. CASE n \in Parties(p) /\ HasInputs(n, p)
    <3>1. /\ tx' = [tx EXCEPT ![n] = @ \cup {p}]
          /\ run' = [run EXCEPT ![n] = NewRun(m)]
          /\ ran' = ran \cup {<<n, p, m.sec>>}
          /\ refused' = refused
      BY <1>2, <2>2 DEF Handle
    <3>2. NodeTypes' /\ Grows
      BY <1>0, <2>1, <3>1 DEF NodeTypes, Grows
    <3>3. Begins(n, m)
      BY <1>0, <1>2, <2>1, <2>2, <3>1 DEF Begins
    <3>4. Enters(n)
      BY <1>0, <1>2, <2>0, <2>1, <3>3 DEF Enters
    <3>5. \A k \in Nodes : k # n => Rests(k)
      BY <1>0, <2>1, <3>1 DEF Rests
    <3>. QED
      BY <3>2, <3>3, <3>4, <3>5 DEF RanGrows
  <2>3. CASE ~(n \in Parties(p) /\ HasInputs(n, p))
    <3>1. /\ UNCHANGED <<tx, run, ran>>
          /\ refused' = refused \/ refused' = refused \cup {<<n, p>>}
      BY <1>2, <2>3 DEF Handle
    <3>2. NodeTypes' /\ Grows /\ RanGrows
      BY <1>0, <2>1, <3>1 DEF NodeTypes, Grows, RanGrows
    <3>3. Enters(n)
      BY <1>0, <1>2, <2>0, <2>1, <3>1 DEF Enters
    <3>4. \A k \in Nodes : k # n => Rests(k)
      BY <1>0, <2>1, <3>1 DEF Rests
    <3>. QED
      BY <3>2, <3>3, <3>4
  <2>. QED
    BY <2>2, <2>3
<1>. QED
  BY <1>1, <1>2

\* What every step does to the nodes.
LEMMA Evolution ==
  ASSUME TypeInv, [Next]_vars
  PROVE  NodeTypes' /\ Grows /\ RanGrows /\ \A k \in Nodes : Evolves(k)
<1>0. NodeTypes
  BY DEF TypeInv, TypeOK, NodeTypes
<1>1. CASE UNCHANGED <<st, tx, run, done, ran, refused>>
  BY <1>0, <1>1 DEF NodeTypes, Grows, RanGrows, Evolves, Rests
<1>2. ASSUME NEW n \in Nodes, RpcHandle(n)
      PROVE  NodeTypes' /\ Grows /\ RanGrows /\ \A k \in Nodes : Evolves(k)
  <2>1. rpc[n] \in RunInitiations /\ Handle(n, rpc[n]) /\ done' = done
    BY <1>2 DEF RpcHandle, TypeInv
  <2>. QED
    BY <2>1, HandleEffect DEF Evolves
<1>3. ASSUME NEW a \in Nodes, NEW n \in Nodes, ReceiveInitiation(a, n)
      PROVE  NodeTypes' /\ Grows /\ RanGrows /\ \A k \in Nodes : Evolves(k)
  <2>1. Head(net[a][n]) \in Wires
    BY <1>3, TakeWay DEF ReceiveInitiation, Deliverable, TypeInv
  <2>2. Head(net[a][n]) \in RunInitiations /\ Handle(n, Head(net[a][n])) /\ done' = done
    BY <1>3, <2>1, WireFacts DEF ReceiveInitiation
  <2>. QED
    BY <2>2, HandleEffect DEF Evolves
<1>4. ASSUME NEW a \in Nodes, NEW n \in Nodes, NEW p \in Phases, Forward(a, n, p),
             run' # run
      PROVE  NodeTypes' /\ Grows /\ RanGrows /\ \A k \in Nodes : Evolves(k)
  <2> DEFINE m == Head(net[a][n])
             y == [from |-> a, sec |-> m.sec, round |-> m.round, mine |-> n \in m.to]
  <2>1. m \in Wires
    BY <1>4, TakeWay DEF Forward, Deliverable, TypeInv
  <2>2. m.sec \in Seconds /\ m.round \in Nat
    BY <1>4, <2>1, WireFacts DEF Forward
  <2>3. y \in HeardMessages
    BY <2>2 DEF HeardMessages
  <2>4. /\ run[n].phase = p
        /\ run' = [run EXCEPT ![n].inbox = @ \cup {y}]
        /\ UNCHANGED <<st, tx, done, ran, refused>>
    BY <1>4 DEF Forward
  <2>5. run[n] # NoRun
    BY <2>4, NoRunFacts
  <2>6. /\ run[n] \in RunRecords /\ run[n].round \in Nat
        /\ run[n].round <= Len(Rounds[run[n].phase])
    BY <2>5, RunFacts
  <2> DEFINE r == [run[n] EXCEPT !.inbox = @ \cup {y}]
  <2>7. /\ r \in RunRecords /\ r.phase = run[n].phase /\ r.sec = run[n].sec
        /\ r.by = run[n].by /\ r.round = run[n].round
        /\ run[n].inbox \subseteq r.inbox
    BY <2>3, <2>6 DEF RunRecords
  <2>8. run' = [run EXCEPT ![n] = r]
    BY <2>4
  <2> HIDE DEF r, y, m
  <2>9. NodeTypes' /\ Grows /\ RanGrows
    BY <1>0, <2>4, <2>7, <2>8 DEF NodeTypes, Grows, RanGrows
  <2>10. Continues(n)
    <3>1. run'[n] = r /\ st'[n] = st[n] /\ done'[n] = done[n]
      BY <1>0, <2>4, <2>8 DEF NodeTypes
    <3>2. run[n].round >= run[n].round
      BY <2>6
    <3>. QED
      BY <2>5, <2>6, <2>7, <3>1, <3>2 DEF Continues
  <2>11. \A k \in Nodes : k # n => Rests(k)
    BY <1>0, <2>4, <2>8 DEF Rests, NodeTypes
  <2>. QED
    BY <2>9, <2>10, <2>11 DEF Evolves
<1>5. ASSUME NEW n \in Nodes, NEW p \in Phases, SendRound(n, p)
      PROVE  NodeTypes' /\ Grows /\ RanGrows /\ \A k \in Nodes : Evolves(k)
  <2>1. /\ run[n].phase = p /\ run[n].round < Len(Rounds[p])
        /\ run' = [run EXCEPT ![n].round = @ + 1]
        /\ UNCHANGED <<st, tx, done, ran, refused>>
    BY <1>5 DEF SendRound
  <2>2. run[n] # NoRun
    BY <2>1, NoRunFacts
  <2>3. run[n] \in RunRecords /\ run[n].round \in Nat /\ Len(Rounds[p]) \in Nat
    BY <2>2, RunFacts, RoundsFacts
  <2> DEFINE r == [run[n] EXCEPT !.round = @ + 1]
  <2>4. /\ r \in RunRecords /\ r.phase = run[n].phase /\ r.sec = run[n].sec
        /\ r.by = run[n].by /\ r.round = run[n].round + 1
        /\ run[n].inbox \subseteq r.inbox
    BY <2>3 DEF RunRecords
  <2>5. run' = [run EXCEPT ![n] = r]
    BY <2>1
  <2> HIDE DEF r
  <2>6. NodeTypes' /\ Grows /\ RanGrows
    BY <1>0, <2>1, <2>4, <2>5 DEF NodeTypes, Grows, RanGrows
  <2>7. Continues(n)
    BY <1>0, <2>1, <2>2, <2>3, <2>4, <2>5 DEF Continues, NodeTypes
  <2>8. \A k \in Nodes : k # n => Rests(k)
    BY <1>0, <2>1, <2>5 DEF Rests, NodeTypes
  <2>. QED
    BY <2>6, <2>7, <2>8 DEF Evolves
<1>6. ASSUME NEW n \in Nodes, FinishRun(n)
      PROVE  NodeTypes' /\ Grows /\ RanGrows /\ \A k \in Nodes : Evolves(k)
  <2>1. /\ run[n] # NoRun
        /\ st' = [st EXCEPT ![n] = Completed[run[n].phase]]
        /\ done' = [done EXCEPT ![n] = @ \cup {Result(run[n])}]
        /\ run' = [run EXCEPT ![n] = NoRun]
        /\ UNCHANGED <<tx, ran, refused>>
    BY <1>6 DEF FinishRun, Result
  <2>2. Result(run[n]) \in Results /\ Completed[run[n].phase] \in States
    BY <2>1, RunFacts, StateOrder DEF Result, Results
  <2>3. NodeTypes' /\ Grows /\ RanGrows
    BY <1>0, <2>1, <2>2 DEF NodeTypes, Grows, RanGrows
  <2>4. Finishes(n) /\ \A k \in Nodes : k # n => Rests(k)
    BY <1>0, <2>1 DEF Finishes, Rests, NodeTypes
  <2>. QED
    BY <2>3, <2>4 DEF Evolves
<1>7. ASSUME NEW n \in Nodes, FailRun(n)
      PROVE  NodeTypes' /\ Grows /\ RanGrows /\ \A k \in Nodes : Evolves(k)
  <2>1. /\ run[n] # NoRun
        /\ \E y \in run[n].inbox : ~Sound(n, y)
        /\ st' = [st EXCEPT ![n] = "Failed"]
        /\ run' = [run EXCEPT ![n] = NoRun]
        /\ UNCHANGED <<tx, done, ran, refused>>
    BY <1>7 DEF FailRun
  <2>2. NodeTypes' /\ Grows /\ RanGrows
    BY <1>0, <2>1 DEF NodeTypes, Grows, RanGrows, States
  <2>3. Fails(n) /\ \A k \in Nodes : k # n => Rests(k)
    BY <1>0, <2>1 DEF Fails, Rests, NodeTypes
  <2>. QED
    BY <2>2, <2>3 DEF Evolves
<1>8. ASSUME NEW n \in Nodes, NEW p \in Phases, NEW s \in Seconds, RpcBroadcast(n, p, s)
      PROVE  UNCHANGED <<st, tx, run, done, ran, refused>>
  BY <1>8 DEF RpcBroadcast
<1>9. ASSUME NEW a \in Nodes, NEW n \in Nodes, NEW p \in Phases, Forward(a, n, p)
      PROVE  run' = run => UNCHANGED <<st, tx, run, done, ran, refused>>
  BY <1>9 DEF Forward
<1>10. CASE UNCHANGED vars
  BY <1>1, <1>10 DEF vars
<1>11. ASSUME NEW n \in Nodes, StoreOrchestrator(n)
       PROVE  NodeTypes' /\ Grows /\ RanGrows /\ \A k \in Nodes : Evolves(k)
  BY <1>0, <1>11 DEF StoreOrchestrator, NodeTypes, States, Grows, RanGrows, Evolves, Rests
<1>. QED
  BY <1>1, <1>2, <1>3, <1>4, <1>5, <1>6, <1>7, <1>8, <1>9, <1>10, <1>11, NextCases

----------------------------------------------------------------------------
(* Types                                                                    *)

\* A node on which nothing has happened.
LEMMA InitIInv == Init => IInv
<1> SUFFICES ASSUME Init PROVE IInv
  OBVIOUS
<1>1. /\ st \in [Nodes -> States \cup {NoOrchestrator}] /\ tx \in [Nodes -> SUBSET Phases]
      /\ rpc \in [Nodes -> RunInitiations \cup {NoInitiation}]
      /\ run \in [Nodes -> RunRecords \cup {NoRun}]
      /\ done \in [Nodes -> SUBSET Results]
      /\ net \in [Nodes -> [Nodes -> Seq(Wires)]]
      /\ refused = {} /\ dropped = {} /\ ran = {}
  BY EmptySeq DEF Init, States
<1>2. \A n \in Nodes : rpc[n] = NoInitiation /\ run[n] = NoRun /\ done[n] = {}
  BY DEF Init
<1>3. \A a, b \in Nodes : Way(a, b) = {}
  BY DEF Init, Way
<1>4. TypeInv
  BY <1>1, <1>2 DEF TypeInv, TypeOK
<1>5. RanInv /\ ResultInv
  BY <1>1, <1>2, <1>3 DEF RanInv, ResultInv
<1>6. InitiationInv
  BY <1>2, <1>3, InitiationFacts DEF InitiationInv, Made
<1>. QED
  BY <1>4, <1>5, <1>6 DEF IInv

\* Types that change otherwise.
OtherTypes == /\ net \in [Nodes -> [Nodes -> Seq(Wires)]]
              /\ rpc \in [Nodes -> RunInitiations \cup {NoInitiation}]
              /\ dropped \subseteq Nodes \X Phases

\* The messages that a run sends next.
LEMMA SendRoundMessages ==
  ASSUME TypeInv, NEW n \in Nodes, NEW p \in Phases, SendRound(n, p)
  PROVE  LET ms == RoundMessages(n, run[n], run[n].round + 1)
         IN  /\ run[n] # NoRun
             /\ ms \in Seq(Wires)
             /\ \A i \in DOMAIN ms :
                  /\ ms[i] \in Wires /\ ms[i].kind = "run"
                  /\ SameRun(ms[i], run[n])
                  /\ ms[i].round = run[n].round + 1
<1>1. run[n].phase = p /\ run[n].round < Len(Rounds[p])
  BY DEF SendRound
<1>2. run[n] # NoRun
  BY <1>1, NoRunFacts
<1>3. run[n] \in RunRecords /\ run[n].round \in Nat /\ Len(Rounds[p]) \in Nat
  BY <1>2, RunFacts, RoundsFacts
<1>4. run[n].round + 1 \in 1..Len(Rounds[run[n].phase])
  BY <1>1, <1>3
<1> DEFINE ms == RoundMessages(n, run[n], run[n].round + 1)
<1>5. /\ ms \in Seq(Wires)
      /\ \A i \in DOMAIN ms :
           ms[i].kind = "run" /\ ms[i].phase = run[n].phase /\ ms[i].sec = run[n].sec
           /\ ms[i].by = run[n].by /\ ms[i].round = run[n].round + 1
  BY <1>3, <1>4, RoundMessagesFacts
<1> HIDE DEF ms
<1>6. \A i \in DOMAIN ms : ms[i] \in Wires
  BY <1>5, ElementOfSeq, LenProperties
<1>. QED
  BY <1>2, <1>5, <1>6 DEF ms, SameRun

\* Every step keeps the types.
LEMMA TypeStep == TypeInv /\ [Next]_vars => TypeInv'
<1> SUFFICES ASSUME TypeInv, [Next]_vars PROVE TypeInv'
  OBVIOUS
<1>0. /\ net \in [Nodes -> [Nodes -> Seq(Wires)]]
      /\ rpc \in [Nodes -> RunInitiations \cup {NoInitiation}]
      /\ dropped \subseteq Nodes \X Phases
  BY DEF TypeInv, TypeOK
<1>1. NodeTypes' /\ Grows /\ \A k \in Nodes : Evolves(k)
  BY Evolution
<1>2. ASSUME NEW k \in Nodes, run'[k] # NoRun
      PROVE  /\ run'[k].phase \in tx'[k]
             /\ st'[k] = InProgress[run'[k].phase]
             /\ run'[k].round \in 0..Len(Rounds[run'[k].phase])
  <2>1. CASE Rests(k)
    <3>1. run[k] # NoRun /\ run'[k] = run[k]
      BY <1>2, <2>1 DEF Rests
    <3>2. st'[k] = st[k] /\ run[k].phase \in Phases
      BY <2>1, <3>1, RunFacts, StateOrder DEF Rests
    <3>. QED
      BY <1>1, <3>1, <3>2 DEF TypeInv, TypeOK, Grows
  <2>2. CASE Enters(k)
    <3>1. PICK m : Begins(k, m)
      BY <1>2, <2>2 DEF Enters
    <3>2. m.phase \in Phases /\ run'[k] = NewRun(m)
      BY <3>1, InitiationFacts DEF Begins
    <3>3. Len(Rounds[m.phase]) \in Nat
      BY <3>2, RoundsFacts
    <3>. QED
      BY <3>1, <3>2, <3>3 DEF Begins, NewRun
  <2>3. CASE Continues(k)
    <3>1. /\ run[k].phase \in Phases /\ run[k].phase \in tx[k]
          /\ st[k] = InProgress[run[k].phase]
      BY <2>3, RunFacts DEF Continues
    <3>2. Len(Rounds[run[k].phase]) \in Nat /\ run'[k].round \in Nat
      BY <2>3, <3>1, RoundsFacts DEF Continues, RunRecords
    <3>. QED
      BY <1>1, <2>3, <3>1, <3>2 DEF Continues, Grows
  <2>. QED
    BY <1>1, <1>2, <2>1, <2>2, <2>3 DEF Evolves, Finishes, Fails
<1>3. ASSUME NEW n \in Nodes, NEW p \in Phases, NEW s \in Seconds, RpcBroadcast(n, p, s)
      PROVE  OtherTypes'
  <2>1. Initiation(p, s, n) \in RunInitiations /\ <<Initiation(p, s, n)>> \in Seq(Wires)
    BY InitiationFacts, WireFacts
  <2>. QED
    BY <1>0, <1>3, <2>1, PublishWay DEF RpcBroadcast, OtherTypes
<1>4. ASSUME NEW n \in Nodes, RpcHandle(n) PROVE OtherTypes'
  BY <1>0, <1>4 DEF RpcHandle, OtherTypes
<1>5. ASSUME NEW a \in Nodes, NEW n \in Nodes, ReceiveInitiation(a, n) PROVE OtherTypes'
  BY <1>0, <1>5, TakeWay DEF ReceiveInitiation, Deliverable, OtherTypes
<1>6. ASSUME NEW a \in Nodes, NEW n \in Nodes, NEW p \in Phases, Forward(a, n, p)
      PROVE  OtherTypes'
  <2>1. net' \in [Nodes -> [Nodes -> Seq(Wires)]]
    BY <1>0, <1>6, TakeWay DEF Forward, Deliverable
  <2>2. dropped' \subseteq Nodes \X Phases /\ rpc' = rpc
    BY <1>0, <1>6 DEF Forward
  <2>. QED
    BY <1>0, <2>1, <2>2 DEF OtherTypes
<1>7. ASSUME NEW n \in Nodes, NEW p \in Phases, SendRound(n, p) PROVE OtherTypes'
  <2>1. RoundMessages(n, run[n], run[n].round + 1) \in Seq(Wires)
    BY <1>7, SendRoundMessages
  <2>. QED
    BY <1>0, <1>7, <2>1, PublishWay DEF SendRound, OtherTypes
<1>8. ASSUME NEW n \in Nodes, FinishRun(n) \/ FailRun(n) \/ StoreOrchestrator(n)
      PROVE  OtherTypes'
  BY <1>0, <1>8 DEF FinishRun, FailRun, StoreOrchestrator, OtherTypes
<1>9. ASSUME UNCHANGED vars PROVE OtherTypes'
  <2>1. UNCHANGED <<net, rpc, dropped>>
    BY <1>9 DEF vars
  <2>. QED
    BY <1>0, <2>1 DEF OtherTypes
<1>10. OtherTypes'
  BY <1>3, <1>4, <1>5, <1>6, <1>7, <1>8, <1>9, NextCases
<1>. QED
  BY <1>1, <1>2, <1>10 DEF TypeInv, TypeOK, NodeTypes, OtherTypes

----------------------------------------------------------------------------
(* Runs and results                                                         *)

\* What a phase needs does not go away.
LEMMA InputsStay ==
  ASSUME TypeInv, [Next]_vars, NEW n \in Nodes, NEW p \in Phases, HasInputs(n, p)
  PROVE  HasInputs(n, p)'
BY Evolution DEF HasInputs, Grows

\* A state past a phase is followed by another.
LEMMA PastStays ==
  ASSUME TypeInv, [Next]_vars, NEW n \in Nodes, NEW p \in Phases, Past(n, p)
  PROVE  Past(n, p)'
<1>1. CASE Rests(n)
  BY <1>1, StateOrder DEF Rests, Past
<1>2. CASE Enters(n)
  BY <1>2, StateOrder DEF Enters, Past
<1>3. CASE Continues(n)
  BY <1>3 DEF Continues, Past
<1>4. CASE Finishes(n)
  <2>1. run[n].phase \in Phases /\ st[n] = InProgress[run[n].phase]
    BY <1>4, RunFacts DEF Finishes
  <2>. QED
    BY <1>4, <2>1, StateOrder DEF Finishes, Past
<1>5. CASE Fails(n)
  BY <1>5, StateOrder DEF Fails, Past
<1>. QED
  BY <1>1, <1>2, <1>3, <1>4, <1>5, Evolution DEF Evolves

\* Every step lets a node begin a phase at most once, with its inputs.
LEMMA RanStep == TypeInv /\ RanInv /\ [Next]_vars => RanInv'
<1> SUFFICES ASSUME TypeInv, RanInv, [Next]_vars PROVE RanInv'
  OBVIOUS
<1>1. Grows /\ RanGrows /\ \A k \in Nodes : Evolves(k)
  BY Evolution
<1>2. ASSUME NEW n \in Nodes, NEW p \in Phases, NEW s \in Seconds, <<n, p, s>> \in ran'
      PROVE  \/ <<n, p, s>> \in ran
             \/ /\ st[n] \in StartStates[p] /\ st'[n] = InProgress[p]
                /\ n \in Parties(p) /\ HasInputs(n, p) /\ p \in tx'[n]
                /\ \A t \in Seconds : <<n, p, t>> \in ran' => t = s \/ <<n, p, t>> \in ran
  BY <1>1, <1>2 DEF RanGrows, Begins
<1>3. ASSUME NEW n \in Nodes, NEW p \in Phases, NEW s \in Seconds, st[n] \in StartStates[p]
      PROVE  <<n, p, s>> \notin ran
  BY <1>3, StateOrder DEF RanInv, Past
<1>4. \A n \in Nodes, p \in Phases, s, t \in Seconds :
        <<n, p, s>> \in ran' /\ <<n, p, t>> \in ran' => s = t
  BY <1>2, <1>3 DEF RanInv
<1>5. ASSUME NEW n \in Nodes, NEW p \in Phases, NEW s \in Seconds, <<n, p, s>> \in ran'
      PROVE  n \in Parties(p) /\ Past(n, p)' /\ p \in tx'[n] /\ HasInputs(n, p)'
  <2>1. CASE <<n, p, s>> \in ran
    BY <1>1, <2>1, PastStays, InputsStay DEF RanInv, Grows
  <2>2. CASE <<n, p, s>> \notin ran
    BY <1>2, <1>5, <2>2, InputsStay, StateOrder DEF Past
  <2>. QED
    BY <2>1, <2>2
<1>6. ASSUME NEW n \in Nodes, run'[n] # NoRun
      PROVE  <<n, run'[n].phase, run'[n].sec>> \in ran'
  <2>1. CASE Enters(n)
    <3>1. PICK m : Begins(n, m)
      BY <1>6, <2>1 DEF Enters
    <3>. QED
      BY <3>1 DEF Begins, NewRun
  <2>2. CASE Rests(n) \/ Continues(n)
    BY <1>1, <1>6, <2>2 DEF Rests, Continues, RanInv, Grows
  <2>. QED
    BY <1>1, <1>6, <2>1, <2>2 DEF Evolves, Finishes, Fails
<1>7. ASSUME NEW n \in Nodes, NEW d \in done'[n] PROVE <<n, d.phase, d.sec>> \in ran'
  <2>1. CASE d \in done[n]
    BY <1>1, <2>1 DEF RanInv, Grows
  <2>2. CASE d \notin done[n]
    <3>1. run[n] # NoRun /\ d = Result(run[n])
      BY <1>1, <2>2 DEF Evolves, Rests, Enters, Continues, Fails, Finishes
    <3>. QED
      BY <1>1, <3>1 DEF RanInv, Grows, Result
  <2>. QED
    BY <2>1, <2>2
<1>. QED
  BY <1>4, <1>5, <1>6, <1>7 DEF RanInv

\* A message that was not on its way is the initiation of a call, published to
\* all the others, or one of the next round of a run.
LEMMA WayOrigin ==
  ASSUME TypeInv, [Next]_vars, NEW a \in Nodes, NEW b \in Nodes, NEW x,
         x \in Way(a, b)', x \notin Way(a, b)
  PROVE  \/ /\ x \in RunInitiations
            /\ rpc[a] = NoInitiation /\ rpc'[a] = x
            /\ \A n \in Nodes : n # a => x \in Way(a, n)'
         \/ /\ run[a] # NoRun
            /\ x.kind = "run" /\ SameRun(x, run[a])
            /\ run'[a].phase = run[a].phase /\ run'[a].sec = run[a].sec
            /\ run'[a].round = x.round
<1>0. /\ net \in [Nodes -> [Nodes -> Seq(Wires)]]
      /\ rpc \in [Nodes -> RunInitiations \cup {NoInitiation}]
      /\ run \in [Nodes -> RunRecords \cup {NoRun}]
  BY DEF TypeInv
<1>1. ASSUME NEW n \in Nodes, NEW p \in Phases, NEW s \in Seconds, RpcBroadcast(n, p, s)
      PROVE  /\ x \in RunInitiations
             /\ rpc[a] = NoInitiation /\ rpc'[a] = x
             /\ \A k \in Nodes : k # a => x \in Way(a, k)'
  <2> DEFINE m == Initiation(p, s, n)
             ms == <<m>>
  <2>1. m \in RunInitiations /\ ms \in Seq(Wires) /\ DOMAIN ms = {1} /\ ms[1] = m
    BY InitiationFacts, WireFacts
  <2>2. Publish(n, ms) /\ rpc[n] = NoInitiation /\ rpc' = [rpc EXCEPT ![n] = m]
    BY <1>1 DEF RpcBroadcast, LockFree
  <2> HIDE DEF m, ms
  <2>3. \A c, k \in Nodes : \A z : z \in Way(c, k)' <=>
          z \in Way(c, k) \/ (c = n /\ k # n /\ \E i \in DOMAIN ms : z = ms[i])
    BY <1>0, <2>1, <2>2, PublishWay
  <2>4. a = n /\ x = m
    BY <2>1, <2>3
  <2>. QED
    BY <1>0, <2>1, <2>2, <2>3, <2>4
<1>2. ASSUME NEW n \in Nodes, NEW p \in Phases, SendRound(n, p)
      PROVE  /\ run[a] # NoRun
             /\ x.kind = "run" /\ SameRun(x, run[a])
             /\ run'[a].phase = run[a].phase /\ run'[a].sec = run[a].sec
             /\ run'[a].round = x.round
  <2> DEFINE ms == RoundMessages(n, run[n], run[n].round + 1)
  <2>1. /\ run[n] # NoRun /\ ms \in Seq(Wires)
        /\ \A i \in DOMAIN ms :
             ms[i].kind = "run" /\ SameRun(ms[i], run[n])
             /\ ms[i].round = run[n].round + 1
    BY <1>2, SendRoundMessages
  <2>2. Publish(n, ms) /\ run' = [run EXCEPT ![n].round = @ + 1]
    BY <1>2 DEF SendRound
  <2> HIDE DEF ms
  <2>3. \A c, k \in Nodes : \A z : z \in Way(c, k)' <=>
          z \in Way(c, k) \/ (c = n /\ k # n /\ \E i \in DOMAIN ms : z = ms[i])
    BY <1>0, <2>1, <2>2, PublishWay
  <2>4. a = n /\ \E i \in DOMAIN ms : x = ms[i]
    BY <2>3
  <2>5. run[n] \in RunRecords
    BY <2>1, RunFacts
  <2>6. /\ run'[n].phase = run[n].phase /\ run'[n].sec = run[n].sec
        /\ run'[n].round = run[n].round + 1
    BY <1>0, <2>2, <2>5 DEF RunRecords
  <2>. QED
    BY <2>1, <2>4, <2>6
<1>3. ASSUME NEW c \in Nodes, NEW n \in Nodes, net[c][n] # <<>>, Take(c, n)
      PROVE  FALSE
  BY <1>0, <1>3, TakeWay
<1>4. ASSUME net' = net PROVE FALSE
  BY <1>4 DEF Way
<1>5. ASSUME UNCHANGED vars PROVE FALSE
  BY <1>4, <1>5 DEF vars
<1>6. ASSUME NEW n \in Nodes,
             RpcHandle(n) \/ FinishRun(n) \/ FailRun(n) \/ StoreOrchestrator(n)
      PROVE  FALSE
  BY <1>4, <1>6 DEF RpcHandle, FinishRun, FailRun, StoreOrchestrator
<1>7. ASSUME NEW c \in Nodes, NEW n \in Nodes, NEW p \in Phases,
             ReceiveInitiation(c, n) \/ Forward(c, n, p)
      PROVE  FALSE
  BY <1>3, <1>7 DEF ReceiveInitiation, Forward, Deliverable
<1>8. ASSUME NEW c \in Nodes, NEW n \in Nodes, ReceiveInitiation(c, n) PROVE FALSE
  BY <1>3, <1>8 DEF ReceiveInitiation, Deliverable
<1>. QED
  BY <1>1, <1>2, <1>5, <1>6, <1>7, <1>8, NextCases

\* What a run reads is from its channel, and the channel holds what was on its
\* way to the node, of the phase of the run.
LEMMA InboxOrigin ==
  ASSUME TypeInv, [Next]_vars, NEW n \in Nodes, Continues(n), NEW y \in run'[n].inbox
  PROVE  \/ y \in run[n].inbox
         \/ /\ y.mine
            /\ \E a \in Nodes : \E x \in Way(a, n) :
                 /\ x.kind = "run" /\ x.phase = run[n].phase
                 /\ y.from = a /\ y.sec = x.sec /\ y.round = x.round
<1>0. /\ net \in [Nodes -> [Nodes -> Seq(Wires)]]
      /\ run \in [Nodes -> RunRecords \cup {NoRun}]
      /\ run[n] # NoRun /\ run[n] \in RunRecords
      /\ run'[n] # NoRun
  BY RunFacts, NoRunFacts DEF TypeInv, Continues
<1>1. ASSUME NEW a \in Nodes, NEW k \in Nodes, NEW p \in Phases, Forward(a, k, p),
             y \notin run[n].inbox
      PROVE  /\ y.mine
             /\ \E x \in Way(a, n) :
                  /\ x.kind = "run" /\ x.phase = run[n].phase
                  /\ y.from = a /\ y.sec = x.sec /\ y.round = x.round
  <2> DEFINE m == Head(net[a][k])
             z == [from |-> a, sec |-> m.sec, round |-> m.round, mine |-> k \in m.to]
  <2>1. m \in Way(a, k)
    BY <1>0, <1>1, TakeWay DEF Forward, Deliverable
  <2>2. /\ m.kind = "run" /\ m.phase = p
        /\ \/ /\ k \in m.to /\ run[k].phase = p
              /\ run' = [run EXCEPT ![k].inbox = @ \cup {z}]
           \/ run' = run
    BY <1>1 DEF Forward, MeantFor
  <2> HIDE DEF m
  <2>3. run' # run
    BY <1>1
  <2>4. run' = [run EXCEPT ![k].inbox = @ \cup {z}] /\ run[k].phase = p /\ k \in m.to
    BY <2>2, <2>3
  <2> HIDE DEF z
  <2>5. k = n
    BY <1>0, <1>1, <2>4
  <2>6. run'[n].inbox = run[n].inbox \cup {z}
    BY <1>0, <2>4, <2>5 DEF RunRecords
  <2>7. y = z
    BY <1>1, <2>6
  <2>. QED
    BY <2>1, <2>2, <2>4, <2>5, <2>7 DEF z
<1>2. ASSUME run' = run PROVE y \in run[n].inbox
  BY <1>2
<1>3. ASSUME NEW k \in Nodes, NEW p \in Phases, SendRound(k, p) PROVE y \in run[n].inbox
  BY <1>0, <1>3 DEF SendRound, RunRecords
<1>4. ASSUME NEW k \in Nodes, FinishRun(k) \/ FailRun(k) \/ StoreOrchestrator(k)
      PROVE  y \in run[n].inbox
  BY <1>0, <1>2, <1>4 DEF FinishRun, FailRun, StoreOrchestrator
<1>5. ASSUME NEW k \in Nodes, NEW m \in RunInitiations, Handle(k, m)
      PROVE  y \in run[n].inbox
  <2>1. \A p \in Phases : st[n] \notin StartStates[p]
    BY <1>0, RunFacts
  <2>2. run'[n] = run[n]
    BY <1>0, <1>5, <2>1, InitiationFacts DEF Handle
  <2>. QED
    BY <2>2
<1>6. ASSUME NEW k \in Nodes, RpcHandle(k) PROVE y \in run[n].inbox
  <2>1. rpc[k] \in RunInitiations /\ Handle(k, rpc[k])
    BY <1>6 DEF RpcHandle, TypeInv
  <2>. QED
    BY <1>5, <2>1
<1>7. ASSUME NEW a \in Nodes, NEW k \in Nodes, ReceiveInitiation(a, k)
      PROVE  y \in run[n].inbox
  <2>1. Head(net[a][k]) \in Wires
    BY <1>0, <1>7, TakeWay DEF ReceiveInitiation, Deliverable
  <2>2. Head(net[a][k]) \in RunInitiations /\ Handle(k, Head(net[a][k]))
    BY <1>7, <2>1, WireFacts DEF ReceiveInitiation
  <2>. QED
    BY <1>5, <2>2
<1>8. ASSUME NEW k \in Nodes, NEW p \in Phases, NEW s \in Seconds, RpcBroadcast(k, p, s)
      PROVE  y \in run[n].inbox
  BY <1>2, <1>8 DEF RpcBroadcast
<1>9. ASSUME UNCHANGED vars PROVE y \in run[n].inbox
  BY <1>2, <1>9 DEF vars
<1>. QED
  BY <1>1, <1>3, <1>4, <1>6, <1>7, <1>8, <1>9, NextCases, ZenonT(60)

\* A new result is that of a run that finishes.
LEMMA ResultOrigin ==
  ASSUME TypeInv, [Next]_vars, NEW n \in Nodes, NEW d \in done'[n], d \notin done[n]
  PROVE  FinishRun(n) /\ run[n] # NoRun /\ d = Result(run[n])
<1>1. done' # done
  OBVIOUS
<1>2. /\ \A k \in Nodes : \A p \in Phases : \A s \in Seconds :
           RpcBroadcast(k, p, s) => done' = done
      /\ \A k \in Nodes : RpcHandle(k) => done' = done
      /\ \A a, k \in Nodes : ReceiveInitiation(a, k) => done' = done
      /\ \A a, k \in Nodes : \A p \in Phases : Forward(a, k, p) => done' = done
      /\ \A k \in Nodes : \A p \in Phases : SendRound(k, p) => done' = done
      /\ \A k \in Nodes : FailRun(k) => done' = done
      /\ \A k \in Nodes : StoreOrchestrator(k) => done' = done
      /\ UNCHANGED vars => done' = done
  BY DEF RpcBroadcast, RpcHandle, ReceiveInitiation, Forward, SendRound, FailRun,
     StoreOrchestrator, vars
<1>3. PICK k \in Nodes : FinishRun(k)
  BY <1>1, <1>2, NextCases
<1>4. k = n /\ run[n] # NoRun /\ d = Result(run[n])
  BY <1>3 DEF FinishRun, TypeInv, TypeOK, Result
<1>. QED
  BY <1>3, <1>4

\* Two timestamps of one phase are a clash, and where all parties run with one
\* timestamp there is none.
LEMMA NoClash ==
  ASSUME TypeInv, RanInv, NEW p \in Phases, NEW s \in Seconds, AllRan(p, s)
  PROVE  ~Clash(p, s)
BY DEF RanInv, AllRan, Clash

\* A sound message is of the timestamp of the run.
LEMMA SoundSecond ==
  ASSUME NEW n, NEW y
  PROVE  Sound(n, y) <=> y.mine /\ y.sec = run[n].sec
BY DEF Sound, ExecutionId

\* What a party has reached it has reached for good, or there is a clash.
LEMMA ReachedStays ==
  ASSUME IInv, [Next]_vars, NEW m \in Nodes, NEW p \in Phases, NEW s \in Seconds,
         NEW r \in Nat, Reached(m, p, s, r)
  PROVE  Reached(m, p, s, r)'
<1>0. TypeInv /\ RanInv /\ ResultInv /\ Grows /\ Evolves(m)
  BY Evolution DEF IInv
<1>1. <<m, p, s>> \in ran'
  BY <1>0 DEF Reached, Grows
<1>2. Clash(p, s) => Clash(p, s)'
  BY <1>0 DEF Clash, Grows
<1>3. CASE [phase |-> p, sec |-> s] \in done[m] \/ Clash(p, s)
  BY <1>0, <1>1, <1>2, <1>3 DEF Reached, Grows
<1>4. CASE run[m].phase = p /\ run[m].sec = s /\ run[m].round >= r
  <2>0. run[m] # NoRun /\ run[m].round \in Nat
    BY <1>0, <1>4, NoRunFacts, RunFacts
  <2>1. CASE Rests(m)
    BY <1>1, <1>4, <2>1 DEF Reached, Rests
  <2>2. CASE Enters(m)
    BY <2>0, <2>2 DEF Enters
  <2>3. CASE Continues(m)
    <3>1. run'[m].round \in Nat
      BY <2>3 DEF Continues, RunRecords
    <3>2. run'[m].round >= r
      BY <1>4, <2>0, <2>3, <3>1 DEF Continues
    <3>. QED
      BY <1>1, <1>4, <2>3, <3>2 DEF Reached, Continues
  <2>4. CASE Finishes(m)
    BY <1>1, <1>4, <2>4 DEF Reached, Finishes, Result
  <2>5. CASE Fails(m)
    <3>1. PICK y \in run[m].inbox : ~Sound(m, y)
      BY <2>5 DEF Fails
    <3>2. y.mine /\ Reached(y.from, p, y.sec, y.round) /\ y.sec # s
      BY <1>0, <1>4, <2>0, <3>1, SoundSecond DEF ResultInv
    <3>3. y.from \in Nodes /\ y.sec \in Seconds
      BY <1>0, <2>0, <3>1, RunFacts DEF HeardMessages
    <3>4. <<y.from, p, y.sec>> \in ran
      BY <3>2 DEF Reached
    <3>5. Clash(p, s)
      BY <3>2, <3>3, <3>4 DEF Clash
    <3>. QED
      BY <1>1, <1>2, <3>5 DEF Reached
  <2>. QED
    BY <1>0, <2>1, <2>2, <2>3, <2>4, <2>5 DEF Evolves
<1>. QED
  BY <1>3, <1>4 DEF Reached

\* A run that finishes has heard from all parties, in the last round.
LEMMA FinishReached ==
  ASSUME IInv, NEW n \in Nodes, FinishRun(n), NEW m \in Parties(run[n].phase)
  PROVE  Reached(m, run[n].phase, run[n].sec, Len(Rounds[run[n].phase]))
<1> DEFINE p == run[n].phase
           s == run[n].sec
<1>0. TypeInv /\ RanInv /\ ResultInv
  BY DEF IInv
<1>1. /\ run[n] # NoRun /\ run[n].round = Len(Rounds[p]) /\ RoundComplete(n)
      /\ \A y \in run[n].inbox : Sound(n, y)
  BY DEF FinishRun
<1>2. p \in Phases /\ s \in Seconds /\ Len(Rounds[p]) \in Nat /\ Len(Rounds[p]) > 0
  BY <1>0, <1>1, RunFacts, RoundsFacts
<1>3. CASE m = n
  BY <1>0, <1>1, <1>2, <1>3 DEF Reached, RanInv
<1>4. CASE m # n
  <2>1. m \in Heard(run[n], Len(Rounds[p]))
    BY <1>1, <1>2, <1>4 DEF RoundComplete
  <2>2. PICK y \in run[n].inbox : y.from = m /\ y.round = Len(Rounds[p])
    BY <2>1 DEF Heard
  <2>3. y.sec = s
    BY <1>1, <2>2, SoundSecond
  <2>. QED
    BY <1>0, <1>1, <2>2, <2>3 DEF ResultInv
<1>. QED
  BY <1>3, <1>4

\* Every step keeps what messages and results tell of their senders.
LEMMA ResultStep == IInv /\ [Next]_vars => ResultInv'
<1> SUFFICES ASSUME IInv, [Next]_vars PROVE ResultInv'
  OBVIOUS
<1>0. /\ TypeInv /\ RanInv /\ ResultInv /\ Grows /\ \A k \in Nodes : Evolves(k)
      /\ net \in [Nodes -> [Nodes -> Seq(Wires)]]
  BY Evolution DEF IInv, TypeInv
<1>1. ASSUME NEW a \in Nodes, NEW b \in Nodes, NEW x \in Way(a, b)', x.kind = "run"
      PROVE  Reached(a, x.phase, x.sec, x.round)'
  <2>1. CASE x \in Way(a, b)
    <3>1. x \in Wires
      BY <1>0, <2>1, WayTyped
    <3>2. x.phase \in Phases /\ x.sec \in Seconds /\ x.round \in Nat
      BY <1>1, <3>1, WireFacts
    <3>3. Reached(a, x.phase, x.sec, x.round)
      BY <1>0, <1>1, <2>1 DEF ResultInv
    <3>. QED
      BY <3>2, <3>3, ReachedStays
  <2>2. CASE x \notin Way(a, b)
    <3>1. x \notin RunInitiations
      BY <1>1, InitiationFacts
    <3>2. /\ run[a] # NoRun /\ SameRun(x, run[a])
          /\ run'[a].phase = run[a].phase /\ run'[a].sec = run[a].sec
          /\ run'[a].round = x.round
      BY <1>0, <1>1, <2>2, <3>1, WayOrigin
    <3>3. <<a, x.phase, x.sec>> \in ran'
      BY <1>0, <3>2 DEF RanInv, SameRun, Grows
    <3>4. run[a] \in RunRecords /\ run'[a] # NoRun
      BY <1>0, <3>2, RunFacts, NoRunFacts
    <3>5. run'[a].round \in Nat
      BY <1>0, <3>2, <3>4 DEF Evolves, Rests, Enters, Continues, Finishes, Fails, RunRecords
    <3>. QED
      BY <3>2, <3>3, <3>5 DEF Reached, SameRun
  <2>. QED
    BY <2>1, <2>2
<1>2. ASSUME NEW n \in Nodes, run'[n] # NoRun, NEW y \in run'[n].inbox
      PROVE  y.mine /\ Reached(y.from, run[n].phase, y.sec, y.round)'
  <2>1. CASE Enters(n)
    <3>1. PICK m : Begins(n, m)
      BY <1>2, <2>1 DEF Enters
    <3>2. run'[n].inbox = {}
      BY <3>1 DEF Begins, NewRun
    <3>. QED
      BY <1>2, <3>2
  <2>2. ASSUME run[n] # NoRun, run'[n].phase = run[n].phase,
               NEW p \in Phases, p = run[n].phase
        PROVE  y.mine /\ Reached(y.from, p, y.sec, y.round)'
    <3>1. CASE y \in run[n].inbox
      <4>1. y \in HeardMessages
        BY <1>0, <2>2, <3>1, RunFacts
      <4>2. y.from \in Nodes /\ y.sec \in Seconds /\ y.round \in Nat
        BY <4>1 DEF HeardMessages
      <4>3. y.mine /\ Reached(y.from, p, y.sec, y.round)
        BY <1>0, <2>2, <3>1 DEF ResultInv
      <4>. QED
        BY <2>2, <4>2, <4>3, ReachedStays
    <3>2. CASE y \notin run[n].inbox
      <4>0. Continues(n)
        BY <1>0, <1>2, <2>1, <2>2, <3>2 DEF Evolves, Rests, Finishes, Fails, Enters
      <4>1. y.mine
        BY <1>0, <1>2, <4>0, <3>2, InboxOrigin
      <4>2. PICK a \in Nodes : \E x \in Way(a, n) :
              /\ x.kind = "run" /\ x.phase = run[n].phase
              /\ y.from = a /\ y.sec = x.sec /\ y.round = x.round
        BY <1>0, <1>2, <4>0, <3>2, InboxOrigin
      <4>3. PICK x \in Way(a, n) :
              /\ x.kind = "run" /\ x.phase = run[n].phase
              /\ y.from = a /\ y.sec = x.sec /\ y.round = x.round
        BY <4>2
      <4>4. x \in Wires
        BY <1>0, WayTyped
      <4>5. x.sec \in Seconds /\ x.round \in Nat
        BY <4>3, <4>4, WireFacts
      <4>6. Reached(a, p, x.sec, x.round)
        BY <1>0, <2>2, <4>3 DEF ResultInv
      <4>7. Reached(a, p, x.sec, x.round)'
        BY <2>2, <4>5, <4>6, ReachedStays
      <4>. QED
        BY <4>1, <4>3, <4>7
    <3>. QED
      BY <3>1, <3>2
  <2>3. CASE Rests(n) \/ Continues(n)
    <3>1. run[n] # NoRun /\ run'[n].phase = run[n].phase
      BY <1>2, <2>3 DEF Rests, Continues
    <3>2. run[n].phase \in Phases
      BY <1>0, <3>1, RunFacts
    <3>3. PICK p \in Phases : p = run[n].phase
      BY <3>2
    <3>4. y.mine /\ Reached(y.from, p, y.sec, y.round)'
      BY <2>2, <3>1, <3>3
    <3>. QED
      BY <3>1, <3>3, <3>4 DEF Reached
  <2>. QED
    BY <1>0, <1>2, <2>1, <2>3 DEF Evolves, Finishes, Fails
<1>3. ASSUME NEW n \in Nodes, NEW d \in done'[n], NEW m \in Parties(d.phase)
      PROVE  Reached(m, d.phase, d.sec, Len(Rounds[d.phase]))'
  <2>1. CASE d \in done[n]
    <3>1. d.phase \in Phases /\ d.sec \in Seconds
      BY <1>0, <2>1 DEF TypeInv, TypeOK, Results
    <3>2. m \in Nodes /\ Len(Rounds[d.phase]) \in Nat
      BY <3>1, PartiesFacts, RoundsFacts
    <3>3. Reached(m, d.phase, d.sec, Len(Rounds[d.phase]))
      BY <1>0, <2>1 DEF ResultInv
    <3>. QED
      BY <3>1, <3>2, <3>3, ReachedStays
  <2>2. CASE d \notin done[n]
    <3>1. FinishRun(n) /\ run[n] # NoRun /\ d = Result(run[n])
      BY <1>0, <2>2, ResultOrigin
    <3>2. d.phase = run[n].phase /\ d.sec = run[n].sec
      BY <3>1 DEF Result
    <3>3. d.phase \in Phases /\ d.sec \in Seconds
      BY <1>0, <3>1, <3>2, RunFacts
    <3>4. m \in Nodes /\ Len(Rounds[d.phase]) \in Nat
      BY <3>3, PartiesFacts, RoundsFacts
    <3>5. Reached(m, d.phase, d.sec, Len(Rounds[d.phase]))
      BY <3>1, <3>2, FinishReached
    <3>. QED
      BY <3>3, <3>4, <3>5, ReachedStays
  <2>. QED
    BY <2>1, <2>2
<1>. QED
  BY <1>1, <1>2, <1>3 DEF ResultInv

----------------------------------------------------------------------------
(* Initiations                                                              *)

\* A node that handles an initiation follows it or is counted as refusing.
LEMMA HandleAnswers ==
  ASSUME TypeInv, RanInv, NEW n \in Nodes, NEW m \in RunInitiations, Handle(n, m)
  PROVE  Answered(n, m)'
<1>0. m.phase \in Phases /\ m.sec \in Seconds
  BY InitiationFacts
<1>1. CASE st[n] \notin StartStates[m.phase]
  <2>1. ran' = ran /\ (Follows(n, m) \/ <<n, m.phase>> \in refused')
    BY <1>1 DEF Handle
  <2>2. CASE m.phase = run[n].phase /\ m.sec = run[n].sec
    <3>1. run[n] # NoRun
      BY <1>0, <2>2, NoRunFacts
    <3>. QED
      BY <2>1, <2>2, <3>1 DEF RanInv, Answered
  <2>3. CASE [phase |-> m.phase, sec |-> m.sec] \in done[n]
    <3>1. <<n, m.phase, m.sec>> \in ran
      BY <2>3 DEF RanInv
    <3>. QED
      BY <2>1, <3>1 DEF Answered
  <2>. QED
    BY <2>1, <2>2, <2>3 DEF Follows, Answered
<1>2. CASE st[n] \in StartStates[m.phase] /\ n \notin Parties(m.phase)
  BY <1>2 DEF Answered
<1>3. CASE st[n] \in StartStates[m.phase] /\ n \in Parties(m.phase)
  <2>1. \/ ran' = ran \cup {<<n, m.phase, m.sec>>}
        \/ refused' = refused \cup {<<n, m.phase>>}
    BY <1>3 DEF Handle
  <2>. QED
    BY <2>1 DEF Answered
<1>. QED
  BY <1>1, <1>2, <1>3

\* An initiation is taken off its way by the node that handles it.
LEMMA PendingStays ==
  ASSUME IInv, [Next]_vars, NEW n \in Nodes, NEW x \in RunInitiations, Pending(n, x)
  PROVE  Pending(n, x)' \/ Answered(n, x)'
<1>0. /\ TypeInv /\ RanInv
      /\ net \in [Nodes -> [Nodes -> Seq(Wires)]]
      /\ rpc \in [Nodes -> RunInitiations \cup {NoInitiation}]
      /\ x # NoInitiation /\ x.kind = "initiate"
  BY InitiationFacts DEF IInv, TypeInv
<1>1. ASSUME NEW k \in Nodes, NEW p \in Phases, NEW s \in Seconds, RpcBroadcast(k, p, s)
      PROVE  Pending(n, x)'
  <2>1. <<Initiation(p, s, k)>> \in Seq(Wires) /\ Publish(k, <<Initiation(p, s, k)>>)
    BY <1>1, InitiationFacts, WireFacts DEF RpcBroadcast
  <2>2. \A c \in Nodes : x \in Way(c, n) => x \in Way(c, n)'
    BY <1>0, <2>1, PublishWay
  <2>3. rpc[n] = x => rpc'[n] = x
    BY <1>0, <1>1 DEF RpcBroadcast, LockFree
  <2>. QED
    BY <2>2, <2>3 DEF Pending
<1>2. ASSUME NEW k \in Nodes, RpcHandle(k)
      PROVE  Pending(n, x)' \/ Answered(n, x)'
  <2>1. net' = net /\ Handle(k, rpc[k]) /\ rpc' = [rpc EXCEPT ![k] = NoInitiation]
    BY <1>2 DEF RpcHandle
  <2>2. CASE rpc[n] = x /\ k = n
    BY <1>0, <2>1, <2>2, HandleAnswers
  <2>3. CASE rpc[n] = x /\ k # n
    BY <1>0, <2>1, <2>3 DEF Pending
  <2>4. CASE \E c \in Nodes : x \in Way(c, n)
    BY <2>1, <2>4 DEF Pending, Way
  <2>. QED
    BY <2>2, <2>3, <2>4 DEF Pending
<1>3. ASSUME NEW a \in Nodes, NEW k \in Nodes, ReceiveInitiation(a, k)
      PROVE  Pending(n, x)' \/ Answered(n, x)'
  <2>1. /\ net[a][k] # <<>> /\ Take(a, k) /\ rpc' = rpc
        /\ Handle(k, Head(net[a][k]))
    BY <1>3 DEF ReceiveInitiation, Deliverable
  <2>2. CASE rpc[n] = x
    BY <2>1, <2>2 DEF Pending
  <2>3. ASSUME NEW c \in Nodes, x \in Way(c, n)
        PROVE  x \in Way(c, n)' \/ (n = k /\ x = Head(net[a][k]))
    BY <1>0, <2>1, <2>3, TakeWay
  <2>4. CASE n = k /\ x = Head(net[a][k])
    BY <1>0, <2>1, <2>4, HandleAnswers
  <2>. QED
    BY <2>2, <2>3, <2>4 DEF Pending
<1>4. ASSUME NEW a \in Nodes, NEW k \in Nodes, NEW p \in Phases, Forward(a, k, p)
      PROVE  Pending(n, x)'
  <2>1. /\ net[a][k] # <<>> /\ Take(a, k) /\ rpc' = rpc
        /\ Head(net[a][k]).kind = "run"
    BY <1>4 DEF Forward, Deliverable
  <2>2. x # Head(net[a][k])
    BY <1>0, <2>1
  <2>3. ASSUME NEW c \in Nodes, x \in Way(c, n) PROVE x \in Way(c, n)'
    BY <1>0, <2>1, <2>2, <2>3, TakeWay
  <2>. QED
    BY <2>1, <2>3 DEF Pending
<1>5. ASSUME NEW k \in Nodes, NEW p \in Phases, SendRound(k, p) PROVE Pending(n, x)'
  <2>1. /\ RoundMessages(k, run[k], run[k].round + 1) \in Seq(Wires)
        /\ Publish(k, RoundMessages(k, run[k], run[k].round + 1))
        /\ rpc' = rpc
    BY <1>0, <1>5, SendRoundMessages DEF SendRound
  <2>2. \A c \in Nodes : x \in Way(c, n) => x \in Way(c, n)'
    BY <1>0, <2>1, PublishWay
  <2>. QED
    BY <2>1, <2>2 DEF Pending
<1>6. ASSUME UNCHANGED <<rpc, net>> PROVE Pending(n, x)'
  BY <1>6 DEF Pending, Way
<1>7. ASSUME NEW k \in Nodes, FinishRun(k) \/ FailRun(k) \/ StoreOrchestrator(k)
      PROVE  Pending(n, x)'
  BY <1>6, <1>7 DEF FinishRun, FailRun, StoreOrchestrator
<1>8. ASSUME UNCHANGED vars PROVE Pending(n, x)'
  BY <1>6, <1>8 DEF vars
<1>. QED
  BY <1>1, <1>2, <1>3, <1>4, <1>5, <1>7, <1>8, NextCases

\* A call that broadcasts keeps its initiation and sends it to all the others.
LEMMA RpcOrigin ==
  ASSUME TypeInv, [Next]_vars, NEW i \in Nodes, NEW x \in RunInitiations,
         rpc'[i] = x, rpc[i] # x
  PROVE  \A n \in Nodes : n # i => x \in Way(i, n)'
<1>0. /\ net \in [Nodes -> [Nodes -> Seq(Wires)]]
      /\ rpc \in [Nodes -> RunInitiations \cup {NoInitiation}]
      /\ x # NoInitiation
  BY InitiationFacts DEF TypeInv
<1>1. ASSUME NEW k \in Nodes, NEW p \in Phases, NEW s \in Seconds, RpcBroadcast(k, p, s)
      PROVE  \A n \in Nodes : n # i => x \in Way(i, n)'
  <2> DEFINE m == Initiation(p, s, k)
             ms == <<m>>
  <2>1. ms \in Seq(Wires) /\ DOMAIN ms = {1} /\ ms[1] = m
    BY InitiationFacts, WireFacts
  <2>2. Publish(k, ms) /\ rpc' = [rpc EXCEPT ![k] = m]
    BY <1>1 DEF RpcBroadcast
  <2> HIDE DEF m, ms
  <2>3. i = k /\ x = m
    BY <1>0, <2>2
  <2>4. \A n \in Nodes : n # k => m \in Way(k, n)'
    BY <1>0, <2>1, <2>2, PublishWay
  <2>. QED
    BY <2>3, <2>4
<1>2. ASSUME NEW k \in Nodes, RpcHandle(k) PROVE FALSE
  BY <1>0, <1>2 DEF RpcHandle
<1>3. ASSUME rpc' = rpc PROVE FALSE
  BY <1>3
<1>. QED
  BY <1>1, <1>2, <1>3, NextCases
  DEF ReceiveInitiation, Forward, SendRound, FinishRun, FailRun, StoreOrchestrator, vars

\* A run begins on an initiation that its node had made or was sent.
LEMMA RunOrigin ==
  ASSUME TypeInv, [Next]_vars, NEW n \in Nodes, NEW x \in RunInitiations,
         run'[n] # NoRun, run[n] = NoRun, SameRun(x, run'[n])
  PROVE  Pending(n, x)
<1>0. /\ net \in [Nodes -> [Nodes -> Seq(Wires)]]
      /\ run \in [Nodes -> RunRecords \cup {NoRun}]
  BY DEF TypeInv
<1>1. ASSUME NEW k \in Nodes, NEW m \in RunInitiations, Handle(k, m)
      PROVE  k = n /\ x = m
  <2>1. run' = [run EXCEPT ![k] = NewRun(m)]
    BY <1>1 DEF Handle
  <2>2. k = n /\ run'[n] = NewRun(m)
    BY <1>0, <2>1
  <2>3. x.phase = m.phase /\ x.sec = m.sec /\ x.by = m.by
    BY <2>2 DEF SameRun, NewRun
  <2>. QED
    BY <2>2, <2>3, InitiationFacts
<1>2. ASSUME NEW k \in Nodes, RpcHandle(k) PROVE Pending(n, x)
  BY <1>1, <1>2 DEF RpcHandle, TypeInv, Pending
<1>3. ASSUME NEW a \in Nodes, NEW k \in Nodes, ReceiveInitiation(a, k)
      PROVE  Pending(n, x)
  <2>1. Head(net[a][k]) \in Way(a, k) /\ Head(net[a][k]) \in Wires
    BY <1>0, <1>3, TakeWay DEF ReceiveInitiation, Deliverable
  <2>2. Head(net[a][k]) \in RunInitiations /\ Handle(k, Head(net[a][k]))
    BY <1>3, <2>1, WireFacts DEF ReceiveInitiation
  <2>. QED
    BY <1>1, <2>1, <2>2 DEF Pending
<1>4. ASSUME NEW k \in Nodes, NEW p \in Phases, SendRound(k, p) PROVE FALSE
  <2>1. run[k] # NoRun
    BY <1>4, SendRoundMessages
  <2>. QED
    BY <1>0, <1>4, <2>1 DEF SendRound
<1>5. ASSUME NEW k \in Nodes, FinishRun(k) \/ FailRun(k) PROVE FALSE
  BY <1>0, <1>5 DEF FinishRun, FailRun
<1>6. ASSUME NEW a \in Nodes, NEW k \in Nodes, NEW p \in Phases, Forward(a, k, p)
      PROVE  FALSE
  <2>1. run' # run
    OBVIOUS
  <2>2. run[k].phase = p /\ \A j \in Nodes : j # k => run'[j] = run[j]
    BY <1>0, <1>6, <2>1 DEF Forward
  <2>. QED
    BY <2>2, NoRunFacts
<1>7. ASSUME run' = run PROVE FALSE
  BY <1>7
<1>. QED
  BY <1>2, <1>3, <1>4, <1>5, <1>6, <1>7, NextCases
  DEF RpcBroadcast, StoreOrchestrator, vars

\* An initiation that comes to be made was made before, or is made by a call.
LEMMA MadeOrigin ==
  ASSUME TypeInv, [Next]_vars, NEW x \in RunInitiations, Made(x)'
  PROVE  \/ Made(x)
         \/ \E i \in Nodes : /\ rpc'[i] = x
                             /\ \A n \in Nodes : n # i => x \in Way(i, n)'
<1>1. ASSUME NEW i \in Nodes, rpc'[i] = x
      PROVE  rpc[i] = x \/ \A n \in Nodes : n # i => x \in Way(i, n)'
  BY <1>1, RpcOrigin
<1>2. ASSUME NEW a \in Nodes, NEW b \in Nodes, x \in Way(a, b)', x \notin Way(a, b)
      PROVE  rpc'[a] = x /\ \A n \in Nodes : n # a => x \in Way(a, n)'
  BY <1>2, WayOrigin, InitiationFacts
<1>3. ASSUME NEW n \in Nodes, run'[n] # NoRun, SameRun(x, run'[n])
      PROVE  Made(x)
  <2>1. CASE run[n] = NoRun
    BY <1>3, <2>1, RunOrigin DEF Pending, Made
  <2>2. CASE run[n] # NoRun
    <3>1. Evolves(n)
      BY Evolution
    <3>2. SameRun(x, run[n])
      BY <1>3, <2>2, <3>1
      DEF Evolves, Rests, Enters, Continues, Finishes, Fails, SameRun
    <3>. QED
      BY <2>2, <3>2 DEF Made
  <2>. QED
    BY <2>1, <2>2
<1>4. ASSUME NEW a \in Nodes, NEW b \in Nodes, NEW y \in Way(a, b)', y.kind = "run",
             SameRun(x, y)
      PROVE  Made(x)
  <2>1. CASE y \in Way(a, b)
    BY <1>4, <2>1 DEF Made
  <2>2. CASE y \notin Way(a, b)
    <3>1. y \notin RunInitiations
      BY <1>4, InitiationFacts
    <3>2. run[a] # NoRun /\ SameRun(y, run[a])
      BY <2>2, <3>1, WayOrigin
    <3>. QED
      BY <1>4, <3>2 DEF SameRun, Made
  <2>. QED
    BY <2>1, <2>2
<1>. QED
  BY <1>1, <1>2, <1>3, <1>4 DEF Made

\* Every step answers an initiation that was made, or leaves it to be handled.
LEMMA InitiationStep == IInv /\ [Next]_vars => InitiationInv'
<1> SUFFICES ASSUME IInv, [Next]_vars, NEW x \in RunInitiations, Made(x)', NEW n \in Nodes
             PROVE  Answered(n, x)' \/ Pending(n, x)'
  BY DEF InitiationInv
<1>0. TypeInv /\ InitiationInv /\ Grows
  BY Evolution DEF IInv
<1>1. CASE Made(x)
  <2>1. Answered(n, x) \/ Pending(n, x)
    BY <1>0, <1>1 DEF InitiationInv
  <2>2. Answered(n, x) => Answered(n, x)'
    BY <1>0 DEF Answered, Grows
  <2>. QED
    BY <2>1, <2>2, PendingStays
<1>2. CASE \E i \in Nodes : /\ rpc'[i] = x
                            /\ \A k \in Nodes : k # i => x \in Way(i, k)'
  BY <1>2 DEF Pending
<1>. QED
  BY <1>0, <1>1, <1>2, MadeOrigin

----------------------------------------------------------------------------
(* Theorems                                                                 *)

\* The inductive invariant holds in every reachable state.
THEOREM Invariance == Spec => []IInv
<1>1. IInv /\ [Next]_vars => IInv'
  BY TypeStep, RanStep, ResultStep, InitiationStep DEF IInv
<1>. QED
  BY <1>1, InitIInv, PTL DEF Spec

\* Every variable of the nodes, the messages and the runs has its type.
THEOREM TypeCorrect == Spec => []TypeOK
<1>1. IInv => TypeOK
  BY DEF IInv, TypeInv
<1>. QED
  BY <1>1, Invariance, PTL

\* Where a party has a result, the run of every party was one and the same.
LEMMA ResultAllRan ==
  ASSUME IInv, NEW n \in Nodes, NEW d \in done[n]
  PROVE  /\ d \in Results /\ n \in Parties(d.phase)
         /\ AllRan(d.phase, d.sec)
         /\ ~Clash(d.phase, d.sec)
<1>1. TypeInv /\ RanInv /\ ResultInv /\ d \in Results
  BY DEF IInv, TypeInv, TypeOK
<1>2. d.phase \in Phases /\ d.sec \in Seconds
  BY <1>1 DEF Results
<1>3. n \in Parties(d.phase)
  BY <1>1, <1>2 DEF RanInv
<1>4. AllRan(d.phase, d.sec)
  BY <1>1 DEF ResultInv, Reached, AllRan
<1>5. ~Clash(d.phase, d.sec)
  BY <1>1, <1>2, <1>4, NoClash
<1>. QED
  BY <1>1, <1>3, <1>4, <1>5

\* run_aux_generation, run_keygen and run_signing give a party a result only
\* when every party has run to the last round with the same timestamp.
THEOREM ResultsAgree == Spec => []ResultMeansAllRan
<1>1. IInv => ResultMeansAllRan
  <2> SUFFICES ASSUME IInv, NEW n \in Nodes, NEW d \in done[n], NEW m \in Parties(d.phase)
               PROVE  \/ d \in done[m]
                      \/ /\ run[m].phase = d.phase
                         /\ run[m].sec = d.sec
                         /\ run[m].round = Len(Rounds[d.phase])
    BY DEF ResultMeansAllRan
  <2>1. d \in Results /\ ~Clash(d.phase, d.sec)
    BY ResultAllRan
  <2>2. d.phase \in Phases /\ d = [phase |-> d.phase, sec |-> d.sec]
    BY <2>1 DEF Results
  <2>3. m \in Nodes /\ Len(Rounds[d.phase]) \in Nat /\ TypeInv
    BY <2>2, PartiesFacts, RoundsFacts DEF IInv
  <2>4. Reached(m, d.phase, d.sec, Len(Rounds[d.phase]))
    BY DEF IInv, ResultInv
  <2>5. CASE run[m].phase = d.phase /\ run[m].sec = d.sec
             /\ run[m].round >= Len(Rounds[d.phase])
    <3>1. run[m] # NoRun
      BY <2>2, <2>5, NoRunFacts
    <3>2. run[m].round \in Nat /\ run[m].round <= Len(Rounds[d.phase])
      BY <2>3, <2>5, <3>1, RunFacts
    <3>. QED
      BY <2>3, <2>5, <3>2
  <2>. QED
    BY <2>1, <2>2, <2>4, <2>5 DEF Reached
<1>. QED
  BY <1>1, Invariance, PTL

\* The results of the phase before are those of one run as well.
LEMMA EarlierResult ==
  ASSUME IInv, NEW n \in Nodes, NEW d \in done[n], NEW q \in Phases,
         Parties(d.phase) \subseteq Parties(q),
         \A m \in Parties(d.phase) : HasInputs(m, d.phase) => \E e \in done[m] : e.phase = q
  PROVE  \E e \in done[n] : e.phase = q /\ \A m \in Parties(d.phase) : e \in done[m]
<1>0. TypeInv /\ RanInv
  BY DEF IInv
<1>1. d \in Results /\ n \in Parties(d.phase) /\ AllRan(d.phase, d.sec)
  BY ResultAllRan
<1>2. d.phase \in Phases /\ d.sec \in Seconds
  BY <1>1 DEF Results
<1>3. \A m \in Parties(d.phase) : m \in Nodes /\ HasInputs(m, d.phase)
  BY <1>0, <1>1, <1>2, PartiesFacts DEF AllRan, RanInv
<1>4. PICK e \in done[n] : e.phase = q
  BY <1>1, <1>3
<1>5. e \in Results /\ AllRan(q, e.sec)
  BY <1>4, ResultAllRan
<1>6. ASSUME NEW m \in Parties(d.phase) PROVE e \in done[m]
  <2>1. PICK f \in done[m] : f.phase = q
    BY <1>3
  <2>2. m \in Nodes /\ f \in Results /\ <<m, q, f.sec>> \in ran
    BY <1>0, <1>3, <2>1 DEF RanInv, TypeInv, TypeOK
  <2>3. <<m, q, e.sec>> \in ran
    BY <1>5 DEF AllRan
  <2>4. e.sec \in Seconds /\ f.sec \in Seconds
    BY <1>5, <2>2 DEF Results
  <2>5. e.sec = f.sec
    BY <1>0, <2>2, <2>3, <2>4 DEF RanInv
  <2>6. e = f
    BY <1>4, <1>5, <2>1, <2>2, <2>5 DEF Results
  <2>. QED
    BY <2>1, <2>6
<1>. QED
  BY <1>4, <1>6

\* handle_initiate_keygen reads the aux info and handle_initiate_signing the key
\* share: with a result, all parties had those of one run.
THEOREM OneRun == Spec => []ResultsBuildOnOneRun
<1>0. "aux" \in Phases /\ "keygen" \in Phases /\ "signing" \in Phases
  BY DEF Phases
<1>1. IInv => ResultsBuildOnOneRun
  <2> SUFFICES ASSUME IInv, NEW n \in Nodes, NEW d \in done[n]
               PROVE  /\ d.phase = "keygen"  => \E e \in done[n] :
                           e.phase = "aux" /\ \A m \in Parties("keygen") : e \in done[m]
                      /\ d.phase = "signing" => \E e \in done[n] :
                           e.phase = "keygen" /\ \A m \in Parties("signing") : e \in done[m]
    BY DEF ResultsBuildOnOneRun
  <2>1. CASE d.phase = "keygen"
    <3>1. /\ Parties("keygen") \subseteq Parties("aux")
          /\ \A m \in Nodes : HasInputs(m, "keygen") => \E e \in done[m] : e.phase = "aux"
          /\ Parties("keygen") \subseteq Nodes
      BY PartiesFacts DEF HasInputs
    <3>. QED
      BY <1>0, <2>1, <3>1, EarlierResult
  <2>2. CASE d.phase = "signing"
    <3>1. /\ Parties("signing") \subseteq Parties("keygen")
          /\ \A m \in Nodes : HasInputs(m, "signing") => \E e \in done[m] : e.phase = "keygen"
          /\ Parties("signing") \subseteq Nodes
      BY <1>0, PartiesFacts DEF HasInputs
    <3>. QED
      BY <1>0, <2>2, <3>1, EarlierResult
  <2>. QED
    BY <2>1, <2>2
<1>. QED
  BY <1>1, Invariance, PTL

\* While an RPC call holds the orchestrator no message is taken, and gossip has
\* the initiation there first: a node that takes a message of a run has
\* answered the initiation of that run.
LEMMA TakenAnswered ==
  ASSUME Meshed, IInv, NEW a \in Nodes, NEW n \in Nodes, NEW p \in Phases, Forward(a, n, p)
  PROVE  LET m == Head(net[a][n])
         IN  /\ m \in Way(a, n) /\ m \in Wires /\ m.kind = "run" /\ m.phase = p
             /\ Answered(n, Initiation(p, m.sec, m.by))
<1> DEFINE m == Head(net[a][n])
           x == Initiation(m.phase, m.sec, m.by)
<1>0. /\ TypeInv /\ InitiationInv
      /\ net \in [Nodes -> [Nodes -> Seq(Wires)]]
  BY DEF IInv, TypeInv
<1>1. Deliverable(a, n) /\ LockFree(n) /\ m.kind = "run" /\ m.phase = p
  BY DEF Forward
<1>2. m \in Way(a, n) /\ m \in Wires
  BY <1>0, <1>1, TakeWay DEF Forward, Deliverable
<1>3. x \in RunInitiations /\ x.phase = p /\ SameRun(x, m)
  BY <1>1, <1>2, WireFacts, InitiationFacts DEF Initiation, SameRun
<1>4. \A c \in Nodes : x \notin Way(c, n)
  <2> SUFFICES ASSUME NEW c \in Nodes, x \in Way(c, n) PROVE FALSE
    OBVIOUS
  <2>1. PICK i \in DOMAIN net[c][n] : x = net[c][n][i]
    BY DEF Way
  <2>2. net[c][n] \in Seq(Wires)
    BY <1>0
  <2>3. i \in 1..Len(net[c][n])
    BY <2>1, <2>2, LenProperties
  <2>. QED
    BY <1>1, <2>1, <2>3 DEF Deliverable
<1>5. rpc[n] # x
  BY <1>1, <1>3, InitiationFacts DEF LockFree
<1> HIDE DEF m, x
<1>6. Made(x)
  BY <1>1, <1>2, <1>3 DEF Made
<1>7. Answered(n, x)
  BY <1>0, <1>3, <1>4, <1>5, <1>6 DEF InitiationInv, Pending
<1>. QED
  BY <1>1, <1>2, <1>7 DEF m, x

\* A message that finds no channel is of a run that the node has refused.
LEMMA DropStep ==
  ASSUME Meshed, IInv, DropsOnlyWhatItRefused, [Next]_vars
  PROVE  DropsOnlyWhatItRefused'
<1> SUFFICES ASSUME NEW n \in Nodes, NEW p \in Phases, <<n, p>> \in dropped',
                    n \in Parties(p)
             PROVE  <<n, p>> \in refused'
  BY DEF DropsOnlyWhatItRefused
<1>0. TypeInv /\ RanInv /\ Grows
  BY Evolution DEF IInv
<1>1. CASE <<n, p>> \in dropped
  BY <1>0, <1>1 DEF DropsOnlyWhatItRefused, Grows
<1>2. CASE <<n, p>> \notin dropped
  <2>1. PICK a \in Nodes, k \in Nodes, q \in Phases : Forward(a, k, q)
    BY <1>2, NextCases
    DEF RpcBroadcast, RpcHandle, ReceiveInitiation, SendRound, FinishRun, FailRun,
        StoreOrchestrator, vars
  <2>2. k = n /\ q = p /\ p \notin tx[n]
    BY <1>2, <2>1 DEF Forward
  <2> DEFINE m == Head(net[a][n])
  <2>3. m \in Wires /\ m.kind = "run" /\ Answered(n, Initiation(p, m.sec, m.by))
    BY <2>1, <2>2, TakenAnswered
  <2>4. m.sec \in Seconds
    BY <2>3, WireFacts
  <2> HIDE DEF m
  <2>5. <<n, p, m.sec>> \in ran \/ <<n, p>> \in refused
    BY <2>3 DEF Answered, Initiation
  <2>. QED
    BY <1>0, <2>2, <2>4, <2>5 DEF RanInv, Grows
<1>. QED
  BY <1>1, <1>2

\* What finds no channel was refused: tx is set before the guard that keeps the
\* messages of a run waiting is dropped.
THEOREM NoLossWithoutRefusal == Meshed => (Spec => []DropsOnlyWhatItRefused)
<1> SUFFICES ASSUME Meshed PROVE Spec => []DropsOnlyWhatItRefused
  OBVIOUS
<1>1. Init => DropsOnlyWhatItRefused
  BY DEF Init, DropsOnlyWhatItRefused
<1>2. IInv /\ DropsOnlyWhatItRefused /\ [Next]_vars => DropsOnlyWhatItRefused'
  BY DropStep
<1>. QED
  BY <1>1, <1>2, Invariance, PTL DEF Spec
=============================================================================
