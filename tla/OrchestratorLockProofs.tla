----------------------- MODULE OrchestratorLockProofs -----------------------
(* Proofs about OrchestratorLock, for any number of calls, orchestrators and *)
(* initiations.                                                             *)
EXTENDS OrchestratorLock, SequenceTheorems, TLAPS

----------------------------------------------------------------------------
(* The inductive invariant                                                  *)

\* Nobody asks for the lock twice, and a writer has it alone.
LockTyped == queue \in Seq(Requests) /\ holders \subseteq Requests
LockApart ==
  /\ \A i, j \in DOMAIN queue : queue[i].who = queue[j].who => i = j
  /\ \A i \in DOMAIN queue : \A h \in holders : queue[i].who # h.who
  /\ \A h, k \in holders : h.who = k.who => h = k
WritersAlone == \A h \in holders : h.mode = "write" => holders = {h}
LockOK == LockTyped /\ LockApart /\ WritersAlone

\* Mode(a, m): every request of a, granted or not, is for m.
Mode(a, m) == /\ \A i \in DOMAIN queue : queue[i].who = a => queue[i].mode = m
              /\ \A h \in holders : h.who = a => h.mode = m

\* The actors are at the lock when their program points say so; who waits for a
\* signature asks to read.
PlaceInv == /\ \A c \in Calls : call[c].pc \in {"write", "wait"} <=> AtLock(c)
            /\ loop # IdleLoop <=> AtLock("loop")
            /\ \A c \in Calls : call[c].pc = "wait" => Mode(c, "read")

\* An orchestrator whose run is not over is in the state of that phase; an
\* orchestrator that is yet to come has no run.
RunInv ==
  /\ \A g \in Gens : run[g].stage # "over" =>
       run[g].phase \in Phases /\ st[g] = InProgress[run[g].phase]
  /\ \A g \in Gens : g > cur => run[g] = NoRun

\* A call that waits, or is about to, waits for its own run, or for none.
Ended(g) == st[g] \in {"SigningCompleted", "Failed"}
WaitInv ==
  \A c \in Calls :
    /\ call[c].out # "none" => call[c].pc = "done"
    /\ call[c].pc = "write" => call[c].phase \in Phases
    /\ call[c].pc \in {"released", "wait"} =>
         /\ call[c].gen \in 1..cur
         /\ \/ /\ run[call[c].gen].by = c
               /\ run[call[c].gen].phase = "signing"
               /\ run[call[c].gen].stage # "over" \/ Ended(call[c].gen)
            \/ /\ run[call[c].gen].stage = "over"
               /\ st[call[c].gen] = "Signing"

\* The message of a run that is sent and not heard is somewhere, at the peers or
\* on its way; an assignment on its way makes an orchestrator that is still to
\* come.
MessageInv ==
  /\ run[cur].stage = "sent" =>
       LET m == RunMessage(cur, run[cur].phase)
       IN  \/ m \in commands \cup inbox \cup unanswered
           \/ loop # IdleLoop /\ loop.msg = m
  /\ Assignment \in inbox => cur < MaxGen
  /\ loop # IdleLoop /\ loop.msg = Assignment =>
       cur < MaxGen /\ Assignment \notin inbox

IInv == TypeOK /\ LockOK /\ PlaceInv /\ RunInv /\ WaitInv /\ MessageInv

----------------------------------------------------------------------------
(* The lock                                                                 *)

\* Who asks is at the lock from then on.
LEMMA AskStep ==
  ASSUME LockOK, NEW a \in Actors, NEW m \in {"read", "write"}, Ask(a, m), ~AtLock(a)
  PROVE  /\ LockOK'
         /\ \A b : AtLock(b)' <=> AtLock(b) \/ b = a
         /\ Mode(a, m)'
         /\ \A b, k : b # a /\ Mode(b, k) => Mode(b, k)'
<1>1. Request(a, m) \in Requests /\ Request(a, m).who = a /\ Request(a, m).mode = m
  BY DEF Request, Requests
<1>2. /\ queue' \in Seq(Requests)
      /\ DOMAIN queue' = 1..(Len(queue) + 1)
      /\ DOMAIN queue = 1..Len(queue) /\ Len(queue) \in Nat
      /\ \A i \in 1..Len(queue) : queue'[i] = queue[i]
      /\ queue'[Len(queue) + 1] = Request(a, m)
  BY <1>1, AppendProperties DEF LockOK, LockTyped, Ask
<1>3. holders' = holders
  BY DEF Ask
<1>4. \A i \in DOMAIN queue' :
        \/ i \in DOMAIN queue /\ queue'[i] = queue[i]
        \/ i = Len(queue) + 1 /\ queue'[i] = Request(a, m)
  BY <1>2
<1>5. /\ \A i \in DOMAIN queue : queue[i].who # a
      /\ \A h \in holders : h.who # a
  BY DEF AtLock, Holds, Places
<1>6. LockTyped' /\ WritersAlone'
  BY <1>2, <1>3 DEF LockOK, LockTyped, WritersAlone
<1>7. LockApart'
  BY <1>1, <1>3, <1>4, <1>5 DEF LockOK, LockApart
<1>8. \A b : Places(b)' # {} <=> Places(b) # {} \/ b = a
  <2>1. \A b : Places(b)' # {} => Places(b) # {} \/ b = a
    BY <1>1, <1>4 DEF Places
  <2>2. \A b : Places(b) # {} => Places(b)' # {}
    BY <1>2 DEF Places
  <2>3. Places(a)' # {}
    BY <1>1, <1>2 DEF Places
  <2>. QED
    BY <2>1, <2>2, <2>3
<1>9. \A b : AtLock(b)' <=> AtLock(b) \/ b = a
  BY <1>3, <1>8 DEF AtLock, Holds
<1>10. Mode(a, m)' /\ \A b, k : b # a /\ Mode(b, k) => Mode(b, k)'
  BY <1>1, <1>3, <1>4, <1>5 DEF Mode
<1>. QED
  BY <1>6, <1>7, <1>9, <1>10 DEF LockOK

\* Who releases the lock is there no more.
LEMMA ReleaseStep ==
  ASSUME LockOK, NEW a, Holds(a), Release(a)
  PROVE  /\ LockOK'
         /\ \A b : AtLock(b)' <=> AtLock(b) /\ b # a
         /\ \A b, k : Mode(b, k) => Mode(b, k)'
<1>1. queue' = queue /\ holders' = {h \in holders : h.who # a}
  BY DEF Release
<1>2. LockTyped' /\ LockApart' /\ WritersAlone'
  BY <1>1 DEF LockOK, LockTyped, LockApart, WritersAlone
<1>3. \A i \in DOMAIN queue : queue[i].who # a
  BY DEF LockOK, LockApart, Holds
<1>4. \A b : AtLock(b)' <=> AtLock(b) /\ b # a
  BY <1>1, <1>3 DEF AtLock, Holds, Places
<1>5. \A b, k : Mode(b, k) => Mode(b, k)'
  BY <1>1 DEF Mode
<1>. QED
  BY <1>2, <1>4, <1>5 DEF LockOK

\* A grant lets nobody in or out, and a writer is granted the lock alone.
LEMMA GrantStep ==
  ASSUME LockOK, Grant
  PROVE  /\ LockOK'
         /\ \A b : AtLock(b)' <=> AtLock(b)
         /\ \A b, k : Mode(b, k) => Mode(b, k)'
<1> DEFINE r == Head(queue)
<1>1. queue \in Seq(Requests) /\ queue # <<>>
  BY DEF LockOK, LockTyped, Grant
<1>2. /\ r = queue[1] /\ 1 \in DOMAIN queue /\ r \in Requests
      /\ queue' \in Seq(Requests)
      /\ DOMAIN queue = 1..Len(queue) /\ Len(queue) \in Nat
      /\ DOMAIN queue' = 1..(Len(queue) - 1)
      /\ \A i \in 1..(Len(queue) - 1) : queue'[i] = queue[i + 1]
  BY <1>1, HeadTailProperties, EmptySeq DEF Grant
<1>3. holders' = holders \cup {r}
  BY DEF Grant
<1>4. \A i \in DOMAIN queue' : i + 1 \in DOMAIN queue /\ i + 1 # 1 /\ queue'[i] = queue[i + 1]
  BY <1>2
<1>5. \A i \in DOMAIN queue :
        i # 1 => i - 1 \in DOMAIN queue' /\ queue'[i - 1] = queue[i]
  <2> SUFFICES ASSUME NEW i \in DOMAIN queue, i # 1
               PROVE  i - 1 \in DOMAIN queue' /\ queue'[i - 1] = queue[i]
    OBVIOUS
  <2>1. i - 1 \in 1..(Len(queue) - 1) /\ (i - 1) + 1 = i
    BY <1>2
  <2>. QED
    BY <1>2, <2>1
<1>6. LockTyped'
  BY <1>2, <1>3 DEF LockOK, LockTyped
<1>7. WritersAlone'
  <2>1. CASE r.mode = "write"
    BY <1>3, <2>1 DEF Grant, Grantable, WritersAlone
  <2>2. CASE r.mode # "write"
    BY <1>3, <2>2 DEF Grant, Grantable, WritersAlone
  <2>. QED
    BY <2>1, <2>2
<1>8. LockApart'
  <2>1. \A i, j \in DOMAIN queue' : queue'[i].who = queue'[j].who => i = j
    <3> SUFFICES ASSUME NEW i \in DOMAIN queue', NEW j \in DOMAIN queue',
                        queue'[i].who = queue'[j].who
                 PROVE  i = j
      OBVIOUS
    <3>1. i + 1 = j + 1
      BY <1>4 DEF LockOK, LockApart
    <3>. QED
      BY <1>2, <3>1
  <2>2. \A i \in DOMAIN queue' : \A h \in holders' : queue'[i].who # h.who
    BY <1>2, <1>3, <1>4 DEF LockOK, LockApart
  <2>3. \A h, k \in holders' : h.who = k.who => h = k
    BY <1>2, <1>3 DEF LockOK, LockApart
  <2>. QED
    BY <2>1, <2>2, <2>3 DEF LockApart
<1>9. \A b : AtLock(b)' <=> AtLock(b)
  <2>1. ASSUME NEW b, AtLock(b) PROVE AtLock(b)'
    BY <1>2, <1>3, <1>5, <2>1 DEF AtLock, Holds, Places
  <2>2. ASSUME NEW b, AtLock(b)' PROVE AtLock(b)
    BY <1>2, <1>3, <1>4, <2>2 DEF AtLock, Holds, Places
  <2>. QED
    BY <2>1, <2>2
<1>10. \A b, k : Mode(b, k) => Mode(b, k)'
  BY <1>2, <1>3, <1>4 DEF Mode
<1>. QED
  BY <1>6, <1>7, <1>8, <1>9, <1>10 DEF LockOK

\* A call that leaves a guard releases what it holds and goes on.
LEMMA CallReleases ==
  ASSUME TypeOK, NEW c \in Calls,
         \/ RefuseCall(c) \/ (\E us \in BOOLEAN : Initiate(c, us))
         \/ SeeSignature(c) \/ SeeFailure(c) \/ TimeOut(c)
  PROVE  /\ Holds(c) /\ Release(c)
         /\ call[c].pc \in {"write", "wait"}
         /\ call'[c].pc \in {"released", "done"}
         /\ \A d \in Calls : d # c => call'[d] = call[d]
         /\ loop' = loop
<1>1. CASE RefuseCall(c)
  BY <1>1 DEF RefuseCall, At, Return, TypeOK, CallRecords
<1>2. CASE \E us \in BOOLEAN : Initiate(c, us)
  BY <1>2 DEF Initiate, At, Return, TypeOK, CallRecords
<1>3. CASE SeeSignature(c)
  BY <1>3 DEF SeeSignature, At, Answer, TypeOK, CallRecords
<1>4. CASE SeeFailure(c)
  BY <1>4 DEF SeeFailure, At, Answer, TypeOK, CallRecords
<1>5. CASE TimeOut(c)
  BY <1>5 DEF TimeOut, At, Return, TypeOK, CallRecords
<1>. QED
  BY <1>1, <1>2, <1>3, <1>4, <1>5

\* Every step keeps the lock in order.
LEMMA LockStep == IInv /\ [Next]_vars => LockOK' /\ PlaceInv'
<1> SUFFICES ASSUME IInv, [Next]_vars PROVE LockOK' /\ PlaceInv'
  OBVIOUS
<1>0. TypeOK /\ LockOK /\ PlaceInv /\ Calls \subseteq Actors /\ "loop" \in Actors
      /\ "loop" \notin Calls
  BY LockAssumption DEF IInv, Actors
<1>1. CASE Grant
  <2>1. /\ LockOK'
        /\ \A b : AtLock(b)' <=> AtLock(b)
        /\ \A b, k : Mode(b, k) => Mode(b, k)'
        /\ call' = call /\ loop' = loop
    BY <1>0, <1>1, GrantStep DEF Grant
  <2>. QED
    BY <1>0, <2>1 DEF PlaceInv
<1>2. ASSUME NEW c \in Calls, NEW p \in Phases, BeginCall(c, p)
      PROVE  LockOK' /\ PlaceInv'
  <2>1. call[c].pc = "idle" /\ Ask(c, "write")
    BY <1>2 DEF BeginCall
  <2>2. ~AtLock(c)
    BY <1>0, <2>1 DEF PlaceInv
  <2>3. /\ LockOK'
        /\ \A b : AtLock(b)' <=> AtLock(b) \/ b = c
        /\ \A b, k : b # c /\ Mode(b, k) => Mode(b, k)'
    BY <1>0, <2>1, <2>2, AskStep
  <2>4. /\ call'[c].pc = "write"
        /\ \A d \in Calls : d # c => call'[d] = call[d]
        /\ loop' = loop
    BY <1>0, <1>2 DEF BeginCall, TypeOK, CallRecords
  <2>. QED
    BY <1>0, <2>3, <2>4 DEF PlaceInv
<1>3. ASSUME NEW c \in Calls, AskToWait(c) PROVE LockOK' /\ PlaceInv'
  <2>1. call[c].pc = "released" /\ Ask(c, "read")
    BY <1>3 DEF AskToWait
  <2>2. ~AtLock(c)
    BY <1>0, <2>1 DEF PlaceInv
  <2>3. /\ LockOK'
        /\ \A b : AtLock(b)' <=> AtLock(b) \/ b = c
        /\ Mode(c, "read")'
        /\ \A b, k : b # c /\ Mode(b, k) => Mode(b, k)'
    BY <1>0, <2>1, <2>2, AskStep
  <2>4. /\ call'[c].pc = "wait"
        /\ \A d \in Calls : d # c => call'[d] = call[d]
        /\ loop' = loop
    BY <1>0, <1>3 DEF AskToWait, TypeOK, CallRecords
  <2>. QED
    BY <1>0, <2>3, <2>4 DEF PlaceInv
<1>4. ASSUME NEW c \in Calls,
             \/ RefuseCall(c) \/ (\E us \in BOOLEAN : Initiate(c, us))
             \/ SeeSignature(c) \/ SeeFailure(c) \/ TimeOut(c)
      PROVE  LockOK' /\ PlaceInv'
  <2>1. /\ Holds(c) /\ Release(c)
        /\ call'[c].pc \in {"released", "done"}
        /\ \A d \in Calls : d # c => call'[d] = call[d]
        /\ loop' = loop
    BY <1>0, <1>4, CallReleases
  <2>2. /\ LockOK'
        /\ \A b : AtLock(b)' <=> AtLock(b) /\ b # c
        /\ \A b, k : Mode(b, k) => Mode(b, k)'
    BY <1>0, <2>1, ReleaseStep
  <2>. QED
    BY <1>0, <2>1, <2>2 DEF PlaceInv
<1>5. ASSUME NEW m \in inbox, TakeMessage(m) PROVE LockOK' /\ PlaceInv'
  <2>1. \E k \in {"read", "write"} : Ask("loop", k)
    BY <1>5 DEF TakeMessage
  <2>2. ~AtLock("loop")
    BY <1>0, <1>5 DEF TakeMessage, PlaceInv
  <2>3. /\ LockOK'
        /\ \A b : AtLock(b)' <=> AtLock(b) \/ b = "loop"
        /\ \A b, k : b # "loop" /\ Mode(b, k) => Mode(b, k)'
    BY <1>0, <2>1, <2>2, AskStep
  <2>4. loop' # IdleLoop /\ call' = call
    BY <1>5 DEF TakeMessage, IdleLoop
  <2>. QED
    BY <1>0, <2>3, <2>4 DEF PlaceInv
<1>6. CASE LoopStep
  <2>1. Holds("loop") /\ Release("loop") /\ loop' = IdleLoop /\ call' = call
    BY <1>6 DEF LoopStep, Forward, HandleInitiation, StoreOrchestrator, LoopHolds, LoopGoesOn
  <2>2. /\ LockOK'
        /\ \A b : AtLock(b)' <=> AtLock(b) /\ b # "loop"
        /\ \A b, k : Mode(b, k) => Mode(b, k)'
    BY <1>0, <2>1, ReleaseStep
  <2>. QED
    BY <1>0, <2>1, <2>2 DEF PlaceInv
<1>7. CASE UNCHANGED <<queue, holders, call, loop>>
  <2>1. LockOK'
    BY <1>0, <1>7 DEF LockOK, LockTyped, LockApart, WritersAlone
  <2>2. (\A b : AtLock(b)' <=> AtLock(b)) /\ (\A b, k : Mode(b, k) => Mode(b, k)')
    BY <1>7 DEF AtLock, Holds, Places, Mode
  <2>. QED
    BY <1>0, <1>7, <2>1, <2>2 DEF PlaceInv
<1>8. \/ Grant
      \/ \E c \in Calls, p \in Phases : BeginCall(c, p)
      \/ \E c \in Calls : CallStep(c)
      \/ \E m \in inbox : TakeMessage(m)
      \/ LoopStep
      \/ UNCHANGED <<queue, holders, call, loop>>
  BY DEF Next, vars, LoopTakes, PublishCommand, TaskStep, SendMessage, EndRun,
     FailRun, PeerInitiates, PeersAnswer, PeerAssigns
<1>. QED
  BY <1>1, <1>2, <1>3, <1>4, <1>5, <1>6, <1>7, <1>8 DEF CallStep

----------------------------------------------------------------------------
(* Types                                                                    *)

\* No phase starts from a state in which another is in progress, or signing
\* is over.
LEMMA PhaseFacts ==
  \A p \in Phases :
    /\ InProgress[p] \in States /\ Completed[p] \in States
    /\ \A q \in Phases : InProgress[p] \notin StartStates[q]
    /\ StartStates[p] \cap {"Signing", "SigningCompleted", "Failed"} = {}
BY DEF Phases, InProgress, Completed, StartStates, States

\* A run that is not over has a phase and an initiator.
LEMMA RunTyped ==
  ASSUME TypeOK, NEW g \in Gens, run[g].stage # "over"
  PROVE  run[g] \in [phase : Phases, by : Actors, stage : {"start", "sent", "heard", "over"}]
BY DEF TypeOK, Runs, NoRun

\* Starting a phase.
LEMMA StartTyped ==
  ASSUME TypeOK, NEW p \in Phases, NEW a \in Actors, NEW us, Start(p, a, us)
  PROVE  st' \in [Gens -> States] /\ run' \in [Gens -> Runs]
<1>1. InProgress[p] \in States
  BY PhaseFacts
<1>2. [phase |-> p, by |-> a, stage |-> "start"] \in Runs
  BY DEF Runs
<1>. QED
  BY <1>1, <1>2 DEF Start, TypeOK

\* A call that returns.
LEMMA ReturnTyped ==
  ASSUME call \in [Calls -> CallRecords], NEW c \in Calls,
         NEW out \in {"refused", "started", "error", "timeout", "hasty"}, Return(c, out)
  PROVE  call' \in [Calls -> CallRecords]
<1> DEFINE r == [call[c] EXCEPT !.pc = "done", !.out = out]
<1>1. r \in CallRecords
  BY DEF CallRecords
<1>2. call' = [call EXCEPT ![c] = r]
  BY DEF Return
<1>. QED
  BY <1>1, <1>2

\* The node starts well typed, with the lock free.
LEMMA InitIInv == Init => IInv
<1> SUFFICES ASSUME Init PROVE IInv
  OBVIOUS
<1>0. 1 \in Gens /\ Gens \subseteq Nat /\ "loop" \notin Calls
  BY LockAssumption DEF Gens
<1>1. queue = <<>> /\ holders = {} /\ \A b : ~AtLock(b)
  BY DEF Init, AtLock, Holds, Places
<1>2. LockOK
  BY <1>1 DEF LockOK, LockTyped, LockApart, WritersAlone
<1>3. PlaceInv
  BY <1>1 DEF Init, PlaceInv, NoCall, IdleLoop
<1>4. call \in [Calls -> CallRecords]
  BY LockAssumption DEF Init, CallRecords, NoCall
<1>5. st \in [Gens -> States] /\ outputs \in [Gens -> SUBSET Phases]
  BY DEF Init, States, Phases, Completed, InProgress
<1>6. TypeOK
  BY <1>0, <1>1, <1>2, <1>3, <1>4, <1>5, LockAssumption
  DEF Init, TypeOK, LockOK, LockTyped, WritersAlone, PlaceInv, Runs
<1>7. RunInv /\ WaitInv /\ MessageInv
  BY <1>0 DEF Init, RunInv, WaitInv, MessageInv, NoRun, NoCall, IdleLoop
<1>. QED
  BY <1>2, <1>3, <1>6, <1>7 DEF IInv

\* Every step keeps the types of what is not the lock.
Rest == /\ cur \in Gens
        /\ st \in [Gens -> States]
        /\ outputs \in [Gens -> SUBSET Phases]
        /\ run \in [Gens -> Runs]
        /\ call \in [Calls -> CallRecords]
        /\ loop \in {IdleLoop} \cup [pc : {"lock"}, msg : Messages]
        /\ inbox \subseteq Messages
        /\ commands \subseteq RunMessages
        /\ unanswered \subseteq RunMessages
        /\ asked \in 0..Initiations
LEMMA RestStep == IInv /\ [Next]_vars => Rest'
<1> SUFFICES ASSUME IInv, [Next]_vars PROVE Rest'
  OBVIOUS
<1> USE LockAssumption
<1>0. TypeOK /\ Rest /\ MessageInv /\ WaitInv
  BY DEF IInv, TypeOK, Rest
<1>a. Gens = 1..MaxGen /\ Calls \subseteq Actors /\ "loop" \in Actors
      /\ RunMessages \subseteq Messages
  BY DEF Gens, Actors, Messages
<1>1. CASE UNCHANGED <<cur, st, outputs, run, call, loop, inbox, commands, unanswered,
                       asked>>
  BY <1>0, <1>1 DEF Rest
<1>2. ASSUME NEW c \in Calls, NEW p \in Phases, BeginCall(c, p) PROVE Rest'
  <2> DEFINE r == [call[c] EXCEPT !.pc = "write", !.phase = p]
  <2>1. call[c] \in CallRecords
    BY <1>0 DEF Rest
  <2>2. r \in CallRecords
    BY <2>1 DEF CallRecords
  <2>3. call' = [call EXCEPT ![c] = r]
    BY <1>0, <1>2 DEF BeginCall, Rest
  <2>4. call' \in [Calls -> CallRecords]
    BY <1>0, <2>2, <2>3 DEF Rest
  <2>. QED
    BY <1>0, <1>2, <2>4 DEF BeginCall, Rest
<1>3. ASSUME NEW c \in Calls, RefuseCall(c) PROVE Rest'
  <2>1. call' \in [Calls -> CallRecords]
    BY <1>0, <1>3, ReturnTyped DEF RefuseCall, Rest
  <2>. QED
    BY <1>0, <1>3, <2>1 DEF RefuseCall, Rest
<1>4. ASSUME NEW c \in Calls, NEW us \in BOOLEAN, Initiate(c, us) PROVE Rest'
  <2>1. call[c].phase \in Phases
    BY <1>0, <1>4 DEF Initiate, At, WaitInv
  <2>2. st' \in [Gens -> States] /\ run' \in [Gens -> Runs]
    BY <1>0, <1>4, <1>a, <2>1, StartTyped DEF Initiate
  <2>3. call' \in [Calls -> CallRecords]
    <3>1. CASE \E out \in {"started", "error"} : Return(c, out)
      BY <1>0, <3>1, ReturnTyped DEF Rest
    <3>2. CASE call' = [call EXCEPT ![c].pc = "released", ![c].gen = cur]
      <4> DEFINE r == [call[c] EXCEPT !.pc = "released", !.gen = cur]
      <4>1. call[c] \in CallRecords /\ cur \in 0..MaxGen
        BY <1>0, <1>a DEF Rest
      <4>2. r \in CallRecords
        BY <4>1 DEF CallRecords
      <4>3. call' = [call EXCEPT ![c] = r]
        BY <1>0, <3>2 DEF Rest
      <4>. QED
        BY <1>0, <4>2, <4>3 DEF Rest
    <3>. QED
      BY <1>4, <3>1, <3>2 DEF Initiate
  <2>. QED
    BY <1>0, <1>4, <2>2, <2>3 DEF Initiate, Rest
<1>5. ASSUME NEW c \in Calls, AskToWait(c) PROVE Rest'
  BY <1>0, <1>5 DEF AskToWait, Rest, CallRecords
<1>6. ASSUME NEW c \in Calls, SeeSignature(c) \/ SeeFailure(c) PROVE Rest'
  <2>1. run[cur].by \in Actors \cup {"none"} /\ cur \in 0..MaxGen
    BY <1>0, <1>a DEF Rest, Runs, NoRun
  <2>2. \E out \in {"signature", "failed"} :
          call' = [call EXCEPT ![c].pc = "done", ![c].out = out,
                               ![c].of = run[cur].by, ![c].from = cur]
    BY <1>6 DEF SeeSignature, SeeFailure, Answer
  <2>3. call' \in [Calls -> CallRecords]
    <3>1. PICK out \in {"signature", "failed"} :
            call' = [call EXCEPT ![c].pc = "done", ![c].out = out,
                                 ![c].of = run[cur].by, ![c].from = cur]
      BY <2>2
    <3> DEFINE r == [call[c] EXCEPT !.pc = "done", !.out = out,
                                    !.of = run[cur].by, !.from = cur]
    <3>2. call[c] \in CallRecords
      BY <1>0 DEF Rest
    <3>3. r \in CallRecords
      BY <2>1, <3>2 DEF CallRecords
    <3>4. call' = [call EXCEPT ![c] = r]
      BY <1>0, <3>1 DEF Rest
    <3>. QED
      BY <1>0, <3>3, <3>4 DEF Rest
  <2>. QED
    BY <1>0, <1>6, <2>3 DEF SeeSignature, SeeFailure, Rest
<1>7. ASSUME NEW c \in Calls, TimeOut(c) PROVE Rest'
  <2>1. \E out \in {"timeout", "hasty"} : Return(c, out)
    BY <1>7 DEF TimeOut
  <2>2. call' \in [Calls -> CallRecords]
    BY <1>0, <2>1, ReturnTyped DEF Rest
  <2>. QED
    BY <1>0, <1>7, <2>2 DEF TimeOut, Rest
<1>8. ASSUME NEW m \in inbox, TakeMessage(m) PROVE Rest'
  BY <1>0, <1>8 DEF TakeMessage, Rest
<1>9. ASSUME NEW m \in commands, PublishCommand(m) PROVE Rest'
  BY <1>0, <1>9 DEF PublishCommand, Rest
<1>10. CASE Forward
  <2>1. run' = run \/ (run[cur].stage = "sent" /\ run' = [run EXCEPT ![cur].stage = "heard"])
    BY <1>10 DEF Forward
  <2>2. run' \in [Gens -> Runs]
    BY <1>0, <2>1, RunTyped DEF Rest, Runs
  <2>. QED
    BY <1>0, <1>10, <2>2 DEF Forward, LoopGoesOn, Rest
<1>11. CASE HandleInitiation
  <2>1. loop.msg \in Messages /\ loop.msg.kind = "initiate"
    BY <1>0, <1>11 DEF HandleInitiation, LoopHolds, Rest
  <2>2. loop.msg.phase \in Phases
    BY <2>1 DEF Messages, RunMessages, RunMessage, Initiation, Assignment
  <2>3. st' \in [Gens -> States] /\ run' \in [Gens -> Runs]
    BY <1>0, <1>11, <1>a, <2>2, StartTyped DEF HandleInitiation, Rest
  <2>. QED
    BY <1>0, <1>11, <2>3 DEF HandleInitiation, LoopGoesOn, Rest
<1>12. CASE StoreOrchestrator
  <2>1. loop # IdleLoop /\ loop.msg \in Messages /\ loop.msg.kind = "assign"
    BY <1>0, <1>12 DEF StoreOrchestrator, LoopHolds, Rest
  <2>2. loop.msg = Assignment
    BY <2>1 DEF Messages, RunMessages, RunMessage, Initiation, Assignment
  <2>3. cur < MaxGen
    BY <1>0, <2>1, <2>2 DEF MessageInv
  <2>. QED
    BY <1>0, <1>12, <1>a, <2>3 DEF StoreOrchestrator, LoopGoesOn, Rest
<1>13. ASSUME NEW g \in Gens, SendMessage(g) PROVE Rest'
  <2>1. run[g].stage = "start" /\ run' = [run EXCEPT ![g].stage = "sent"]
    BY <1>13 DEF SendMessage
  <2>2. run[g] \in [phase : Phases, by : Actors, stage : {"start", "sent", "heard", "over"}]
    BY <1>0, <2>1, RunTyped
  <2>3. run' \in [Gens -> Runs]
    BY <1>0, <2>1, <2>2 DEF Rest, Runs
  <2>4. RunMessage(g, run[g].phase) \in RunMessages
    BY <2>2 DEF RunMessages
  <2>. QED
    BY <1>0, <1>13, <2>3, <2>4 DEF SendMessage, Rest
<1>14. ASSUME NEW g \in Gens, EndRun(g) PROVE Rest'
  <2>1. run[g].stage = "heard" /\ run' = [run EXCEPT ![g].stage = "over"]
    BY <1>14 DEF EndRun
  <2>2. run[g] \in [phase : Phases, by : Actors, stage : {"start", "sent", "heard", "over"}]
    BY <1>0, <2>1, RunTyped
  <2>3. run' \in [Gens -> Runs]
    BY <1>0, <2>1, <2>2 DEF Rest, Runs
  <2>4. Completed[run[g].phase] \in States
    BY <2>2, PhaseFacts
  <2>. QED
    BY <1>0, <1>14, <2>2, <2>3, <2>4 DEF EndRun, Rest
<1>15. ASSUME NEW g \in Gens, FailRun(g) PROVE Rest'
  <2>1. run[g].stage # "over" /\ run' = [run EXCEPT ![g].stage = "over"]
    BY <1>15 DEF FailRun
  <2>2. run[g] \in [phase : Phases, by : Actors, stage : {"start", "sent", "heard", "over"}]
    BY <1>0, <2>1, RunTyped
  <2>3. run' \in [Gens -> Runs]
    BY <1>0, <2>1, <2>2 DEF Rest, Runs
  <2>. QED
    BY <1>0, <1>15, <2>3 DEF FailRun, Rest, States
<1>16. ASSUME NEW p \in Phases, NEW us \in BOOLEAN, PeerInitiates(p, us) PROVE Rest'
  BY <1>0, <1>16 DEF PeerInitiates, Rest, Messages
<1>17. CASE PeerAssigns
  BY <1>0, <1>17 DEF PeerAssigns, Rest, Messages
<1>18. ASSUME NEW m \in unanswered, PeersAnswer(m) PROVE Rest'
  BY <1>0, <1>18, <1>a DEF PeersAnswer, Rest
<1>. QED
  BY <1>1, <1>2, <1>3, <1>4, <1>5, <1>6, <1>7, <1>8, <1>9, <1>10, <1>11, <1>12,
     <1>13, <1>14, <1>15, <1>16, <1>17, <1>18
  DEF Next, vars, Grant, CallStep, LoopStep, LoopTakes, TaskStep

\* Every step keeps the types.
LEMMA TypeStep == IInv /\ [Next]_vars => TypeOK'
BY RestStep, LockStep DEF Rest, LockOK, LockTyped, WritersAlone, PlaceInv, TypeOK

----------------------------------------------------------------------------
(* Runs and those who wait for them                                         *)

\* A phase starts only where no run is in progress and nobody waits for one.
LEMMA StartsAlone ==
  ASSUME IInv, NEW p \in Phases, MayStart(p)
  PROVE  /\ run[cur].stage = "over"
         /\ \A c \in Calls : call[c].pc \in {"released", "wait"} => call[c].gen # cur
<1>0. cur \in Gens
  BY DEF IInv, TypeOK
<1>1. run[cur].stage = "over"
  BY <1>0, PhaseFacts DEF IInv, RunInv, MayStart
<1>2. st[cur] \notin {"Signing", "SigningCompleted", "Failed"}
  BY PhaseFacts DEF MayStart
<1>. QED
  BY <1>1, <1>2 DEF IInv, WaitInv, Ended

\* What starting a phase changes.
LEMMA StartEffect ==
  ASSUME TypeOK, NEW p \in Phases, NEW a \in Actors, NEW us, Start(p, a, us)
  PROVE  /\ \A g \in Gens : g # cur => run'[g] = run[g] /\ st'[g] = st[g]
         /\ st'[cur] = InProgress[p]
         /\ IF us /\ HasInputs(p)
              THEN run'[cur] = [phase |-> p, by |-> a, stage |-> "start"]
              ELSE run' = run
BY DEF Start, TypeOK

\* What initiations by the event loop are about.
LEMMA InitiationPhase ==
  ASSUME TypeOK, LoopHolds("initiate")
  PROVE  loop.msg.phase \in Phases
<1>1. loop.msg \in Messages /\ loop.msg.kind = "initiate"
  BY DEF LoopHolds, TypeOK
<1>. QED
  BY <1>1 DEF Messages, RunMessages, RunMessage, Initiation, Assignment

\* How a run goes on without being started: nothing but its stage changes, and
\* at its end the state of its orchestrator.
LEMMA RunGoesOn ==
  ASSUME TypeOK, NEW g \in Gens, TaskStep(g) \/ FailRun(g) \/ (g = cur /\ Forward)
  PROVE  /\ \A h \in Gens : h # g => run'[h] = run[h] /\ st'[h] = st[h]
         /\ \/ run'[g] = run[g] /\ st'[g] = st[g]
            \/ /\ run[g].stage # "over"
               /\ run'[g].by = run[g].by
               /\ run'[g].phase = run[g].phase
               /\ \/ st'[g] = st[g] /\ run'[g].stage \in {"sent", "heard"}
                  \/ st'[g] \in {Completed[run[g].phase], "Failed"} /\ run'[g].stage = "over"
<1>1. run \in [Gens -> Runs] /\ st \in [Gens -> States]
  BY DEF TypeOK
<1>2. ASSUME NEW stage, run[g].stage # "over", run' = [run EXCEPT ![g].stage = stage]
      PROVE  /\ \A h \in Gens : h # g => run'[h] = run[h]
             /\ run'[g].by = run[g].by
             /\ run'[g].phase = run[g].phase
             /\ run'[g].stage = stage
  <2>1. run[g] \in [phase : Phases, by : Actors, stage : {"start", "sent", "heard", "over"}]
    BY <1>2, RunTyped
  <2>. QED
    BY <1>1, <1>2, <2>1
<1>3. CASE SendMessage(g)
  BY <1>1, <1>2, <1>3 DEF SendMessage
<1>4. CASE EndRun(g)
  BY <1>1, <1>2, <1>4 DEF EndRun
<1>5. CASE FailRun(g)
  BY <1>1, <1>2, <1>5 DEF FailRun
<1>6. CASE g = cur /\ Forward
  BY <1>1, <1>2, <1>6 DEF Forward
<1>. QED
  BY <1>3, <1>4, <1>5, <1>6 DEF TaskStep

\* Which steps change runs and states.
LEMMA RunSteps ==
  ASSUME IInv, [Next]_vars
  PROVE  \/ \E c \in Calls, us \in BOOLEAN : Initiate(c, us)
         \/ HandleInitiation /\ MayStart(loop.msg.phase)
         \/ \E g \in Gens : TaskStep(g) \/ FailRun(g) \/ (g = cur /\ Forward)
         \/ run' = run /\ st' = st
<1>1. cur \in Gens
  BY DEF IInv, TypeOK
<1>. QED
  BY <1>1 DEF Next, vars, Grant, BeginCall, CallStep, RefuseCall, AskToWait, SeeSignature,
     SeeFailure, TimeOut, LoopStep, LoopTakes, TakeMessage, PublishCommand,
     StoreOrchestrator, HandleInitiation, PeerInitiates, PeersAnswer, PeerAssigns

\* Only a new orchestrator changes cur.
LEMMA CurSteps ==
  ASSUME IInv, [Next]_vars
  PROVE  \/ cur' = cur
         \/ StoreOrchestrator /\ cur' = cur + 1 /\ run' = run /\ st' = st /\ call' = call
BY DEF Next, vars, Grant, BeginCall, CallStep, RefuseCall, Initiate, AskToWait,
   SeeSignature, SeeFailure, TimeOut, LoopStep, Forward, HandleInitiation,
   StoreOrchestrator, LoopTakes, TakeMessage, PublishCommand, TaskStep, SendMessage,
   EndRun, FailRun, PeerInitiates, PeersAnswer, PeerAssigns

\* Every step keeps runs and states together.
LEMMA RunStep == IInv /\ [Next]_vars => RunInv'
<1> SUFFICES ASSUME IInv, [Next]_vars PROVE RunInv'
  OBVIOUS
<1>0. TypeOK /\ RunInv /\ WaitInv /\ cur \in Gens /\ Gens \subseteq Nat
      /\ Calls \subseteq Actors /\ "loop" \in Actors
  BY DEF IInv, TypeOK, Gens, Actors
<1> DEFINE Fits(g) == run'[g].stage # "over" =>
                        run'[g].phase \in Phases /\ st'[g] = InProgress[run'[g].phase]
<1>1. ASSUME NEW p \in Phases, NEW a \in Actors, NEW us, MayStart(p), Start(p, a, us)
      PROVE  /\ \A g \in Gens : Fits(g)
             /\ \A g \in Gens : g # cur => run'[g] = run[g]
  <2>1. /\ \A g \in Gens : g # cur => run'[g] = run[g] /\ st'[g] = st[g]
        /\ st'[cur] = InProgress[p]
        /\ IF us /\ HasInputs(p)
             THEN run'[cur] = [phase |-> p, by |-> a, stage |-> "start"]
             ELSE run' = run
    BY <1>0, <1>1, StartEffect
  <2>2. run[cur].stage = "over"
    BY <1>1, StartsAlone
  <2>3. Fits(cur)
    BY <2>1, <2>2
  <2>4. ASSUME NEW g \in Gens, g # cur PROVE Fits(g)
    BY <1>0, <2>1, <2>4 DEF RunInv
  <2>. QED
    BY <2>1, <2>3, <2>4
<1>2. /\ \A g \in Gens : Fits(g)
      /\ \A g \in Gens : g > cur => run'[g] = NoRun
  <2>1. ASSUME NEW c \in Calls, NEW us \in BOOLEAN, Initiate(c, us)
        PROVE  /\ \A g \in Gens : Fits(g)
               /\ \A g \in Gens : g > cur => run'[g] = NoRun
    <3>1. call[c].phase \in Phases
      BY <1>0, <2>1 DEF Initiate, At, WaitInv
    <3>2. MayStart(call[c].phase) /\ Start(call[c].phase, c, us)
      BY <2>1 DEF Initiate
    <3>3. /\ \A g \in Gens : Fits(g)
          /\ \A g \in Gens : g # cur => run'[g] = run[g]
      BY <1>0, <1>1, <3>1, <3>2
    <3>4. \A g \in Gens : g > cur => run'[g] = NoRun
      <4> HIDE DEF Fits
      <4>. QED
        BY <1>0, <3>3 DEF RunInv
    <3>. QED
      BY <3>3, <3>4
  <2>2. ASSUME HandleInitiation, MayStart(loop.msg.phase)
        PROVE  /\ \A g \in Gens : Fits(g)
               /\ \A g \in Gens : g > cur => run'[g] = NoRun
    <3>1. loop.msg.phase \in Phases
      BY <1>0, <2>2, InitiationPhase DEF HandleInitiation
    <3>2. Start(loop.msg.phase, "loop", loop.msg.us)
      BY <2>2 DEF HandleInitiation
    <3>3. /\ \A g \in Gens : Fits(g)
          /\ \A g \in Gens : g # cur => run'[g] = run[g]
      BY <1>0, <1>1, <2>2, <3>1, <3>2
    <3>4. \A g \in Gens : g > cur => run'[g] = NoRun
      <4> HIDE DEF Fits
      <4>. QED
        BY <1>0, <3>3 DEF RunInv
    <3>. QED
      BY <3>3, <3>4
  <2>3. ASSUME NEW g \in Gens, TaskStep(g) \/ FailRun(g) \/ (g = cur /\ Forward)
        PROVE  /\ \A h \in Gens : Fits(h)
               /\ \A h \in Gens : h > cur => run'[h] = NoRun
    <3>1. /\ \A h \in Gens : h # g => run'[h] = run[h] /\ st'[h] = st[h]
          /\ \/ run'[g] = run[g] /\ st'[g] = st[g]
             \/ /\ run[g].stage # "over"
                /\ run'[g].phase = run[g].phase
                /\ st'[g] = st[g] \/ run'[g].stage = "over"
      BY <1>0, <2>3, RunGoesOn
    <3>2. Fits(g)
      BY <1>0, <3>1 DEF RunInv
    <3>3. ASSUME NEW h \in Gens, h # g PROVE Fits(h)
      BY <1>0, <3>1, <3>3 DEF RunInv
    <3>4. ASSUME NEW h \in Gens, h > cur PROVE run'[h] = NoRun
      BY <1>0, <3>1, <3>4 DEF RunInv, NoRun
    <3>. QED
      BY <3>2, <3>3, <3>4
  <2>4. CASE run' = run /\ st' = st
    BY <1>0, <2>4 DEF RunInv
  <2>. QED
    BY <2>1, <2>2, <2>3, <2>4, RunSteps
<1>3. \A g \in Gens : g > cur' => g > cur
  BY <1>0, CurSteps
<1>. QED
  BY <1>2, <1>3 DEF RunInv

\* What each clause of WaitInv says of a call that waits.
Waits(c) == /\ call[c].gen \in 1..cur
            /\ \/ /\ run[call[c].gen].by = c
                  /\ run[call[c].gen].phase = "signing"
                  /\ run[call[c].gen].stage # "over" \/ Ended(call[c].gen)
               \/ /\ run[call[c].gen].stage = "over"
                  /\ st[call[c].gen] = "Signing"

\* A run is that of the calls that wait for it, as long as it goes on.
LEMMA WaitsStep ==
  ASSUME IInv, [Next]_vars, NEW c \in Calls, call[c].pc \in {"released", "wait"},
         call'[c].gen = call[c].gen
  PROVE  Waits(c)'
<1> DEFINE g == call[c].gen
<1>0. TypeOK /\ Waits(c) /\ cur \in Gens /\ Gens = 1..MaxGen /\ MaxGen \in Nat
      /\ Calls \subseteq Actors /\ "loop" \in Actors
  BY LockAssumption DEF IInv, TypeOK, Gens, WaitInv, Waits, Actors
<1>1. g \in Gens /\ g \in 1..cur'
  BY <1>0, CurSteps DEF Waits
<1>2. \/ /\ run'[g].by = c
         /\ run'[g].phase = "signing"
         /\ run'[g].stage # "over" \/ st'[g] \in {"SigningCompleted", "Failed"}
      \/ /\ run'[g].stage = "over"
         /\ st'[g] = "Signing"
  <2>1. CASE run'[g] = run[g] /\ st'[g] = st[g]
    BY <1>0, <2>1 DEF Waits, Ended
  <2>2. ASSUME NEW p \in Phases, NEW a \in Actors, NEW us, MayStart(p), Start(p, a, us)
        PROVE  run'[g] = run[g] /\ st'[g] = st[g]
    BY <1>0, <1>1, <2>2, StartsAlone, StartEffect
  <2>3. ASSUME NEW d \in Calls, NEW us \in BOOLEAN, Initiate(d, us)
        PROVE  run'[g] = run[g] /\ st'[g] = st[g]
    <3>1. call[d].phase \in Phases
      BY <2>3 DEF IInv, Initiate, At, WaitInv
    <3>. QED
      BY <1>0, <2>2, <2>3, <3>1 DEF Initiate
  <2>4. ASSUME HandleInitiation, MayStart(loop.msg.phase)
        PROVE  run'[g] = run[g] /\ st'[g] = st[g]
    <3>1. loop.msg.phase \in Phases
      BY <1>0, <2>4, InitiationPhase DEF HandleInitiation
    <3>. QED
      BY <1>0, <2>2, <2>4, <3>1 DEF HandleInitiation
  <2>5. ASSUME NEW h \in Gens, TaskStep(h) \/ FailRun(h) \/ (h = cur /\ Forward),
               run[g].stage # "over", run[g].phase = "signing", run[g].by = c
        PROVE  /\ run'[g].by = c
               /\ run'[g].phase = "signing"
               /\ run'[g].stage # "over" \/ st'[g] \in {"SigningCompleted", "Failed"}
    <3>1. Completed["signing"] = "SigningCompleted"
      BY DEF Completed
    <3>2. CASE h # g
      BY <1>0, <1>1, <2>5, <3>2, RunGoesOn
    <3>3. CASE h = g
      BY <1>0, <1>1, <2>5, <3>1, <3>3, RunGoesOn
    <3>. QED
      BY <3>2, <3>3
  <2>6. ASSUME NEW h \in Gens, TaskStep(h) \/ FailRun(h) \/ (h = cur /\ Forward),
               run[g].stage = "over"
        PROVE  run'[g] = run[g] /\ st'[g] = st[g]
    BY <1>0, <1>1, <2>6, RunGoesOn
  <2>. QED
    BY <1>0, <2>1, <2>3, <2>4, <2>5, <2>6, RunSteps DEF Waits
<1>. QED
  BY <1>1, <1>2 DEF Waits, Ended

\* Every step keeps a call waiting for its own run, and what it was answered.
LEMMA WaitStep == IInv /\ AnswerIsOwn /\ [Next]_vars => WaitInv' /\ AnswerIsOwn'
<1> SUFFICES ASSUME IInv, AnswerIsOwn, [Next]_vars PROVE WaitInv' /\ AnswerIsOwn'
  OBVIOUS
<1> DEFINE Own(c) == call'[c].out \in {"signature", "failed"} /\ call'[c].from = call'[c].gen
                       => call'[c].of = c
           Keeps(c) == /\ call'[c].out # "none" => call'[c].pc = "done"
                       /\ call'[c].pc = "write" => call'[c].phase \in Phases
                       /\ call'[c].pc \in {"released", "wait"} => Waits(c)'
                       /\ Own(c)
<1>0. TypeOK /\ WaitInv /\ RunInv /\ cur \in Gens /\ Gens = 1..MaxGen /\ MaxGen \in Nat
      /\ Calls \subseteq Actors
  BY LockAssumption DEF IInv, TypeOK, Gens, Actors
<1>1. ASSUME NEW c \in Calls, call'[c] = call[c] PROVE Keeps(c)
  BY <1>0, <1>1, WaitsStep DEF WaitInv, AnswerIsOwn
<1>2. ASSUME NEW d \in Calls, NEW p \in Phases, BeginCall(d, p), NEW c \in Calls
      PROVE  Keeps(c)
  <2>1. CASE c = d
    <3>1. /\ call[d].pc = "idle" /\ call'[d].pc = "write" /\ call'[d].phase = p
          /\ call'[d].out = call[d].out
      BY <1>0, <1>2 DEF BeginCall, TypeOK, CallRecords
    <3>. QED
      BY <1>0, <2>1, <3>1 DEF WaitInv
  <2>2. CASE c # d
    BY <1>0, <1>1, <1>2, <2>2 DEF BeginCall, TypeOK
  <2>. QED
    BY <2>1, <2>2
<1>3. ASSUME NEW d \in Calls, NEW out, out \notin {"signature", "failed"}, Return(d, out),
             NEW c \in Calls
      PROVE  Keeps(c)
  <2>1. CASE c = d
    <3>1. call'[d].pc = "done" /\ call'[d].out = out
      BY <1>0, <1>3 DEF Return, TypeOK, CallRecords
    <3>. QED
      BY <1>3, <2>1, <3>1
  <2>2. CASE c # d
    BY <1>0, <1>1, <1>3, <2>2 DEF Return, TypeOK
  <2>. QED
    BY <2>1, <2>2
<1>4. ASSUME NEW d \in Calls, NEW us \in BOOLEAN, Initiate(d, us), NEW c \in Calls
      PROVE  Keeps(c)
  <2>1. CASE call[d].phase = "signing" /\ (us => HasInputs("signing"))
    <3>1. /\ MayStart("signing") /\ Start("signing", d, us)
          /\ At(d, "write") /\ cur' = cur
          /\ call' = [call EXCEPT ![d].pc = "released", ![d].gen = cur]
      BY <1>4, <2>1 DEF Initiate
    <3>2. CASE c = d
      <4>1. /\ call'[d].pc = "released" /\ call'[d].gen = cur
            /\ call'[d].out = call[d].out
        BY <1>0, <3>1 DEF TypeOK, CallRecords
      <4>2. call[d].out = "none"
        BY <1>0, <3>1 DEF WaitInv, At
      <4>3. run[cur].stage = "over"
        BY <3>1, StartsAlone DEF Phases
      <4>4. /\ st'[cur] = "Signing"
            /\ IF us /\ HasInputs("signing")
                 THEN run'[cur] = [phase |-> "signing", by |-> d, stage |-> "start"]
                 ELSE run' = run
        <5>1. "signing" \in Phases /\ InProgress["signing"] = "Signing"
          BY DEF Phases, InProgress
        <5>. QED
          BY <1>0, <3>1, <5>1, StartEffect
      <4>5. Waits(d)'
        BY <1>0, <3>1, <4>1, <4>3, <4>4 DEF Waits, Ended
      <4>. QED
        BY <3>2, <4>1, <4>2, <4>5
    <3>3. CASE c # d
      BY <1>0, <1>1, <3>1, <3>3 DEF TypeOK
    <3>. QED
      BY <3>2, <3>3
  <2>2. CASE ~(call[d].phase = "signing" /\ (us => HasInputs("signing")))
    <3>1. \E out \in {"started", "error"} : Return(d, out)
      BY <1>4, <2>2 DEF Initiate
    <3>. QED
      BY <1>3, <3>1
  <2>. QED
    BY <2>1, <2>2
<1>5. ASSUME NEW d \in Calls, AskToWait(d), NEW c \in Calls PROVE Keeps(c)
  <2>1. CASE c = d
    <3>1. /\ call[d].pc = "released" /\ call'[d].pc = "wait"
          /\ call'[d].gen = call[d].gen /\ call'[d].out = call[d].out
      BY <1>0, <1>5 DEF AskToWait, TypeOK, CallRecords
    <3>2. call[d].out = "none"
      BY <1>0, <3>1 DEF WaitInv
    <3>. QED
      BY <2>1, <3>1, <3>2, WaitsStep
  <2>2. CASE c # d
    BY <1>0, <1>1, <1>5, <2>2 DEF AskToWait, TypeOK
  <2>. QED
    BY <2>1, <2>2
<1>6. ASSUME NEW d \in Calls, SeeSignature(d) \/ SeeFailure(d), NEW c \in Calls
      PROVE  Keeps(c)
  <2>1. CASE c = d
    <3>1. /\ call[d].pc = "wait" /\ st[cur] \in {"SigningCompleted", "Failed"}
          /\ call'[d].pc = "done" /\ call'[d].gen = call[d].gen
          /\ call'[d].from = cur /\ call'[d].of = run[cur].by
      BY <1>0, <1>6 DEF SeeSignature, SeeFailure, At, Answer, TypeOK, CallRecords
    <3>2. call[d].gen = cur => run[cur].by = d
      BY <1>0, <3>1 DEF WaitInv
    <3>. QED
      BY <2>1, <3>1, <3>2
  <2>2. CASE c # d
    BY <1>0, <1>1, <1>6, <2>2 DEF SeeSignature, SeeFailure, Answer, TypeOK
  <2>. QED
    BY <2>1, <2>2
<1>7. ASSUME NEW d \in Calls, RefuseCall(d) \/ TimeOut(d), NEW c \in Calls PROVE Keeps(c)
  <2>1. \E out \in {"refused", "timeout", "hasty"} : Return(d, out)
    BY <1>7 DEF RefuseCall, TimeOut
  <2>. QED
    BY <1>3, <2>1
<1>8. CASE call' = call
  <2>1. \A c \in Calls : Keeps(c)
    BY <1>1, <1>8
  <2>. QED
    BY <2>1 DEF WaitInv, AnswerIsOwn, Waits
<1>9. \/ \E d \in Calls : CallStep(d) \/ \E p \in Phases : BeginCall(d, p)
      \/ call' = call
  BY DEF Next, vars, Grant, LoopStep, Forward, HandleInitiation,
     StoreOrchestrator, LoopTakes, TakeMessage, PublishCommand, TaskStep, SendMessage,
     EndRun, FailRun, PeerInitiates, PeersAnswer, PeerAssigns
<1>10. (\A c \in Calls : Keeps(c)) => WaitInv' /\ AnswerIsOwn'
  BY DEF WaitInv, AnswerIsOwn, Waits
<1> HIDE DEF Keeps
<1>. QED
  BY <1>2, <1>4, <1>5, <1>6, <1>7, <1>8, <1>9, <1>10 DEF CallStep

----------------------------------------------------------------------------
(* Messages                                                                 *)

\* What tells messages apart.
LEMMA MessageKinds ==
  /\ Assignment \notin RunMessages
  /\ Assignment \in Messages
  /\ \A g \in Gens, p \in Phases : RunMessage(g, p) \in RunMessages
  /\ \A g, p : RunMessage(g, p) # Assignment /\ RunMessage(g, p).kind = "run"
  /\ \A m \in Messages : m.kind = "run" => m = RunMessage(m.gen, m.phase)
  /\ \A m \in Messages : m.kind = "assign" => m = Assignment
  /\ \A p, us : Initiation(p, us) # Assignment
<1>1. \A g, p : RunMessage(g, p).kind = "run" /\ RunMessage(g, p).gen = g
                /\ RunMessage(g, p).phase = p
  BY DEF RunMessage
<1>2. \A p, us : Initiation(p, us).kind = "initiate"
  BY DEF Initiation
<1>3. Assignment.kind = "assign"
  BY DEF Assignment
<1>4. \A m \in Messages :
        \/ \E g \in Gens, p \in Phases : m = RunMessage(g, p)
        \/ m = Assignment
        \/ \E p \in Phases, us \in BOOLEAN : m = Initiation(p, us)
  BY DEF Messages, RunMessages
<1>. QED
  BY <1>1, <1>2, <1>3, <1>4 DEF RunMessages, Messages

\* Every step keeps the message of a run that is not heard, and makes no more
\* assignments than there are orchestrators to come.
LEMMA MessageStep == IInv /\ [Next]_vars => MessageInv'
<1> SUFFICES ASSUME IInv, [Next]_vars PROVE MessageInv'
  OBVIOUS
<1> DEFINE m == RunMessage(cur, run[cur].phase)
           There == \/ m \in commands \cup inbox \cup unanswered
                    \/ loop # IdleLoop /\ loop.msg = m
           Same == run'[cur].stage = "sent" =>
                     run[cur].stage = "sent" /\ run'[cur].phase = run[cur].phase
           Stays == There => \/ m \in commands' \cup inbox' \cup unanswered'
                             \/ loop' # IdleLoop /\ loop'.msg = m
           Apart == /\ Assignment \in inbox' => cur < MaxGen
                    /\ loop' # IdleLoop /\ loop'.msg = Assignment =>
                         cur < MaxGen /\ Assignment \notin inbox'
<1>0. /\ TypeOK /\ RunInv /\ MessageInv /\ cur \in Gens /\ Gens = 1..MaxGen /\ MaxGen \in Nat
      /\ run \in [Gens -> Runs]
      /\ loop \in {IdleLoop} \cup [pc : {"lock"}, msg : Messages]
      /\ commands \subseteq RunMessages /\ unanswered \subseteq RunMessages
  BY LockAssumption DEF IInv, TypeOK, Gens
<1>1. ASSUME cur' = cur, Same, Stays, Apart PROVE MessageInv'
  BY <1>0, <1>1 DEF MessageInv
<1>2. ASSUME cur' = cur, Same, loop' = loop, inbox' = inbox, unanswered' = unanswered,
             commands \subseteq commands'
      PROVE  MessageInv'
  <2>1. Stays /\ Apart
    BY <1>0, <1>2 DEF MessageInv
  <2>. QED
    BY <1>1, <1>2, <2>1
<1>3. ASSUME NEW p, NEW a, NEW us, Start(p, a, us) PROVE Same
  BY <1>0, <1>3 DEF Start
<1>4. CASE UNCHANGED <<cur, run, loop, inbox, commands, unanswered>>
  BY <1>2, <1>4
<1>5. ASSUME NEW c \in Calls, NEW us \in BOOLEAN, Initiate(c, us) PROVE MessageInv'
  <2>1. Same /\ UNCHANGED <<cur, loop, inbox, commands, unanswered>>
    BY <1>3, <1>5 DEF Initiate
  <2>. QED
    BY <1>2, <2>1
<1>6. CASE HandleInitiation
  <2>1. /\ loop # IdleLoop /\ loop.msg.kind = "initiate" /\ loop' = IdleLoop
        /\ UNCHANGED <<cur, inbox, commands, unanswered>>
    BY <1>6 DEF HandleInitiation, LoopHolds, LoopGoesOn
  <2>2. Same
    BY <1>0, <1>3, <1>6 DEF HandleInitiation
  <2>3. Stays /\ Apart
    BY <1>0, <2>1, MessageKinds DEF MessageInv
  <2>. QED
    BY <1>1, <2>1, <2>2, <2>3
<1>7. CASE Forward
  <2>1. /\ loop # IdleLoop /\ loop.msg.kind = "run" /\ loop' = IdleLoop
        /\ UNCHANGED <<cur, inbox, commands, unanswered>>
    BY <1>7 DEF Forward, LoopHolds, LoopGoesOn
  <2>2. Apart
    BY <1>0, <2>1 DEF MessageInv
  <2>3. CASE loop.msg = m /\ run[cur].stage = "sent"
    <3>1. m.gen = cur /\ m.phase = run[cur].phase
      BY DEF RunMessage
    <3>2. run' = [run EXCEPT ![cur].stage = "heard"]
      BY <1>7, <2>3, <3>1 DEF Forward
    <3>3. run'[cur].stage = "heard"
      <4>1. run[cur] \in [phase : Phases, by : Actors, stage : {"start", "sent", "heard", "over"}]
        BY <1>0, <2>3, RunTyped
      <4>. QED
        BY <1>0, <3>2, <4>1
    <3>. QED
      BY <2>1, <2>2, <3>3 DEF MessageInv
  <2>4. CASE ~(loop.msg = m /\ run[cur].stage = "sent")
    <3>1. Same
      <4>1. CASE run' = run
        BY <4>1
      <4>2. CASE run' = [run EXCEPT ![cur].stage = "heard"] /\ run[cur].stage = "sent"
        <5>1. run[cur] \in [phase : Phases, by : Actors, stage : {"start", "sent", "heard", "over"}]
          BY <1>0, <4>2, RunTyped
        <5>. QED
          BY <1>0, <4>2, <5>1
      <4>. QED
        BY <1>7, <4>1, <4>2 DEF Forward
    <3>2. run[cur].stage = "sent" => Stays
      BY <2>1, <2>4
    <3>. QED
      BY <1>0, <2>1, <2>2, <3>1, <3>2 DEF MessageInv
  <2>. QED
    BY <2>3, <2>4
<1>8. CASE StoreOrchestrator
  <2>1. /\ loop # IdleLoop /\ loop.msg.kind = "assign" /\ loop' = IdleLoop
        /\ cur' = cur + 1 /\ UNCHANGED <<run, inbox, commands, unanswered>>
    BY <1>8 DEF StoreOrchestrator, LoopHolds, LoopGoesOn
  <2>2. loop.msg = Assignment
    BY <1>0, <2>1, MessageKinds
  <2>3. cur < MaxGen /\ Assignment \notin inbox
    BY <1>0, <2>1, <2>2 DEF MessageInv
  <2>4. run'[cur'] = NoRun
    BY <1>0, <2>1, <2>3 DEF RunInv
  <2>. QED
    BY <2>1, <2>3, <2>4 DEF MessageInv, NoRun
<1>9. ASSUME NEW n \in inbox, TakeMessage(n) PROVE MessageInv'
  <2>1. /\ loop = IdleLoop /\ inbox' = inbox \ {n} /\ loop' = [pc |-> "lock", msg |-> n]
        /\ UNCHANGED <<cur, run, commands, unanswered>>
    BY <1>9 DEF TakeMessage
  <2>2. loop' # IdleLoop /\ loop'.msg = n
    BY <2>1 DEF IdleLoop
  <2>3. Same /\ Stays /\ Apart
    BY <1>0, <2>1, <2>2 DEF MessageInv
  <2>. QED
    BY <1>1, <2>1, <2>3
<1>10. ASSUME NEW n \in commands, PublishCommand(n) PROVE MessageInv'
  <2>1. /\ unanswered' = unanswered \cup {n} /\ commands' = commands \ {n}
        /\ UNCHANGED <<cur, run, loop, inbox>>
    BY <1>10 DEF PublishCommand
  <2>2. Same /\ Stays /\ Apart
    BY <1>0, <2>1 DEF MessageInv
  <2>. QED
    BY <1>1, <2>1, <2>2
<1>11. ASSUME NEW g \in Gens, SendMessage(g) PROVE MessageInv'
  <2>1. /\ run[g].stage = "start"
        /\ run' = [run EXCEPT ![g].stage = "sent"]
        /\ commands' = commands \cup {RunMessage(g, run[g].phase)}
        /\ UNCHANGED <<cur, loop, inbox, unanswered>>
    BY <1>11 DEF SendMessage
  <2>2. CASE g = cur
    <3>1. run[cur] \in [phase : Phases, by : Actors, stage : {"start", "sent", "heard", "over"}]
      BY <1>0, <2>1, <2>2, RunTyped
    <3>2. run'[cur].phase = run[cur].phase
      BY <1>0, <2>1, <2>2, <3>1
    <3>. QED
      BY <1>0, <2>1, <2>2, <3>2 DEF MessageInv
  <2>3. CASE g # cur
    BY <1>0, <1>2, <2>1, <2>3
  <2>. QED
    BY <2>2, <2>3
<1>12. ASSUME NEW g \in Gens, EndRun(g) \/ FailRun(g) PROVE MessageInv'
  <2>1. /\ run[g].stage # "over"
        /\ run' = [run EXCEPT ![g].stage = "over"]
        /\ UNCHANGED <<cur, loop, inbox, commands, unanswered>>
    BY <1>12 DEF EndRun, FailRun
  <2>2. run[g] \in [phase : Phases, by : Actors, stage : {"start", "sent", "heard", "over"}]
    BY <1>0, <2>1, RunTyped
  <2>3. Same
    BY <1>0, <2>1, <2>2
  <2>. QED
    BY <1>2, <2>1, <2>3
<1>13. ASSUME NEW p \in Phases, NEW us \in BOOLEAN, PeerInitiates(p, us) PROVE MessageInv'
  <2>1. inbox' = inbox \cup {Initiation(p, us)} /\ UNCHANGED <<cur, run, loop, commands, unanswered>>
    BY <1>13 DEF PeerInitiates
  <2>2. Same /\ Stays /\ Apart
    BY <1>0, <2>1, MessageKinds DEF MessageInv
  <2>. QED
    BY <1>1, <2>1, <2>2
<1>14. CASE PeerAssigns
  <2>1. /\ cur < MaxGen /\ inbox' = inbox \cup {Assignment}
        /\ loop # IdleLoop => loop.msg # Assignment
        /\ UNCHANGED <<cur, run, loop, commands, unanswered>>
    BY <1>14 DEF PeerAssigns
  <2>2. Same /\ Stays /\ Apart
    BY <1>0, <2>1 DEF MessageInv
  <2>. QED
    BY <1>1, <2>1, <2>2
<1>15. ASSUME NEW c \in Calls, NEW p \in Phases, BeginCall(c, p) PROVE MessageInv'
  BY <1>4, <1>15 DEF BeginCall
<1>16. ASSUME NEW c \in Calls, CallStep(c) PROVE MessageInv'
  <2>1. \/ \E us \in BOOLEAN : Initiate(c, us)
        \/ UNCHANGED <<cur, run, loop, inbox, commands, unanswered>>
    BY <1>16 DEF CallStep, RefuseCall, AskToWait, SeeSignature, SeeFailure, TimeOut
  <2>. QED
    BY <1>4, <1>5, <2>1
<1>17. CASE Grant
  BY <1>4, <1>17 DEF Grant
<1>18. CASE vars' = vars
  BY <1>4, <1>18 DEF vars
<1>19. ASSUME NEW n \in unanswered, PeersAnswer(n) PROVE MessageInv'
  <2>1. /\ unanswered' = unanswered \ {n} /\ inbox' = inbox \cup {n}
        /\ UNCHANGED <<cur, run, loop, commands>>
    BY <1>19 DEF PeersAnswer
  <2>2. n # Assignment
    BY <1>0, MessageKinds
  <2>3. Same /\ Stays /\ Apart
    BY <1>0, <2>1, <2>2 DEF MessageInv
  <2>. QED
    BY <1>1, <2>1, <2>3
<1>. QED
  BY <1>6, <1>7, <1>8, <1>9, <1>10, <1>11, <1>12, <1>13, <1>14, <1>15, <1>16, <1>17, <1>18,
     <1>19
     DEF Next, LoopStep, LoopTakes, TaskStep

----------------------------------------------------------------------------
(* Theorems                                                                 *)

\* The invariant is inductive, together with what answers are about.
LEMMA Invariance == Spec => [](IInv /\ AnswerIsOwn)
<1>1. Init => IInv /\ AnswerIsOwn
  <2>1. Init => AnswerIsOwn
    BY DEF Init, AnswerIsOwn, NoCall
  <2>. QED
    BY <2>1, InitIInv
<1>2. IInv /\ AnswerIsOwn /\ [Next]_vars => (IInv /\ AnswerIsOwn)'
  BY TypeStep, LockStep, RunStep, WaitStep, MessageStep DEF IInv
<1>. QED
  BY <1>1, <1>2, PTL DEF Spec

\* Every variable has its type, and an actor has a place at the lock exactly
\* while its program is at one.
THEOREM TypeCorrect == Spec => []TypeOK
<1>1. IInv => TypeOK
  BY DEF IInv
<1>. QED
  BY <1>1, Invariance, PTL

\* The signature initiate_signing returns, or the failure it reports, is that of
\* its own run, unless the orchestrator was replaced in between.
THEOREM AnswerOwn == Spec => []AnswerIsOwn
BY Invariance, PTL

\* The request at the head of the queue that is not granted, while a reader
\* holds the lock, is for the write guard.
LEMMA HeadWrites ==
  ASSUME LockOK, NEW c, Holds(c), Mode(c, "read"),
         queue # <<>>, ~Grantable(Head(queue))
  PROVE  WriterQueues
<1>1. Head(queue) = queue[1] /\ 1 \in DOMAIN queue /\ queue[1] \in Requests
  BY HeadTailProperties, EmptySeq DEF LockOK, LockTyped
<1>2. PICK h \in holders : h.who = c
  BY DEF Holds
<1>3. h.mode = "read"
  BY <1>2 DEF Mode
<1>4. \A k \in holders : k.mode # "write"
  BY <1>2, <1>3 DEF LockOK, WritersAlone
<1>5. \A k \in holders : k.mode = "read"
  BY <1>4 DEF LockOK, LockTyped, Requests
<1>6. queue[1].mode = "write"
  BY <1>1, <1>5 DEF Grantable
<1>. QED
  BY <1>1, <1>6 DEF WriterQueues

\* A call whose wait ends on a node at rest, with its run in progress and its
\* message answered, has a writer behind it in the queue: the message is then in
\* the hands of the event loop, which queues for the lock behind the writer.
LEMMA TimeOutStep ==
  ASSUME IInv, NEW c \in Calls, TimeOut(c), Resting,
         run[cur].by = c, run[cur].stage # "over", ~Unanswered
  PROVE  WriterQueues
<1>0. TypeOK /\ LockOK /\ PlaceInv /\ MessageInv /\ cur \in Gens
  BY DEF IInv, TypeOK
<1>1. Holds(c) /\ Mode(c, "read")
  BY <1>0 DEF TimeOut, At, PlaceInv
<1>2. run[cur].stage = "sent"
  <2>1. run[cur] \in [phase : Phases, by : Actors, stage : {"start", "sent", "heard", "over"}]
    BY <1>0, RunTyped
  <2>. QED
    BY <2>1 DEF Resting
<1>3. loop.pc # "idle"
  <2>1. CASE loop = IdleLoop
    BY <1>0, <1>2, <2>1 DEF Resting, MessageInv, IdleLoop, Unanswered
  <2>2. CASE loop # IdleLoop
    BY <1>0, <2>2 DEF TypeOK
  <2>. QED
    BY <2>1, <2>2
<1>4. loop # IdleLoop /\ ~Holds("loop")
  BY <1>3 DEF Resting, IdleLoop
<1>5. queue # <<>>
  <2>1. Places("loop") # {}
    BY <1>0, <1>4 DEF PlaceInv, AtLock
  <2>. QED
    BY <2>1 DEF Places
<1>. QED
  BY <1>0, <1>1, <1>5, HeadWrites DEF Resting

\* When a call gives up on a node that has come to rest although its run is
\* still in progress, the peers have not answered the run's message or somebody
\* queues for the write guard.
THEOREM TimeoutCause == Spec => TimeoutHasCause
<1>1. IInv /\ [Next]_vars =>
        [\A c \in Calls :
           call[c].out = "none" /\ call'[c].out = "timeout"
             => \/ run[cur].by # c
                \/ run[cur].stage = "over"
                \/ Unanswered
                \/ WriterQueues]_vars
  <2> SUFFICES ASSUME IInv, [Next]_vars, NEW c \in Calls,
                      call[c].out = "none", call'[c].out = "timeout",
                      run[cur].by = c, run[cur].stage # "over", ~Unanswered
               PROVE  WriterQueues
    OBVIOUS
  <2>1. call \in [Calls -> CallRecords]
    BY DEF IInv, TypeOK
  <2>2. call' # call
    OBVIOUS
  <2>3. \E d \in Calls : CallStep(d) \/ \E p \in Phases : BeginCall(d, p)
    BY <2>2 DEF Next, vars, Grant, LoopStep, Forward, HandleInitiation,
       StoreOrchestrator, LoopTakes, TakeMessage, PublishCommand, TaskStep, SendMessage,
       EndRun, FailRun, PeerInitiates, PeersAnswer, PeerAssigns
  <2>4. ASSUME NEW d \in Calls, TimeOut(d) PROVE WriterQueues
    <3>1. c = d
      BY <2>1, <2>4 DEF TimeOut, Return
    <3>2. Resting
      BY <2>1, <2>4, <3>1 DEF TimeOut, Return, CallRecords
    <3>. QED
      BY <2>4, <3>1, <3>2, TimeOutStep
  <2>5. ASSUME NEW d \in Calls, NEW p \in Phases, BeginCall(d, p) PROVE FALSE
    BY <2>1, <2>5 DEF BeginCall, CallRecords
  <2>6. ASSUME NEW d \in Calls,
               \/ RefuseCall(d) \/ (\E us \in BOOLEAN : Initiate(d, us)) \/ AskToWait(d)
        PROVE  FALSE
    <3>1. ASSUME NEW out \in {"refused", "started", "error"}, Return(d, out) PROVE FALSE
      BY <2>1, <3>1 DEF Return, CallRecords
    <3>2. ASSUME AskToWait(d) PROVE FALSE
      BY <2>1, <3>2 DEF AskToWait, CallRecords
    <3>3. ASSUME call' = [call EXCEPT ![d].pc = "released", ![d].gen = cur] PROVE FALSE
      BY <2>1, <3>3 DEF CallRecords
    <3>. QED
      BY <2>6, <3>1, <3>2, <3>3 DEF RefuseCall, Initiate
  <2>7. ASSUME NEW d \in Calls, SeeSignature(d) \/ SeeFailure(d) PROVE FALSE
    BY <2>1, <2>7 DEF SeeSignature, SeeFailure, Answer, CallRecords
  <2>. QED
    BY <2>3, <2>4, <2>5, <2>6, <2>7 DEF CallStep
<1>. QED
  BY <1>1, Invariance, PTL DEF Spec, TimeoutHasCause

\* Calls and the event loop never stop each other at the lock for good, however
\* many calls, initiations and new orchestrators there are: whoever holds the
\* lock has a step to take, and a lock that nobody holds is granted.
THEOREM LockDeadlockFree == Spec => []NoDeadlockAtLock
<1>1. IInv => NoDeadlockAtLock
  <2> SUFFICES ASSUME IInv, Stalled
               PROVE  /\ loop = IdleLoop
                      /\ \A c \in Calls : call[c].pc \in {"idle", "done"}
    BY DEF NoDeadlockAtLock
  <2>0. TypeOK /\ LockOK /\ PlaceInv
    BY DEF IInv
  <2>1. ASSUME NEW h \in holders PROVE FALSE
    <3>1. h.who \in Actors /\ Holds(h.who) /\ AtLock(h.who)
      BY <2>0 DEF LockOK, LockTyped, Requests, Holds, AtLock
    <3>2. CASE h.who \in Calls
      <4>1. call[h.who].pc \in {"write", "wait"}
        BY <2>0, <3>1, <3>2 DEF PlaceInv
      <4>. QED
        BY <3>1, <3>2, <4>1 DEF Stalled, At
    <3>3. CASE h.who = "loop"
      BY <2>0, <3>1, <3>3 DEF PlaceInv, Stalled
    <3>. QED
      BY <3>1, <3>2, <3>3 DEF Actors
  <2>2. queue = <<>>
    BY <2>1 DEF Stalled, Grantable
  <2>3. \A a : ~AtLock(a)
    BY <2>1, <2>2 DEF AtLock, Holds, Places
  <2>4. loop = IdleLoop
    BY <2>0, <2>3 DEF PlaceInv
  <2>5. ASSUME NEW c \in Calls PROVE call[c].pc \in {"idle", "done"}
    <3>1. call[c].pc \in {"idle", "write", "released", "wait", "done"}
      BY <2>0 DEF TypeOK, CallRecords
    <3>. QED
      BY <2>0, <2>3, <3>1 DEF PlaceInv, Stalled
  <2>. QED
    BY <2>4, <2>5
<1>. QED
  BY <1>1, Invariance, PTL
=============================================================================
