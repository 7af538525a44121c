--------------------------- MODULE PeerListProofs ---------------------------
(* Proofs about PeerList, for any peers and any bounds.                     *)
EXTENDS PeerList, Integers, WellFoundedInduction, NaturalsInduction, TLAPS

----------------------------------------------------------------------------
(* Induction over a set of naturals: the library states it for operators,   *)
(* from which the provers cannot instantiate it.                            *)

\* A set with 0 and the successor of each of its members holds every number.
LEMMA SetInduction ==
  ASSUME NEW T \in SUBSET Nat, 0 \in T, \A n \in T : n + 1 \in T
  PROVE  T = Nat
<1>1. IsWellFoundedOn(OpToRel(<, Nat), Nat)
  BY NatLessThanWellFounded
<1>. SUFFICES ASSUME Nat \ T # {} PROVE FALSE
  OBVIOUS
<1>2. PICK m \in Nat \ T : \A k \in Nat \ T : <<k, m>> \notin OpToRel(<, Nat)
  BY <1>1, WFMin
<1>3. \A k \in Nat \ T : ~(k < m)
  BY <1>2 DEF OpToRel
<1>4. m # 0 /\ m - 1 \in Nat /\ m - 1 < m
  OBVIOUS
<1>. QED
  BY <1>3, <1>4

----------------------------------------------------------------------------
(* Without                                                                  *)

\* f[i] is what is kept of the first i elements of s, for i up to n.
Keeps(f, s, p, n) ==
  f = [i \in 0..n |-> IF i = 0 THEN <<>>
                      ELSE IF s[i] = p THEN f[i - 1]
                      ELSE Append(f[i - 1], s[i])]

\* The recursion in Without has a solution.
LEMMA KeepsExists ==
  ASSUME NEW s, NEW p, NEW n \in Nat
  PROVE  \E f : Keeps(f, s, p, n)
<1>. DEFINE T == {k \in Nat : \E f : Keeps(f, s, p, k)}
<1>1. 0 \in T
  <2>. DEFINE f == [i \in 0..0 |-> <<>>]
  <2>1. Keeps(f, s, p, 0)
    BY DEF Keeps
  <2>. QED
    BY <2>1
<1>2. ASSUME NEW k \in T PROVE k + 1 \in T
  <2>1. PICK f : Keeps(f, s, p, k)
    OBVIOUS
  <2>. DEFINE g == [i \in 0..(k + 1) |-> IF i <= k THEN f[i]
                      ELSE IF s[i] = p THEN f[k] ELSE Append(f[k], s[i])]
  <2>2. ASSUME NEW i \in 0..(k + 1)
        PROVE  g[i] = IF i = 0 THEN <<>>
                      ELSE IF s[i] = p THEN g[i - 1]
                      ELSE Append(g[i - 1], s[i])
    <3>1. CASE i = k + 1
      BY <3>1
    <3>2. CASE i # k + 1
      <4>1. i \in 0..k /\ (i # 0 => i - 1 \in 0..k)
        BY <3>2
      <4>2. f[i] = IF i = 0 THEN <<>>
                   ELSE IF s[i] = p THEN f[i - 1]
                   ELSE Append(f[i - 1], s[i])
         BY <2>1, <4>1 DEF Keeps
      <4>. QED
        BY <4>1, <4>2
    <3>. QED
      BY <3>1, <3>2
  <2>3. Keeps(g, s, p, k + 1)
    BY <2>2 DEF Keeps
  <2>. QED
    BY <2>3
<1>3. T \in SUBSET Nat
  OBVIOUS
<1>. HIDE DEF T
<1>4. T = Nat
  BY <1>1, <1>2, <1>3, SetInduction
<1>. QED
  BY <1>4 DEF T

\* Without is the last of those prefixes.
LEMMA WithoutKept ==
  ASSUME NEW s, NEW p, Len(s) \in Nat
  PROVE  \E f : Keeps(f, s, p, Len(s)) /\ Without(s, p) = f[Len(s)]
<1>. DEFINE kept == CHOOSE f : Keeps(f, s, p, Len(s))
<1>1. Keeps(kept, s, p, Len(s))
  BY KeepsExists
<1>2. Without(s, p) = kept[Len(s)]
  BY DEF Without, Keeps
<1>. QED
  BY <1>1, <1>2

NoneTwice(s) == \A i, j \in DOMAIN s : s[i] = s[j] => i = j
Occurs(q, s) == \E i \in DOMAIN s : s[i] = q

\* What is kept of the first n elements of a sequence without repetitions.
KeptOf(t, s, p, n, S) ==
  /\ t \in Seq(S)
  /\ NoneTwice(t)
  /\ \A j \in DOMAIN t : t[j] # p /\ \E i \in 1..n : s[i] = t[j]
  /\ \A i \in 1..n : s[i] # p => Occurs(s[i], t)
  /\ Len(t) = IF \E i \in 1..n : s[i] = p THEN n - 1 ELSE n

\* One more element, another one than those before it.
LEMMA KeptOneMore ==
  ASSUME NEW S, NEW s \in Seq(S), NoneTwice(s), NEW p, NEW n \in Nat,
         n + 1 <= Len(s), NEW t, KeptOf(t, s, p, n, S)
  PROVE  KeptOf(IF s[n + 1] = p THEN t ELSE Append(t, s[n + 1]),
                s, p, n + 1, S)
<1>. DEFINE a == s[n + 1]
            u == Append(t, a)
<1>1. n + 1 \in DOMAIN s /\ 1..(n + 1) \subseteq DOMAIN s /\ a \in S
  OBVIOUS
<1>2. \A i \in 1..n : s[i] # a
  BY <1>1 DEF NoneTwice
<1>3. t \in Seq(S) /\ Len(t) \in Nat /\ DOMAIN t = 1..Len(t)
  BY DEF KeptOf
<1>4. CASE a = p
  <2>1. ~\E i \in 1..n : s[i] = p
    BY <1>2, <1>4
  <2>2. Len(t) = n
    BY <2>1 DEF KeptOf
  <2>3. \A j \in DOMAIN t : t[j] # p /\ \E i \in 1..(n + 1) : s[i] = t[j]
    BY DEF KeptOf
  <2>4. \A i \in 1..(n + 1) : s[i] # p => Occurs(s[i], t)
    BY <1>4 DEF KeptOf
  <2>. QED
    BY <1>3, <1>4, <2>2, <2>3, <2>4 DEF KeptOf
<1>5. CASE a # p
  <2>1. /\ u \in Seq(S) /\ Len(u) = Len(t) + 1 /\ DOMAIN u = 1..(Len(t) + 1)
        /\ \A j \in DOMAIN t : u[j] = t[j]
        /\ u[Len(t) + 1] = a
    BY <1>1, <1>3
  <2>2. NoneTwice(u)
    <3>1. \A j \in DOMAIN t : t[j] # a
      BY <1>2 DEF KeptOf
    <3>2. NoneTwice(t)
      BY DEF KeptOf
    <3>. QED
      BY <1>3, <2>1, <3>1, <3>2 DEF NoneTwice
  <2>3. \A j \in DOMAIN u : u[j] # p /\ \E i \in 1..(n + 1) : s[i] = u[j]
    <3>1. \A j \in DOMAIN t : t[j] # p /\ \E i \in 1..(n + 1) : s[i] = t[j]
      BY DEF KeptOf
    <3>. QED
      BY <1>3, <1>5, <2>1, <3>1
  <2>4. \A i \in 1..(n + 1) : s[i] # p => Occurs(s[i], u)
    <3>1. Occurs(a, u)
      BY <1>3, <2>1 DEF Occurs
    <3>2. \A q : Occurs(q, t) => Occurs(q, u)
      BY <1>3, <2>1 DEF Occurs
    <3>. QED
      BY <3>1, <3>2 DEF KeptOf
  <2>5. Len(u) = IF \E i \in 1..(n + 1) : s[i] = p THEN n + 1 - 1 ELSE n + 1
    <3>1. (\E i \in 1..(n + 1) : s[i] = p) <=> \E i \in 1..n : s[i] = p
      BY <1>5
    <3>2. Len(t) = IF \E i \in 1..n : s[i] = p THEN n - 1 ELSE n
      BY DEF KeptOf
    <3>. QED
      BY <2>1, <3>1, <3>2
  <2>. QED
    BY <1>5, <2>1, <2>2, <2>3, <2>4, <2>5 DEF KeptOf
<1>. QED
  BY <1>4, <1>5

\* Without takes p, and nothing else, out of a sequence without repetitions.
LEMMA WithoutOne ==
  ASSUME NEW S, NEW s \in Seq(S), NoneTwice(s), NEW p
  PROVE  KeptOf(Without(s, p), s, p, Len(s), S)
<1>1. PICK f : Keeps(f, s, p, Len(s)) /\ Without(s, p) = f[Len(s)]
  BY WithoutKept
<1>. DEFINE T == {n \in Nat : n <= Len(s) => KeptOf(f[n], s, p, n, S)}
<1>2. 0 \in T
  <2>1. f[0] = <<>>
    BY <1>1 DEF Keeps
  <2>2. KeptOf(<<>>, s, p, 0, S)
    BY DEF KeptOf, NoneTwice, Occurs
  <2>. QED
    BY <2>1, <2>2
<1>3. ASSUME NEW n \in T PROVE n + 1 \in T
  <2>. SUFFICES ASSUME n + 1 <= Len(s) PROVE KeptOf(f[n + 1], s, p, n + 1, S)
    OBVIOUS
  <2>1. f[n + 1] = IF s[n + 1] = p THEN f[n] ELSE Append(f[n], s[n + 1])
    <3>1. n + 1 \in 0..Len(s) /\ n + 1 # 0 /\ (n + 1) - 1 = n
      OBVIOUS
    <3>. HIDE DEF T
    <3>. QED
      BY <1>1, <3>1 DEF Keeps
  <2>2. KeptOf(f[n], s, p, n, S)
    OBVIOUS
  <2>. QED
    BY <2>1, <2>2, KeptOneMore
<1>4. T \in SUBSET Nat
  OBVIOUS
<1>. HIDE DEF T
<1>5. T = Nat
  BY <1>2, <1>3, <1>4, SetInduction
<1>. QED
  BY <1>1, <1>5 DEF T
----------------------------------------------------------------------------
(* The inductive invariant                                                  *)

Event(type, p) == [type |-> type, peer |-> p]

\* The end of p's last connection is announced after the i-th event.
EndAfter(p, i) ==
  \E j \in DOMAIN events : j > i /\ events[j] = Event("Closed", p)

\* A peer without connections that is in the list, about to be put there, or
\* the subject of a pending identify event, is still to be taken out.
GoneAnnounced ==
  \A p \in Peers : conns[p] = 0 =>
    /\ Listed(p) \/ loop = p => EndAfter(p, 0)
    /\ \A i \in DOMAIN events :
         events[i] = Event("Identified", p) => EndAfter(p, i)

IInv == TypeOK /\ NoDuplicates /\ CounterNotAhead /\ GoneAnnounced

\* Events with different types, or of different peers, differ.
LEMMA EventsDiffer ==
  ASSUME NEW a, NEW b, NEW p, NEW q, Event(a, p) = Event(b, q)
  PROVE  a = b /\ p = q
<1>1. /\ Event(a, p).type = a /\ Event(a, p).peer = p
      /\ Event(b, q).type = b /\ Event(b, q).peer = q
  BY DEF Event
<1>. QED
  BY <1>1

\* A node starts with an empty list and no events.
LEMMA InitIInv == Init => IInv
BY PeerListAssumption, SMT
   DEF Init, IInv, TypeOK, NoDuplicates, CounterNotAhead, GoneAnnounced,
       Events, Event, EndAfter, Listed

----------------------------------------------------------------------------
(* libp2p                                                                   *)

\* A new event goes to the end and leaves the others where they are.
LEMMA EmitKeepsEvents ==
  ASSUME TypeOK, NEW type \in {"Established", "Identified", "Closed"},
         NEW p \in Peers, Emit(type, p)
  PROVE  /\ events' \in Seq(Events)
         /\ Len(events') = Len(events) + 1
         /\ DOMAIN events' = 1..(Len(events) + 1)
         /\ \A i \in DOMAIN events : events'[i] = events[i]
         /\ events'[Len(events) + 1] = Event(type, p)
         /\ \A q \in Peers, i \in Nat : EndAfter(q, i) => EndAfter(q, i)'
<1>1. Event(type, p) \in Events
  BY DEF Events, Event
<1>2. /\ events' \in Seq(Events)
      /\ Len(events') = Len(events) + 1
      /\ DOMAIN events' = 1..(Len(events) + 1)
      /\ \A i \in DOMAIN events : events'[i] = events[i]
      /\ events'[Len(events) + 1] = Event(type, p)
  BY <1>1 DEF TypeOK, Emit, Event
<1>3. DOMAIN events \subseteq DOMAIN events'
  BY <1>2 DEF TypeOK
<1>4. \A q \in Peers, i \in Nat : EndAfter(q, i) => EndAfter(q, i)'
  BY <1>2, <1>3 DEF EndAfter
<1>. QED
  BY <1>2, <1>4

\* Another event than q's identify event adds none to those pending.
LEMMA IdentifiedBefore ==
  ASSUME TypeOK, NEW type \in {"Established", "Identified", "Closed"},
         NEW p \in Peers, Emit(type, p), NEW q \in Peers,
         type # "Identified" \/ q # p
  PROVE  \A i \in DOMAIN events' : events'[i] = Event("Identified", q) =>
           i \in DOMAIN events /\ i \in Nat /\ events[i] = Event("Identified", q)
<1>. SUFFICES ASSUME NEW i \in DOMAIN events',
                     events'[i] = Event("Identified", q)
              PROVE  i \in DOMAIN events /\ i \in Nat
                     /\ events[i] = Event("Identified", q)
  OBVIOUS
<1>1. Event(type, p) # Event("Identified", q)
  BY EventsDiffer
<1>2. Len(events) \in Nat /\ DOMAIN events = 1..Len(events)
  BY DEF TypeOK
<1>3. i \in 1..(Len(events) + 1) /\ i # Len(events) + 1
  BY <1>1, EmitKeepsEvents
<1>4. i \in DOMAIN events /\ i \in Nat
  BY <1>2, <1>3
<1>. QED
  BY <1>4, EmitKeepsEvents

\* What the event loop keeps is not touched by libp2p.
LEMMA LoopUntouched ==
  ASSUME NoDuplicates, CounterNotAhead,
         UNCHANGED <<peerList, counter, gauge, loop>>
  PROVE  /\ NoDuplicates' /\ CounterNotAhead'
         /\ \A p \in Peers : Listed(p)' <=> Listed(p)
BY DEF NoDuplicates, CounterNotAhead, Listed

\* A connection opens: its peer is no longer without one.
LEMMA ConnectStep ==
  ASSUME IInv, NEW p \in Peers, Connect(p)
  PROVE  IInv'
<1>1. Emit("Established", p) /\ UNCHANGED <<peerList, counter, gauge, loop>>
  BY DEF Connect
<1>2. TypeOK'
  <2>1. conns' \in [Peers -> 0..MaxConns]
    <3>1. conns[p] + 1 \in 0..MaxConns
      BY PeerListAssumption DEF IInv, TypeOK, Connect
    <3>. QED
      BY <3>1 DEF IInv, TypeOK, Connect
  <2>2. events' \in Seq(Events)
    BY <1>1, EmitKeepsEvents DEF IInv
  <2>. QED
    BY <2>1, <2>2 DEF IInv, TypeOK, Connect
<1>3. NoDuplicates' /\ CounterNotAhead'
  BY <1>1, LoopUntouched DEF IInv
<1>4. GoneAnnounced'
  <2>. SUFFICES ASSUME NEW q \in Peers, conns'[q] = 0
                PROVE  /\ Listed(q)' \/ loop' = q => EndAfter(q, 0)'
                       /\ \A i \in DOMAIN events' :
                            events'[i] = Event("Identified", q)
                              => EndAfter(q, i)'
    BY DEF GoneAnnounced
  <2>1. conns[q] = 0
    BY DEF Connect, IInv, TypeOK
  <2>2. Listed(q)' \/ loop' = q => EndAfter(q, 0)'
    BY <1>1, <2>1, EmitKeepsEvents, LoopUntouched DEF IInv, GoneAnnounced
  <2>3. ASSUME NEW i \in DOMAIN events', events'[i] = Event("Identified", q)
        PROVE  EndAfter(q, i)'
    <3>1. i \in DOMAIN events /\ events[i] = Event("Identified", q)
      BY <1>1, <2>3, IdentifiedBefore DEF IInv
    <3>2. i \in Nat
      BY <3>1 DEF IInv, TypeOK
    <3>. QED
      BY <1>1, <2>1, <3>1, <3>2, EmitKeepsEvents DEF IInv, GoneAnnounced
  <2>. QED
    BY <2>2, <2>3
<1>. QED
  BY <1>2, <1>3, <1>4 DEF IInv

\* A connection ends, and its end is announced after all that is pending.
LEMMA DisconnectStep ==
  ASSUME IInv, NEW p \in Peers, Disconnect(p)
  PROVE  IInv'
<1>1. Emit("Closed", p) /\ UNCHANGED <<peerList, counter, gauge, loop>>
  BY DEF Disconnect
<1>2. TypeOK'
  <2>1. conns' \in [Peers -> 0..MaxConns]
    <3>1. conns[p] - 1 \in 0..MaxConns
      BY PeerListAssumption DEF IInv, TypeOK, Disconnect
    <3>. QED
      BY <3>1 DEF IInv, TypeOK, Disconnect
  <2>2. events' \in Seq(Events)
    BY <1>1, EmitKeepsEvents DEF IInv
  <2>. QED
    BY <2>1, <2>2 DEF IInv, TypeOK, Disconnect
<1>3. NoDuplicates' /\ CounterNotAhead'
  BY <1>1, LoopUntouched DEF IInv
<1>4. GoneAnnounced'
  <2>. SUFFICES ASSUME NEW q \in Peers, conns'[q] = 0
                PROVE  /\ Listed(q)' \/ loop' = q => EndAfter(q, 0)'
                       /\ \A i \in DOMAIN events' :
                            events'[i] = Event("Identified", q)
                              => EndAfter(q, i)'
    BY DEF GoneAnnounced
  <2>1. \A i \in DOMAIN events' : events'[i] = Event("Identified", q)
          => i \in DOMAIN events /\ i \in Nat
             /\ events[i] = Event("Identified", q)
    BY <1>1, IdentifiedBefore DEF IInv
  <2>2. CASE q = p
    <3>1. \A i \in 0..Len(events) : EndAfter(p, i)'
      <4>1. Len(events) \in Nat
        BY DEF IInv, TypeOK
      <4>. QED
        BY <1>1, <4>1, EmitKeepsEvents DEF IInv, EndAfter
    <3>2. \A i \in DOMAIN events : i \in 0..Len(events)
      BY DEF IInv, TypeOK
    <3>3. 0 \in 0..Len(events)
      BY DEF IInv, TypeOK
    <3>. QED
      BY <2>1, <2>2, <3>1, <3>2, <3>3
  <2>3. CASE q # p
    <3>1. conns[q] = 0
      BY <2>3 DEF Disconnect, IInv, TypeOK
    <3>. QED
      BY <1>1, <2>1, <3>1, EmitKeepsEvents, LoopUntouched
         DEF IInv, GoneAnnounced
  <2>. QED
    BY <2>2, <2>3
<1>. QED
  BY <1>2, <1>3, <1>4 DEF IInv

\* Only a peer with a connection is identified.
LEMMA IdentifyStep ==
  ASSUME IInv, NEW p \in Peers, Identify(p)
  PROVE  IInv'
<1>1. /\ Emit("Identified", p) /\ conns[p] > 0
      /\ UNCHANGED <<conns, identified, peerList, counter, gauge, loop>>
  BY DEF Identify, external
<1>2. TypeOK'
  BY <1>1, EmitKeepsEvents DEF IInv, TypeOK
<1>3. NoDuplicates' /\ CounterNotAhead'
  BY <1>1, LoopUntouched DEF IInv
<1>4. GoneAnnounced'
  <2>. SUFFICES ASSUME NEW q \in Peers, conns[q] = 0
                PROVE  /\ Listed(q)' \/ loop' = q => EndAfter(q, 0)'
                       /\ \A i \in DOMAIN events' :
                            events'[i] = Event("Identified", q)
                              => EndAfter(q, i)'
    BY <1>1 DEF GoneAnnounced
  <2>1. q # p
    BY <1>1
  <2>2. \A i \in DOMAIN events' : events'[i] = Event("Identified", q)
          => i \in DOMAIN events /\ i \in Nat
             /\ events[i] = Event("Identified", q)
    BY <1>1, <2>1, IdentifiedBefore DEF IInv
  <2>. QED
    BY <1>1, <2>2, EmitKeepsEvents, LoopUntouched DEF IInv, GoneAnnounced
<1>. QED
  BY <1>2, <1>3, <1>4 DEF IInv

----------------------------------------------------------------------------
(* The event loop                                                           *)

\* Taking the first event moves the others one place forward.
LEMMA NextEventShifts ==
  ASSUME TypeOK, NEW type, NEW p \in Peers, NextEvent(type, p)
  PROVE  /\ events' \in Seq(Events)
         /\ loop = Idle
         /\ 1 \in DOMAIN events /\ events[1] = Event(type, p)
         /\ \A i \in DOMAIN events' : /\ i \in Nat
                                      /\ i + 1 \in DOMAIN events
                                      /\ events'[i] = events[i + 1]
         /\ \A q \in Peers, i \in Nat :
              EndAfter(q, i + 1) => EndAfter(q, i)'
         /\ \A q \in Peers :
              EndAfter(q, 0) /\ events[1] # Event("Closed", q)
                => EndAfter(q, 0)'
<1>1. /\ events' \in Seq(Events)
      /\ loop = Idle
      /\ 1 \in DOMAIN events /\ events[1] = Event(type, p)
      /\ DOMAIN events = 1..Len(events)
      /\ DOMAIN events' = 1..(Len(events) - 1)
      /\ \A i \in DOMAIN events' : events'[i] = events[i + 1]
  BY DEF TypeOK, NextEvent, Event
<1>2. Len(events) \in Nat
  BY DEF TypeOK
<1>3. ASSUME NEW q \in Peers, NEW i \in Nat, EndAfter(q, i + 1)
      PROVE  EndAfter(q, i)'
  <2>1. PICK j \in DOMAIN events : j > i + 1 /\ events[j] = Event("Closed", q)
    BY <1>3 DEF EndAfter
  <2>2. j - 1 \in DOMAIN events' /\ j - 1 > i /\ events'[j - 1] = events[j]
    BY <1>1, <1>2, <2>1
  <2>. QED
    BY <2>1, <2>2 DEF EndAfter, Event
<1>4. ASSUME NEW q \in Peers, EndAfter(q, 0), events[1] # Event("Closed", q)
      PROVE  EndAfter(q, 0)'
  <2>1. EndAfter(q, 1)
    BY <1>1, <1>2, <1>4 DEF EndAfter
  <2>. QED
    BY <1>3, <2>1
<1>. QED
  BY <1>1, <1>2, <1>3, <1>4

\* What is left pending is announced as before.
LEMMA PendingAnnounced ==
  ASSUME IInv, NEW type, NEW p \in Peers, NextEvent(type, p),
         UNCHANGED conns, NEW q \in Peers, conns[q] = 0
  PROVE  \A i \in DOMAIN events' :
           events'[i] = Event("Identified", q) => EndAfter(q, i)'
<1>. SUFFICES ASSUME NEW i \in DOMAIN events',
                     events'[i] = Event("Identified", q)
              PROVE  EndAfter(q, i)'
  OBVIOUS
<1>1. /\ i \in Nat /\ i + 1 \in DOMAIN events
      /\ events[i + 1] = Event("Identified", q)
  BY NextEventShifts DEF IInv
<1>2. EndAfter(q, i + 1)
  BY <1>1 DEF IInv, GoneAnnounced
<1>. QED
  BY <1>1, <1>2, NextEventShifts DEF IInv

\* A peer that is not listed is counted and about to be listed; if it is gone
\* by now, its end is pending.
LEMMA HandleIdentifiedStep ==
  ASSUME IInv, NEW p \in Peers, HandleIdentified(p)
  PROVE  IInv'
<1>1. /\ NextEvent("Identified", p)
      /\ UNCHANGED <<conns, peerList, gauge>>
      /\ IF Listed(p) THEN UNCHANGED <<counter, loop>>
                      ELSE counter' = counter + 1 /\ loop' = p
  BY DEF HandleIdentified
<1>2. loop = Idle /\ p # Idle
  BY <1>1, PeerListAssumption DEF NextEvent
<1>3. TypeOK'
  BY <1>1, NextEventShifts DEF IInv, TypeOK, HandleIdentified
<1>4. NoDuplicates'
  BY <1>1, <1>2 DEF IInv, NoDuplicates, Listed
<1>5. CounterNotAhead'
  BY <1>1, <1>2 DEF IInv, CounterNotAhead, TypeOK
<1>6. GoneAnnounced'
  <2>. SUFFICES ASSUME NEW q \in Peers, conns[q] = 0
                PROVE  /\ Listed(q)' \/ loop' = q => EndAfter(q, 0)'
                       /\ \A i \in DOMAIN events' :
                            events'[i] = Event("Identified", q)
                              => EndAfter(q, i)'
    BY <1>1 DEF GoneAnnounced
  <2>1. ASSUME Listed(q) \/ loop = q PROVE EndAfter(q, 0)'
    <3>1. EndAfter(q, 0)
      BY <2>1 DEF IInv, GoneAnnounced
    <3>2. events[1] # Event("Closed", q)
      BY <1>1, NextEventShifts, EventsDiffer DEF IInv
    <3>. QED
      BY <1>1, <3>1, <3>2, NextEventShifts DEF IInv
  <2>2. ASSUME q = p PROVE EndAfter(q, 0)'
    <3>1. EndAfter(q, 1)
      BY <1>1, <2>2, NextEventShifts DEF IInv, GoneAnnounced
    <3>2. EndAfter(q, 0 + 1)
      BY <3>1
    <3>. QED
      BY <1>1, <3>2, NextEventShifts DEF IInv
  <2>3. Listed(q)' \/ loop' = q => Listed(q) \/ loop = q \/ q = p
    BY <1>1 DEF Listed
  <2>. QED
    BY <1>1, <2>1, <2>2, <2>3, PendingAnnounced
<1>. QED
  BY <1>3, <1>4, <1>5, <1>6 DEF IInv

\* The peer about to be listed is not in the list yet.
LEMMA PushPeerStep ==
  ASSUME IInv, PushPeer
  PROVE  IInv'
<1>1. /\ loop \in Peers /\ loop # Idle
      /\ peerList' = Append(peerList, loop) /\ loop' = Idle
      /\ UNCHANGED <<conns, identified, events, counter, gauge>>
  BY DEF IInv, TypeOK, PushPeer, external
<1>2. /\ peerList' \in Seq(Peers)
      /\ Len(peerList') = Len(peerList) + 1 /\ Len(peerList) \in Nat
      /\ DOMAIN peerList = 1..Len(peerList)
      /\ DOMAIN peerList' = 1..(Len(peerList) + 1)
      /\ \A i \in DOMAIN peerList : peerList'[i] = peerList[i]
      /\ peerList'[Len(peerList) + 1] = loop
  BY <1>1 DEF IInv, TypeOK
<1>3. TypeOK'
  BY <1>1, <1>2 DEF IInv, TypeOK
<1>4. NoDuplicates'
  BY <1>1, <1>2 DEF IInv, NoDuplicates, Listed
<1>5. CounterNotAhead'
  BY <1>1, <1>2 DEF IInv, CounterNotAhead, TypeOK
<1>6. GoneAnnounced'
  <2>1. \A q \in Peers : Listed(q)' \/ loop' = q => Listed(q) \/ loop = q
    BY <1>1, <1>2, PeerListAssumption DEF Listed
  <2>2. \A q \in Peers, i \in Nat : EndAfter(q, i)' <=> EndAfter(q, i)
    BY <1>1 DEF EndAfter
  <2>3. \A i \in DOMAIN events : i \in Nat
    BY DEF IInv, TypeOK
  <2>. QED
    BY <1>1, <2>1, <2>2, <2>3 DEF IInv, GoneAnnounced
<1>. QED
  BY <1>3, <1>4, <1>5, <1>6 DEF IInv

\* The gauge takes over the counter.
LEMMA HandleEstablishedStep ==
  ASSUME IInv, NEW p \in Peers, HandleEstablished(p)
  PROVE  IInv'
<1>1. /\ NextEvent("Established", p) /\ gauge' = counter
      /\ UNCHANGED <<conns, identified, peerList, counter, loop>>
  BY DEF HandleEstablished, external
<1>2. TypeOK'
  BY <1>1, NextEventShifts DEF IInv, TypeOK
<1>3. NoDuplicates'
  BY <1>1 DEF IInv, NoDuplicates, Listed
<1>4. CounterNotAhead'
  BY <1>1 DEF IInv, CounterNotAhead, TypeOK
<1>5. GoneAnnounced'
  <2>. SUFFICES ASSUME NEW q \in Peers, conns[q] = 0
                PROVE  /\ Listed(q)' \/ loop' = q => EndAfter(q, 0)'
                       /\ \A i \in DOMAIN events' :
                            events'[i] = Event("Identified", q)
                              => EndAfter(q, i)'
    BY <1>1 DEF GoneAnnounced
  <2>1. Listed(q)' \/ loop' = q => EndAfter(q, 0)
    BY <1>1 DEF IInv, GoneAnnounced, Listed
  <2>2. events[1] # Event("Closed", q)
    BY <1>1, NextEventShifts, EventsDiffer DEF IInv
  <2>. QED
    BY <1>1, <2>1, <2>2, NextEventShifts, PendingAnnounced DEF IInv
<1>. QED
  BY <1>2, <1>3, <1>4, <1>5 DEF IInv

\* The list loses the peer once, and the counter no less.
LEMMA HandleClosedStep ==
  ASSUME IInv, NEW p \in Peers, HandleClosed(p)
  PROVE  IInv'
<1>1. /\ NextEvent("Closed", p) /\ loop = Idle
      /\ peerList' = Without(peerList, p)
      /\ counter' = Decremented /\ gauge' = Decremented
      /\ UNCHANGED <<conns, identified, loop>>
  BY DEF HandleClosed, external, NextEvent
<1>2. KeptOf(peerList', peerList, p, Len(peerList), Peers)
  BY <1>1, WithoutOne DEF IInv, TypeOK, NoDuplicates, NoneTwice
<1>3. peerList' \in Seq(Peers) /\ DOMAIN peerList = 1..Len(peerList)
  BY <1>2 DEF KeptOf, IInv, TypeOK
<1>4. TypeOK'
  BY <1>1, <1>3, NextEventShifts DEF IInv, TypeOK, Decremented
<1>5. NoDuplicates'
  BY <1>1, <1>2 DEF KeptOf, NoneTwice, NoDuplicates
<1>6. CounterNotAhead'
  <2>1. Len(peerList') \in {Len(peerList), Len(peerList) - 1}
        /\ Len(peerList) \in Nat /\ Len(peerList') \in Nat
    <3>1. Len(peerList) \in Nat /\ Len(peerList') \in Nat
      BY <1>3 DEF IInv, TypeOK
    <3>2. Len(peerList') = IF \E i \in 1..Len(peerList) : peerList[i] = p
                           THEN Len(peerList) - 1 ELSE Len(peerList)
      BY <1>2 DEF KeptOf
    <3>. QED
      BY <3>1, <3>2
  <2>2. counter \in Nat /\ counter <= Len(peerList)
    BY <1>1 DEF IInv, TypeOK, CounterNotAhead
  <2>. QED
    BY <1>1, <2>1, <2>2 DEF CounterNotAhead, Decremented
<1>7. GoneAnnounced'
  <2>. SUFFICES ASSUME NEW q \in Peers, conns[q] = 0
                PROVE  /\ Listed(q)' \/ loop' = q => EndAfter(q, 0)'
                       /\ \A i \in DOMAIN events' :
                            events'[i] = Event("Identified", q)
                              => EndAfter(q, i)'
    BY <1>1 DEF GoneAnnounced
  <2>1. loop' # q
    BY <1>1, PeerListAssumption
  <2>2. Listed(q)' => q # p /\ Listed(q)
    BY <1>2, <1>3 DEF Listed, KeptOf
  <2>3. ASSUME q # p, Listed(q) PROVE EndAfter(q, 0)'
    <3>1. EndAfter(q, 0)
      BY <2>3 DEF IInv, GoneAnnounced
    <3>2. events[1] # Event("Closed", q)
      BY <1>1, <2>3, NextEventShifts, EventsDiffer DEF IInv
    <3>. QED
      BY <1>1, <3>1, <3>2, NextEventShifts DEF IInv
  <2>. QED
    BY <1>1, <2>1, <2>2, <2>3, PendingAnnounced
<1>. QED
  BY <1>4, <1>5, <1>6, <1>7 DEF IInv

----------------------------------------------------------------------------
(* Theorems                                                                 *)

\* Every step keeps the invariant.
LEMMA StepIInv == IInv /\ [Next]_vars => IInv'
<1>. SUFFICES ASSUME IInv, [Next]_vars PROVE IInv'
  OBVIOUS
<1>1. ASSUME NEW p \in Peers, Connect(p) PROVE IInv'
  BY <1>1, ConnectStep
<1>2. ASSUME NEW p \in Peers, Disconnect(p) PROVE IInv'
  BY <1>2, DisconnectStep
<1>3. ASSUME NEW p \in Peers, Identify(p) PROVE IInv'
  BY <1>3, IdentifyStep
<1>4. ASSUME NEW p \in Peers, HandleIdentified(p) PROVE IInv'
  BY <1>4, HandleIdentifiedStep
<1>5. ASSUME NEW p \in Peers, HandleEstablished(p) PROVE IInv'
  BY <1>5, HandleEstablishedStep
<1>6. ASSUME NEW p \in Peers, HandleClosed(p) PROVE IInv'
  BY <1>6, HandleClosedStep
<1>7. CASE PushPeer
  BY <1>7, PushPeerStep
<1>8. CASE UNCHANGED vars
  BY <1>8 DEF vars, IInv, TypeOK, NoDuplicates, CounterNotAhead,
              GoneAnnounced, Listed, EndAfter
<1>. QED
  BY <1>1, <1>2, <1>3, <1>4, <1>5, <1>6, <1>7, <1>8 DEF Next, LoopStep

\* The invariant holds in every state.
LEMMA Invariance == Spec => []IInv
BY InitIInv, StepIInv, PTL DEF Spec

\* The peer list, the counter and the gauge keep their types, whatever the
\* events and their order: the counter never passes zero.
THEOREM TypeCorrect == Spec => []TypeOK
<1>1. IInv => TypeOK
  BY DEF IInv
<1>. QED
  BY <1>1, Invariance, PTL

\* No peer is listed twice, for any peers and any number of connections.
THEOREM ListedOnce == Spec => []NoDuplicates
<1>1. IInv => NoDuplicates
  BY DEF IInv
<1>. QED
  BY <1>1, Invariance, PTL

\* Neither the counter nor the gauge is ever ahead of the list.
THEOREM MetricsNotAhead == Spec => []CounterNotAhead
<1>1. IInv => CounterNotAhead
  BY DEF IInv
<1>. QED
  BY <1>1, Invariance, PTL

\* With nothing left to handle, every listed peer has a connection.
THEOREM GoneTakenOut == Spec => []GoneUnlisted
<1>1. ASSUME IInv, Drained, NEW p \in Peers, Listed(p) PROVE conns[p] > 0
  <2>1. ~EndAfter(p, 0)
    BY <1>1 DEF Drained, EndAfter
  <2>2. conns[p] # 0
    BY <1>1, <2>1 DEF IInv, GoneAnnounced
  <2>3. conns[p] \in 0..MaxConns /\ MaxConns \in Nat
    BY <1>1, PeerListAssumption DEF IInv, TypeOK
  <2>. QED
    BY <1>1, <2>2, <2>3
<1>2. IInv => GoneUnlisted
  BY <1>1 DEF GoneUnlisted
<1>. QED
  BY <1>2, Invariance, PTL
=============================================================================
