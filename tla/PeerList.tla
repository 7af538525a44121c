------------------------------ MODULE PeerList ------------------------------
(***************************************************************************)
(* The list of peers of one node (src/src/network.rs, the identify and     *)
(* connection events of Network::run), from which assign_peer_indices      *)
(* deals the party indices, with the counter and the gauge beside it.      *)
(*                                                                         *)
(* libp2p is external: peers open and close connections (more than one per *)
(* peer when both sides dial), every open connection is identified from    *)
(* time to time, and the swarm hands the resulting events, in order, to    *)
(* the event loop.                                                         *)
(***************************************************************************)
EXTENDS Naturals, Sequences

CONSTANTS Peers,
          MaxConns,     \* bound: connections open to one peer at once
          MaxEvents     \* bound: swarm events waiting

Idle == "idle"

ASSUME PeerListAssumption ==
  Idle \notin Peers /\ MaxConns \in Nat /\ MaxEvents \in Nat

VARIABLES
  conns,       \* conns[p]: open connections to p
  events,      \* swarm events not yet handled
  peerList,    \* peer_list, shared with the RPC server
  counter,     \* Network.peers
  gauge,       \* CONNECTED_PEERS
  loop,        \* the peer whose identify event is half handled, or Idle
  identified   \* history: peers with an identify event handled since they
               \* were last without a connection

vars == <<conns, events, peerList, counter, gauge, loop, identified>>
external == <<conns, identified>>

Events == [type : {"Established", "Identified", "Closed"}, peer : Peers]

Listed(p) == \E i \in DOMAIN peerList : peerList[i] = p

----------------------------------------------------------------------------
(* libp2p                                                                  *)

Emit(type, p) == /\ Len(events) < MaxEvents
                 /\ events' = Append(events, [type |-> type, peer |-> p])

Connect(p) == /\ conns[p] < MaxConns
              /\ conns' = [conns EXCEPT ![p] = @ + 1]
              /\ Emit("Established", p)
              /\ UNCHANGED <<peerList, counter, gauge, loop, identified>>

Disconnect(p) == /\ conns[p] > 0
                 /\ conns' = [conns EXCEPT ![p] = @ - 1]
                 /\ Emit("Closed", p)
                 /\ identified' = IF conns[p] = 1 THEN identified \ {p}
                                                  ELSE identified
                 /\ UNCHANGED <<peerList, counter, gauge, loop>>

\* On a new connection, and then at every identify interval.
Identify(p) == /\ conns[p] > 0
               /\ Emit("Identified", p)
               /\ UNCHANGED <<external, peerList, counter, gauge, loop>>

----------------------------------------------------------------------------
(* The event loop                                                          *)

NextEvent(type, p) == /\ loop = Idle
                      /\ events # <<>>
                      /\ Head(events) = [type |-> type, peer |-> p]
                      /\ events' = Tail(events)

\* Fault: only a peer's first identify event is looked at.
HandleIdentifiedOnce(p) ==
  /\ NextEvent("Identified", p)
  /\ IF Listed(p) \/ p \in identified
       THEN UNCHANGED <<counter, loop>>
       ELSE counter' = counter + 1 /\ loop' = p
  /\ identified' = IF conns[p] > 0 THEN identified \cup {p} ELSE identified
  /\ UNCHANGED <<conns, peerList, gauge>>
\* Fault: the list is not looked at.
HandleIdentifiedAgain(p) ==
  /\ NextEvent("Identified", p)
  /\ counter' = counter + 1
  /\ loop' = p
  /\ identified' = IF conns[p] > 0 THEN identified \cup {p} ELSE identified
  /\ UNCHANGED <<conns, peerList, gauge>>
\* The list is looked at under one guard and extended under another; the
\* counter goes up in between.
HandleIdentified(p) ==
  /\ NextEvent("Identified", p)
  /\ IF Listed(p) THEN UNCHANGED <<counter, loop>>
                  ELSE counter' = counter + 1 /\ loop' = p
  /\ identified' = IF conns[p] > 0 THEN identified \cup {p} ELSE identified
  /\ UNCHANGED <<conns, peerList, gauge>>

PushPeer == /\ loop # Idle
            /\ peerList' = Append(peerList, loop)
            /\ loop' = Idle
            /\ UNCHANGED <<external, events, counter, gauge>>

HandleEstablished(p) ==
  /\ NextEvent("Established", p)
  /\ gauge' = counter
  /\ UNCHANGED <<external, peerList, counter, loop>>

\* retain(|q| q != p)
Without(s, p) ==
  LET kept[i \in 0..Len(s)] == IF i = 0 THEN <<>>
                               ELSE IF s[i] = p THEN kept[i - 1]
                               ELSE Append(kept[i - 1], s[i])
  IN  kept[Len(s)]

\* Fault: plain subtraction.
DecrementedBelowZero == counter - 1
\* saturating_sub(1)
Decremented == IF counter > 0 THEN counter - 1 ELSE 0

\* Faults: the counter is left alone; the peer is left in the list.
HandleClosedUncounted(p) ==
  /\ NextEvent("Closed", p)
  /\ peerList' = Without(peerList, p)
  /\ UNCHANGED <<external, counter, gauge, loop>>
HandleClosedStillListed(p) ==
  /\ NextEvent("Closed", p)
  /\ counter' = Decremented
  /\ gauge' = Decremented
  /\ UNCHANGED <<external, peerList, loop>>
HandleClosed(p) ==
  /\ NextEvent("Closed", p)
  /\ peerList' = Without(peerList, p)
  /\ counter' = Decremented
  /\ gauge' = Decremented
  /\ UNCHANGED <<external, loop>>

----------------------------------------------------------------------------
Init == /\ conns = [p \in Peers |-> 0]
        /\ events = <<>>
        /\ peerList = <<>>
        /\ counter = 0
        /\ gauge = 0
        /\ loop = Idle
        /\ identified = {}

LoopStep == \/ \E p \in Peers : \/ HandleIdentified(p)
                                \/ HandleEstablished(p)
                                \/ HandleClosed(p)
            \/ PushPeer

Next == \/ \E p \in Peers : Connect(p) \/ Disconnect(p) \/ Identify(p)
        \/ LoopStep

Spec == Init /\ [][Next]_vars

\* The event loop goes on, and a connection is identified again and again.
FairSpec == Spec /\ WF_vars(LoopStep) /\ \A p \in Peers : SF_vars(Identify(p))

----------------------------------------------------------------------------
(* Properties                                                              *)

Drained == events = <<>> /\ loop = Idle

\* Every variable has its type; in particular the counter, an unsigned integer
\* in the code, never goes below zero.
TypeOK == /\ conns \in [Peers -> 0..MaxConns]
          /\ events \in Seq(Events)
          /\ peerList \in Seq(Peers)
          /\ counter \in Nat
          /\ gauge \in Nat
          /\ loop \in Peers \cup {Idle}
          /\ identified \subseteq Peers

\* No peer is listed twice, however often and over however many connections it is
\* identified.  (The event loop alone extends the list, so nothing comes between
\* its test and its push.)  Otherwise assign_peer_indices, which lets a later
\* entry overwrite an earlier one, would leave a party index to nobody.
NoDuplicates ==
  /\ \A i, j \in DOMAIN peerList : peerList[i] = peerList[j] => i = j
  /\ loop # Idle => ~Listed(loop)

\* The counter goes down on every closed connection, listed peer or not, and
\* the gauge is set from it now and then, so both may fall behind the list; no
\* metric ever counts more peers than are listed.
CounterNotAhead ==
  /\ gauge <= counter
  /\ counter <= Len(peerList) + (IF loop = Idle THEN 0 ELSE 1)

\* Once all events are handled, a peer without connections is not listed: no
\* index is dealt to a peer that is known to be gone.
GoneUnlisted == Drained => \A p \in Peers : Listed(p) => conns[p] > 0

\* A peer whose connection stays is listed in the end, and stays listed, even
\* if the end of another of its connections took it from the list before.
ConnectedListed ==
  \A p \in Peers : <>[](conns[p] = 1) => <>[]Listed(p)

----------------------------------------------------------------------------
(* What the README says and the code does not do                            *)

\* network_getPeerList: "Get list of connected peers": with nothing left to
\* handle, a peer that was identified and is connected is listed.
IdentifiedListed ==
  Drained => \A p \in identified : Listed(p)
=============================================================================
