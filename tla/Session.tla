------------------------------- MODULE Session -------------------------------
(***************************************************************************)
(* What index assignment (src/src/rpc.rs, src/src/network.rs) promises of  *)
(* one session, without calls, locks, queues or a network: its coordinator *)
(* deals indices once, 0 to itself and the next ones to its peers; they    *)
(* join under that assignment; the coordinator counts only peers that have *)
(* joined; and an orchestrator is made with that assignment by a peer only *)
(* once it has joined, by the coordinator only once it has counted all.    *)
(***************************************************************************)
EXTENDS Naturals

CONSTANTS
  Nodes,     \* peer ids
  coord      \* the coordinator

VARIABLES
  assign,    \* the indices of the session; empty before they are dealt
  joined,    \* the nodes that hold the session under that assignment
  counted,   \* the peers whose acceptance the coordinator has counted
  indices    \* indices[n]: those of n's orchestrator, if it is of this session

vars == <<assign, joined, counted, indices>>

Nobody == <<>>

\* The parties have the indices from 0 on, each its own, the coordinator 0.
Dealt(a) ==
  LET P == DOMAIN a IN
  /\ P \subseteq Nodes
  /\ a \in [P -> Nat]
  /\ \A p, q \in P : a[p] = a[q] => p = q
  /\ \A p \in P : \A i \in 0..a[p] : \E q \in P : a[q] = i
  /\ coord \in P
  /\ a[coord] = 0

Peers == DOMAIN assign \ {coord}

Init == /\ assign = Nobody
        /\ joined = {}
        /\ counted = {}
        /\ indices = [n \in Nodes |-> Nobody]

Deal == /\ joined = {}
        /\ Dealt(assign')
        /\ joined' = {coord}
        /\ UNCHANGED <<counted, indices>>

Join(p) == /\ coord \in joined
           /\ p \in Peers
           /\ joined' = joined \cup {p}
           /\ UNCHANGED <<assign, counted, indices>>

Count(p) == /\ p \in joined \cap Peers
            /\ counted' = counted \cup {p}
            /\ UNCHANGED <<assign, joined, indices>>

MakeOrchestrator(n) ==
  /\ n \in joined
  /\ n = coord => counted = Peers
  /\ indices' = [indices EXCEPT ![n] = assign]
  /\ UNCHANGED <<assign, joined, counted>>

\* An orchestrator of another session takes its place.
ReplaceOrchestrator(n) ==
  /\ indices' = [indices EXCEPT ![n] = Nobody]
  /\ UNCHANGED <<assign, joined, counted>>

Next == \/ Deal
        \/ \E n \in Nodes : \/ Join(n) \/ Count(n)
                            \/ MakeOrchestrator(n) \/ ReplaceOrchestrator(n)

Spec == Init /\ [][Next]_vars
=============================================================================
