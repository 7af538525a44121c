--------------------------- MODULE MCProtocolRun ---------------------------
(* ProtocolRun on small instances: rounds of both kinds, in few rounds.     *)
EXTENDS ProtocolRun

TwoKinds == [aux     |-> <<"p2p">>,
             keygen  |-> <<"broadcast">>,
             signing |-> <<"p2p", "broadcast">>]

RivalAux  == [aux |-> {0, 1}, keygen |-> {0}, signing |-> {0}]
OneCaller == [aux |-> {0}, keygen |-> {0}, signing |-> {0}]
=============================================================================
