----------------------------- MODULE MCPeerList -----------------------------
(* PeerList on small instances; Peers is a set of model values.             *)
EXTENDS PeerList
=============================================================================
