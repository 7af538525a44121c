---------------------------- MODULE MCNodeFiles ----------------------------
(* NodeFiles on small instances.                                            *)
EXTENDS NodeFiles, TLC

Symmetry == Permutations(Nodes) \cup Permutations(Indices)
=============================================================================
