---------------------------- MODULE MCAssignment ----------------------------
(* Assignment on small instances.  Calls are interchangeable, and so are    *)
(* the nodes that are never called.                                         *)
EXTENDS Assignment, TLC

Symmetry == Permutations(Calls) \cup Permutations(Nodes \ Callers)
=============================================================================
