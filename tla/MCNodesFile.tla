---------------------------- MODULE MCNodesFile -----------------------------
(***************************************************************************)
(* Instances of NodesFile for TLC: requests and values are interchangeable.*)
(***************************************************************************)
EXTENDS NodesFile, TLC

Symmetry == Permutations(Proc) \cup Permutations(Value)
=============================================================================
