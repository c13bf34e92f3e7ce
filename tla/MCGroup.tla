------------------------------ MODULE MCGroup -------------------------------
(***************************************************************************)
(* Instances of Group for TLC: nodes and keys are interchangeable.         *)
(***************************************************************************)
EXTENDS Group, TLC

Symmetry == Permutations(Node) \cup Permutations(Key)
=============================================================================
