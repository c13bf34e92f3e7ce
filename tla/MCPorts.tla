------------------------------ MODULE MCPorts -------------------------------
(***************************************************************************)
(* Instances of Ports for TLC: devices and calls are interchangeable.      *)
(***************************************************************************)
EXTENDS Ports, TLC

Symmetry == Permutations(Dev) \cup Permutations(Call)
=============================================================================
