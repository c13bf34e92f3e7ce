-------------------------------- MODULE MCHub --------------------------------
(***************************************************************************)
(* Instances of Hub for TLC.  Sessions are interchangeable, ports are not  *)
(* (the lowest is taken).                                                  *)
(***************************************************************************)
EXTENDS Hub, TLC

Symmetry == Permutations(Sess)
=============================================================================
