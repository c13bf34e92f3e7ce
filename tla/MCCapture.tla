------------------------------ MODULE MCCapture ------------------------------
(* The captures of a few sessions, for TLC.                                   *)
EXTENDS Capture, TLC

Symmetry == Permutations(Sess)
=============================================================================
