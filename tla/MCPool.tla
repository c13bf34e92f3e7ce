------------------------------- MODULE MCPool -------------------------------
(***************************************************************************)
(* Instances of Pool for TLC.  Clients, instance ids and AVDs are          *)
(* interchangeable; ids are never reused, so Inst bounds how many          *)
(* instances a behaviour creates.                                          *)
(***************************************************************************)
EXTENDS Pool, TLC

Symmetry ==
  Permutations(Client) \cup Permutations(Inst) \cup Permutations(AVD)
    \cup Permutations(Phone)
=============================================================================
