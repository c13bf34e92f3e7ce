------------------------------ MODULE MCBroker ------------------------------
(***************************************************************************)
(* Instances of Broker for TLC.  Calls and instance ids are                *)
(* interchangeable.                                                        *)
(***************************************************************************)
EXTENDS Broker, TLC

Symmetry == Permutations(Req) \cup Permutations(Inst)
=============================================================================
