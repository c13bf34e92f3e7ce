------------------------------ MODULE MCRemote ------------------------------
(***************************************************************************)
(* Instances of Remote for TLC: clients together where they meet, on the   *)
(* forwards or in the map of recordings, and alone where they do not.      *)
(***************************************************************************)
EXTENDS Remote, TLC

CONSTANTS c1, c2, c3, d1, d2

Does(k1, k2, k3, d) == (c1 :> <<k1, d1>>) @@ (c2 :> <<k2, d>>) @@ (c3 :> <<k3, d1>>)

MCMix == {Does("view", "view", "none", d2), Does("start", "stop", "start", d1),
          Does("start", "stop", "stop", d1),
          Does("command", "none", "none", d1), Does("input", "watch", "none", d1)}
=============================================================================
