------------------------------ MODULE Handout ------------------------------
(***************************************************************************)
(* What the device pool promises its callers: an instance is put on offer  *)
(* once, handed to one caller at a time while it is on offer, and never    *)
(* offered again once it has been retired - even though a caller may still *)
(* be holding it at that moment (an eviction).                             *)
(***************************************************************************)
CONSTANTS Client, Inst, None

VARIABLES
  phase,   \* of each instance: unborn, offered or retired
  holder   \* the instance each caller was given and has not returned

Init ==
  /\ phase = [i \in Inst |-> "unborn"]
  /\ holder = [c \in Client |-> None]

Offer(i) ==
  /\ phase[i] = "unborn"
  /\ phase' = [phase EXCEPT ![i] = "offered"]
  /\ UNCHANGED holder

Retire(i) ==
  /\ phase[i] = "offered"
  /\ phase' = [phase EXCEPT ![i] = "retired"]
  /\ UNCHANGED holder

Grant(c, i) ==
  /\ holder[c] = None
  /\ phase[i] = "offered"
  /\ \A d \in Client : holder[d] # i
  /\ holder' = [holder EXCEPT ![c] = i]
  /\ UNCHANGED phase

\* A returned device may turn out to be dead and retire on the spot.
Return(c) ==
  /\ holder[c] # None
  /\ holder' = [holder EXCEPT ![c] = None]
  /\ \/ UNCHANGED phase
     \/ phase' = [phase EXCEPT ![holder[c]] = "retired"]

Next ==
  \/ \E i \in Inst : Offer(i) \/ Retire(i)
  \/ \E c \in Client : Return(c) \/ \E i \in Inst : Grant(c, i)

Spec == Init /\ [][Next]_<<phase, holder>>
=============================================================================
