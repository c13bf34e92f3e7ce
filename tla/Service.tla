------------------------------ MODULE Service ------------------------------
(***************************************************************************)
(* What the broker promises the clients of one farm: a call is answered at *)
(* most once; it leads to at most one session, which starts once, ends     *)
(* once, and while it lasts has its device to itself; "ok" is answered for *)
(* a session that was started, "error" only when there is none.  A client  *)
(* that left may have a session it does not know of.                       *)
(***************************************************************************)
CONSTANTS Req, Inst, None

VARIABLES
  session,  \* of each call: none, active or over
  device,   \* the device of its session
  reply     \* its answer: none, ok, error or left

Init ==
  /\ session = [r \in Req |-> "none"]
  /\ device = [r \in Req |-> None]
  /\ reply = [r \in Req |-> "none"]

Start(r, i) ==
  /\ session[r] = "none" /\ reply[r] # "error"
  /\ \A s \in Req : ~(session[s] = "active" /\ device[s] = i)
  /\ session' = [session EXCEPT ![r] = "active"]
  /\ device' = [device EXCEPT ![r] = i]
  /\ UNCHANGED reply

Stop(r) ==
  /\ session[r] = "active"
  /\ session' = [session EXCEPT ![r] = "over"]
  /\ UNCHANGED <<device, reply>>

Reply(r, a) ==
  /\ reply[r] = "none"
  /\ a = "ok" => session[r] # "none"
  /\ a = "error" => session[r] = "none"
  /\ reply' = [reply EXCEPT ![r] = a]
  /\ UNCHANGED <<session, device>>

Next ==
  \E r \in Req :
    \/ Stop(r)
    \/ \E i \in Inst : Start(r, i)
    \/ \E a \in {"ok", "error", "left"} : Reply(r, a)

Spec == Init /\ [][Next]_<<session, device, reply>>
=============================================================================
