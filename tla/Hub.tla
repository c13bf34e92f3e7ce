-------------------------------- MODULE Hub ---------------------------------
(***************************************************************************)
(* The WebDriver hub (api/handlers_appium.go) with the part of the broker  *)
(* that ends sessions and the Appium manager (module Appium) under it.  A  *)
(* client POSTs a session, sends commands by the id that Appium issued,    *)
(* and DELETEs it; sessions are also released over REST, time out, or lose *)
(* their device.                                                           *)
(*                                                                         *)
(* The hub finds the farm session by the id, and Appium by the port the    *)
(* session was given, which may be another session's by then.              *)
(***************************************************************************)
EXTENDS Appium

CONSTANTS None

ASSUME HubAssumption == None \notin Sess

VARIABLES
  fs,       \* state of each farm session
  device,   \* the session's device: it has it, gave it back, or it is gone
  ending,   \* sessions that end and whose server is still to be stopped
  hub,      \* where the POST of each session is
  issuer,   \* the session whose server issued the WebDriver id
  mapped,   \* sessions whose WebDriver id is in h.sidMapping
  del,      \* where a DELETE of the id is
  late      \* history: sessions whose server was launched after their Stop

hubVars == <<fs, device, ending, hub, issuer, mapped, del, late>>
allVars == <<vars, hubVars>>

HubInit ==
  /\ Init
  /\ fs = [s \in Sess |-> "none"] /\ device = [s \in Sess |-> "none"]
  /\ ending = {} /\ mapped = {} /\ late = {}
  /\ hub = [s \in Sess |-> "idle"] /\ del = [s \in Sess |-> "none"]
  /\ issuer = [s \in Sess |-> None]

\* The session whose server answers on the port of s.
Answering(s) == {t \in Sess : proc[t] = "listening" /\ port[t] = port[s]}

-----------------------------------------------------------------------------
(* POST /wd/hub/session                                                    *)

\* broker.Create puts the session into b.sessions: from here on it can end.
Create(s) ==
  /\ hub[s] = "idle"
  /\ hub' = [hub EXCEPT ![s] = "starting"]
  /\ fs' = [fs EXCEPT ![s] = "active"]
  /\ device' = [device EXCEPT ![s] = "held"]
  /\ UNCHANGED <<vars, ending, issuer, mapped, del, late>>

\* When the captures are started and the row is written, it launches the server,
\* without another look at the session.
Launch(s) ==
  /\ hub[s] = "starting"
  /\ Start(s) \/ StartFails(s)
  /\ late' = IF fs[s] = "released" /\ s \notin ending THEN late \cup {s} ELSE late
  /\ UNCHANGED <<fs, device, ending, hub, issuer, mapped, del>>

\* No AppiumURL: "release so we don't leak a device".
NoURL(s) ==
  /\ hub[s] = "starting" /\ pc[s] = "failed"
  /\ hub' = [hub EXCEPT ![s] = "failing"]
  /\ UNCHANGED <<vars, fs, device, ending, issuer, mapped, del, late>>

\* The capabilities are sent to 127.0.0.1 and the session's port; whoever
\* listens there may create a session,
Post(s) ==
  /\ hub[s] = "starting" /\ pc[s] = "done"
  /\ \E t \in Answering(s) : issuer' = [issuer EXCEPT ![s] = t]
  /\ hub' = [hub EXCEPT ![s] = "answer"]
  /\ UNCHANGED <<vars, fs, device, ending, mapped, del, late>>

\* or not: nobody listens, 120 s pass, a status that is not 2xx, no id.
PostFails(s) ==
  /\ hub[s] = "starting" /\ pc[s] = "done"
  /\ hub' = [hub EXCEPT ![s] = "failing"]
  /\ UNCHANGED <<vars, fs, device, ending, issuer, mapped, del, late>>

\* "stash the mapping so future requests on that id can find our session".
Stash(s) ==
  /\ hub[s] = "answer"
  /\ mapped' = mapped \cup {s}
  /\ hub' = [hub EXCEPT ![s] = "open"]
  /\ UNCHANGED <<vars, fs, device, ending, issuer, del, late>>

\* What broker.Release does first: nothing when the session is over.
End(s) ==
  IF fs[s] = "active"
    THEN fs' = [fs EXCEPT ![s] = "released"] /\ ending' = ending \cup {s}
    ELSE UNCHANGED <<fs, ending>>

\* Mutant of Fail: the error is returned without a release.
FailKeeps(s) ==
  /\ hub[s] = "failing"
  /\ hub' = [hub EXCEPT ![s] = "failed"]
  /\ UNCHANGED <<vars, fs, device, ending, issuer, mapped, del, late>>

\* The session is released and the client told.
Fail(s) ==
  /\ hub[s] = "failing"
  /\ End(s)
  /\ hub' = [hub EXCEPT ![s] = "failed"]
  /\ UNCHANGED <<vars, device, issuer, mapped, del, late>>

-----------------------------------------------------------------------------
(* DELETE /wd/hub/session/{sid}                                            *)

\* Mutant of Forward: the id is forgotten before Appium has answered.
ForwardForgets(s) ==
  /\ s \in mapped /\ del[s] = "none"
  /\ del' = [del EXCEPT ![s] = IF Answering(s) = {} THEN "none" ELSE "relayed"]
  /\ mapped' = mapped \ {s}
  /\ UNCHANGED <<vars, fs, device, ending, hub, issuer, late>>

\* Whatever listens on the port answers, and its answer is relayed.  If nothing
\* does, the client gets 502 and may try again.
Forward(s) ==
  /\ s \in mapped /\ del[s] = "none" /\ Answering(s) # {}
  /\ del' = [del EXCEPT ![s] = "relayed"]
  /\ UNCHANGED <<vars, fs, device, ending, hub, issuer, mapped, late>>

\* "after Appium tears down its session we also release the drizz session".
Deleted(s) ==
  /\ del[s] = "relayed"
  /\ End(s)
  /\ del' = [del EXCEPT ![s] = "none"]
  /\ mapped' = mapped \ {s}
  /\ UNCHANGED <<vars, device, hub, issuer, late>>

-----------------------------------------------------------------------------
(* Sessions end in other ways, and devices are given back.                 *)

\* DELETE /api/v1/sessions/{id}.
Release(s) ==
  /\ fs[s] = "active"
  /\ "early" \in Ops \/ pc[s] # "waiting"
  /\ End(s)
  /\ UNCHANGED <<vars, device, hub, issuer, mapped, del, late>>

\* enforceTimeouts gives the device back; the server is not stopped.
TimeOut(s) ==
  /\ fs[s] = "active"
  /\ fs' = [fs EXCEPT ![s] = "timed out"]
  /\ device' = [device EXCEPT ![s] = "back"]
  /\ UNCHANGED <<vars, ending, hub, issuer, mapped, del, late>>

\* handleInstanceEvicted.
Evict(s) ==
  /\ fs[s] = "active"
  /\ "early" \in Ops \/ pc[s] # "waiting"
  /\ fs' = [fs EXCEPT ![s] = "interrupted"]
  /\ device' = [device EXCEPT ![s] = "gone"]
  /\ ending' = ending \cup {s}
  /\ UNCHANGED <<vars, hub, issuer, mapped, del, late>>

\* appium.Stop takes the entry, if there is one.
EndServer(s) ==
  /\ s \in ending
  /\ ending' = ending \ {s}
  /\ \/ Stop(s)
     \/ instances[s] = NoPort /\ UNCHANGED vars
  /\ UNCHANGED <<fs, device, hub, issuer, mapped, del, late>>

\* Mutant of GiveBack: the device goes back before the server is stopped.
GiveBackEarly(s) ==
  /\ fs[s] = "released" /\ device[s] = "held"
  /\ device' = [device EXCEPT ![s] = "back"]
  /\ UNCHANGED <<vars, fs, ending, hub, issuer, mapped, del, late>>

\* pool.Release, once Stop has killed the server.
GiveBack(s) ==
  /\ fs[s] = "released" /\ device[s] = "held" /\ s \notin ending \cup killing
  /\ device' = [device EXCEPT ![s] = "back"]
  /\ UNCHANGED <<vars, fs, ending, hub, issuer, mapped, del, late>>

\* What the manager and its processes do on their own.
Server(s) ==
  /\ Ready(s) \/ NotReady(s) \/ Kill(s) \/ Listen(s) \/ Crash(s)
  /\ UNCHANGED hubVars

HubNext ==
  \E s \in Sess :
    \/ Create(s) \/ Launch(s) \/ NoURL(s) \/ Post(s) \/ PostFails(s)
    \/ Stash(s) \/ Fail(s) \/ Forward(s) \/ Deleted(s)
    \/ Release(s) \/ TimeOut(s) \/ Evict(s) \/ EndServer(s) \/ GiveBack(s)
    \/ Server(s)

HubSpec == HubInit /\ [][HubNext]_allVars

-----------------------------------------------------------------------------
(* Properties                                                              *)

\* "We key the session ID off whatever Appium returned": the id of an active
\* session was issued by its own server, though the POST went to a port number.
IssuedByOwnServer == \A s \in mapped : fs[s] = "active" => issuer[s] = s

\* "Release so we don't leak a device": after a failed POST no session is left
\* that nobody knows of.
FailedIsOver == \A s \in Sess : hub[s] = "failed" => fs[s] # "active"

\* "maintain a local map Appium-sid -> drizz-sid so DELETE can find the right
\* drizz session to release": as long as a session a client opened is active,
\* its id leads to it.
StaysReachable ==
  \A s \in Sess : hub[s] = "open" /\ fs[s] = "active" => s \in mapped

\* Release stops Appium before the device goes back to the pool: no server drives
\* a device that its session gave back, unless the session timed out, or Create
\* launched the server when Release was past its Stop.
ServerLeavesFirst ==
  \A s \in Sess :
    Running(s) /\ device[s] = "back" => fs[s] = "timed out" \/ s \in late

-----------------------------------------------------------------------------
(* What comments of the code say and the code does not do                  *)

\* The same of sessions that are over: the id, and the device behind it, may be
\* another session's.
AlwaysIssuedByOwn == \A s \in mapped : issuer[s] = s

\* "Returns only sessions we're tracking", to "discover in-flight sessions".
ListedAreActive == \A s \in mapped : fs[s] = "active" \/ del[s] # "none"

\* DELETE: "release drizz session", also when its Appium server has crashed.
DeleteReleases ==
  \A s \in Sess : hub[s] = "open" /\ fs[s] = "active" => Answering(s) # {}

\* No server drives a device that its session gave back.
ServerLeavesAlways == \A s \in Sess : Running(s) => device[s] # "back"

\* Nor the device of a session that was released: Stop has killed its server.
ReleasedStops ==
  \A s \in Sess : Running(s) /\ device[s] = "back" => fs[s] = "timed out"
=============================================================================
