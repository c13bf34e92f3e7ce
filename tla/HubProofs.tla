----------------------------- MODULE HubProofs ------------------------------
(***************************************************************************)
(* Theorems about Appium, and about Hub, which adds the proxy to it, for   *)
(* any sessions and ports.  The manager's bookkeeping of ports is right as *)
(* long as no session is stopped while its Start waits; that no server is  *)
(* left behind holds whatever happens.  Every step of the hub is a step of *)
(* the manager or leaves it alone, so what is proved of the manager holds  *)
(* under the hub as well.                                                  *)
(***************************************************************************)
EXTENDS Hub, TLAPS

-----------------------------------------------------------------------------
(* The manager                                                             *)

\* The entry of a session, while there is one, is for the port in Start's
\* local variable; Start finds it there when its wait is over.
EntryIsPort ==
  \A s \in Sess : /\ instances[s] \in {NoPort, port[s]}
                  /\ pc[s] = "waiting" => instances[s] # NoPort
                  /\ pc[s] = "idle" => instances[s] = NoPort

\* A server that has not bound its port is waited for, and a port belongs to one
\* session, and to no other program, from its reservation to the death of the
\* server.
Live(s) == instances[s] # NoPort \/ proc[s] = "listening"

OneOwner ==
  /\ \A s \in Sess : instances[s] \notin Taken
  /\ \A s \in Sess : proc[s] = "spawned" => pc[s] = "waiting"
  /\ \A s, t \in Sess : Live(s) /\ Live(t) /\ port[s] = port[t] => s = t

\* The fields of the manager keep their types, whatever Stop does.
THEOREM TypeCorrect == Spec => []TypeOK
<1>1. Init => TypeOK
  BY DEF Init, TypeOK
<1>2. TypeOK /\ [Next]_vars => TypeOK'
  <2> SUFFICES ASSUME TypeOK, [Next]_vars
               PROVE  TypeOK'
    OBVIOUS
  <2>1. ASSUME NEW s \in Sess, Start(s)
        PROVE  TypeOK'
    BY <2>1 DEF TypeOK, Start, Available
  <2>2. ASSUME NEW s \in Sess, StartFails(s) \/ Ready(s) \/ NotReady(s)
        PROVE  TypeOK'
    BY <2>2 DEF TypeOK, StartFails, Ready, NotReady
  <2>3. ASSUME NEW s \in Sess, Stop(s) \/ Kill(s) \/ Listen(s) \/ Crash(s)
        PROVE  TypeOK'
    BY <2>3 DEF TypeOK, Stop, Kill, Listen, Crash
    <2>4. CASE UNCHANGED vars
    BY <2>4 DEF TypeOK, vars
  <2> QED
    BY <2>1, <2>2, <2>3, <2>4 DEF Next
<1> QED
  BY <1>1, <1>2, PTL DEF Spec

\* The entries and Start's local variables agree when Stop does not come in
\* Start's wait.
LEMMA EntriesKept ==
  ASSUME "early" \notin Ops, TypeOK, EntryIsPort, [Next]_vars
  PROVE  EntryIsPort'
<1>1. ASSUME NEW s \in Sess, Start(s)
      PROVE  EntryIsPort'
  BY <1>1, AppiumAssumption DEF TypeOK, EntryIsPort, Start, Available
<1>2. ASSUME NEW s \in Sess, StartFails(s) \/ Ready(s) \/ NotReady(s)
      PROVE  EntryIsPort'
  BY <1>2 DEF TypeOK, EntryIsPort, StartFails, Ready, NotReady
<1>3. ASSUME NEW s \in Sess, Stop(s)
      PROVE  EntryIsPort'
  BY <1>3 DEF TypeOK, EntryIsPort, Stop
<1>4. ASSUME NEW s \in Sess, Kill(s) \/ Listen(s) \/ Crash(s)
      PROVE  EntryIsPort'
  BY <1>4 DEF EntryIsPort, Kill, Listen, Crash
<1>5. CASE UNCHANGED vars
  BY <1>5 DEF EntryIsPort, vars
<1> QED
  BY <1>1, <1>2, <1>3, <1>4, <1>5 DEF Next

\* One step keeps the set of used ports in line with the entries, and the
\* entries apart.
LEMMA PortsKept ==
  ASSUME TypeOK, EntryIsPort, UsedPortsExact, PortsDistinct, [Next]_vars
  PROVE  UsedPortsExact' /\ PortsDistinct'
<1>1. ASSUME NEW s \in Sess, Start(s)
      PROVE  UsedPortsExact' /\ PortsDistinct'
  <2>1. instances[s] = NoPort
    BY <1>1 DEF Start, EntryIsPort
  <2>2. PICK p \in Port \ usedPorts :
               /\ usedPorts' = usedPorts \cup {p}
               /\ instances' = [instances EXCEPT ![s] = p]
    BY <1>1 DEF Start, Available
  <2>3. UsedPortsExact'
    BY <2>1, <2>2, AppiumAssumption DEF TypeOK, UsedPortsExact
  <2>4. PortsDistinct'
    BY <2>1, <2>2 DEF TypeOK, UsedPortsExact, PortsDistinct
  <2> QED
    BY <2>3, <2>4
<1>2. ASSUME NEW s \in Sess, NotReady(s)
      PROVE  UsedPortsExact' /\ PortsDistinct'
  <2>1. instances[s] = port[s] /\ instances[s] # NoPort
    BY <1>2 DEF NotReady, EntryIsPort
  <2> QED
    BY <1>2, <2>1 DEF TypeOK, UsedPortsExact, PortsDistinct, NotReady
<1>3. ASSUME NEW s \in Sess, Stop(s)
      PROVE  UsedPortsExact' /\ PortsDistinct'
  BY <1>3 DEF TypeOK, UsedPortsExact, PortsDistinct, Stop
<1>4. ASSUME UNCHANGED <<instances, usedPorts>>
      PROVE  UsedPortsExact' /\ PortsDistinct'
  BY <1>4 DEF UsedPortsExact, PortsDistinct
<1> QED
  BY <1>1, <1>2, <1>3, <1>4
  DEF Next, vars, StartFails, Ready, Kill, Listen, Crash

\* Ports as long as no session is stopped while its Start waits: what is
\* reserved is what the entries use, and no two entries share a port.
THEOREM PortsExact ==
  ASSUME "early" \notin Ops
  PROVE  Spec => [](UsedPortsExact /\ PortsDistinct)
<1> DEFINE IInv == EntryIsPort /\ UsedPortsExact /\ PortsDistinct
<1>1. Init => IInv
  BY DEF Init, EntryIsPort, UsedPortsExact, PortsDistinct
<1>2. TypeOK /\ IInv /\ [Next]_vars => IInv'
  BY EntriesKept, PortsKept
<1>3. Spec => []TypeOK
  BY TypeCorrect
<1> QED
  BY <1>1, <1>2, <1>3, PTL DEF Spec

\* One step keeps a port with one session until its server is dead.
LEMMA OwnerKept ==
  ASSUME "early" \notin Ops, TypeOK, EntryIsPort, UsedPortsExact, OneOwner, [Next]_vars
  PROVE  OneOwner'
<1> USE DEF TypeOK, EntryIsPort, OneOwner, Live
<1>1. ASSUME NEW s \in Sess, Start(s)
      PROVE  OneOwner'
  <2>1. PICK p \in Port : /\ Available(p)
                          /\ port' = [port EXCEPT ![s] = p]
                          /\ instances' = [instances EXCEPT ![s] = p]
    BY <1>1 DEF Start
  <2>2. \A t \in Sess : Live(t) => port[t] # p
    BY <2>1 DEF Available, Bound, UsedPortsExact
  <2> QED
    BY <1>1, <2>1, <2>2, AppiumAssumption DEF Start, Available, Bound
<1>2. ASSUME NEW s \in Sess, StartFails(s)
      PROVE  OneOwner'
  BY <1>2 DEF StartFails
<1>3. ASSUME NEW s \in Sess, Ready(s)
      PROVE  OneOwner'
  BY <1>3 DEF Ready, Bound
<1>4. ASSUME NEW s \in Sess, NotReady(s)
      PROVE  OneOwner'
  BY <1>4, AppiumAssumption DEF NotReady
<1>5. ASSUME NEW s \in Sess, Stop(s)
      PROVE  OneOwner'
  BY <1>5, AppiumAssumption DEF Stop
<1>6. ASSUME NEW s \in Sess, Kill(s) \/ Crash(s)
      PROVE  OneOwner'
  BY <1>6 DEF Kill, Crash
<1>7. ASSUME NEW s \in Sess, Listen(s)
      PROVE  OneOwner'
  BY <1>7 DEF Listen
<1>8. CASE UNCHANGED vars
  BY <1>8 DEF vars
<1> QED
  BY <1>1, <1>2, <1>3, <1>4, <1>5, <1>6, <1>7, <1>8 DEF Next

\* waitForPort speaks for the session's own server: when nobody stops a session
\* that is starting, what answers on the
\* port when Start returns is the process Start spawned.
THEOREM ReadyIsOwn == ASSUME "early" \notin Ops PROVE Spec => OwnServer
<1> DEFINE IInv == EntryIsPort /\ UsedPortsExact /\ PortsDistinct /\ OneOwner
           Own == \A s \in Sess :
                    pc[s] = "waiting" /\ pc'[s] = "done" => proc[s] = "listening"
<1>1. Init => IInv
  BY AppiumAssumption
  DEF Init, EntryIsPort, UsedPortsExact, PortsDistinct, OneOwner, Live
<1>2. TypeOK /\ IInv /\ [Next]_vars => IInv'
  BY EntriesKept, PortsKept, OwnerKept
<1>3. TypeOK /\ IInv /\ [Next]_vars => [Own]_vars
  <2> SUFFICES ASSUME TypeOK, IInv, Next, NEW s \in Sess,
                      pc[s] = "waiting", pc'[s] = "done"
               PROVE  proc[s] = "listening"
    BY DEF vars
  <2>1. Ready(s)
    BY DEF TypeOK, Next, Start, StartFails, Ready, NotReady, Stop, Kill, Listen,
           Crash
  <2> QED
    BY <2>1 DEF Ready, Bound, EntryIsPort, OneOwner, Live
<1>4. Spec => []TypeOK
  BY TypeCorrect
<1> QED
  BY <1>1, <1>2, <1>3, <1>4, PTL DEF Spec, OwnServer

\* No server outlives its entry: Stop and Start's not-ready path take the entry
\* and kill the process, whatever they meet.
THEOREM NoneLeftBehind == Spec => []NoOrphanServer
<1>1. Init => NoOrphanServer
  BY DEF Init, NoOrphanServer, Running
<1>2. TypeOK /\ NoOrphanServer /\ [Next]_vars => NoOrphanServer'
  <2> SUFFICES ASSUME TypeOK, NoOrphanServer, [Next]_vars
               PROVE  NoOrphanServer'
    OBVIOUS
  <2> USE DEF TypeOK, NoOrphanServer, Running
  <2>1. ASSUME NEW s \in Sess, Start(s)
        PROVE  NoOrphanServer'
    BY <2>1, AppiumAssumption DEF Start
  <2>2. ASSUME NEW s \in Sess, StartFails(s) \/ Ready(s) \/ NotReady(s)
        PROVE  NoOrphanServer'
    BY <2>2 DEF StartFails, Ready, NotReady
  <2>3. ASSUME NEW s \in Sess, Stop(s) \/ Kill(s) \/ Crash(s)
        PROVE  NoOrphanServer'
    BY <2>3 DEF Stop, Kill, Crash
  <2>4. ASSUME NEW s \in Sess, Listen(s)
        PROVE  NoOrphanServer'
    BY <2>4 DEF Listen
    <2>5. CASE UNCHANGED vars
    BY <2>5 DEF vars
  <2> QED
    BY <2>1, <2>2, <2>3, <2>4, <2>5 DEF Next
<1>3. Spec => []TypeOK
  BY TypeCorrect
<1> QED
  BY <1>1, <1>2, <1>3, PTL DEF Spec

-----------------------------------------------------------------------------
(* The hub                                                                 *)

\* What the variables of the hub hold.
HubTypes ==
  /\ fs \in [Sess -> {"none", "active", "released", "timed out", "interrupted"}]
  /\ device \in [Sess -> {"none", "held", "back", "gone"}]
  /\ hub \in [Sess -> {"idle", "starting", "answer", "failing", "open", "failed"}]
  /\ issuer \in [Sess -> Sess \cup {None}]
  /\ del \in [Sess -> {"none", "relayed"}]
  /\ ending \subseteq Sess /\ mapped \subseteq Sess /\ late \subseteq Sess

\* An active session has its device, and nobody stops its server; a session that
\* gave its device back is over and past its Stop.
ActiveHolds ==
  \A s \in Sess :
    /\ hub[s] = "idle" => fs[s] = "none" /\ s \notin ending
    /\ fs[s] = "active" => device[s] = "held" /\ s \notin ending
    /\ device[s] = "back" => fs[s] \in {"released", "timed out"} /\ s \notin ending

\* The server of a session that was released is dead, about to be killed or about
\* to be stopped, unless it was launched when all that was over.
ReleasedEnds ==
  \A s \in Sess :
    fs[s] = "released" /\ Running(s) => s \in ending \cup killing \cup late

\* The server of an active session has its entry once Start has returned.
EntryWhileActive ==
  \A s \in Sess :
    /\ hub[s] = "idle" => pc[s] = "idle"
    /\ fs[s] = "active" /\ pc[s] = "done" => instances[s] # NoPort

\* The id is the own server's as soon as there is one.
IssuedOwn ==
  /\ \A s \in Sess : hub[s] \in {"answer", "open"} /\ fs[s] = "active" => issuer[s] = s
  /\ \A s \in mapped : hub[s] = "open"

-----------------------------------------------------------------------------

\* A step of the hub is one of the manager, or none.
LEMMA StepOfManager == ASSUME [HubNext]_allVars PROVE [Next]_vars
<1>1. ASSUME NEW s \in Sess, Launch(s)
      PROVE  Next
  BY <1>1 DEF Launch, Next
<1>2. ASSUME NEW s \in Sess, EndServer(s)
      PROVE  [Next]_vars
  BY <1>2 DEF EndServer, Next
<1>3. ASSUME NEW s \in Sess, Server(s)
      PROVE  Next
  BY <1>3 DEF Server, Next
<1>4. ASSUME NEW s \in Sess,
             \/ Create(s) \/ NoURL(s) \/ Post(s) \/ PostFails(s) \/ Stash(s)
             \/ Fail(s) \/ Forward(s) \/ Deleted(s) \/ Release(s) \/ TimeOut(s) \/ Evict(s)
             \/ GiveBack(s)
      PROVE  UNCHANGED vars
  BY <1>4 DEF Create, NoURL, Post, PostFails, Stash, Fail, Forward, Deleted, Release,
              TimeOut, Evict, GiveBack
<1>5. CASE UNCHANGED allVars
  BY <1>5 DEF allVars
<1> QED
  BY <1>1, <1>2, <1>3, <1>4, <1>5 DEF HubNext

\* The hub implements the manager of Appium servers: whatever is proved of the
\* manager is true under the hub.
THEOREM ImplementsAppium == HubSpec => Spec
<1>1. HubInit => Init
  BY DEF HubInit
<1>2. [HubNext]_allVars => [Next]_vars
  BY StepOfManager
<1> QED
  BY <1>1, <1>2, PTL DEF HubSpec, Spec

\* One step of the hub keeps the types of its variables.
LEMMA HubTypesKept ==
  ASSUME HubTypes, [HubNext]_allVars
  PROVE  HubTypes'
<1>1. ASSUME NEW s \in Sess, Create(s) \/ Launch(s)
      PROVE  HubTypes'
  BY <1>1 DEF HubTypes, Create, Launch
<1>2. ASSUME NEW s \in Sess, NoURL(s) \/ PostFails(s) \/ Stash(s)
      PROVE  HubTypes'
  BY <1>2 DEF HubTypes, NoURL, PostFails, Stash
<1>7. ASSUME NEW s \in Sess, Post(s)
      PROVE  HubTypes'
  BY <1>7 DEF HubTypes, Post, Answering
<1>8. ASSUME NEW s \in Sess, Fail(s)
      PROVE  HubTypes'
  BY <1>8 DEF HubTypes, Fail, End
<1>3. ASSUME NEW s \in Sess, Forward(s) \/ Deleted(s) \/ Release(s)
      PROVE  HubTypes'
  BY <1>3 DEF HubTypes, Forward, Deleted, Release, End
<1>4. ASSUME NEW s \in Sess, TimeOut(s) \/ Evict(s) \/ EndServer(s) \/ GiveBack(s)
      PROVE  HubTypes'
  BY <1>4 DEF HubTypes, TimeOut, Evict, EndServer, GiveBack
<1>5. ASSUME NEW s \in Sess, Server(s)
      PROVE  HubTypes'
  BY <1>5 DEF HubTypes, Server, hubVars
<1>6. CASE UNCHANGED allVars
  BY <1>6 DEF HubTypes, allVars, hubVars
<1> QED
  BY <1>1, <1>2, <1>3, <1>4, <1>5, <1>6, <1>7, <1>8 DEF HubNext

\* What the hub records of a POST, a DELETE and the end of a session keeps its type.
THEOREM HubTypeCorrect == HubSpec => []HubTypes
<1>1. HubInit => HubTypes
  BY DEF HubInit, HubTypes
<1> QED
  BY <1>1, HubTypesKept, PTL DEF HubSpec

\* After a failed POST no session is left that nobody knows of: "release so we
\* don't leak a device".
THEOREM FailedReleased == HubSpec => []FailedIsOver
<1>1. HubInit => FailedIsOver
  BY DEF HubInit, FailedIsOver
<1>2. HubTypes /\ FailedIsOver /\ [HubNext]_allVars => FailedIsOver'
  <2> SUFFICES ASSUME HubTypes, FailedIsOver, [HubNext]_allVars
               PROVE  FailedIsOver'
    OBVIOUS
  <2> USE DEF HubTypes, FailedIsOver
  <2>1. ASSUME NEW s \in Sess, Create(s)
        PROVE  FailedIsOver'
    BY <2>1 DEF Create
  <2>2. ASSUME NEW s \in Sess, NoURL(s) \/ Post(s) \/ PostFails(s) \/ Stash(s)
        PROVE  FailedIsOver'
    BY <2>2 DEF NoURL, Post, PostFails, Stash
  <2>3. ASSUME NEW s \in Sess, Fail(s)
        PROVE  FailedIsOver'
    BY <2>3 DEF Fail, End
  <2>4. ASSUME NEW s \in Sess, Deleted(s) \/ Release(s)
        PROVE  FailedIsOver'
    BY <2>4 DEF Deleted, Release, End
  <2>5. ASSUME NEW s \in Sess, TimeOut(s) \/ Evict(s)
        PROVE  FailedIsOver'
    BY <2>5 DEF TimeOut, Evict
  <2>6. ASSUME UNCHANGED <<fs, hub>>
        PROVE  FailedIsOver'
    BY <2>6
  <2> QED
    BY <2>1, <2>2, <2>3, <2>4, <2>5, <2>6
    DEF HubNext, Launch, Forward, EndServer, GiveBack, Server, hubVars, allVars
<1> QED
  BY <1>1, <1>2, HubTypeCorrect, PTL DEF HubSpec

\* The id of a session that a client opened leads to it as long as it is active:
\* the map loses an id only when DELETE has ended the session.
THEOREM Reachable == HubSpec => []StaysReachable
<1>1. HubInit => StaysReachable
  BY DEF HubInit, StaysReachable
<1>2. HubTypes /\ StaysReachable /\ [HubNext]_allVars => StaysReachable'
  <2> SUFFICES ASSUME HubTypes, StaysReachable, [HubNext]_allVars
               PROVE  StaysReachable'
    OBVIOUS
  <2> USE DEF HubTypes, StaysReachable
  <2>1. ASSUME NEW s \in Sess, Create(s)
        PROVE  StaysReachable'
    BY <2>1 DEF Create
  <2>2. ASSUME NEW s \in Sess, NoURL(s) \/ Post(s) \/ PostFails(s) \/ Stash(s)
        PROVE  StaysReachable'
    BY <2>2 DEF NoURL, Post, PostFails, Stash
  <2>3. ASSUME NEW s \in Sess, Fail(s) \/ Release(s)
        PROVE  StaysReachable'
    BY <2>3 DEF Fail, Release, End
  <2>4. ASSUME NEW s \in Sess, Deleted(s)
        PROVE  StaysReachable'
    BY <2>4 DEF Deleted, End
  <2>5. ASSUME NEW s \in Sess, TimeOut(s) \/ Evict(s)
        PROVE  StaysReachable'
    BY <2>5 DEF TimeOut, Evict
  <2>6. ASSUME UNCHANGED <<fs, hub, mapped>>
        PROVE  StaysReachable'
    BY <2>6
  <2> QED
    BY <2>1, <2>2, <2>3, <2>4, <2>5, <2>6
    DEF HubNext, Launch, Forward, EndServer, GiveBack, Server, hubVars, allVars
<1> QED
  BY <1>1, <1>2, HubTypeCorrect, PTL DEF HubSpec

-----------------------------------------------------------------------------

\* An active session keeps its device and its server.
LEMMA ActiveKept ==
  ASSUME HubTypes, ActiveHolds, [HubNext]_allVars
  PROVE  ActiveHolds'
<1> USE DEF HubTypes, ActiveHolds
<1>1. ASSUME NEW s \in Sess, Create(s)
      PROVE  ActiveHolds'
  BY <1>1 DEF Create
<1>2. ASSUME NEW s \in Sess, NoURL(s) \/ Post(s) \/ PostFails(s) \/ Stash(s)
      PROVE  ActiveHolds'
  BY <1>2 DEF NoURL, Post, PostFails, Stash
<1>3. ASSUME NEW s \in Sess, Fail(s)
      PROVE  ActiveHolds'
  BY <1>3 DEF Fail, End
<1>4. ASSUME NEW s \in Sess, End(s), UNCHANGED <<device, hub>>
      PROVE  ActiveHolds'
  <2>1. CASE fs[s] = "active"
    <3>1. hub[s] # "idle"
      BY <2>1
    <3>2. fs' = [fs EXCEPT ![s] = "released"] /\ ending' = ending \cup {s}
      BY <1>4, <2>1 DEF End
    <3>3. \A t \in Sess :
            /\ hub'[t] = "idle" => fs'[t] = "none" /\ t \notin ending'
            /\ fs'[t] = "active" => device'[t] = "held" /\ t \notin ending'
      BY <1>4, <3>1, <3>2
    <3>4. \A t \in Sess :
            device'[t] = "back" => fs'[t] \in {"released", "timed out"} /\ t \notin ending'
      BY <1>4, <2>1, <3>2
    <3> QED
      BY <3>3, <3>4
  <2>2. CASE fs[s] # "active"
    BY <1>4, <2>2 DEF End
  <2> QED
    BY <2>1, <2>2
<1>5. ASSUME NEW s \in Sess, TimeOut(s)
      PROVE  ActiveHolds'
  BY <1>5 DEF TimeOut
<1>6. ASSUME NEW s \in Sess, Evict(s)
      PROVE  ActiveHolds'
  BY <1>6 DEF Evict
<1>7. ASSUME NEW s \in Sess, EndServer(s) \/ GiveBack(s)
      PROVE  ActiveHolds'
  BY <1>7 DEF EndServer, GiveBack
<1>8. ASSUME UNCHANGED <<fs, device, ending, hub>>
      PROVE  ActiveHolds'
  BY <1>8
<1> QED
  BY <1>1, <1>2, <1>3, <1>4, <1>5, <1>6, <1>7, <1>8
  DEF HubNext, Launch, Deleted, Release, Forward, Server, hubVars, allVars

\* Release marks the session, stops the server and gives the device back, in this
\* order: a released session is known to whoever is to kill its server.
LEMMA EndsKept ==
  ASSUME TypeOK, NoOrphanServer, HubTypes, ReleasedEnds, [HubNext]_allVars
  PROVE  ReleasedEnds'
<1> USE DEF TypeOK, HubTypes, ReleasedEnds, Running
<1>1. ASSUME NEW s \in Sess, Launch(s)
      PROVE  ReleasedEnds'
  <2>1. CASE Start(s)
    <3>1. /\ fs' = fs /\ ending' = ending /\ killing' = killing
          /\ fs[s] = "released" => s \in ending' \cup late'
      BY <1>1, <2>1 DEF Launch, Start
    <3>2. late \subseteq late' /\ \A t \in Sess : t # s => proc'[t] = proc[t]
      BY <1>1, <2>1 DEF Launch, Start
    <3> QED
      BY <3>1, <3>2
  <2>2. CASE StartFails(s)
    BY <1>1, <2>2 DEF Launch, StartFails
  <2> QED
    BY <1>1, <2>1, <2>2 DEF Launch
<1>8. ASSUME NEW s \in Sess, Create(s)
      PROVE  ReleasedEnds'
  BY <1>8 DEF Create, vars
<1>2. ASSUME NEW s \in Sess, Fail(s) \/ Deleted(s) \/ Release(s)
      PROVE  ReleasedEnds'
  BY <1>2 DEF Fail, Deleted, Release, End, vars
<1>3. ASSUME NEW s \in Sess, TimeOut(s)
      PROVE  ReleasedEnds'
  BY <1>3 DEF TimeOut, vars
<1>7. ASSUME NEW s \in Sess, Evict(s)
      PROVE  ReleasedEnds'
  BY <1>7 DEF Evict, vars
<1>4. ASSUME NEW s \in Sess, EndServer(s)
      PROVE  ReleasedEnds'
  <2>1. CASE Stop(s)
    BY <1>4, <2>1 DEF EndServer, Stop
  <2>2. CASE instances[s] = NoPort /\ UNCHANGED vars
    BY <1>4, <2>2 DEF EndServer, NoOrphanServer, vars
  <2> QED
    BY <1>4, <2>1, <2>2 DEF EndServer
<1>5. ASSUME NEW s \in Sess, Server(s)
      PROVE  ReleasedEnds'
  <2>1. UNCHANGED <<fs, ending, late>>
    BY <1>5 DEF Server, hubVars
  <2>2. CASE Ready(s) \/ NotReady(s) \/ Crash(s)
    BY <2>1, <2>2 DEF Ready, NotReady, Crash
  <2>3. CASE Kill(s)
    BY <2>1, <2>3 DEF Kill
  <2>4. CASE Listen(s)
    BY <2>1, <2>4 DEF Listen
  <2> QED
    BY <1>5, <2>2, <2>3, <2>4 DEF Server
<1>6. ASSUME UNCHANGED <<fs, ending, proc, killing, late>>
      PROVE  ReleasedEnds'
  BY <1>6
<1> QED
  BY <1>1, <1>2, <1>3, <1>4, <1>5, <1>6, <1>7, <1>8
  DEF HubNext, NoURL, Post, PostFails, Stash, Forward, GiveBack, vars, hubVars, allVars

\* Appium is stopped before the device goes back to the pool, so that no server
\* drives the device of the next session, unless the session timed out or its
\* server was launched when its Stop was over.
THEOREM ServerFirst == HubSpec => []ServerLeavesFirst
<1> DEFINE IInv == ActiveHolds /\ ReleasedEnds /\ ServerLeavesFirst
<1>1. HubInit => IInv
  BY DEF HubInit, Init, ActiveHolds, ReleasedEnds, ServerLeavesFirst, Running
<1>2. TypeOK /\ NoOrphanServer /\ HubTypes /\ IInv /\ [HubNext]_allVars => IInv'
  <2> SUFFICES ASSUME TypeOK, NoOrphanServer, HubTypes, IInv, [HubNext]_allVars
               PROVE  ServerLeavesFirst'
    BY ActiveKept, EndsKept
  <2> USE DEF TypeOK, HubTypes, ServerLeavesFirst, Running
  <2>1. ASSUME NEW s \in Sess, Launch(s)
        PROVE  ServerLeavesFirst'
    <3>1. CASE Start(s)
      BY <2>1, <3>1 DEF Launch, Start, ActiveHolds
    <3>2. CASE StartFails(s)
      BY <2>1, <3>2 DEF Launch, StartFails
    <3> QED
      BY <2>1, <3>1, <3>2 DEF Launch
  <2>8. ASSUME NEW s \in Sess, Create(s)
        PROVE  ServerLeavesFirst'
    BY <2>8 DEF Create, vars
  <2>2. ASSUME NEW s \in Sess, Fail(s) \/ Deleted(s) \/ Release(s)
        PROVE  ServerLeavesFirst'
    BY <2>2 DEF Fail, Deleted, Release, End, ActiveHolds, vars
  <2>3. ASSUME NEW s \in Sess, TimeOut(s)
        PROVE  ServerLeavesFirst'
    BY <2>3 DEF TimeOut, vars
  <2>4. ASSUME NEW s \in Sess, Evict(s)
        PROVE  ServerLeavesFirst'
    BY <2>4 DEF Evict, vars
  <2>5. ASSUME NEW s \in Sess, GiveBack(s)
        PROVE  ServerLeavesFirst'
    BY <2>5 DEF GiveBack, ReleasedEnds, vars
  <2>6. ASSUME NEW s \in Sess, Server(s)
        PROVE  ServerLeavesFirst'
    BY <2>6 DEF Server, hubVars, Ready, NotReady, Kill, Listen, Crash
  <2>7. ASSUME UNCHANGED <<fs, device, proc, late>>
        PROVE  ServerLeavesFirst'
    BY <2>7
  <2> QED
    BY <2>1, <2>2, <2>3, <2>4, <2>5, <2>6, <2>7, <2>8
    DEF HubNext, NoURL, Post, PostFails, Stash, Forward, EndServer, Stop, vars, allVars,
        hubVars
<1>3. HubSpec => []TypeOK
  BY ImplementsAppium, TypeCorrect, PTL
<1>4. HubSpec => []NoOrphanServer
  BY ImplementsAppium, NoneLeftBehind, PTL
<1> QED
  BY <1>1, <1>2, <1>3, <1>4, HubTypeCorrect, PTL DEF HubSpec

-----------------------------------------------------------------------------

\* An active session whose Start succeeded has its entry: only the end of a
\* session takes it away.
LEMMA EntryKept ==
  ASSUME TypeOK, EntryIsPort, HubTypes, ActiveHolds, EntryWhileActive,
         [HubNext]_allVars
  PROVE  EntryWhileActive'
<1> USE DEF TypeOK, HubTypes, EntryWhileActive
<1>1. ASSUME NEW s \in Sess, Launch(s)
      PROVE  EntryWhileActive'
  <2>1. CASE Start(s)
    BY <1>1, <2>1, AppiumAssumption DEF Launch, Start
  <2>2. CASE StartFails(s)
    BY <1>1, <2>2 DEF Launch, StartFails
  <2> QED
    BY <1>1, <2>1, <2>2 DEF Launch
<1>8. ASSUME NEW s \in Sess, Create(s)
      PROVE  EntryWhileActive'
  BY <1>8 DEF Create, vars
<1>2. ASSUME NEW s \in Sess, Fail(s) \/ Deleted(s) \/ Release(s)
      PROVE  EntryWhileActive'
  BY <1>2 DEF Fail, Deleted, Release, End, vars
<1>3. ASSUME NEW s \in Sess, TimeOut(s) \/ Evict(s)
      PROVE  EntryWhileActive'
  BY <1>3 DEF TimeOut, Evict, vars
<1>4. ASSUME NEW s \in Sess, EndServer(s)
      PROVE  EntryWhileActive'
  <2>1. UNCHANGED <<fs, pc, hub>> /\ fs[s] # "active"
    BY <1>4 DEF EndServer, ActiveHolds, Stop, vars
  <2>2. \A t \in Sess \ {s} : instances'[t] = instances[t]
    BY <1>4 DEF EndServer, Stop, vars
  <2> QED
    BY <2>1, <2>2
<1>5. ASSUME NEW s \in Sess, Ready(s), UNCHANGED hubVars
      PROVE  EntryWhileActive'
  BY <1>5 DEF Ready, EntryIsPort, hubVars
<1>6. ASSUME NEW s \in Sess, NotReady(s), UNCHANGED hubVars
      PROVE  EntryWhileActive'
  BY <1>6 DEF NotReady, hubVars
<1>9. ASSUME NEW s \in Sess, NoURL(s) \/ Post(s) \/ PostFails(s) \/ Stash(s)
      PROVE  EntryWhileActive'
  <2>1. UNCHANGED <<fs, pc, instances>>
    BY <1>9 DEF NoURL, Post, PostFails, Stash, vars
  <2>2. hub[s] # "idle" /\ \A t \in Sess \ {s} : hub'[t] = hub[t]
    BY <1>9 DEF NoURL, Post, PostFails, Stash
  <2>3. hub'[s] # "idle"
    BY <1>9 DEF NoURL, Post, PostFails, Stash
  <2> QED
    BY <2>1, <2>2, <2>3
<1>7. ASSUME UNCHANGED <<fs, pc, instances, hub>>
      PROVE  EntryWhileActive'
  BY <1>7
<1> QED
  BY <1>1, <1>2, <1>3, <1>4, <1>5, <1>6, <1>7, <1>8, <1>9
  DEF HubNext, NoURL, Post, PostFails, Stash, Forward, GiveBack, Server, Kill, Listen,
      Crash, vars, hubVars, allVars

\* What answers a POST is the server of the session: it has an entry, and a port
\* has one owner.
LEMMA IssuedKept ==
  ASSUME HubTypes, EntryWhileActive, OneOwner, IssuedOwn, [HubNext]_allVars
  PROVE  IssuedOwn'
<1> USE DEF HubTypes, IssuedOwn
<1>1. ASSUME NEW s \in Sess, Create(s)
      PROVE  IssuedOwn'
  BY <1>1 DEF Create
<1>2. ASSUME NEW s \in Sess, NoURL(s) \/ PostFails(s)
      PROVE  IssuedOwn'
  BY <1>2 DEF NoURL, PostFails
<1>3. ASSUME NEW s \in Sess, Post(s)
      PROVE  IssuedOwn'
  <2>1. PICK t \in Answering(s) : issuer' = [issuer EXCEPT ![s] = t]
    BY <1>3 DEF Post
  <2>2. fs[s] = "active" => t = s
    <3>1. /\ t \in Sess /\ proc[t] = "listening" /\ port[t] = port[s]
          /\ pc[s] = "done"
      BY <1>3, <2>1 DEF Post, Answering
    <3>2. fs[s] = "active" => instances[s] # NoPort
      BY <3>1 DEF EntryWhileActive
    <3> QED
      BY <3>1, <3>2 DEF OneOwner, Live
  <2> QED
    BY <1>3, <2>1, <2>2 DEF Post, Answering
<1>4. ASSUME NEW s \in Sess, Stash(s)
      PROVE  IssuedOwn'
  BY <1>4 DEF Stash
<1>5. ASSUME NEW s \in Sess, Fail(s)
      PROVE  IssuedOwn'
  BY <1>5 DEF Fail, End
<1>6. ASSUME NEW s \in Sess, Deleted(s)
      PROVE  IssuedOwn'
  BY <1>6 DEF Deleted, End
<1>7. ASSUME NEW s \in Sess, Release(s)
      PROVE  IssuedOwn'
  BY <1>7 DEF Release, End
<1>8. ASSUME NEW s \in Sess, TimeOut(s) \/ Evict(s)
      PROVE  IssuedOwn'
  BY <1>8 DEF TimeOut, Evict
<1>9. ASSUME UNCHANGED <<fs, hub, issuer, mapped>>
      PROVE  IssuedOwn'
  BY <1>9
<1> QED
  BY <1>1, <1>2, <1>3, <1>4, <1>5, <1>6, <1>7, <1>8, <1>9
  DEF HubNext, Launch, Forward, EndServer, GiveBack, Server, hubVars, allVars

\* The id of an active session was issued by its own server, though the hub sends
\* the POST to a port number: as long as no session is released while its Start
\* waits.
THEOREM IdIsOwn == ASSUME "early" \notin Ops PROVE HubSpec => []IssuedByOwnServer
<1> DEFINE IInv == /\ EntryIsPort /\ UsedPortsExact /\ PortsDistinct /\ OneOwner
                   /\ ActiveHolds /\ EntryWhileActive /\ IssuedOwn
<1>1. HubInit => IInv
  <2> SUFFICES ASSUME HubInit PROVE IInv
    OBVIOUS
  <2>1. EntryIsPort /\ UsedPortsExact /\ PortsDistinct /\ OneOwner
    BY AppiumAssumption
    DEF HubInit, Init, EntryIsPort, UsedPortsExact, PortsDistinct, OneOwner, Live
  <2>2. ActiveHolds /\ EntryWhileActive /\ IssuedOwn
    BY DEF HubInit, Init, ActiveHolds, EntryWhileActive, IssuedOwn
  <2> QED
    BY <2>1, <2>2
<1>2. TypeOK /\ HubTypes /\ IInv /\ [HubNext]_allVars => IInv'
  BY StepOfManager, EntriesKept, PortsKept, OwnerKept, ActiveKept, EntryKept, IssuedKept
<1>3. HubTypes /\ IInv => IssuedByOwnServer
  BY DEF HubTypes, IssuedOwn, IssuedByOwnServer
<1>4. HubSpec => []TypeOK
  BY ImplementsAppium, TypeCorrect, PTL
<1> QED
  BY <1>1, <1>2, <1>3, <1>4, HubTypeCorrect, PTL DEF HubSpec
=============================================================================
