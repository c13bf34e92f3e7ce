------------------------------- MODULE Appium -------------------------------
(***************************************************************************)
(* The Appium manager (internal/appium/server.go): one server process per  *)
(* session, on a port picked by Start.                                     *)
(*                                                                         *)
(* A step is one critical section of m.mu, or something a process or the   *)
(* operating system does.  Each session is started at most once (by the    *)
(* broker) and stopped any number of times, StopAll included; its process, *)
(* its local variable port and the goroutine in Start carry its name.      *)
(***************************************************************************)
EXTENDS Integers

CONSTANTS
  Sess,   \* sessions
  Port,   \* the ports basePort .. basePort + 99
  Taken,  \* those other programs of the machine have bound, and keep
  Ops,    \* "early": Stop may come while Start waits
  NoPort

ASSUME AppiumAssumption ==
  /\ Port \subseteq Nat
  /\ Taken \subseteq Port
  /\ NoPort \notin Port
  /\ Ops \subseteq {"early"}

VARIABLES
  instances,  \* m.instances: the port of each session's entry
  usedPorts,  \* m.usedPorts
  pc,         \* Start of each session
  port,       \* its port
  proc,       \* its process: none, spawned, listening or dead
  killing     \* sessions whose entry is deleted and process about to be killed

vars == <<instances, usedPorts, pc, port, proc, killing>>

Init ==
  /\ instances = [s \in Sess |-> NoPort]
  /\ usedPorts = {}
  /\ pc = [s \in Sess |-> "idle"]
  /\ port = [s \in Sess |-> NoPort]
  /\ proc = [s \in Sess |-> "none"]
  /\ killing = {}

Running(s) == proc[s] \in {"spawned", "listening"}
Bound(p) == p \in Taken \/ \E s \in Sess : proc[s] = "listening" /\ port[s] = p

\* Mutant of Available: the map of used ports is not consulted.
AvailableUnbound(p) == p \in Port /\ ~Bound(p)

\* findFreePortLocked accepts p: neither handed out nor bound.
Available(p) == p \in Port \ usedPorts /\ ~Bound(p)

\* Start up to the unlocking of m.mu: the lowest port there is, the process is
\* spawned, its entry recorded.
Start(s) ==
  /\ pc[s] = "idle"
  /\ \E p \in Port :
       /\ Available(p) /\ \A q \in Port : Available(q) => p <= q
       /\ usedPorts' = usedPorts \cup {p}
       /\ port' = [port EXCEPT ![s] = p]
       /\ instances' = [instances EXCEPT ![s] = p]
  /\ proc' = [proc EXCEPT ![s] = "spawned"]
  /\ pc' = [pc EXCEPT ![s] = "waiting"]
  /\ UNCHANGED killing

\* No port, or the process cannot be spawned and the port is given up again.
StartFails(s) ==
  /\ pc[s] = "idle"
  /\ pc' = [pc EXCEPT ![s] = "failed"]
  /\ UNCHANGED <<instances, usedPorts, port, proc, killing>>

\* waitForPort: something accepts connections on the port.
Ready(s) ==
  /\ pc[s] = "waiting" /\ Bound(port[s])
  /\ pc' = [pc EXCEPT ![s] = "done"]
  /\ UNCHANGED <<instances, usedPorts, port, proc, killing>>

\* Mutant of NotReady: the port stays reserved.
NotReadyKeepsPort(s) ==
  /\ pc[s] = "waiting"
  /\ pc' = [pc EXCEPT ![s] = "failed"]
  /\ instances' = [instances EXCEPT ![s] = NoPort]
  /\ proc' = [proc EXCEPT ![s] = "dead"]
  /\ UNCHANGED <<usedPorts, port, killing>>

\* It did not in 30 s: "unwire so the next session can try this port".
NotReady(s) ==
  /\ pc[s] = "waiting"
  /\ pc' = [pc EXCEPT ![s] = "failed"]
  /\ instances' = [instances EXCEPT ![s] = NoPort]
  /\ usedPorts' = usedPorts \ {port[s]}
  /\ proc' = [proc EXCEPT ![s] = "dead"]
  /\ UNCHANGED <<port, killing>>

\* Stop, for a session in the map: under m.mu its entry and its port go ...
Stop(s) ==
  /\ instances[s] # NoPort
  /\ "early" \in Ops \/ pc[s] # "waiting"
  /\ instances' = [instances EXCEPT ![s] = NoPort]
  /\ usedPorts' = usedPorts \ {instances[s]}
  /\ killing' = killing \cup {s}
  /\ UNCHANGED <<pc, port, proc>>

\* ... then its process is killed.
Kill(s) ==
  /\ s \in killing
  /\ killing' = killing \ {s}
  /\ proc' = [proc EXCEPT ![s] = "dead"]
  /\ UNCHANGED <<instances, usedPorts, pc, port>>

\* A server binds its port, or exits when it is taken.
Listen(s) ==
  /\ proc[s] = "spawned"
  /\ proc' = [proc EXCEPT ![s] = IF Bound(port[s]) THEN "dead" ELSE "listening"]
  /\ UNCHANGED <<instances, usedPorts, pc, port, killing>>

Crash(s) ==
  /\ Running(s)
  /\ proc' = [proc EXCEPT ![s] = "dead"]
  /\ UNCHANGED <<instances, usedPorts, pc, port, killing>>

Next ==
  \E s \in Sess : \/ Start(s) \/ StartFails(s) \/ Ready(s) \/ NotReady(s)
                  \/ Stop(s) \/ Kill(s) \/ Listen(s) \/ Crash(s)

Spec == Init /\ [][Next]_vars

-----------------------------------------------------------------------------
(* Properties *)

\* What the manager's fields hold; a port outside its range is never reserved.
TypeOK ==
  /\ instances \in [Sess -> Port \cup {NoPort}]
  /\ usedPorts \subseteq Port
  /\ pc \in [Sess -> {"idle", "waiting", "done", "failed"}]
  /\ port \in [Sess -> Port \cup {NoPort}]
  /\ proc \in [Sess -> {"none", "spawned", "listening", "dead"}]
  /\ killing \subseteq Sess

\* usedPorts is exactly what the entries of the map use: nothing is reserved
\* for ever, whatever path Start and Stop leave by, and no entry's port is up
\* for grabs ("tracking the used set under the same mutex that guards
\* instances closes the race").
UsedPortsExact ==
  usedPorts = {instances[s] : s \in {t \in Sess : instances[t] # NoPort}}

\* "A parallel caller will pick a different port": no two sessions have
\* entries on the same port.
PortsDistinct ==
  \A s, t \in Sess : instances[s] # NoPort /\ instances[s] = instances[t] => s = t

\* waitForPort: "block the caller until Appium is actually listening".  When
\* Start succeeds, what is listening on the port is the session's own server.
OwnServer ==
  [][\A s \in Sess : pc[s] = "waiting" /\ pc'[s] = "done" => proc[s] = "listening"]_vars

\* Every server that runs is in the map or about to be killed: none outlives
\* its session.
NoOrphanServer == \A s \in Sess : Running(s) => instances[s] # NoPort \/ s \in killing
=============================================================================
