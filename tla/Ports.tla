------------------------------- MODULE Ports --------------------------------
(***************************************************************************)
(* Emulators and their port pairs (internal/android: PortAllocator and     *)
(* EmulatorDevice): the boot of an emulator takes the lowest free pair,    *)
(* its shutdown kills the process and gives the pair back.                 *)
(*                                                                         *)
(* A step is one critical section of pa.mu, a change of the pool's map of  *)
(* instances, or something an emulator process does.  A device is booted   *)
(* once (bootEmulator makes a new EmulatorDevice); Shutdown is called by   *)
(* destroyInstance, for whatever device is in the map at the time.  A kill *)
(* may fail, which Shutdown only logs.  An emulator the daemon finds       *)
(* running is adopted: the allocator never hears of it.                    *)
(***************************************************************************)
EXTENDS Integers

CONSTANTS
  Dev,    \* emulator devices
  Call,   \* calls of Shutdown
  Pair,   \* port pairs, by console port
  Ops,    \* "early": Shutdown may come while Prepare runs; "twice": it may
          \* come again; "lost": adb may not list an emulator that runs
  NoPair, NoDev

ASSUME PortsAssumption ==
  /\ Pair \subseteq Nat
  /\ NoPair \in Int \ Pair
  /\ NoDev \notin Dev
  /\ Ops \subseteq {"early", "twice", "lost"}

VARIABLES
  inUse,    \* pa.inUse
  tracked,  \* devices in the pool's map
  prep,     \* Prepare of each device
  ports,    \* d.ports
  process,  \* its process
  at,       \* where each call of Shutdown is
  dev,      \* its device
  unkilled  \* history: the emulators the system did not let the daemon kill

vars == <<inUse, tracked, prep, ports, process, at, dev, unkilled>>

Init ==
  /\ inUse = {}
  /\ tracked = {}
  /\ prep = [d \in Dev |-> "idle"]
  /\ ports = [d \in Dev |-> NoPair]
  /\ process = [d \in Dev |-> "none"]
  /\ at = [c \in Call |-> "idle"]
  /\ dev = [c \in Call |-> NoDev]
  /\ unkilled = {}

Running(d) == process[d] = "running"

\* createInstance.
Create(d) ==
  /\ prep[d] = "idle"
  /\ prep' = [prep EXCEPT ![d] = "new"]
  /\ tracked' = tracked \cup {d}
  /\ UNCHANGED <<inUse, ports, process, at, dev, unkilled>>

\* Prepare: Allocate, the lowest pair not in use.
Allocate(d) ==
  /\ prep[d] = "new"
  /\ \E p \in Pair \ inUse :
       /\ \A q \in Pair \ inUse : p <= q
       /\ inUse' = inUse \cup {p}
       /\ ports' = [ports EXCEPT ![d] = p]
  /\ prep' = [prep EXCEPT ![d] = "ports"]
  /\ UNCHANGED <<tracked, process, at, dev, unkilled>>

\* No pair is left; bootEmulator removes the instance.
AllocateFails(d) ==
  /\ prep[d] = "new" /\ Pair \subseteq inUse
  /\ prep' = [prep EXCEPT ![d] = "failed"]
  /\ tracked' = tracked \ {d}
  /\ UNCHANGED <<inUse, ports, process, at, dev, unkilled>>

\* Boot starts the process.
Boot(d) ==
  /\ prep[d] = "ports"
  /\ prep' = [prep EXCEPT ![d] = "waiting"]
  /\ process' = [process EXCEPT ![d] = "running"]
  /\ UNCHANGED <<inUse, tracked, ports, at, dev, unkilled>>

\* The process cannot be started: the pair is given back, the instance removed.
BootFails(d) ==
  /\ prep[d] = "ports"
  /\ prep' = [prep EXCEPT ![d] = "failed"]
  /\ inUse' = inUse \ {ports[d]}
  /\ tracked' = tracked \ {d}
  /\ UNCHANGED <<ports, process, at, dev, unkilled>>

\* Prepare returns, whether or not the emulator came up and was saved.
Booted(d) ==
  /\ prep[d] = "waiting"
  /\ prep' = [prep EXCEPT ![d] = "done"]
  /\ UNCHANGED <<inUse, tracked, ports, process, at, dev, unkilled>>

Die(d) ==
  /\ process[d] = "running"
  /\ process' = [process EXCEPT ![d] = "dead"]
  /\ UNCHANGED <<inUse, tracked, prep, ports, at, dev, unkilled>>

\* adoptRunningEmulators, at start or every ten seconds: an emulator that runs and
\* is not in the map is wrapped, be it somebody else's or one the pool gave up.
Adopt(d) ==
  /\ d \notin tracked
  /\ \/ /\ prep[d] = "idle"
        /\ \E p \in Pair : ports' = [ports EXCEPT ![d] = p]
        /\ prep' = [prep EXCEPT ![d] = "found"]
        /\ process' = [process EXCEPT ![d] = "running"]
     \/ /\ prep[d] \in {"done", "found", "again"} /\ Running(d)
        /\ prep' = [prep EXCEPT ![d] = IF @ = "found" THEN @ ELSE "again"]
        /\ UNCHANGED <<ports, process>>
  /\ tracked' = tracked \cup {d}
  /\ UNCHANGED <<inUse, at, dev, unkilled>>

\* watchDevice: adb no longer lists the device, whose instance is removed.
Evict(d) ==
  /\ d \in tracked /\ prep[d] \in {"done", "found", "again"}
  /\ process[d] = "dead" \/ "lost" \in Ops
  /\ tracked' = tracked \ {d}
  /\ UNCHANGED <<inUse, prep, ports, process, at, dev, unkilled>>

Adopted(d) == prep[d] \in {"found", "again"}

\* Mutant of Shutdown: the ports go before the process.
ShutdownPortsFirst(c, d) ==
  /\ at[c] = "idle" /\ d \in tracked
  /\ Adopted(d) \/ "early" \in Ops \/ prep[d] = "done"
  /\ Adopted(d) \/ "twice" \in Ops \/ \A b \in Call : dev[b] # d
  /\ at' = [at EXCEPT ![c] = IF Adopted(d) THEN "emu" ELSE "kill"]
  /\ dev' = [dev EXCEPT ![c] = d]
  /\ inUse' = inUse \ {ports[d]}
  /\ UNCHANGED <<tracked, prep, ports, process, unkilled>>

\* destroyInstance calls Shutdown for an instance it found in the map.
Shutdown(c, d) ==
  /\ at[c] = "idle" /\ d \in tracked
  /\ Adopted(d) \/ "early" \in Ops \/ prep[d] = "done"
  /\ Adopted(d) \/ "twice" \in Ops \/ \A b \in Call : dev[b] # d
  /\ at' = [at EXCEPT ![c] = IF Adopted(d) THEN "emu" ELSE "kill"]
  /\ dev' = [dev EXCEPT ![c] = d]
  /\ UNCHANGED <<inUse, tracked, prep, ports, process, unkilled>>

\* Mutant of Kill: no SIGKILL after the ten seconds.
KillTermOnly(c) ==
  /\ at[c] = "kill"
  /\ at' = [at EXCEPT ![c] = "free"]
  /\ \E alive \in BOOLEAN :
       process' = [process EXCEPT ![dev[c]] =
                     IF @ = "none" \/ alive THEN @ ELSE "dead"]
  /\ UNCHANGED <<inUse, tracked, prep, ports, dev, unkilled>>

\* The process is killed, when there is one yet; or a signal is refused, an error
\* that isProcessDone takes for success or Shutdown logs.
Kill(c) ==
  /\ at[c] = "kill"
  /\ at' = [at EXCEPT ![c] = "free"]
  /\ \/ /\ process' = [process EXCEPT ![dev[c]] = IF @ = "none" THEN @ ELSE "dead"]
        /\ UNCHANGED unkilled
     \/ /\ process[dev[c]] = "running"
        /\ unkilled' = unkilled \cup {dev[c]}
        /\ UNCHANGED process
  /\ UNCHANGED <<inUse, tracked, prep, ports, dev>>

\* The Shutdown of an adopted emulator: a command to its console, whose error
\* is dropped.  The pair is not given back.
EmuKill(c) ==
  /\ at[c] = "emu"
  /\ at' = [at EXCEPT ![c] = "drop"]
  /\ \E alive \in BOOLEAN :
       process' = [process EXCEPT ![dev[c]] = IF alive THEN @ ELSE "dead"]
  /\ UNCHANGED <<inUse, tracked, prep, ports, dev, unkilled>>

\* The pair is given back, when there is one yet; d.ports stays as it is.
Free(c) ==
  /\ at[c] = "free"
  /\ at' = [at EXCEPT ![c] = "remove"]
  /\ inUse' = inUse \ {ports[dev[c]]}
  /\ UNCHANGED <<tracked, prep, ports, process, dev, unkilled>>

\* Back in destroyInstance: removeInstance.
Remove(c) ==
  /\ \/ at[c] = "remove" /\ at' = [at EXCEPT ![c] = "done"]
     \/ at[c] = "drop" /\ at' = [at EXCEPT ![c] = "dropped"]
  /\ tracked' = tracked \ {dev[c]}
  /\ UNCHANGED <<inUse, prep, ports, process, dev, unkilled>>

Next ==
  \/ \E d \in Dev : \/ Create(d) \/ Allocate(d) \/ AllocateFails(d) \/ Boot(d)
                    \/ BootFails(d) \/ Booted(d) \/ Die(d) \/ Evict(d)
                    \/ Adopt(d)
                    \/ \E c \in Call : Shutdown(c, d)
  \/ \E c \in Call : Kill(c) \/ EmuKill(c) \/ Free(c) \/ Remove(c)

Spec == Init /\ [][Next]_vars

-----------------------------------------------------------------------------
(* Properties *)

\* What the fields hold; the allocator never leaves its range of ports.
TypeOK ==
  /\ inUse \subseteq Pair
  /\ tracked \subseteq Dev
  /\ prep \in [Dev -> {"idle", "new", "ports", "waiting", "done", "failed",
                    "found", "again"}]
  /\ ports \in [Dev -> Pair \cup {NoPair}]
  /\ process \in [Dev -> {"none", "running", "dead"}]
  /\ at \in [Call -> {"idle", "kill", "free", "remove", "done",
                   "emu", "drop", "dropped"}]
  /\ dev \in [Call -> Dev \cup {NoDev}]
  /\ unkilled \subseteq Dev
  /\ \A c \in Call : at[c] # "idle" => dev[c] \in Dev

\* The daemon booted it, and was never refused its kill.
Own(d) == prep[d] # "found" /\ d \notin unkilled

\* "Allocate reserves the next available port pair": two emulators that the daemon
\* booted and that run, tracked, given up or adopted again, never share one,
\* unless the kill of one of them failed.
OneEmulatorPerPair ==
  \A d, e \in Dev :
    /\ Own(d) /\ Running(d)
    /\ Own(e) /\ Running(e)
    /\ ports[d] = ports[e]
    => d = e

\* "Shutdown kills the emulator process": from the moment its pair can go to
\* another, the emulator does not run, nor ever will, unless its kill failed.
ShutdownIsFinal ==
  \A c \in Call : at[c] \in {"remove", "done"} /\ Own(dev[c]) => ~Running(dev[c])

\* Not so when the kill is refused, which Shutdown only logs before it gives the
\* pair to the next emulator.
PairIsItsOwn ==
  \A d, e \in Dev :
    prep[d] # "found" /\ prep[e] # "found" /\ Running(d) /\ Running(e)
    /\ ports[d] = ports[e] => d = e

\* removeInstance gives back the slot of an emulator that died, as "after a few
\* crashes the pool looked full even with nothing running": when nothing runs
\* and nothing is tracked, there is a pair to boot an emulator on.
IdleCanBoot ==
  tracked = {} /\ (\A d \in Dev : ~Running(d)) => inUse # Pair
=============================================================================
