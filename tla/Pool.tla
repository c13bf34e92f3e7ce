-------------------------------- MODULE Pool --------------------------------
(***************************************************************************)
(* The device pool (internal/pool/pool.go, instance.go): the map of        *)
(* instances, the semaphore of MaxConcurrent slots, allocation of warm     *)
(* devices, boot on demand, release and reset, eviction by the adb         *)
(* watchdog, and the maintenance loop.                                     *)
(*                                                                         *)
(* A step is one critical section (p.mu, avdMu, an instance's own mutex,   *)
(* one channel operation) or one external call that returned.  Request     *)
(* goroutines are the elements of Client; each reset and each watchDevice  *)
(* goroutine belongs to one instance; maintenance is one goroutine.  What  *)
(* adb, the emulator and the clock answer is an input.                     *)
(*                                                                         *)
(* Abstracted: which warm device is preferred (profiles) is a choice among *)
(* the eligible ones, and so is the AVD picked; the two consecutive misses *)
(* of watchDevice are one; removeInstance's delete and its non-blocking    *)
(* slot release are one step (no step reads both).                         *)
(***************************************************************************)
EXTENDS Integers, FiniteSets, DeviceState

CONSTANTS
  Client,         \* request goroutines: API calls and broker drains
  Inst,           \* instance ids createInstance may draw (bounds the run)
  AVD,            \* the AVDs installed on the machine
  Phone,          \* phones that may be plugged in
  MaxConcurrent,  \* cfg.Pool.MaxConcurrent
  Ops,            \* the operations callers and the environment exercise
  None            \* no instance, no AVD, no lock holder

AllOps == {"allocate", "allocateManual", "allocateAVD", "allocateID", "boot",
           "shutdown", "reserve", "adopt", "usb", "idle"}

ASSUME PoolAssumption ==
  /\ MaxConcurrent \in Nat \ {0}
  /\ IsFiniteSet(Client) /\ IsFiniteSet(Inst)
  /\ Ops \subseteq AllOps
  /\ None \notin Client \cup Inst \cup AVD \cup Phone
  /\ AVD \cap Phone = {}

VARIABLES
  sem,          \* tokens in p.sem
  instances,    \* keys of p.instances
  state,        \* DeviceInstance.State, of every instance object ever made
  device,       \* DeviceInstance.Device
  reserved,     \* instances with Reserved = true
  bootingAVDs,  \* p.bootingAVDs
  mu, avdMu,    \* the request goroutine inside p.mu / avdMu between steps
  req,          \* each request goroutine: [pc, op, inst, avd], its step, call
                \* and locals inst and avdName
  held,         \* the instance its last allocation returned, until released
  resets,       \* instances whose reset goroutine is running
  watch,        \* each instance's watchDevice goroutine
  maint         \* the maintenance goroutine: [pc, list, it, name]

vars == <<sem, instances, state, device, reserved, bootingAVDs, mu, avdMu,
          req, held, resets, watch, maint>>
clientVars == <<req, held>>
poolVars   == <<sem, instances, state, device, reserved, bootingAVDs>>
locks      == <<mu, avdMu>>
daemonVars == <<resets, watch, maint>>

NoDevice == [kind |-> "none", name |-> None]
Devices  == [kind : {"booted", "adopted", "usb"}, name : AVD \cup Phone]
NoCall   == [pc |-> "idle", op |-> "none", inst |-> None, avd |-> None]
Steps == {"idle", "take", "acquire", "pick", "mark", "create", "toBooting",
          "prepare", "toWarm", "unmark", "grab", "unwind", "release",
          "destroy", "shutdown"}
MaintSteps == {"ready", "adopt", "usb", "warm", "prune", "sweep", "kill"}
Requests == [pc : Steps, op : AllOps \cup {"release", "none"},
             inst : Inst \cup {None}, avd : AVD \cup {None}]
Maints   == [pc : MaintSteps, list : SUBSET Inst, it : Inst \cup {None},
             name : AVD \cup Phone \cup {None}]

Init ==
  /\ sem = 0
  /\ instances = {}
  /\ state = [i \in Inst |-> "New"]
  /\ device = [i \in Inst |-> NoDevice]
  /\ reserved = {}
  /\ bootingAVDs = {}
  /\ mu = None /\ avdMu = None
  /\ req = [c \in Client |-> NoCall]
  /\ held = [c \in Client |-> None]
  /\ resets = {}
  /\ watch = [i \in Inst |-> "off"]
  /\ maint = [pc |-> "ready", list |-> {}, it |-> None, name |-> None]

-----------------------------------------------------------------------------
(* Helpers *)

Tracked(n) == {i \in instances : device[i].name = n}
Fresh == {i \in Inst : state[i] = "New"}

\* Warm and open to this caller: automated callers skip reserved devices.
Eligible(manual) ==
  {i \in instances : state[i] = "Warm" /\ (manual \/ i \notin reserved)}

\* n non-blocking receives from p.sem.
Drained(n) == IF sem >= n THEN sem - n ELSE 0

\* Mutants of RemoveInstance: the map is changed without p.mu; the slot of
\* the removed instance is not given back.
RemoveInstanceUnlocked(i, n) ==
  /\ instances' = instances \ {i}
  /\ sem' = Drained(n)
RemoveInstanceLeaky(i, n) ==
  /\ mu = None
  /\ instances' = instances \ {i}
  /\ sem' = Drained(n - 1)

\* removeInstance, with n slot releases in all.
RemoveInstance(i, n) ==
  /\ mu = None
  /\ instances' = instances \ {i}
  /\ sem' = Drained(n)

CreateInstance(i, kind, n) ==
  /\ mu = None
  /\ i \in Fresh
  /\ instances' = instances \cup {i}
  /\ state' = [state EXCEPT ![i] = "Creating"]
  /\ device' = [device EXCEPT ![i] = [kind |-> kind, name |-> n]]

Goto(c, step) == req' = [req EXCEPT ![c].pc = step]
GotoWith(c, step, i) == req' = [req EXCEPT ![c].pc = step, ![c].inst = i]
Return(c) == req' = [req EXCEPT ![c] = NoCall]
Begin(c, step, o, i, a) ==
  req' = [req EXCEPT ![c] = [pc |-> step, op |-> o, inst |-> i, avd |-> a]]

\* Mutant of Claim: the state is set without asking TransitionTo.
ClaimUnchecked(c) ==
  /\ state' = [state EXCEPT ![req[c].inst] = "Allocated"]
  /\ held' = [held EXCEPT ![c] = req[c].inst]
  /\ Return(c)

\* TransitionTo(Allocated) succeeded: the call returns the instance.
Claim(c) ==
  LET i == req[c].inst IN
  /\ CanTransitionTo(state[i], "Allocated")
  /\ state' = [state EXCEPT ![i] = "Allocated"]
  /\ held' = [held EXCEPT ![c] = i]
  /\ Return(c)

\* bootEmulator returns to its caller: inst = None stands for an error.
BootReturns(c, i) ==
  IF req[c].op = "boot" THEN Return(c) ELSE GotoWith(c, "unmark", i)

-----------------------------------------------------------------------------
(* Allocation: the first critical section, under p.mu *)

CanCall(c) == req[c].pc = "idle" /\ held[c] = None /\ mu = None

\* allocateAny: pick a warm candidate (p.mu stays held until TakeWarm), or
\* find none and go for a slot.
AllocateAny(c) ==
  \E o \in {"allocate", "allocateManual"} \cap Ops :
    LET warm == Eligible(o = "allocateManual") IN
    /\ CanCall(c)
    /\ \/ /\ warm = {}
          /\ Begin(c, "acquire", o, None, None)
          /\ UNCHANGED mu
       \/ \E i \in warm : Begin(c, "take", o, i, None) /\ mu' = c
    /\ UNCHANGED <<poolVars, avdMu, held, daemonVars>>

\* AllocateWith{AVDName}: a tracked AVD must be warm and open to the caller
\* (the other cases return an error and change nothing); an untracked one is
\* booted on demand, without avdMu and without consulting bootingAVDs.
AllocateAVD(c) ==
  \E a \in AVD, manual \in BOOLEAN :
    /\ "allocateAVD" \in Ops
    /\ CanCall(c)
    /\ \/ /\ Tracked(a) = {}
          /\ Begin(c, "acquire", "allocateAVD", None, a)
          /\ UNCHANGED mu
       \/ \E i \in Tracked(a) \cap Eligible(manual) :
            Begin(c, "take", "allocateAVD", i, None) /\ mu' = c
    /\ UNCHANGED <<poolVars, avdMu, held, daemonVars>>

\* AllocateWith{InstanceID}: only a warm tracked instance, never a boot.
AllocateID(c) ==
  \E manual \in BOOLEAN : \E i \in Eligible(manual) :
    /\ "allocateID" \in Ops
    /\ CanCall(c)
    /\ Begin(c, "take", "allocateID", i, None) /\ mu' = c
    /\ UNCHANGED <<poolVars, avdMu, held, daemonVars>>

\* TransitionTo(Allocated) on the candidate.  A candidate that stopped being
\* warm (only its own mutex guards its state) fails the call for a specific
\* device; allocateAny tries another candidate or goes for a slot.
TakeWarm(c) ==
  LET any == req[c].op \in {"allocate", "allocateManual"} IN
  /\ req[c].pc = "take"
  /\ \/ Claim(c) /\ mu' = None
     \/ /\ ~CanTransitionTo(state[req[c].inst], "Allocated")
        /\ UNCHANGED <<state, held>>
        /\ \/ /\ any
              /\ \E i \in Eligible(req[c].op = "allocateManual") :
                   GotoWith(c, "take", i)
              /\ UNCHANGED mu
           \/ /\ IF any THEN GotoWith(c, "acquire", None) ELSE Return(c)
              /\ mu' = None
  /\ UNCHANGED <<sem, instances, device, reserved, bootingAVDs, avdMu,
                 daemonVars>>

-----------------------------------------------------------------------------
(* Allocation: boot on demand *)

\* The non-blocking send on p.sem; a full pool is ErrPoolExhausted.
AcquireSlot(c) ==
  /\ req[c].pc = "acquire"
  /\ \/ /\ sem < MaxConcurrent
        /\ sem' = sem + 1
        /\ Goto(c, IF req[c].op = "allocateAVD" THEN "mark" ELSE "pick")
     \/ /\ sem >= MaxConcurrent
        /\ Return(c)
        /\ UNCHANGED sem
  /\ UNCHANGED <<instances, state, device, reserved, bootingAVDs, locks, held,
                 daemonVars>>

\* Mutant of PickAVD: avdMu is given up before the AVD is marked as booting.
PickAVDUnlocked(c) ==
  /\ req[c].pc = "pick" /\ avdMu = None /\ mu = None
  /\ \/ \E a \in {x \in AVD \ bootingAVDs : Tracked(x) = {}} :
          req' = [req EXCEPT ![c].pc = "mark", ![c].avd = a]
     \/ Goto(c, "unwind")
  /\ UNCHANGED <<poolVars, locks, held, daemonVars>>

\* Under avdMu: an AVD that is neither tracked nor being booted.  None left,
\* or avdmanager failed: give the slot back.
PickAVD(c) ==
  /\ req[c].pc = "pick" /\ avdMu = None /\ mu = None
  /\ \/ \E a \in {x \in AVD \ bootingAVDs : Tracked(x) = {}} :
          /\ req' = [req EXCEPT ![c].pc = "mark", ![c].avd = a]
          /\ avdMu' = c
     \/ /\ Goto(c, "unwind")
        /\ UNCHANGED avdMu
  /\ UNCHANGED <<poolVars, mu, held, daemonVars>>

MarkBooting(c) ==
  /\ req[c].pc = "mark" /\ mu = None
  /\ bootingAVDs' = bootingAVDs \cup {req[c].avd}
  /\ avdMu' = IF avdMu = c THEN None ELSE avdMu
  /\ Goto(c, "create")
  /\ UNCHANGED <<sem, instances, state, device, reserved, mu, held, daemonVars>>

\* BootAVD: no slot is taken; the size of the map is compared instead.  A
\* tracked AVD is returned as it is, a full pool is ErrPoolExhausted.
BootAVD(c) ==
  \E a \in AVD :
    /\ "boot" \in Ops
    /\ CanCall(c)
    /\ Tracked(a) = {}
    /\ Cardinality(instances) < MaxConcurrent
    /\ Begin(c, "create", "boot", None, a)
    /\ UNCHANGED <<poolVars, locks, held, daemonVars>>

\* bootEmulator up to createInstance; the AVD may turn out not to exist.
BootCreate(c) ==
  /\ req[c].pc = "create"
  /\ \/ \E i \in Inst :
          /\ CreateInstance(i, "booted", req[c].avd)
          /\ GotoWith(c, "toBooting", i)
     \/ /\ BootReturns(c, None)
        /\ UNCHANGED <<instances, state, device>>
  /\ UNCHANGED <<sem, reserved, bootingAVDs, locks, held, daemonVars>>

BootToBooting(c) ==
  LET i == req[c].inst IN
  /\ req[c].pc = "toBooting"
  /\ \/ /\ CanTransitionTo(state[i], "Booting")
        /\ state' = [state EXCEPT ![i] = "Booting"]
        /\ Goto(c, "prepare")
        /\ UNCHANGED <<instances, sem>>
     \/ /\ ~CanTransitionTo(state[i], "Booting")
        /\ RemoveInstance(i, 1)
        /\ BootReturns(c, None)
        /\ UNCHANGED state
  /\ UNCHANGED <<device, reserved, bootingAVDs, locks, held, daemonVars>>

\* Device.Prepare returned: the emulator is up, or could not be started.
BootPrepare(c) ==
  /\ req[c].pc = "prepare"
  /\ \/ /\ Goto(c, "toWarm")
        /\ UNCHANGED <<instances, sem>>
     \/ /\ RemoveInstance(req[c].inst, 1)
        /\ BootReturns(c, None)
  /\ UNCHANGED <<state, device, reserved, bootingAVDs, locks, held, daemonVars>>

\* TransitionTo(Warm), then watchDevice starts.  On failure the instance
\* stays wherever it is.
BootToWarm(c) ==
  LET i == req[c].inst IN
  /\ req[c].pc = "toWarm"
  /\ \/ /\ CanTransitionTo(state[i], "Warm")
        /\ state' = [state EXCEPT ![i] = "Warm"]
        /\ watch' = [watch EXCEPT ![i] = "tick"]
        /\ BootReturns(c, i)
     \/ /\ ~CanTransitionTo(state[i], "Warm")
        /\ BootReturns(c, None)
        /\ UNCHANGED <<state, watch>>
  /\ UNCHANGED <<sem, instances, device, reserved, bootingAVDs, locks, held,
                 resets, maint>>

\* Mutant of UnmarkBooting: a failed boot leaves its mark.
UnmarkIfBooted(c) ==
  /\ req[c].pc = "unmark" /\ mu = None
  /\ bootingAVDs' = IF req[c].inst = None THEN bootingAVDs
                    ELSE bootingAVDs \ {req[c].avd}
  /\ Goto(c, IF req[c].inst = None THEN "unwind" ELSE "grab")
  /\ UNCHANGED <<sem, instances, state, device, reserved, locks, held,
                 daemonVars>>

UnmarkBooting(c) ==
  /\ req[c].pc = "unmark" /\ mu = None
  /\ bootingAVDs' = bootingAVDs \ {req[c].avd}
  /\ Goto(c, IF req[c].inst = None THEN "unwind" ELSE "grab")
  /\ UNCHANGED <<sem, instances, state, device, reserved, locks, held,
                 daemonVars>>

\* The booted device is claimed only now; it has been warm, and so up for
\* grabs, since BootToWarm.
GrabBooted(c) ==
  /\ req[c].pc = "grab"
  /\ \/ Claim(c)
     \/ /\ ~CanTransitionTo(state[req[c].inst], "Allocated")
        /\ Goto(c, "unwind")
        /\ UNCHANGED <<state, held>>
  /\ UNCHANGED <<sem, instances, device, reserved, bootingAVDs, locks,
                 daemonVars>>

\* "<-p.sem": a blocking receive, and nothing says the token is the caller's.
Unwind(c) ==
  /\ req[c].pc = "unwind"
  /\ sem > 0
  /\ sem' = sem - 1
  /\ Return(c)
  /\ UNCHANGED <<instances, state, device, reserved, bootingAVDs, locks, held,
                 daemonVars>>

-----------------------------------------------------------------------------
(* Release, shutdown, reservation *)

\* Release looks the instance up; one that is gone is an error.
ReleaseBegin(c) ==
  /\ req[c].pc = "idle" /\ held[c] # None /\ mu = None
  /\ \/ /\ held[c] \in instances
        /\ Begin(c, "release", "release", held[c], None)
        /\ UNCHANGED held
     \/ /\ held[c] \notin instances
        /\ held' = [held EXCEPT ![c] = None]
        /\ UNCHANGED req
  /\ UNCHANGED <<poolVars, locks, daemonVars>>

\* adb has answered: a dead device is removed, a live one is reset in the
\* background unless it may not go to Resetting.
ReleaseEnd(c) ==
  LET i == req[c].inst IN
  /\ req[c].pc = "release"
  /\ \/ /\ RemoveInstance(i, 1)
        /\ UNCHANGED <<state, resets>>
     \/ /\ CanTransitionTo(state[i], "Resetting")
        /\ state' = [state EXCEPT ![i] = "Resetting"]
        /\ resets' = resets \cup {i}
        /\ UNCHANGED <<instances, sem>>
     \/ /\ ~CanTransitionTo(state[i], "Resetting")
        /\ UNCHANGED <<instances, sem, state, resets>>
  /\ held' = [held EXCEPT ![c] = None]
  /\ Return(c)
  /\ UNCHANGED <<device, reserved, bootingAVDs, locks, watch, maint>>

\* The reset goroutine: back to warm, or eviction when Reset failed.  A
\* device that was shut down meanwhile may not become warm: only logged.
ResetEnd(i) ==
  /\ i \in resets
  /\ resets' = resets \ {i}
  /\ \/ /\ RemoveInstance(i, 1)
        /\ UNCHANGED state
     \/ /\ state' = [state EXCEPT ![i] =
                       IF CanTransitionTo(@, "Warm") THEN "Warm" ELSE @]
        /\ UNCHANGED <<instances, sem>>
  /\ UNCHANGED <<device, reserved, bootingAVDs, locks, clientVars, watch,
                 maint>>

\* ShutdownInstance refuses an allocated instance, then destroys it.
Shutdown(c) ==
  \E i \in instances :
    /\ "shutdown" \in Ops
    /\ CanCall(c)
    /\ state[i] # "Allocated"
    /\ Begin(c, "destroy", "shutdown", i, None)
    /\ UNCHANGED <<poolVars, locks, held, daemonVars>>

\* destroyInstance ignores a refused transition.
Destroyed(i) ==
  state' = [state EXCEPT ![i] =
              IF CanTransitionTo(@, "Destroying") THEN "Destroying" ELSE @]

ShutdownMark(c) ==
  /\ req[c].pc = "destroy"
  /\ Destroyed(req[c].inst)
  /\ Goto(c, "shutdown")
  /\ UNCHANGED <<sem, instances, device, reserved, bootingAVDs, locks, held,
                 daemonVars>>

\* Device.Shutdown returned: removeInstance releases a slot, and so does
\* destroyInstance itself.
ShutdownRemove(c) ==
  /\ req[c].pc = "shutdown"
  /\ RemoveInstance(req[c].inst, 2)
  /\ Return(c)
  /\ UNCHANGED <<state, device, reserved, bootingAVDs, locks, held, daemonVars>>

\* ReserveInstance and UnreserveInstance.
Reserve(i) ==
  /\ "reserve" \in Ops
  /\ mu = None /\ i \in instances
  /\ reserved' \in {reserved \cup {i}, reserved \ {i}}
  /\ UNCHANGED <<sem, instances, state, device, bootingAVDs, locks,
                 clientVars, daemonVars>>

-----------------------------------------------------------------------------
(* watchDevice *)

\* The 20 s of grace outlast the two steps between boot and claim.
GraceOver(i) ==
  \A c \in Client : ~(req[c].pc \in {"unmark", "grab"} /\ req[c].inst = i)

WatchTick(i) ==
  /\ watch[i] = "tick" /\ mu = None
  /\ GraceOver(i)
  /\ state[i] \notin {"Destroying", "Resetting", "Booting"}
  /\ watch' = [watch EXCEPT ![i] = IF i \in instances THEN "probe" ELSE "off"]
  /\ UNCHANGED <<poolVars, locks, clientVars, resets, maint>>

\* adb still lists the device, or missed it twice in a row: evict.
WatchProbe(i) ==
  /\ watch[i] = "probe"
  /\ \/ /\ watch' = [watch EXCEPT ![i] = "tick"]
        /\ UNCHANGED <<instances, sem>>
     \/ /\ RemoveInstance(i, 1)
        /\ watch' = [watch EXCEPT ![i] = "off"]
  /\ UNCHANGED <<state, device, reserved, bootingAVDs, locks, clientVars,
                 resets, maint>>

-----------------------------------------------------------------------------
(* Maintenance: adoption, USB discovery, idle shutdown *)

\* adoptRunningEmulators, unless something is booting: adb lists a serial no
\* tracked instance has.  adb does not tell emulators from phones.
AdoptScan(n) ==
  /\ "adopt" \in Ops
  /\ maint.pc = "ready" /\ mu = None
  /\ \A i \in instances : state[i] # "Booting"
  /\ Tracked(n) = {}
  /\ maint' = [maint EXCEPT !.pc = "adopt", !.name = n]
  /\ UNCHANGED <<poolVars, locks, clientVars, resets, watch>>

\* adoptDevice, for a phone the USB scanner lists and nothing tracks.
UsbScan(n) ==
  /\ "usb" \in Ops
  /\ maint.pc = "ready" /\ mu = None
  /\ Tracked(n) = {}
  /\ maint' = [maint EXCEPT !.pc = "usb", !.name = n]
  /\ UNCHANGED <<poolVars, locks, clientVars, resets, watch>>

\* Device.Prepare answered: createInstance.  No slot is taken.
AdoptCreate(i) ==
  /\ maint.pc \in {"adopt", "usb"}
  /\ CreateInstance(i, IF maint.pc = "usb" THEN "usb" ELSE "adopted", maint.name)
  /\ maint' = [maint EXCEPT !.pc = "warm", !.it = i]
  /\ UNCHANGED <<sem, reserved, bootingAVDs, locks, clientVars, resets, watch>>

\* Prepare failed: the device is skipped.
AdoptSkip ==
  /\ maint.pc \in {"adopt", "usb"}
  /\ maint' = [maint EXCEPT !.pc = "ready", !.name = None]
  /\ UNCHANGED <<poolVars, locks, clientVars, resets, watch>>

\* Straight to warm; only emulators get a watchDevice goroutine.
AdoptWarm ==
  LET i == maint.it IN
  /\ maint.pc = "warm"
  /\ \/ /\ CanTransitionTo(state[i], "Warm")
        /\ state' = [state EXCEPT ![i] = "Warm"]
        /\ watch' = IF device[i].kind = "usb" THEN watch
                    ELSE [watch EXCEPT ![i] = "tick"]
        /\ UNCHANGED <<instances, sem>>
     \/ /\ ~CanTransitionTo(state[i], "Warm")
        /\ RemoveInstance(i, 1)
        /\ UNCHANGED <<state, watch>>
  /\ maint' = [maint EXCEPT !.pc = "ready", !.it = None, !.name = None]
  /\ UNCHANGED <<device, reserved, bootingAVDs, locks, clientVars, resets>>

\* pruneDisconnected lists the USB instances that are unplugged ...
PruneScan(gone) ==
  /\ maint.pc = "ready" /\ mu = None
  /\ gone # {} /\ gone \subseteq {i \in instances : device[i].kind = "usb"}
  /\ maint' = [maint EXCEPT !.pc = "prune", !.list = gone]
  /\ UNCHANGED <<poolVars, locks, clientVars, resets, watch>>

\* ... and removes them one by one, in use or not.
PruneOne(i) ==
  /\ maint.pc = "prune" /\ i \in maint.list
  /\ RemoveInstance(i, 1)
  /\ maint' = [maint EXCEPT !.list = @ \ {i},
                            !.pc = IF maint.list = {i} THEN "ready" ELSE @]
  /\ UNCHANGED <<state, device, reserved, bootingAVDs, locks, clientVars,
                 resets, watch>>

\* runMaintenance lists what is warm and idle for too long, and whatever is
\* in error; the list is not looked at again before the instances are destroyed.
IdleScan(idle) ==
  /\ "idle" \in Ops
  /\ maint.pc = "ready" /\ mu = None
  /\ idle # {}
  /\ \A i \in idle : /\ i \in instances
                     /\ \/ state[i] = "Error"
                        \/ state[i] = "Warm" /\ device[i].kind # "usb"
  /\ maint' = [maint EXCEPT !.pc = "sweep", !.list = idle]
  /\ UNCHANGED <<poolVars, locks, clientVars, resets, watch>>

SweepMark(i) ==
  /\ maint.pc = "sweep" /\ i \in maint.list
  /\ Destroyed(i)
  /\ maint' = [maint EXCEPT !.pc = "kill", !.it = i]
  /\ UNCHANGED <<sem, instances, device, reserved, bootingAVDs, locks,
                 clientVars, resets, watch>>

SweepRemove ==
  LET rest == maint.list \ {maint.it} IN
  /\ maint.pc = "kill"
  /\ RemoveInstance(maint.it, 2)
  /\ maint' = [maint EXCEPT !.pc = IF rest = {} THEN "ready" ELSE "sweep",
                            !.list = rest, !.it = None]
  /\ UNCHANGED <<state, device, reserved, bootingAVDs, locks, clientVars,
                 resets, watch>>

-----------------------------------------------------------------------------
\* What a request goroutine does once its call has begun.
Proceed(c) ==
  \/ TakeWarm(c) \/ AcquireSlot(c) \/ PickAVD(c) \/ MarkBooting(c)
  \/ BootCreate(c) \/ BootToBooting(c) \/ BootPrepare(c) \/ BootToWarm(c)
  \/ UnmarkBooting(c) \/ GrabBooted(c) \/ Unwind(c)
  \/ ReleaseEnd(c) \/ ShutdownMark(c) \/ ShutdownRemove(c)

Call(c) ==
  \/ AllocateAny(c) \/ AllocateAVD(c) \/ AllocateID(c) \/ BootAVD(c)
  \/ ReleaseBegin(c) \/ Shutdown(c)

Maintenance ==
  \/ \E n \in AVD \cup Phone : AdoptScan(n)
  \/ \E n \in Phone : UsbScan(n)
  \/ \E i \in Inst : AdoptCreate(i) \/ PruneOne(i) \/ SweepMark(i)
  \/ AdoptSkip \/ AdoptWarm \/ SweepRemove
  \/ \E s \in SUBSET Inst : PruneScan(s) \/ IdleScan(s)

Next ==
  \/ \E c \in Client : Call(c) \/ Proceed(c)
  \/ \E i \in Inst : ResetEnd(i) \/ Reserve(i) \/ WatchTick(i) \/ WatchProbe(i)
  \/ Maintenance

Spec == Init /\ [][Next]_vars

\* Every goroutine that can run does: the Go scheduler, and the timeouts on
\* external calls.  A goroutine waiting for a mutex others keep taking gets it
\* (the starvation mode of sync.Mutex), hence SF.  Callers need not call.
FairSpec ==
  /\ Spec
  /\ \A c \in Client : SF_vars(Proceed(c))
  /\ \A i \in Inst : WF_vars(ResetEnd(i))
  /\ WF_vars(AdoptSkip \/ AdoptWarm \/ SweepRemove
             \/ \E i \in Inst : AdoptCreate(i) \/ PruneOne(i) \/ SweepMark(i))

-----------------------------------------------------------------------------
(* Properties *)

\* What the fields of the pool and the locals of its goroutines hold; the
\* semaphore never has more tokens than its capacity.
TypeOK ==
  /\ sem \in 0 .. MaxConcurrent
  /\ instances \subseteq Inst
  /\ state \in [Inst -> DeviceStates \cup {"New"}]
  /\ device \in [Inst -> Devices \cup {NoDevice}]
  /\ reserved \subseteq Inst
  /\ bootingAVDs \subseteq AVD
  /\ mu \in Client \cup {None} /\ avdMu \in Client \cup {None}
  /\ req \in [Client -> Requests]
  /\ held \in [Client -> Inst \cup {None}]
  /\ resets \subseteq Inst
  /\ watch \in [Inst -> {"off", "tick", "probe"}]
  /\ maint \in Maints

\* "StateAllocated: locked to a session": no two callers are ever holding the
\* same instance, however allocations, boots, resets, shutdowns and
\* evictions interleave.
ExclusiveHandout ==
  \A c, d \in Client : held[c] # None /\ held[c] = held[d] => c = d

\* Callers that hold a slot for which there is no instance (yet).
InFlight ==
  {c \in Client : req[c].op # "boot" /\
     \/ req[c].pc \in {"pick", "mark", "create", "unwind"}
     \/ req[c].pc = "unmark" /\ req[c].inst = None}

\* removeInstance: "previously slots leaked when an emulator died, so the pool
\* looked full even with nothing running".  Every token is accounted for by a
\* tracked instance or a boot under way.
NoSlotLeak == sem <= Cardinality(instances) + Cardinality(InFlight)

\* bootingAVDs never outlives the boots it stands for: an AVD marked as
\* booting is being booted by a caller that will unmark it.
MarksHaveBooters ==
  \A a \in bootingAVDs : \E c \in Client :
    /\ req[c].avd = a
    /\ req[c].pc \in {"create", "toBooting", "prepare", "toWarm", "unmark"}

\* avdMu and bootingAVDs: "don't boot a second copy".  No two tracked
\* instances are of the same AVD.
OneInstancePerAVD ==
  \A i, j \in instances : device[i].name = device[j].name => i = j

\* The pool keeps what it promises its callers: see Handout.
Promise == INSTANCE Handout WITH
  phase  <- [i \in Inst |-> IF i \in instances THEN "offered"
                            ELSE IF state[i] = "New" THEN "unborn"
                            ELSE "retired"],
  holder <- held
PromiseKept == Promise!Spec

\* A boot unmarks its AVD before it may block on the semaphore, so no AVD is
\* left unbootable.
MarksCleared == \A a \in AVD : a \in bootingAVDs ~> a \notin bootingAVDs

-----------------------------------------------------------------------------
(* What comments and messages of the code say and the code does not do *)

\* pool.go: "semaphore: limits concurrent devices to MaxConcurrent".
DevicesWithinLimit == Cardinality(instances) <= MaxConcurrent

\* pool.go, above "<-p.sem" on a failed boot: "release slot on failure".
SlotReleasedOnFailure ==
  \A c \in Client : req[c].pc = "unwind" ~> req[c].pc # "unwind"

\* ShutdownInstance: "cannot shutdown allocated instance (release session
\* first)".
ShutdownSparesAllocated ==
  [][\A c \in Client : req[c].pc = "destroy" /\ req'[c].pc = "shutdown" =>
       state[req[c].inst] # "Allocated"]_vars

\* USBDevice.Reset: "don't touch the user's phone"; the emulator wrapper's
\* Reset uninstalls every third-party app when there is no snapshot to load.
PhonesNotReset ==
  \A i \in resets : device[i].name \in Phone => device[i].kind = "usb"

\* DeviceInstance.Reserved: "automated callers skip this instance".
AutomatedSkipsReserved ==
  [][\A c \in Client :
       held'[c] \in reserved /\ held'[c] # held[c] => req[c].op # "allocate"]_vars
=============================================================================
