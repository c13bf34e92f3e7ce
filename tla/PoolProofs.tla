----------------------------- MODULE PoolProofs -----------------------------
(***************************************************************************)
(* Proofs about Pool, for any number of callers, instances, AVDs, phones   *)
(* and slots, and for every set of operations in use (but OneInstance).    *)
(***************************************************************************)
EXTENDS Pool, TLAPS, FiniteSetTheorems

-----------------------------------------------------------------------------
(* The inductive invariant *)

Booting(c) == req[c].pc \in {"toBooting", "prepare", "toWarm", "unmark", "grab"}
NeedsInst == {"take", "toBooting", "prepare", "toWarm", "grab", "release",
              "destroy", "shutdown"}
NeedsAVD == {"create", "toBooting", "prepare", "toWarm", "unmark"}

\* The locals a goroutine will use are set, and denote created instances.
ClientLocals(c) ==
  /\ req[c].pc \in NeedsInst => req[c].inst # None
  /\ req[c].pc \in NeedsAVD \cup {"mark"} => req[c].avd # None
  /\ req[c].op = "allocateAVD" /\ req[c].pc = "acquire" => req[c].avd # None
  /\ req[c].inst # None => state[req[c].inst] # "New"

MaintLocals ==
  /\ maint.pc \in {"warm", "kill"} => maint.it # None
  /\ maint.pc \in {"adopt", "usb"} => maint.name # None
  /\ maint.it # None => state[maint.it] # "New"

LocalsSet == MaintLocals /\ \A c \in Client : ClientLocals(c)

\* Ids in use have been created.
Created ==
  /\ \A i \in instances \cup resets \cup maint.list : state[i] # "New"
  /\ \A i \in Inst : watch[i] # "off" => state[i] # "New"
  /\ \A c \in Client : held[c] # None => state[held[c]] # "New"

\* Who is holding what, and in which state that instance may be.
ClientHolding(c) ==
  /\ held[c] # None => state[held[c]] \in {"Allocated", "Destroying"}
  /\ req[c].pc = "release" => held[c] = req[c].inst
  /\ req[c].pc \notin {"idle", "release"} => held[c] = None

Holding ==
  /\ \A c \in Client : ClientHolding(c)
  /\ \A i \in resets : state[i] \in {"Resetting", "Destroying"}
  /\ ExclusiveHandout

\* An instance is torn down only once it is in its terminal state.
TornDown ==
  /\ \A c \in Client :
       req[c].pc = "shutdown" => state[req[c].inst] = "Destroying"
  /\ maint.pc = "kill" => state[maint.it] = "Destroying"

\* A candidate is chosen and claimed under one hold of p.mu.
CandidateLocked ==
  \A c \in Client : req[c].pc = "take" => mu = c /\ req[c].inst \in instances

\* Until its boot is over an instance goes through the boot's states, unless
\* someone shuts it down, and has no watchdog that may evict it.
BootSteps(c) ==
  LET i == req[c].inst IN
  /\ req[c].pc = "toBooting" => state[i] \in {"Creating", "Destroying"}
  /\ req[c].pc \in {"prepare", "toWarm"} => state[i] \in {"Booting", "Destroying"}
  /\ req[c].pc \in {"toBooting", "prepare", "toWarm"} => watch[i] = "off"
  /\ Booting(c) /\ i # None => device[i].kind = "booted" /\ watch[i] # "probe"

\* The maintenance loop adopts and prunes instances no request has booted.
MaintOwns ==
  /\ maint.pc = "warm" => /\ device[maint.it].kind # "booted"
                          /\ state[maint.it] \in {"Creating", "Destroying"}
  /\ maint.pc = "prune" => \A i \in maint.list : device[i].kind = "usb"

BootOwnsInstance ==
  /\ MaintOwns
  /\ \A c \in Client : BootSteps(c)
  /\ \A c, d \in Client :
       Booting(c) /\ Booting(d) /\ req[c].inst # None /\ req[d].inst = req[c].inst
         => c = d

\* A booted instance that left the map before its booter claims it cannot be
\* claimed any more.
Tracks(c) ==
  LET i == req[c].inst IN
  Booting(c) /\ i # None =>
    \/ i \in instances
    \/ state[i] = "Destroying"
    \/ /\ req[c].pc \in {"unmark", "grab"}
       /\ state[i] \in {"Allocated", "Resetting"}
       /\ i \notin resets
       /\ \A d \in Client : held[d] # i

BootTracked == \A c \in Client : Tracks(c)

IInv ==
  /\ TypeOK /\ LocalsSet /\ Created /\ Holding /\ TornDown /\ CandidateLocked
  /\ BootOwnsInstance /\ BootTracked

-----------------------------------------------------------------------------
(* The transition table *)

\* What the pool's transitions start from, read off validTransitions.
LEMMA Transitions ==
  ASSUME NEW s \in DeviceStates
  PROVE  /\ CanTransitionTo(s, "Allocated") <=> s = "Warm"
         /\ CanTransitionTo(s, "Resetting") <=> s \in {"Allocated", "Error"}
         /\ CanTransitionTo(s, "Booting") <=> s \in {"Creating", "Error"}
         /\ CanTransitionTo(s, "Warm") <=>
              s \in {"Creating", "Booting", "Resetting", "Error"}
         /\ CanTransitionTo(s, "Destroying") <=> s # "Destroying"
BY DEF CanTransitionTo, validTransitions, DeviceStates

\* Draining the semaphore without blocking keeps it within its bounds.
LEMMA DrainedType ==
  ASSUME sem \in 0 .. MaxConcurrent, NEW n \in Nat
  PROVE  Drained(n) \in 0 .. MaxConcurrent
BY PoolAssumption DEF Drained

-----------------------------------------------------------------------------
(* Type correctness *)

\* The request goroutines' locals keep their type.
LEMMA ReqUpdates ==
  ASSUME req \in [Client -> Requests], NEW c \in Client,
         NEW step \in Steps, NEW i \in Inst \cup {None},
         NEW a \in AVD \cup {None}
  PROVE  /\ Goto(c, step) => req' \in [Client -> Requests]
         /\ GotoWith(c, step, i) => req' \in [Client -> Requests]
         /\ Return(c) => req' \in [Client -> Requests]
         /\ \A o \in AllOps \cup {"release"} :
              Begin(c, step, o, i, a) => req' \in [Client -> Requests]
         /\ BootReturns(c, i) => req' \in [Client -> Requests]
         /\ req' = [req EXCEPT ![c].pc = step, ![c].avd = a]
              => req' \in [Client -> Requests]
BY DEF Goto, GotoWith, Return, Begin, BootReturns, Requests, NoCall, Steps

LEMMA ReqStep ==
  ASSUME TypeOK, Next
  PROVE  req' \in [Client -> Requests]
<1> USE PoolAssumption, ReqUpdates DEF TypeOK, AllOps, Steps
<1>1. ASSUME NEW c \in Client, Call(c) PROVE req' \in [Client -> Requests]
  <2>1. CASE AllocateAny(c)
    BY <2>1 DEF AllocateAny, Eligible
  <2>2. CASE AllocateAVD(c)
    BY <2>2 DEF AllocateAVD, Eligible
  <2>3. CASE AllocateID(c)
    BY <2>3 DEF AllocateID, Eligible
  <2>4. CASE BootAVD(c)
    BY <2>4 DEF BootAVD
  <2>5. CASE ReleaseBegin(c)
    BY <2>5 DEF ReleaseBegin
  <2>6. CASE Shutdown(c)
    BY <2>6 DEF Shutdown
  <2> QED BY <1>1, <2>1, <2>2, <2>3, <2>4, <2>5, <2>6 DEF Call
<1>2. ASSUME NEW c \in Client, Proceed(c) PROVE req' \in [Client -> Requests]
  <2>1. CASE TakeWarm(c)
    BY <2>1 DEF TakeWarm, Claim, Eligible
  <2>2. CASE AcquireSlot(c)
    BY <2>2 DEF AcquireSlot
  <2>3. CASE PickAVD(c)
    BY <2>3 DEF PickAVD
  <2>4. CASE MarkBooting(c)
    BY <2>4 DEF MarkBooting
  <2>5. CASE BootCreate(c)
    BY <2>5 DEF BootCreate
  <2>6. CASE BootToBooting(c)
    BY <2>6 DEF BootToBooting
  <2>7. CASE BootPrepare(c)
    BY <2>7 DEF BootPrepare
  <2>8. CASE BootToWarm(c)
    <3>1. req[c].inst \in Inst \cup {None}
      BY DEF Requests
    <3> QED BY <2>8, <3>1 DEF BootToWarm
  <2>9. CASE UnmarkBooting(c)
    <3>1. (IF req[c].inst = None THEN "unwind" ELSE "grab") \in Steps
      OBVIOUS
    <3> QED BY <2>9, <3>1 DEF UnmarkBooting
  <2>10. CASE GrabBooted(c)
    BY <2>10 DEF GrabBooted, Claim
  <2>11. CASE Unwind(c)
    BY <2>11 DEF Unwind
  <2>12. CASE ReleaseEnd(c)
    BY <2>12 DEF ReleaseEnd
  <2>13. CASE ShutdownMark(c)
    BY <2>13 DEF ShutdownMark
  <2>14. CASE ShutdownRemove(c)
    BY <2>14 DEF ShutdownRemove
  <2> QED BY <1>2, <2>1, <2>2, <2>3, <2>4, <2>5, <2>6, <2>7, <2>8, <2>9, <2>10,
             <2>11, <2>12, <2>13, <2>14 DEF Proceed
<1>3. ASSUME NEW i \in Inst, ResetEnd(i) \/ Reserve(i) \/ WatchTick(i) \/ WatchProbe(i)
      PROVE  req' = req
  BY <1>3 DEF ResetEnd, Reserve, WatchTick, WatchProbe, clientVars
<1>4. CASE Maintenance
  BY <1>4 DEF Maintenance, AdoptScan, UsbScan, AdoptCreate, AdoptSkip, AdoptWarm,
       PruneScan, PruneOne, IdleScan, SweepMark, SweepRemove, clientVars
<1> QED BY <1>1, <1>2, <1>3, <1>4 DEF Next

LEMMA MaintStep ==
  ASSUME TypeOK, Next
  PROVE  maint' \in Maints
<1> USE DEF TypeOK, Maints, MaintSteps
<1>1. ASSUME NEW c \in Client, Call(c) PROVE maint' = maint
  BY <1>1 DEF Call, AllocateAny, AllocateAVD, AllocateID, BootAVD, ReleaseBegin,
       Shutdown, daemonVars
<1>2. ASSUME NEW c \in Client, Proceed(c) PROVE maint' = maint
  BY <1>2 DEF Proceed, TakeWarm, AcquireSlot, PickAVD, MarkBooting, BootCreate,
       BootToBooting, BootPrepare, BootToWarm, UnmarkBooting, GrabBooted, Unwind,
       ReleaseEnd, ShutdownMark, ShutdownRemove, daemonVars
<1>3. ASSUME NEW i \in Inst, ResetEnd(i) \/ Reserve(i) \/ WatchTick(i) \/ WatchProbe(i)
      PROVE  maint' = maint
  BY <1>3 DEF ResetEnd, Reserve, WatchTick, WatchProbe, daemonVars
<1>4. CASE Maintenance
  <2>1. ASSUME NEW n \in AVD \cup Phone, AdoptScan(n) PROVE maint' \in Maints
    BY <2>1 DEF AdoptScan
  <2>2. ASSUME NEW n \in Phone, UsbScan(n) PROVE maint' \in Maints
    BY <2>2 DEF UsbScan
  <2>3. ASSUME NEW i \in Inst, AdoptCreate(i) PROVE maint' \in Maints
    BY <2>3 DEF AdoptCreate
  <2>4. ASSUME NEW i \in Inst, PruneOne(i) PROVE maint' \in Maints
    BY <2>4 DEF PruneOne
  <2>5. ASSUME NEW i \in Inst, SweepMark(i) PROVE maint' \in Maints
    BY <2>5 DEF SweepMark
  <2>6. CASE AdoptSkip
    BY <2>6 DEF AdoptSkip
  <2>7. CASE AdoptWarm
    BY <2>7 DEF AdoptWarm
  <2>8. CASE SweepRemove
    BY <2>8 DEF SweepRemove
  <2>9. ASSUME NEW s \in SUBSET Inst, PruneScan(s) PROVE maint' \in Maints
    BY <2>9 DEF PruneScan
  <2>10. ASSUME NEW s \in SUBSET Inst, IdleScan(s) PROVE maint' \in Maints
    BY <2>10 DEF IdleScan
  <2> QED BY <1>4, <2>1, <2>2, <2>3, <2>4, <2>5, <2>6, <2>7, <2>8, <2>9, <2>10
          DEF Maintenance
<1> QED BY <1>1, <1>2, <1>3, <1>4 DEF Next

LEMMA TypeStep ==
  ASSUME TypeOK, LocalsSet, Next
  PROVE  TypeOK'
<1>0. req' \in [Client -> Requests] /\ maint' \in Maints
  BY ReqStep, MaintStep
<1> USE <1>0, PoolAssumption DEF TypeOK, DeviceStates, poolVars, clientVars, locks,
        daemonVars
<1>1. ASSUME NEW c \in Client, Call(c) PROVE TypeOK'
  BY <1>1 DEF Call, AllocateAny, AllocateAVD, AllocateID, BootAVD, ReleaseBegin,
       Shutdown
<1>2. ASSUME NEW c \in Client, Proceed(c) PROVE TypeOK'
  <2>0. /\ req[c].inst \in Inst \cup {None} /\ req[c].avd \in AVD \cup {None}
        /\ req[c].pc \in NeedsInst => req[c].inst \in Inst
        /\ req[c].pc \in NeedsAVD \cup {"mark"} => req[c].avd \in AVD
    BY DEF LocalsSet, ClientLocals, Requests
  <2> USE <2>0 DEF NeedsInst, NeedsAVD
  <2>1. CASE TakeWarm(c)
    BY <2>1 DEF TakeWarm, Claim
  <2>2. CASE AcquireSlot(c)
    BY <2>2 DEF AcquireSlot
  <2>3. CASE PickAVD(c)
    BY <2>3 DEF PickAVD
  <2>4. CASE MarkBooting(c)
    BY <2>4 DEF MarkBooting
  <2>5. CASE BootCreate(c)
    BY <2>5 DEF BootCreate, CreateInstance, Devices
  <2>6. CASE BootToBooting(c)
    BY <2>6, DrainedType DEF BootToBooting, RemoveInstance
  <2>7. CASE BootPrepare(c)
    BY <2>7, DrainedType DEF BootPrepare, RemoveInstance
  <2>8. CASE BootToWarm(c)
    BY <2>8 DEF BootToWarm
  <2>9. CASE UnmarkBooting(c)
    BY <2>9 DEF UnmarkBooting
  <2>10. CASE GrabBooted(c)
    BY <2>10 DEF GrabBooted, Claim
  <2>11. CASE Unwind(c)
    BY <2>11 DEF Unwind
  <2>12. CASE ReleaseEnd(c)
    BY <2>12, DrainedType DEF ReleaseEnd, RemoveInstance
  <2>13. CASE ShutdownMark(c)
    BY <2>13 DEF ShutdownMark, Destroyed
  <2>14. CASE ShutdownRemove(c)
    BY <2>14, DrainedType DEF ShutdownRemove, RemoveInstance
  <2> QED BY <1>2, <2>1, <2>2, <2>3, <2>4, <2>5, <2>6, <2>7, <2>8, <2>9, <2>10,
             <2>11, <2>12, <2>13, <2>14 DEF Proceed
<1>3. ASSUME NEW i \in Inst, ResetEnd(i) \/ Reserve(i) \/ WatchTick(i) \/ WatchProbe(i)
      PROVE  TypeOK'
  BY <1>3, DrainedType DEF ResetEnd, Reserve, WatchTick, WatchProbe, RemoveInstance
<1>4. CASE Maintenance
  <2>1. ASSUME NEW n, AdoptScan(n) \/ UsbScan(n) PROVE TypeOK'
    BY <2>1 DEF AdoptScan, UsbScan
  <2>2. ASSUME NEW i \in Inst, AdoptCreate(i) PROVE TypeOK'
    BY <2>2 DEF AdoptCreate, CreateInstance, LocalsSet, MaintLocals, Maints, Devices
  <2>3. ASSUME NEW i \in Inst, PruneOne(i) \/ SweepMark(i) PROVE TypeOK'
    BY <2>3, DrainedType DEF PruneOne, SweepMark, RemoveInstance, Destroyed
  <2>4. CASE AdoptSkip
    BY <2>4 DEF AdoptSkip
  <2>5. CASE AdoptWarm
    BY <2>5, DrainedType DEF AdoptWarm, RemoveInstance, LocalsSet, MaintLocals, Maints
  <2>6. CASE SweepRemove
    BY <2>6, DrainedType DEF SweepRemove, RemoveInstance
  <2>7. ASSUME NEW s \in SUBSET Inst, PruneScan(s) \/ IdleScan(s) PROVE TypeOK'
    BY <2>7 DEF PruneScan, IdleScan
  <2> QED BY <1>4, <2>1, <2>2, <2>3, <2>4, <2>5, <2>6, <2>7 DEF Maintenance
<1> QED BY <1>1, <1>2, <1>3, <1>4 DEF Next

-----------------------------------------------------------------------------
(* Locals and created instances *)

\* An instance object never goes back to not existing.
LEMMA StaysCreated ==
  ASSUME TypeOK, LocalsSet, Next, NEW i \in Inst, state[i] # "New"
  PROVE  state'[i] # "New"
<1> USE DEF TypeOK, poolVars, clientVars, locks, daemonVars
<1>1. ASSUME NEW c \in Client, Call(c) PROVE state'[i] # "New"
  BY <1>1 DEF Call, AllocateAny, AllocateAVD, AllocateID, BootAVD, ReleaseBegin,
       Shutdown
<1>2. ASSUME NEW c \in Client, Proceed(c) PROVE state'[i] # "New"
  BY <1>2 DEF Proceed, TakeWarm, Claim, AcquireSlot, PickAVD, MarkBooting,
       BootCreate, CreateInstance, BootToBooting, BootPrepare, BootToWarm,
       UnmarkBooting, GrabBooted, Unwind, ReleaseEnd, ShutdownMark, Destroyed,
       ShutdownRemove
<1>3. ASSUME NEW j \in Inst, ResetEnd(j) \/ Reserve(j) \/ WatchTick(j) \/ WatchProbe(j)
      PROVE  state'[i] # "New"
  BY <1>3 DEF ResetEnd, Reserve, WatchTick, WatchProbe
<1>4. CASE Maintenance
  BY <1>4 DEF Maintenance, AdoptScan, UsbScan, AdoptCreate, CreateInstance, AdoptSkip,
       AdoptWarm, PruneScan, PruneOne, IdleScan, SweepMark, Destroyed, SweepRemove
<1> QED BY <1>1, <1>2, <1>3, <1>4 DEF Next

\* What the updates of one goroutine's locals do, field by field.
LEMMA ReqFields ==
  ASSUME req \in [Client -> Requests], NEW c \in Client
  PROVE  /\ \A step : Goto(c, step) =>
              /\ req'[c].pc = step /\ req'[c].op = req[c].op
              /\ req'[c].inst = req[c].inst /\ req'[c].avd = req[c].avd
              /\ \A d \in Client \ {c} : req'[d] = req[d]
         /\ \A step, i : GotoWith(c, step, i) =>
              /\ req'[c].pc = step /\ req'[c].op = req[c].op
              /\ req'[c].inst = i /\ req'[c].avd = req[c].avd
              /\ \A d \in Client \ {c} : req'[d] = req[d]
         /\ Return(c) =>
              /\ req'[c].pc = "idle" /\ req'[c].op = "none"
              /\ req'[c].inst = None /\ req'[c].avd = None
              /\ \A d \in Client \ {c} : req'[d] = req[d]
         /\ \A step, o, i, a : Begin(c, step, o, i, a) =>
              /\ req'[c].pc = step /\ req'[c].op = o
              /\ req'[c].inst = i /\ req'[c].avd = a
              /\ \A d \in Client \ {c} : req'[d] = req[d]
<1> USE DEF Requests
<1>1. ASSUME NEW step, Goto(c, step)
      PROVE  /\ req'[c].pc = step /\ req'[c].op = req[c].op
             /\ req'[c].inst = req[c].inst /\ req'[c].avd = req[c].avd
             /\ \A d \in Client \ {c} : req'[d] = req[d]
  BY <1>1 DEF Goto
<1>2. ASSUME NEW step, NEW i, GotoWith(c, step, i)
      PROVE  /\ req'[c].pc = step /\ req'[c].op = req[c].op
             /\ req'[c].inst = i /\ req'[c].avd = req[c].avd
             /\ \A d \in Client \ {c} : req'[d] = req[d]
  BY <1>2 DEF GotoWith
<1>3. ASSUME Return(c)
      PROVE  /\ req'[c].pc = "idle" /\ req'[c].op = "none"
             /\ req'[c].inst = None /\ req'[c].avd = None
             /\ \A d \in Client \ {c} : req'[d] = req[d]
  BY <1>3 DEF Return, NoCall
<1>4. ASSUME NEW step, NEW o, NEW i, NEW a, Begin(c, step, o, i, a)
      PROVE  /\ req'[c].pc = step /\ req'[c].op = o
             /\ req'[c].inst = i /\ req'[c].avd = a
             /\ \A d \in Client \ {c} : req'[d] = req[d]
  BY <1>4 DEF Begin
<1> QED BY <1>1, <1>2, <1>3, <1>4

LEMMA LocalsStep ==
  ASSUME TypeOK, LocalsSet, Created, Next
  PROVE  LocalsSet'
<1>0. /\ req \in [Client -> Requests] /\ held \in [Client -> Inst \cup {None}]
      /\ maint \in Maints /\ state \in [Inst -> DeviceStates \cup {"New"}]
      /\ instances \subseteq Inst
      /\ \A d \in Client : /\ req[d].inst \in Inst \cup {None}
                           /\ req[d].avd \in AVD \cup {None}
      /\ maint.it \in Inst \cup {None} /\ maint.list \subseteq Inst
  BY DEF TypeOK, Requests, Maints
<1>1. \A i \in Inst : state[i] # "New" => state'[i] # "New"
  BY StaysCreated
<1>2. /\ \A d \in Client : req'[d] = req[d] => ClientLocals(d)'
      /\ maint' = maint => MaintLocals'
  BY <1>0, <1>1 DEF LocalsSet, ClientLocals, MaintLocals
<1> USE <1>0, PoolAssumption
<1>3. ASSUME NEW c \in Client, Call(c) PROVE LocalsSet'
  <2> USE <1>3, ReqFields DEF NeedsInst, NeedsAVD
  <2>1. maint' = maint /\ \A d \in Client \ {c} : req'[d] = req[d]
    BY DEF Call, AllocateAny, AllocateAVD, AllocateID, BootAVD, ReleaseBegin, Shutdown,
         daemonVars
  <2>2. ClientLocals(c)'
    <3> USE <1>1 DEF ClientLocals
    <3>1. ASSUME AllocateAny(c) \/ AllocateAVD(c) \/ AllocateID(c)
          PROVE  ClientLocals(c)'
      BY <3>1 DEF AllocateAny, AllocateAVD, AllocateID, Eligible
    <3>2. ASSUME BootAVD(c) \/ Shutdown(c) PROVE ClientLocals(c)'
      BY <3>2 DEF BootAVD, Shutdown, Created
    <3>3. CASE ReleaseBegin(c)
      <4>1. CASE req' = req
        BY <1>0, <4>1 DEF LocalsSet
      <4>2. CASE req' # req
        BY <3>3, <4>2 DEF ReleaseBegin, Created
      <4> QED BY <4>1, <4>2
    <3> QED BY <3>1, <3>2, <3>3 DEF Call
  <2> QED BY <1>2, <2>1, <2>2 DEF LocalsSet
<1>4. ASSUME NEW c \in Client, Proceed(c) PROVE LocalsSet'
  <2> USE ReqFields DEF NeedsInst, NeedsAVD
  <2>0. maint' = maint /\ \A d \in Client \ {c} : req'[d] = req[d]
    BY <1>4 DEF Proceed, TakeWarm, Claim, AcquireSlot, PickAVD, MarkBooting, BootCreate,
         BootToBooting, BootPrepare, BootToWarm, UnmarkBooting, GrabBooted, Unwind,
         ReleaseEnd, ShutdownMark, ShutdownRemove, BootReturns, daemonVars
  <2>00. ClientLocals(c)'
    <3>0. ClientLocals(c) /\ req'[c].inst \in Inst \cup {None}
      BY TypeStep DEF LocalsSet, TypeOK, Requests
    <3> USE <1>1, <3>0 DEF ClientLocals
    <3>1. CASE TakeWarm(c)
      BY <3>1 DEF TakeWarm, Claim, Eligible
    <3>2. CASE AcquireSlot(c)
      BY <3>2 DEF AcquireSlot
    <3>3. CASE PickAVD(c)
      BY <3>3 DEF PickAVD, Requests
    <3>4. CASE MarkBooting(c)
      BY <3>4 DEF MarkBooting
    <3>5. CASE BootCreate(c)
      BY <3>5 DEF BootCreate, CreateInstance, BootReturns
    <3>6. CASE BootToBooting(c)
      BY <3>6 DEF BootToBooting, BootReturns
    <3>7. CASE BootPrepare(c)
      BY <3>7 DEF BootPrepare, BootReturns
    <3>8. CASE BootToWarm(c)
      BY <3>8 DEF BootToWarm, BootReturns
    <3>9. CASE UnmarkBooting(c)
      BY <3>9 DEF UnmarkBooting
    <3>10. CASE GrabBooted(c)
      BY <3>10 DEF GrabBooted, Claim
    <3>11. CASE Unwind(c) \/ ReleaseEnd(c) \/ ShutdownRemove(c)
      BY <3>11 DEF Unwind, ReleaseEnd, ShutdownRemove
    <3>12. CASE ShutdownMark(c)
      BY <3>12 DEF ShutdownMark
    <3> QED BY <1>4, <3>1, <3>2, <3>3, <3>4, <3>5, <3>6, <3>7, <3>8, <3>9, <3>10,
               <3>11, <3>12 DEF Proceed
  <2> QED BY <1>2, <2>0, <2>00 DEF LocalsSet
<1>5. ASSUME NEW j \in Inst, ResetEnd(j) \/ Reserve(j) \/ WatchTick(j) \/ WatchProbe(j)
      PROVE  LocalsSet'
  <2>1. req' = req /\ maint' = maint
    BY <1>5 DEF ResetEnd, Reserve, WatchTick, WatchProbe, clientVars, daemonVars
  <2> QED BY <1>2, <2>1 DEF LocalsSet
<1>6. CASE Maintenance
  <2>1. req' = req
    BY <1>6 DEF Maintenance, AdoptScan, UsbScan, AdoptCreate, AdoptSkip, AdoptWarm,
         PruneScan, PruneOne, IdleScan, SweepMark, SweepRemove, clientVars
  <2>2. MaintLocals'
    <3> USE <1>1 DEF LocalsSet, MaintLocals, Maints
    <3>2. ASSUME NEW n \in AVD \cup Phone, AdoptScan(n) PROVE MaintLocals'
      BY <3>2 DEF AdoptScan
    <3>3. ASSUME NEW n \in Phone, UsbScan(n) PROVE MaintLocals'
      BY <3>3 DEF UsbScan
    <3>4. ASSUME NEW i \in Inst, AdoptCreate(i) PROVE MaintLocals'
      BY <3>4 DEF AdoptCreate, CreateInstance
    <3>5. ASSUME NEW i \in Inst, PruneOne(i) \/ SweepMark(i) PROVE MaintLocals'
      BY <3>5 DEF PruneOne, SweepMark, Created
    <3>6. CASE AdoptSkip
      BY <3>6 DEF AdoptSkip
    <3>7. CASE AdoptWarm
      BY <3>7 DEF AdoptWarm
    <3>8. CASE SweepRemove
      BY <3>8 DEF SweepRemove
    <3>9. ASSUME NEW x \in SUBSET Inst, PruneScan(x) \/ IdleScan(x) PROVE MaintLocals'
      BY <3>9 DEF PruneScan, IdleScan
    <3> QED BY <1>6, <3>2, <3>3, <3>4, <3>5, <3>6, <3>7, <3>8, <3>9 DEF Maintenance
  <2> QED BY <1>2, <2>1, <2>2 DEF LocalsSet
<1> QED BY <1>3, <1>4, <1>5, <1>6 DEF Next

-----------------------------------------------------------------------------
(* What one step can do to an instance *)

\* Who can change an instance's state, and to what.
Becomes(i) ==
  \/ state'[i] = state[i] \/ state'[i] = "Destroying"
  \/ state[i] = "New" /\ state'[i] = "Creating"
  \/ state[i] = "Warm" /\ state'[i] = "Allocated"
  \/ /\ state[i] \in {"Allocated", "Error"} /\ state'[i] = "Resetting"
     /\ \E c \in Client : /\ req[c].pc = "release" /\ req[c].inst = i
                          /\ held'[c] = None
  \/ /\ state[i] \in {"Creating", "Error"} /\ state'[i] = "Booting"
     /\ \E c \in Client : /\ req[c].pc = "toBooting" /\ req[c].inst = i
                          /\ req'[c].pc = "prepare"
  \/ /\ state'[i] = "Warm" /\ state[i] \in {"Creating", "Booting", "Resetting", "Error"}
     /\ \/ \E c \in Client : /\ req[c].pc = "toWarm" /\ req[c].inst = i
                             /\ req'[c].pc \in {"unmark", "idle"}
        \/ i \in resets /\ resets' = resets \ {i} /\ instances' = instances
        \/ maint.pc = "warm" /\ maint.it = i /\ maint'.pc = "ready"

LEMMA StateStep ==
  ASSUME TypeOK, LocalsSet, Created, Next, NEW i \in Inst
  PROVE  Becomes(i)
<1> USE DEF Becomes, poolVars
<1>0. /\ req \in [Client -> Requests] /\ held \in [Client -> Inst \cup {None}]
      /\ state \in [Inst -> DeviceStates \cup {"New"}]
      /\ maint \in Maints
  BY DEF TypeOK
<1>1. ASSUME NEW c \in Client, Call(c) PROVE Becomes(i)
  BY <1>1 DEF Call, AllocateAny, AllocateAVD, AllocateID, BootAVD, ReleaseBegin, Shutdown
<1>2. ASSUME NEW c \in Client, Proceed(c) PROVE Becomes(i)
  <2>0. /\ req[c].inst \in Inst \cup {None}
        /\ req[c].pc \in NeedsInst => req[c].inst \in Inst /\ state[req[c].inst] \in DeviceStates
    BY <1>0 DEF Requests, LocalsSet, ClientLocals
  <2> USE <1>0, <2>0, Transitions, ReqFields DEF NeedsInst
  <2>1. CASE TakeWarm(c)
    BY <2>1 DEF TakeWarm, Claim
  <2>2. CASE AcquireSlot(c) \/ PickAVD(c) \/ MarkBooting(c)
    BY <2>2 DEF AcquireSlot, PickAVD, MarkBooting
  <2>3. CASE BootCreate(c)
    BY <2>3 DEF BootCreate, CreateInstance, Fresh
  <2>4. CASE BootToBooting(c)
    BY <2>4 DEF BootToBooting
  <2>5. CASE BootPrepare(c)
    BY <2>5 DEF BootPrepare
  <2>6. CASE BootToWarm(c)
    BY <2>6 DEF BootToWarm, BootReturns
  <2>7. CASE UnmarkBooting(c) \/ Unwind(c) \/ ShutdownRemove(c)
    BY <2>7 DEF UnmarkBooting, Unwind, ShutdownRemove
  <2>8. CASE GrabBooted(c)
    BY <2>8 DEF GrabBooted, Claim
  <2>9. CASE ReleaseEnd(c)
    BY <2>9 DEF ReleaseEnd
  <2>10. CASE ShutdownMark(c)
    BY <2>10 DEF ShutdownMark, Destroyed
  <2> QED BY <1>2, <2>1, <2>2, <2>3, <2>4, <2>5, <2>6, <2>7, <2>8, <2>9, <2>10
          DEF Proceed
<1>3. ASSUME NEW j \in Inst, Reserve(j) \/ WatchTick(j) \/ WatchProbe(j)
      PROVE  Becomes(i)
  BY <1>3 DEF Reserve, WatchTick, WatchProbe
<1>4. ASSUME NEW j \in Inst, ResetEnd(j) PROVE Becomes(i)
  <2>1. state[j] \in DeviceStates
    BY <1>0, <1>4 DEF ResetEnd, Created
  <2> QED BY <1>0, <1>4, <2>1, Transitions DEF ResetEnd
<1>5. CASE Maintenance
  <2>0. maint.it \in Inst \cup {None}
    BY <1>0 DEF Maints
  <2>1. ASSUME NEW n, AdoptScan(n) \/ UsbScan(n) PROVE Becomes(i)
    BY <2>1 DEF AdoptScan, UsbScan
  <2>2. ASSUME NEW j \in Inst, AdoptCreate(j) PROVE Becomes(i)
    BY <1>0, <2>2 DEF AdoptCreate, CreateInstance, Fresh
  <2>3. ASSUME NEW j \in Inst, PruneOne(j) \/ SweepMark(j) PROVE Becomes(i)
    BY <1>0, <2>3 DEF PruneOne, SweepMark, Destroyed
  <2>4. CASE AdoptSkip \/ SweepRemove
    BY <2>4 DEF AdoptSkip, SweepRemove
  <2>5. CASE AdoptWarm
    <3>1. maint.it \in Inst /\ state[maint.it] \in DeviceStates
      BY <1>0, <2>0, <2>5 DEF AdoptWarm, LocalsSet, MaintLocals
    <3>2. maint'.pc = "ready"
      BY <1>0, <2>5 DEF AdoptWarm, Maints
    <3> QED BY <1>0, <2>5, <3>1, <3>2, Transitions DEF AdoptWarm
  <2>6. ASSUME NEW x, PruneScan(x) \/ IdleScan(x) PROVE Becomes(i)
    BY <2>6 DEF PruneScan, IdleScan
  <2> QED BY <1>5, <2>1, <2>2, <2>3, <2>4, <2>5, <2>6 DEF Maintenance
<1> QED BY <1>1, <1>2, <1>3, <1>4, <1>5 DEF Next

\* Who can take an instance out of the map.
Leaves(i) ==
  /\ mu = None
  /\ \/ \E c \in Client : /\ req[c].pc \in {"toBooting", "prepare"} /\ req[c].inst = i
                          /\ req'[c].inst = None
     \/ \E c \in Client : req[c].pc = "release" /\ req[c].inst = i /\ held'[c] = None
     \/ i \in resets /\ resets' = resets \ {i}
     \/ \E c \in Client : req[c].pc = "shutdown" /\ req[c].inst = i
     \/ watch[i] = "probe"
     \/ maint.pc \in {"warm", "kill"} /\ maint.it = i
     \/ maint.pc = "prune" /\ i \in maint.list

LEMMA InstancesStep ==
  ASSUME TypeOK, LocalsSet, Next, NEW i \in Inst
  PROVE  /\ i \in instances /\ i \notin instances' => Leaves(i)
         /\ i \notin instances /\ i \in instances' =>
              /\ state[i] = "New" /\ state'[i] = "Creating" /\ held' = held
         /\ device'[i] # device[i] => state[i] = "New"
<1> DEFINE Goal == /\ i \in instances /\ i \notin instances' => Leaves(i)
                   /\ i \notin instances /\ i \in instances' =>
                        /\ state[i] = "New" /\ state'[i] = "Creating" /\ held' = held
                   /\ device'[i] # device[i] => state[i] = "New"
<1> USE DEF Leaves, poolVars
<1>0. /\ req \in [Client -> Requests] /\ held \in [Client -> Inst \cup {None}]
      /\ state \in [Inst -> DeviceStates \cup {"New"}]
      /\ device \in [Inst -> Devices \cup {NoDevice}]
  BY DEF TypeOK
<1>1. ASSUME NEW c \in Client, Call(c) PROVE Goal
  BY <1>1 DEF Call, AllocateAny, AllocateAVD, AllocateID, BootAVD, ReleaseBegin, Shutdown
<1>2. ASSUME NEW c \in Client, Proceed(c) PROVE Goal
  <2> USE <1>0, ReqFields
  <2>1. CASE TakeWarm(c) \/ AcquireSlot(c) \/ PickAVD(c) \/ MarkBooting(c)
    BY <2>1 DEF TakeWarm, AcquireSlot, PickAVD, MarkBooting
  <2>2. CASE BootCreate(c)
    BY <2>2 DEF BootCreate, CreateInstance, Fresh
  <2>3. CASE BootToBooting(c) \/ BootPrepare(c)
    BY <2>3 DEF BootToBooting, BootPrepare, BootReturns, RemoveInstance
  <2>4. CASE BootToWarm(c) \/ UnmarkBooting(c) \/ GrabBooted(c) \/ Unwind(c)
             \/ ShutdownMark(c)
    BY <2>4 DEF BootToWarm, UnmarkBooting, GrabBooted, Unwind, ShutdownMark
  <2>5. CASE ReleaseEnd(c) \/ ShutdownRemove(c)
    BY <2>5 DEF ReleaseEnd, ShutdownRemove, RemoveInstance
  <2> QED BY <1>2, <2>1, <2>2, <2>3, <2>4, <2>5 DEF Proceed
<1>3. ASSUME NEW j \in Inst, ResetEnd(j) \/ Reserve(j) \/ WatchTick(j) \/ WatchProbe(j)
      PROVE  Goal
  BY <1>0, <1>3 DEF ResetEnd, Reserve, WatchTick, WatchProbe, RemoveInstance
<1>4. CASE Maintenance
  BY <1>0, <1>4 DEF Maintenance, AdoptScan, UsbScan, AdoptCreate, CreateInstance, Fresh,
       AdoptSkip, AdoptWarm, PruneScan, PruneOne, IdleScan, SweepMark, Destroyed,
       SweepRemove, RemoveInstance, clientVars
<1> QED BY <1>1, <1>2, <1>3, <1>4 DEF Next

\* What can happen to what a caller holds, to the resets and to the watchdogs.
HeldChange ==
  \/ held' = held
  \/ \E c \in Client : held' = [held EXCEPT ![c] = None] /\ req'[c].pc = "idle"
  \/ \E c \in Client : /\ req[c].pc \in {"take", "grab"} /\ Claim(c)
                       /\ instances' = instances

ResetStarts(i) ==
  /\ state'[i] = "Resetting" /\ instances' = instances
  /\ \E c \in Client : /\ req[c].pc = "release" /\ req[c].inst = i
                       /\ held'[c] = None

WatchChange(i) ==
  \/ watch'[i] \in {"off", watch[i]}
  \/ watch'[i] = "probe" /\ watch[i] = "tick" /\ GraceOver(i) /\ req' = req
  \/ watch'[i] = "tick" /\ watch[i] = "probe"
  \/ /\ watch'[i] = "tick"
     /\ \/ \E c \in Client : /\ req[c].pc = "toWarm" /\ req[c].inst = i
                             /\ req'[c].pc \in {"unmark", "idle"}
        \/ maint.pc = "warm" /\ maint.it = i

LEMMA OthersStep ==
  ASSUME TypeOK, LocalsSet, Next
  PROVE  /\ HeldChange
         /\ \A i \in resets' : i \in resets \/ ResetStarts(i)
         /\ \A i \in Inst : WatchChange(i)
<1> DEFINE Goal == /\ HeldChange
                   /\ \A i \in resets' : i \in resets \/ ResetStarts(i)
                   /\ \A i \in Inst : WatchChange(i)
<1>0. /\ req \in [Client -> Requests] /\ held \in [Client -> Inst \cup {None}]
      /\ state \in [Inst -> DeviceStates \cup {"New"}]
      /\ watch \in [Inst -> {"off", "tick", "probe"}]
  BY DEF TypeOK
<1> USE DEF HeldChange, ResetStarts, WatchChange, poolVars, clientVars, daemonVars
<1>1. ASSUME NEW c \in Client, Call(c) PROVE Goal
  BY <1>0, <1>1 DEF Call, AllocateAny, AllocateAVD, AllocateID, BootAVD, ReleaseBegin, Shutdown, CanCall
<1>2. ASSUME NEW c \in Client, Proceed(c) PROVE Goal
  <2>0. /\ req[c].inst \in Inst \cup {None}
        /\ req[c].pc \in NeedsInst => req[c].inst \in Inst
    BY <1>0 DEF Requests, LocalsSet, ClientLocals
  <2> USE <1>0, <2>0, ReqFields DEF NeedsInst
  <2>1. CASE TakeWarm(c) \/ AcquireSlot(c) \/ PickAVD(c) \/ MarkBooting(c)
    BY <2>1 DEF TakeWarm, AcquireSlot, PickAVD, MarkBooting
  <2>2. CASE BootCreate(c) \/ BootToBooting(c) \/ BootPrepare(c)
    BY <2>2 DEF BootCreate, BootToBooting, BootPrepare
  <2>3. CASE BootToWarm(c)
    BY <2>3 DEF BootToWarm, BootReturns
  <2>4. CASE UnmarkBooting(c) \/ GrabBooted(c) \/ Unwind(c) \/ ShutdownMark(c)
             \/ ShutdownRemove(c)
    BY <2>4 DEF UnmarkBooting, GrabBooted, Unwind, ShutdownMark, ShutdownRemove
  <2>5. CASE ReleaseEnd(c)
    <3>1. /\ req[c].pc = "release" /\ held' = [held EXCEPT ![c] = None]
          /\ Return(c) /\ watch' = watch /\ held'[c] = None
      BY <2>5 DEF ReleaseEnd
    <3>2. \A i \in resets' : i \in resets \/ ResetStarts(i)
      BY <2>5, <3>1 DEF ReleaseEnd
    <3> QED BY <3>1, <3>2
  <2> QED BY <1>2, <2>1, <2>2, <2>3, <2>4, <2>5 DEF Proceed
<1>3. ASSUME NEW j \in Inst, ResetEnd(j) \/ Reserve(j) \/ WatchTick(j) \/ WatchProbe(j)
      PROVE  Goal
  BY <1>0, <1>3 DEF ResetEnd, Reserve, WatchTick, WatchProbe
<1>4. CASE Maintenance
  BY <1>0, <1>4 DEF Maintenance, AdoptScan, UsbScan, AdoptCreate, AdoptSkip, AdoptWarm,
       PruneScan, PruneOne, IdleScan, SweepMark, SweepRemove
<1> QED BY <1>1, <1>2, <1>3, <1>4 DEF Next

\* How far a call's boot gets in one step.
Boots(c) ==
  LET i == req[c].inst IN
  \/ req'[c] = req[c] \/ req'[c].inst = None
  \/ req'[c].pc \notin {"toBooting", "prepare", "toWarm", "unmark", "grab"}
  \/ /\ req[c].pc = "create" /\ req'[c].pc = "toBooting"
     /\ req'[c].inst \in instances' /\ req'[c].inst \in Inst
     /\ state[req'[c].inst] = "New" /\ state'[req'[c].inst] = "Creating"
     /\ device'[req'[c].inst].kind = "booted" /\ watch' = watch
  \/ /\ req'[c].inst = i
     /\ \/ req[c].pc = "toBooting" /\ req'[c].pc = "prepare" /\ state'[i] = "Booting"
        \/ req[c].pc = "prepare" /\ req'[c].pc = "toWarm" /\ state' = state
        \/ req[c].pc = "toWarm" /\ req'[c].pc = "unmark"
        \/ req[c].pc = "unmark" /\ req'[c].pc = "grab"

\* A call's part of Holding, TornDown and CandidateLocked.
Serves(c) ==
  \/ req'[c] = req[c] /\ held'[c] = held[c]
  \/ /\ req'[c].pc = "release" => held'[c] = req'[c].inst /\ held'[c] = held[c]
     /\ req'[c].pc \notin {"idle", "release"} => held[c] = None /\ held'[c] = None
     /\ req'[c].pc = "shutdown" =>
          req'[c].inst = req[c].inst /\ state'[req[c].inst] = "Destroying"
     /\ req'[c].pc = "take" =>
          mu' = c /\ instances' = instances /\ req'[c].inst \in instances

LEMMA CallStep ==
  ASSUME TypeOK, LocalsSet, Holding, CandidateLocked, Next, NEW c \in Client
  PROVE  Boots(c) /\ Serves(c)
<1>0. /\ req \in [Client -> Requests] /\ held \in [Client -> Inst \cup {None}]
      /\ state \in [Inst -> DeviceStates \cup {"New"}]
      /\ device \in [Inst -> Devices \cup {NoDevice}]
      /\ ClientHolding(c)
  BY DEF TypeOK, Holding
<1> USE DEF Boots, Serves, poolVars, clientVars, daemonVars, locks
<1>1. ASSUME NEW d \in Client, d # c, Call(d) \/ Proceed(d)
      PROVE  req'[c] = req[c] /\ held'[c] = held[c]
  <2>1. CASE Call(d)
    BY <1>0, <1>1, <2>1, ReqFields DEF Call, AllocateAny, AllocateAVD, AllocateID, BootAVD, ReleaseBegin, Shutdown
  <2>2. CASE Proceed(d)
    BY <1>0, <1>1, <2>2, ReqFields DEF Proceed, TakeWarm, Claim, AcquireSlot, PickAVD,
         MarkBooting, BootCreate, BootToBooting, BootPrepare, BootToWarm, UnmarkBooting,
         GrabBooted, Unwind, ReleaseEnd, ShutdownMark, ShutdownRemove, BootReturns
  <2> QED BY <1>1, <2>1, <2>2
<1>2. CASE Call(c)
  BY <1>0, <1>2, ReqFields DEF Call, AllocateAny, AllocateAVD, AllocateID, BootAVD, ReleaseBegin, Shutdown, CanCall, Eligible
<1>3. CASE Proceed(c)
  <2>0. /\ req[c].inst \in Inst \cup {None}
        /\ req[c].pc \in NeedsInst =>
             req[c].inst \in Inst /\ state[req[c].inst] \in DeviceStates
    BY <1>0 DEF Requests, LocalsSet, ClientLocals
  <2> USE <1>0, <2>0, ReqFields DEF NeedsInst, ClientHolding
  <2>1. CASE TakeWarm(c)
    BY <2>1 DEF TakeWarm, Claim, Eligible, CandidateLocked
  <2>2. CASE AcquireSlot(c) \/ MarkBooting(c) \/ Unwind(c)
    BY <2>2 DEF AcquireSlot, MarkBooting, Unwind
  <2>3. CASE PickAVD(c)
    BY <2>3 DEF PickAVD, Requests
  <2>4. CASE BootCreate(c)
    BY <2>4 DEF BootCreate, CreateInstance, Fresh, BootReturns
  <2>5. CASE BootToBooting(c)
    BY <2>5 DEF BootToBooting, BootReturns
  <2>6. CASE BootPrepare(c)
    BY <2>6 DEF BootPrepare, BootReturns
  <2>7. CASE BootToWarm(c)
    BY <2>7 DEF BootToWarm, BootReturns
  <2>8. CASE UnmarkBooting(c)
    BY <2>8 DEF UnmarkBooting
  <2>9. CASE GrabBooted(c)
    BY <2>9 DEF GrabBooted, Claim
  <2>10. CASE ReleaseEnd(c) \/ ShutdownRemove(c)
    BY <2>10 DEF ReleaseEnd, ShutdownRemove
  <2>11. CASE ShutdownMark(c)
    BY <2>11, Transitions DEF ShutdownMark, Destroyed
  <2> QED BY <1>3, <2>1, <2>2, <2>3, <2>4, <2>5, <2>6, <2>7, <2>8, <2>9, <2>10, <2>11
          DEF Proceed
<1>4. ASSUME NEW j \in Inst, ResetEnd(j) \/ Reserve(j) \/ WatchTick(j) \/ WatchProbe(j)
      PROVE  req' = req /\ held' = held
  BY <1>4 DEF ResetEnd, Reserve, WatchTick, WatchProbe
<1>5. CASE Maintenance
  <2>1. req' = req /\ held' = held
    BY <1>5 DEF Maintenance, AdoptScan, UsbScan, AdoptCreate, AdoptSkip, AdoptWarm,
         PruneScan, PruneOne, IdleScan, SweepMark, SweepRemove
  <2> QED BY <2>1
<1> QED BY <1>1, <1>2, <1>3, <1>4, <1>5 DEF Next

\* A candidate's lock stays where it is until the candidate is dealt with.
LEMMA MuStep ==
  ASSUME TypeOK, CandidateLocked, Next,
         NEW c \in Client, req[c].pc = "take", req'[c] = req[c]
  PROVE  mu' = c
<1>0. /\ req \in [Client -> Requests] /\ mu = c /\ c # None
      /\ \A d \in Client : req[d].pc = "take" => d = c
  BY PoolAssumption DEF TypeOK, CandidateLocked
<1> USE <1>0, ReqFields DEF locks
<1>1. ASSUME NEW d \in Client, Call(d) PROVE mu' = c
  BY <1>1 DEF Call, AllocateAny, AllocateAVD, AllocateID, BootAVD, ReleaseBegin, Shutdown, CanCall
<1>2. ASSUME NEW d \in Client, Proceed(d) PROVE mu' = c
  BY <1>2 DEF Proceed, TakeWarm, Claim, AcquireSlot, PickAVD, MarkBooting, BootCreate,
       BootToBooting, BootPrepare, BootToWarm, UnmarkBooting, GrabBooted, Unwind,
       ReleaseEnd, ShutdownMark, ShutdownRemove
<1>3. ASSUME NEW j \in Inst, ResetEnd(j) \/ Reserve(j) \/ WatchTick(j) \/ WatchProbe(j)
      PROVE  mu' = c
  BY <1>3 DEF ResetEnd, Reserve, WatchTick, WatchProbe
<1>4. CASE Maintenance
  BY <1>4 DEF Maintenance, AdoptScan, UsbScan, AdoptCreate, AdoptSkip, AdoptWarm,
       PruneScan, PruneOne, IdleScan, SweepMark, SweepRemove
<1> QED BY <1>1, <1>2, <1>3, <1>4 DEF Next

\* What the maintenance loop turns to next.
Maintains ==
  /\ maint'.list \subseteq maint.list \cup instances
  /\ \/ maint' = maint
     \/ maint'.pc \in {"ready", "adopt", "usb", "sweep"}
     \/ /\ maint'.pc = "warm" /\ maint'.it \in Inst
        /\ state[maint'.it] = "New" /\ state'[maint'.it] = "Creating"
        /\ device'[maint'.it].kind # "booted"
     \/ /\ maint'.pc = "prune" /\ device' = device
        /\ maint.pc = "prune" /\ maint'.list \subseteq maint.list
     \/ /\ maint'.pc = "prune" /\ device' = device
        /\ \A i \in maint'.list : device[i].kind = "usb"
     \/ maint'.pc = "kill" /\ maint'.it \in Inst /\ state'[maint'.it] = "Destroying"

LEMMA MaintainsStep ==
  ASSUME TypeOK, LocalsSet, Created, Next
  PROVE  Maintains
<1>0. /\ maint \in Maints /\ instances \subseteq Inst
      /\ state \in [Inst -> DeviceStates \cup {"New"}]
      /\ device \in [Inst -> Devices \cup {NoDevice}]
      /\ \A i \in maint.list : state[i] # "New"
  BY DEF TypeOK, Created
<1> USE <1>0 DEF Maintains, poolVars, daemonVars
<1>1. ASSUME NEW c \in Client, Call(c) PROVE Maintains
  BY <1>1 DEF Call, AllocateAny, AllocateAVD, AllocateID, BootAVD, ReleaseBegin, Shutdown
<1>2. ASSUME NEW c \in Client, Proceed(c) PROVE Maintains
  BY <1>2 DEF Proceed, TakeWarm, AcquireSlot, PickAVD, MarkBooting, BootCreate,
       BootToBooting, BootPrepare, BootToWarm, UnmarkBooting, GrabBooted, Unwind,
       ReleaseEnd, ShutdownMark, ShutdownRemove
<1>3. ASSUME NEW j \in Inst, ResetEnd(j) \/ Reserve(j) \/ WatchTick(j) \/ WatchProbe(j)
      PROVE  Maintains
  BY <1>3 DEF ResetEnd, Reserve, WatchTick, WatchProbe
<1>4. CASE Maintenance
  <2> USE DEF Maints
  <2>1. ASSUME NEW n, AdoptScan(n) \/ UsbScan(n) PROVE Maintains
    BY <2>1 DEF AdoptScan, UsbScan
  <2>2. ASSUME NEW i \in Inst, AdoptCreate(i) PROVE Maintains
    BY <2>2 DEF AdoptCreate, CreateInstance, Fresh
  <2>3. ASSUME NEW i \in Inst, PruneOne(i) PROVE Maintains
    BY <2>3 DEF PruneOne
  <2>4. ASSUME NEW i \in Inst, SweepMark(i) PROVE Maintains
    <3>1. state'[i] = "Destroying" /\ i \in maint.list
      BY <2>4, Transitions DEF SweepMark, Destroyed
    <3> QED BY <2>4, <3>1 DEF SweepMark
  <2>5. CASE AdoptSkip \/ AdoptWarm \/ SweepRemove
    <3>1. CASE AdoptSkip
      BY <3>1 DEF AdoptSkip
    <3>2. CASE AdoptWarm
      BY <3>2 DEF AdoptWarm
    <3>3. CASE SweepRemove
      BY <3>3 DEF SweepRemove
    <3> QED BY <2>5, <3>1, <3>2, <3>3
  <2>6. ASSUME NEW x \in SUBSET Inst, PruneScan(x) \/ IdleScan(x) PROVE Maintains
    BY <2>6 DEF PruneScan, IdleScan
  <2> QED BY <1>4, <2>1, <2>2, <2>3, <2>4, <2>5, <2>6 DEF Maintenance
<1> QED BY <1>1, <1>2, <1>3, <1>4 DEF Next

-----------------------------------------------------------------------------
(* The invariant is inductive *)

LEMMA CreatedStep ==
  ASSUME TypeOK, LocalsSet, Created, Next
  PROVE  Created'
<1>0. /\ \A i \in Inst : state[i] # "New" => state'[i] # "New"
      /\ \A i \in Inst : WatchChange(i)
      /\ \A i \in resets' : i \in resets \/ ResetStarts(i)
      /\ HeldChange /\ Maintains
  BY StaysCreated, OthersStep, MaintainsStep
<1>1. /\ req \in [Client -> Requests] /\ held \in [Client -> Inst \cup {None}]
      /\ instances \subseteq Inst /\ resets \subseteq Inst /\ maint.list \subseteq Inst
      /\ \A c \in Client : req[c].inst \in Inst \cup {None}
  BY DEF TypeOK, Requests, Maints
<1>2. TypeOK'
  BY TypeStep
<1>3. ASSUME NEW i \in instances' PROVE state'[i] # "New"
  <2>1. i \in Inst
    BY <1>2 DEF TypeOK
  <2> QED BY <1>0, <2>1, InstancesStep DEF Created
<1>4. ASSUME NEW i \in resets' PROVE state'[i] # "New"
  BY <1>0, <1>1 DEF Created, ResetStarts
<1>5. ASSUME NEW i \in maint'.list PROVE state'[i] # "New"
  BY <1>0, <1>1 DEF Created, Maintains
<1>6. ASSUME NEW i \in Inst, watch'[i] # "off" PROVE state'[i] # "New"
  <2>1. WatchChange(i)
    BY <1>0
  <2>2. state[i] # "New"
    BY <1>1, <1>6, <2>1 DEF WatchChange, Created, LocalsSet, ClientLocals, MaintLocals,
         NeedsInst
  <2> QED BY <1>0, <2>2
<1>7. ASSUME NEW c \in Client, held'[c] # None PROVE state'[held'[c]] # "New"
  <2>1. CASE held'[c] = held[c]
    BY <1>0, <1>1, <1>7, <2>1 DEF Created
  <2>2. CASE held'[c] # held[c]
    <3>1. held'[c] = req[c].inst /\ req[c].pc \in {"take", "grab"}
      BY <1>0, <1>1, <1>7, <2>2 DEF HeldChange, Claim
    <3> QED BY <1>0, <1>1, <3>1 DEF LocalsSet, ClientLocals, NeedsInst
  <2> QED BY <2>1, <2>2
<1> QED BY <1>3, <1>4, <1>5, <1>6, <1>7 DEF Created

\* The vocabulary of the steps below, typed.
LEMMA Facts ==
  ASSUME TypeOK, LocalsSet, Created
  PROVE  /\ req \in [Client -> Requests] /\ held \in [Client -> Inst \cup {None}]
         /\ instances \subseteq Inst /\ resets \subseteq Inst /\ maint.list \subseteq Inst
         /\ state \in [Inst -> DeviceStates \cup {"New"}]
         /\ \A c \in Client :
              /\ req[c].inst \in Inst \cup {None}
              /\ req[c].pc \in NeedsInst => req[c].inst \in Inst
              /\ held[c] # None => held[c] \in Inst
         /\ maint.pc \in {"warm", "kill"} => maint.it \in Inst
BY DEF TypeOK, LocalsSet, ClientLocals, MaintLocals, Created, Requests, Maints

LEMMA HoldingStep ==
  ASSUME TypeOK, LocalsSet, Created, Holding, CandidateLocked, BootOwnsInstance, Next
  PROVE  Holding'
<1>0. /\ \A i \in Inst : Becomes(i)
      /\ \A i \in resets' : i \in resets \/ ResetStarts(i)
      /\ HeldChange
      /\ \A c \in Client : Boots(c) /\ Serves(c)
  BY StateStep, OthersStep, CallStep
<1>1. TypeOK' /\ LocalsSet' /\ Created'
  BY TypeStep, LocalsStep, CreatedStep
<1> USE Facts
<1>2. ASSUME NEW c \in Client PROVE ClientHolding(c)'
  <2>1. /\ req'[c].pc = "release" => held'[c] = req'[c].inst
        /\ req'[c].pc \notin {"idle", "release"} => held'[c] = None
    BY <1>0 DEF Serves, Holding, ClientHolding
  <2>2. ASSUME held'[c] # None, held'[c] = held[c]
        PROVE  state'[held'[c]] \in {"Allocated", "Destroying"}
    <3>1. held[c] \in Inst /\ state[held[c]] \in {"Allocated", "Destroying"}
      BY <2>2 DEF Holding, ClientHolding
    <3>2. \A d \in Client : req[d].pc = "release" /\ req[d].inst = held[c] => d = c
      BY <2>2 DEF Holding, ClientHolding, ExclusiveHandout
    <3> QED BY <1>0, <2>2, <3>1, <3>2 DEF Becomes
  <2>3. ASSUME held'[c] # None, held'[c] # held[c]
        PROVE  state'[held'[c]] \in {"Allocated", "Destroying"}
    BY <1>0, <2>3 DEF HeldChange, Claim, NeedsInst
  <2> QED BY <2>1, <2>2, <2>3 DEF ClientHolding
<1>3. ASSUME NEW i \in resets' PROVE state'[i] \in {"Resetting", "Destroying"}
  <2>1. CASE i \notin resets
    BY <1>0, <2>1 DEF ResetStarts
  <2>2. CASE i \in resets
    <3>1. i \in Inst /\ state[i] \in {"Resetting", "Destroying"}
      BY <2>2 DEF Holding
    <3>2. \A c \in Client : ~(req[c].pc = "toWarm" /\ req[c].inst = i /\ state[i] = "Resetting")
      BY DEF BootOwnsInstance, BootSteps
    <3>3. ~(maint.pc = "warm" /\ maint.it = i /\ state[i] = "Resetting")
      BY DEF BootOwnsInstance, MaintOwns
    <3> QED BY <1>0, <1>3, <3>1, <3>2, <3>3 DEF Becomes
  <2> QED BY <2>1, <2>2
<1>4. ExclusiveHandout'
  <2> SUFFICES ASSUME NEW c \in Client, NEW d \in Client, held'[c] # None,
                      held'[c] = held'[d], c # d
               PROVE  FALSE
    BY DEF ExclusiveHandout
  <2>1. CASE held' = held
    BY <2>1 DEF Holding, ExclusiveHandout
  <2>2. ASSUME NEW e \in Client, held' = [held EXCEPT ![e] = None] PROVE FALSE
    BY <2>2 DEF Holding, ExclusiveHandout
  <2>3. ASSUME NEW e \in Client, req[e].pc \in {"take", "grab"}, Claim(e) PROVE FALSE
    <3>1. /\ req[e].inst \in Inst /\ state[req[e].inst] = "Warm"
          /\ held' = [held EXCEPT ![e] = req[e].inst]
      <4>1. req[e].inst \in Inst /\ state[req[e].inst] \in DeviceStates
        BY <2>3 DEF NeedsInst, LocalsSet, ClientLocals
      <4> QED BY <2>3, <4>1, Transitions DEF Claim
    <3> QED BY <3>1 DEF Holding, ClientHolding, ExclusiveHandout
  <2> QED BY <1>0, <2>1, <2>2, <2>3 DEF HeldChange
<1> QED BY <1>2, <1>3, <1>4 DEF Holding

LEMMA TornDownStep ==
  ASSUME TypeOK, LocalsSet, Created, Holding, TornDown, CandidateLocked, Next
  PROVE  TornDown'
<1>0. /\ \A i \in Inst : Becomes(i)
      /\ \A c \in Client : Serves(c)
      /\ Maintains
  BY StateStep, CallStep, MaintainsStep
<1>1. \A i \in Inst : state[i] = "Destroying" => state'[i] = "Destroying"
  BY <1>0 DEF Becomes
<1>2. ASSUME NEW c \in Client, req'[c].pc = "shutdown"
      PROVE  state'[req'[c].inst] = "Destroying"
  BY <1>0, <1>1, <1>2, Facts DEF Serves, TornDown, NeedsInst
<1>3. maint'.pc = "kill" => state'[maint'.it] = "Destroying"
  BY <1>0, <1>1, Facts DEF Maintains, TornDown
<1> QED BY <1>2, <1>3 DEF TornDown

LEMMA CandidateStep ==
  ASSUME TypeOK, LocalsSet, Holding, CandidateLocked, Next
  PROVE  CandidateLocked'
<1> SUFFICES ASSUME NEW c \in Client, req'[c].pc = "take"
             PROVE  mu' = c /\ req'[c].inst \in instances'
  BY DEF CandidateLocked
<1>1. Serves(c)
  BY CallStep
<1>2. CASE req'[c] = req[c]
  <2>1. mu = c /\ c # None /\ req[c].inst \in instances /\ instances \subseteq Inst
    BY <1>2, PoolAssumption DEF CandidateLocked, TypeOK
  <2>2. mu' = c
    BY <1>2, MuStep
  <2> QED BY <1>2, <2>1, <2>2, InstancesStep DEF Leaves
<1> QED BY <1>1, <1>2 DEF Serves

\* Requests step one at a time.
LEMMA OneRequestMoves ==
  ASSUME TypeOK, Next, NEW c \in Client, NEW d \in Client,
         req'[c] # req[c], req'[d] # req[d]
  PROVE  c = d
<1>0. req \in [Client -> Requests]
  BY DEF TypeOK
<1>1. ASSUME NEW e \in Client, Call(e)
      PROVE  \A x \in Client \ {e} : req'[x] = req[x]
  BY <1>0, <1>1, ReqFields DEF Call, AllocateAny, AllocateAVD, AllocateID, BootAVD,
       ReleaseBegin, Shutdown
<1>2. ASSUME NEW e \in Client, Proceed(e)
      PROVE  \A x \in Client \ {e} : req'[x] = req[x]
  BY <1>0, <1>2, ReqFields DEF Proceed, TakeWarm, Claim, AcquireSlot, PickAVD,
       MarkBooting, BootCreate, BootToBooting, BootPrepare, BootToWarm, UnmarkBooting,
       GrabBooted, Unwind, ReleaseEnd, ShutdownMark, ShutdownRemove, BootReturns
<1>3. ASSUME NEW j \in Inst, ResetEnd(j) \/ Reserve(j) \/ WatchTick(j) \/ WatchProbe(j)
      PROVE  req' = req
  BY <1>3 DEF ResetEnd, Reserve, WatchTick, WatchProbe, clientVars
<1>4. Maintenance => req' = req
  BY DEF Maintenance, AdoptScan, UsbScan, AdoptCreate, AdoptSkip, AdoptWarm,
       PruneScan, PruneOne, IdleScan, SweepMark, SweepRemove, clientVars
<1> QED BY <1>1, <1>2, <1>3, <1>4 DEF Next

LEMMA BootOwnsStep ==
  ASSUME TypeOK, LocalsSet, Created, Holding, CandidateLocked, BootOwnsInstance, Next
  PROVE  BootOwnsInstance'
<1>0. /\ \A i \in Inst : Becomes(i) /\ WatchChange(i)
      /\ \A i \in Inst : device'[i] # device[i] => state[i] = "New"
      /\ \A c \in Client : Boots(c)
      /\ Maintains
  BY StateStep, OthersStep, CallStep, InstancesStep, MaintainsStep
<1>1. \A c \in Client : req[c].inst # None => /\ req[c].inst \in Inst
                                            /\ state[req[c].inst] # "New"
  BY Facts DEF LocalsSet, ClientLocals
<1> USE Facts
<1>2. MaintOwns'
  <2>1. CASE maint' = maint /\ maint.pc = "warm"
    <3>1. /\ maint.it \in Inst /\ device[maint.it].kind # "booted"
          /\ state[maint.it] \in {"Creating", "Destroying"}
      BY <2>1 DEF BootOwnsInstance, MaintOwns
    <3>2. \A c \in Client : ~(/\ req[c].pc \in {"toBooting", "toWarm"}
                             /\ req[c].inst = maint.it)
      BY <1>1, <3>1, PoolAssumption DEF BootOwnsInstance, BootSteps, Booting
    <3>3. device'[maint.it] = device[maint.it]
      BY <1>0, <3>1
    <3>4. state'[maint.it] \in {"Creating", "Destroying"}
      <4>1. maint.it \notin resets \/ state[maint.it] = "Destroying"
        BY <3>1, <2>1 DEF Holding
      <4> QED BY <1>0, <2>1, <3>1, <3>2, <4>1 DEF Becomes
    <3> QED BY <2>1, <3>1, <3>3, <3>4 DEF MaintOwns
  <2>2. CASE maint' = maint /\ maint.pc = "prune"
    BY <1>0, <2>2 DEF MaintOwns, BootOwnsInstance, Created
  <2>3. CASE maint' = maint /\ maint.pc \notin {"warm", "prune"}
    BY <2>3 DEF MaintOwns
  <2>4. CASE maint' # maint
    BY <1>0, <2>4 DEF Maintains, MaintOwns, BootOwnsInstance
  <2> QED BY <2>1, <2>2, <2>3, <2>4
<1>3. ASSUME NEW c \in Client, Booting(c)', req'[c].inst # None
      PROVE  \/ /\ req[c].pc = "create" /\ req'[c].pc = "toBooting"
                /\ req'[c].inst \in Inst /\ state[req'[c].inst] = "New"
             \/ Booting(c) /\ req'[c].inst = req[c].inst
  BY <1>0, <1>3 DEF Booting, Boots
<1>4. ASSUME NEW c \in Client PROVE BootSteps(c)'
  <2>1. CASE ~Booting(c)' \/ req'[c].inst = None
    <3>1. (LocalsSet)'
      BY LocalsStep
    <3> QED BY <2>1, <3>1 DEF BootSteps, Booting, LocalsSet, ClientLocals, NeedsInst
  <2>2. CASE req[c].pc = "create" /\ Booting(c)' /\ req'[c].inst # None
    <3>1. /\ req'[c].pc = "toBooting" /\ req'[c].inst \in Inst
          /\ state[req'[c].inst] = "New" /\ state'[req'[c].inst] = "Creating"
          /\ device'[req'[c].inst].kind = "booted" /\ watch' = watch
      BY <1>0, <2>2 DEF Boots, Booting
    <3> QED BY <3>1 DEF BootSteps, Created
  <2>3. CASE Booting(c) /\ Booting(c)' /\ req'[c].inst = req[c].inst /\ req[c].inst # None
    <3> DEFINE i == req[c].inst
    <3>1. i \in Inst /\ state[i] # "New" /\ BootSteps(c)
      BY <1>1, <2>3 DEF BootOwnsInstance
    <3>2. /\ Becomes(i) /\ WatchChange(i) /\ Boots(c)
          /\ device'[i] = device[i] /\ device[i].kind = "booted"
      BY <1>0, <2>3, <3>1 DEF BootSteps
    <3>3. ~(maint.pc = "warm" /\ maint.it = i)
      BY <3>2 DEF BootOwnsInstance, MaintOwns
    <3>4. \A d \in Client : Booting(d) /\ req[d].inst = i => d = c
      BY <2>3 DEF BootOwnsInstance
    <3>5. CASE req'[c] = req[c]
      <4>1. req[c].pc = "toBooting" => state'[i] \in {"Creating", "Destroying"}
        <5>1. i \notin resets \/ state[i] \in {"Resetting", "Destroying"}
          BY <3>1 DEF Holding
        <5> QED BY <3>1, <3>2, <3>3, <3>4, <3>5, <5>1 DEF BootSteps, Booting, Becomes
      <4>2. req[c].pc \in {"prepare", "toWarm"} =>
              state'[i] \in {"Booting", "Destroying"}
        <5>1. i \notin resets \/ state[i] \in {"Resetting", "Destroying"}
          BY <3>1 DEF Holding
        <5> QED BY <3>1, <3>2, <3>3, <3>4, <3>5, <5>1 DEF BootSteps, Booting, Becomes
      <4>3. /\ req[c].pc \in {"toBooting", "prepare", "toWarm"} => watch'[i] = "off"
            /\ watch'[i] # "probe"
        BY <2>3, <3>1, <3>2, <3>3, <3>4, <3>5 DEF BootSteps, Booting, WatchChange, GraceOver
      <4> QED BY <2>3, <3>2, <3>5, <4>1, <4>2, <4>3 DEF BootSteps
    <3>6. CASE req'[c] # req[c]
      <4>1. \/ req[c].pc = "toBooting" /\ req'[c].pc = "prepare" /\ state'[i] = "Booting"
            \/ req[c].pc = "prepare" /\ req'[c].pc = "toWarm" /\ state' = state
            \/ req[c].pc = "toWarm" /\ req'[c].pc = "unmark"
            \/ req[c].pc = "unmark" /\ req'[c].pc = "grab"
        BY <2>3, <3>2, <3>6 DEF Boots, Booting
      <4>2. \A d \in Client : req[d].pc = "toWarm" /\ req[d].inst = i => d = c
        BY <3>4 DEF Booting
      <4>3. watch'[i] # "probe"
        BY <3>1, <3>2, <3>6, <2>3 DEF BootSteps, WatchChange
      <4>4. req'[c].pc \in {"prepare", "toWarm"} => watch'[i] = "off"
        BY <3>1, <3>2, <3>3, <4>1, <4>2 DEF BootSteps, WatchChange
      <4> QED BY <2>3, <3>1, <3>2, <4>1, <4>3, <4>4 DEF BootSteps
    <3> QED BY <3>5, <3>6
  <2> QED BY <1>3, <2>1, <2>2, <2>3
<1>5. ASSUME NEW c \in Client, NEW d \in Client, Booting(c)', Booting(d)',
             req'[c].inst # None, req'[d].inst = req'[c].inst
      PROVE  c = d
  <2>1. CASE Booting(c) /\ Booting(d) /\ req'[c].inst = req[c].inst
             /\ req'[d].inst = req[d].inst
    BY <1>5, <2>1 DEF BootOwnsInstance
  <2>2. CASE req[c].pc = "create" /\ req[d].pc = "create"
    BY <1>5, <2>2, OneRequestMoves DEF Booting
  <2> QED BY <1>1, <1>3, <1>5, <2>1, <2>2
<1> QED BY <1>2, <1>4, <1>5 DEF BootOwnsInstance

LEMMA BootTrackedStep ==
  ASSUME IInv, Next
  PROVE  BootTracked'
<1> SUFFICES ASSUME NEW c \in Client, Booting(c)', req'[c].inst # None PROVE Tracks(c)'
  BY DEF BootTracked, Tracks
<1> DEFINE i == req'[c].inst
<1> USE DEF IInv
<1>0. /\ i \in Inst => Becomes(i)
      /\ \A j \in resets' : j \in resets \/ ResetStarts(j)
      /\ HeldChange /\ Boots(c)
  BY StateStep, OthersStep, CallStep
<1> USE Facts
<1>3. \A e \in Client : req[e].pc \in {"take", "grab"} /\ Claim(e) =>
        state[req[e].inst] = "Warm" /\ held' = [held EXCEPT ![e] = req[e].inst]
  <2> SUFFICES ASSUME NEW e \in Client, req[e].pc \in {"take", "grab"}, Claim(e)
               PROVE  state[req[e].inst] = "Warm"
    BY DEF Claim
  <2>1. req[e].inst \in Inst /\ state[req[e].inst] \in DeviceStates
    BY DEF NeedsInst, LocalsSet, ClientLocals
  <2> QED BY <2>1, Transitions DEF Claim
<1>4. Booting(c) /\ i = req[c].inst /\ state[i] \in {"Allocated", "Resetting"} =>
        /\ req[c].pc \in {"unmark", "grab"} /\ req'[c].pc \in {"unmark", "grab"}
  BY <1>0 DEF BootOwnsInstance, BootSteps, Booting, Boots
<1>5. Booting(c) /\ i = req[c].inst => ~(maint.pc = "warm" /\ maint.it = i)
  BY DEF BootOwnsInstance, BootSteps, MaintOwns
<1>1. CASE req[c].pc = "create" /\ i \in instances'
  BY <1>1 DEF Tracks
<1>2. CASE Booting(c) /\ i = req[c].inst
  <2>0. /\ i \in Inst /\ i # None /\ Tracks(c) /\ BootSteps(c) /\ BootOwnsInstance
        /\ \A d \in Client : Booting(d) /\ req[d].inst = i => d = c
    BY <1>2 DEF BootTracked, BootOwnsInstance
  <2>1. CASE state[i] = "Destroying"
    BY <1>0, <2>0, <2>1 DEF Becomes, Tracks
  <2>2. CASE i \in instances'
    BY <2>2 DEF Tracks
  <2>3. CASE i \in instances /\ i \notin instances' /\ state[i] # "Destroying"
    <3>1. Leaves(i)
      BY <2>0, <2>3, InstancesStep
    <3>2. \/ \E d \in Client : /\ req[d].pc = "release" /\ req[d].inst = i
                               /\ held'[d] = None
          \/ i \in resets /\ resets' = resets \ {i}
      <4>1. \A d \in Client : /\ ~(req[d].pc = "shutdown" /\ req[d].inst = i)
                             /\ ~(/\ req[d].pc \in {"toBooting", "prepare"}
                                  /\ req[d].inst = i /\ req'[d].inst = None)
        BY <2>0, <2>3 DEF TornDown, Booting
      <4>2. watch[i] # "probe" /\ device[i].kind = "booted"
        BY <1>2, <2>0 DEF BootSteps
      <4>3. /\ ~(maint.pc \in {"warm", "kill"} /\ maint.it = i)
            /\ ~(maint.pc = "prune" /\ i \in maint.list)
        BY <2>0, <2>3, <4>2 DEF BootOwnsInstance, MaintOwns, TornDown
      <4> QED BY <3>1, <4>1, <4>2, <4>3 DEF Leaves
    <3>3. ASSUME NEW d \in Client, req[d].pc = "release", req[d].inst = i,
                 held'[d] = None
          PROVE  Tracks(c)'
      <4>1. held[d] = i /\ state[i] = "Allocated"
        BY <2>0, <2>3, <3>3 DEF Holding, ClientHolding
      <4>2. \A e \in Client : held[e] = i => e = d
        BY <2>0, <4>1 DEF Holding, ExclusiveHandout
      <4>3. \A e \in Client : held'[e] # i
        BY <1>0, <1>3, <2>0, <3>3, <4>1, <4>2 DEF HeldChange, Claim
      <4>4. i \notin resets'
        BY <1>0, <2>3, <4>1 DEF ResetStarts, Holding
      <4>5. state'[i] \in {"Allocated", "Resetting", "Destroying"}
        BY <1>0, <2>0, <4>1 DEF Becomes
      <4> QED BY <1>2, <1>4, <2>0, <4>1, <4>3, <4>4, <4>5 DEF Tracks
    <3>4. CASE i \in resets /\ resets' = resets \ {i}
      <4>1. state[i] = "Resetting"
        BY <2>3, <3>4 DEF Holding
      <4>2. \A e \in Client : held'[e] # i
        BY <1>0, <1>3, <2>0, <4>1 DEF Holding, ClientHolding, HeldChange, Claim
      <4>3. \A d \in Client : ~(req[d].pc = "toWarm" /\ req[d].inst = i)
        BY <2>0, <4>1 DEF BootSteps, Booting
      <4>4. state'[i] \in {"Resetting", "Destroying"}
        BY <1>2, <1>0, <2>0, <2>3, <3>4, <4>1, <4>3, <1>5 DEF Becomes
      <4> QED BY <1>2, <1>4, <2>0, <3>4, <4>1, <4>2, <4>4 DEF Tracks
    <3> QED BY <3>2, <3>3, <3>4
  <2>4. CASE i \notin instances /\ state[i] # "Destroying" /\ i \notin instances'
    <3>1. /\ req[c].pc \in {"unmark", "grab"} /\ state[i] \in {"Allocated", "Resetting"}
          /\ i \notin resets /\ \A d \in Client : held[d] # i
      BY <1>2, <2>0, <2>4 DEF Tracks
    <3>2. \A d \in Client : ~(req[d].pc = "release" /\ req[d].inst = i)
      BY <3>1 DEF Holding, ClientHolding
    <3>3. \A d \in Client : ~(req[d].pc = "toWarm" /\ req[d].inst = i)
      BY <2>0, <3>1 DEF Booting
    <3>4. state'[i] \in {"Allocated", "Resetting", "Destroying"}
      BY <1>2, <1>0, <1>5, <2>0, <3>1, <3>2, <3>3 DEF Becomes
    <3>5. i \notin resets'
      BY <1>0, <3>1, <3>2 DEF ResetStarts
    <3>6. \A e \in Client : held'[e] # i
      BY <1>0, <1>3, <2>0, <3>1 DEF HeldChange, Claim
    <3> QED BY <1>2, <1>4, <3>1, <3>4, <3>5, <3>6 DEF Tracks
  <2> QED BY <2>1, <2>2, <2>3, <2>4
<1> QED BY <1>0, <1>1, <1>2 DEF Boots, Booting

LEMMA InitIInv == Init => IInv
<1> SUFFICES ASSUME Init PROVE IInv
  OBVIOUS
<1> USE PoolAssumption DEF Init
<1>1. TypeOK
  BY DEF TypeOK, DeviceStates, Requests, Maints, NoCall, Steps, MaintSteps
<1>2. LocalsSet /\ Created
  BY DEF LocalsSet, ClientLocals, MaintLocals, Created, NoCall, NeedsInst, NeedsAVD
<1>3. Holding /\ TornDown /\ CandidateLocked
  BY DEF Holding, ClientHolding, ExclusiveHandout, TornDown, CandidateLocked, NoCall
<1>4. BootOwnsInstance /\ BootTracked
  BY DEF BootOwnsInstance, MaintOwns, BootSteps, BootTracked, Tracks, Booting, NoCall
<1> QED BY <1>1, <1>2, <1>3, <1>4 DEF IInv

LEMMA StepIInv == IInv /\ [Next]_vars => IInv'
<1>1. IInv /\ Next => IInv'
  BY TypeStep, LocalsStep, CreatedStep, HoldingStep, TornDownStep, CandidateStep,
     BootOwnsStep, BootTrackedStep DEF IInv
<1>2. IInv /\ UNCHANGED vars => IInv'
  BY DEF IInv, vars, TypeOK, LocalsSet, ClientLocals, MaintLocals, Created, Holding,
     ClientHolding, ExclusiveHandout, TornDown, CandidateLocked, BootOwnsInstance,
     MaintOwns, BootSteps, BootTracked, Tracks, Booting
<1> QED BY <1>1, <1>2

\* Everything below rests on this invariant of the pool.
THEOREM PoolInvariant == Spec => []IInv
BY InitIInv, StepIInv, PTL DEF Spec

-----------------------------------------------------------------------------
(* What follows *)

\* The pool's variables keep their types; in particular the semaphore never
\* holds more than MaxConcurrent tokens and never fewer than none.
THEOREM TypeCorrect == Spec => []TypeOK
<1>1. IInv => TypeOK
  BY DEF IInv
<1> QED BY <1>1, PoolInvariant, PTL

\* An allocated device belongs to one caller.
THEOREM Exclusive == Spec => []ExclusiveHandout
<1>1. IInv => ExclusiveHandout
  BY DEF IInv, Holding
<1> QED BY <1>1, PoolInvariant, PTL

\* A caller is given an instance only by a claim, which finds it warm.
LEMMA GrantStep ==
  ASSUME IInv, Next, NEW c \in Client, held'[c] # None, held'[c] # held[c]
  PROVE  /\ held'[c] \in instances /\ instances' = instances /\ held[c] = None
         /\ \A d \in Client : held[d] # held'[c]
         /\ held' = [held EXCEPT ![c] = held'[c]]
         /\ Claim(c) /\ held'[c] = req[c].inst
<1> USE Facts DEF IInv
<1>1. HeldChange
  BY OthersStep
<1>2. /\ req[c].pc \in {"take", "grab"} /\ Claim(c) /\ instances' = instances
      /\ held' = [held EXCEPT ![c] = req[c].inst]
  BY <1>1 DEF HeldChange, Claim
<1>3. req[c].inst \in Inst /\ state[req[c].inst] = "Warm"
  <2>1. req[c].inst \in Inst /\ state[req[c].inst] \in DeviceStates
    BY <1>2 DEF NeedsInst, LocalsSet, ClientLocals
  <2> QED BY <1>2, <2>1, Transitions DEF Claim
<1>4. held[c] = None /\ \A d \in Client : held[d] # req[c].inst
  BY <1>2, <1>3, PoolAssumption DEF Holding, ClientHolding
<1>5. req[c].inst \in instances
  BY <1>2, <1>3, PoolAssumption DEF CandidateLocked, BootTracked, Tracks, Booting
<1> QED BY <1>2, <1>3, <1>4, <1>5

-----------------------------------------------------------------------------
(* The pool implements Handout *)

phase == [i \in Inst |-> IF i \in instances THEN "offered"
                         ELSE IF state[i] = "New" THEN "unborn"
                         ELSE "retired"]
SameNew == \A i \in Inst : state'[i] = "New" <=> state[i] = "New"

\* How the map's changes look to Handout.
LEMMA PhaseSteps ==
  ASSUME TypeOK, Created
  PROVE  /\ instances' = instances /\ SameNew => phase' = phase
         /\ \A i \in Inst :
              /\ instances' = instances \ {i} /\ SameNew /\ i \notin instances =>
                   phase' = phase
              /\ instances' = instances \ {i} /\ SameNew /\ i \in instances =>
                   phase' = [phase EXCEPT ![i] = "retired"] /\ phase[i] = "offered"
              /\ CreateInstance(i, device'[i].kind, device'[i].name) =>
                   phase' = [phase EXCEPT ![i] = "offered"] /\ phase[i] = "unborn"
<1>1. instances' = instances /\ SameNew => phase' = phase
  BY DEF phase, SameNew
<1>2. ASSUME NEW i \in Inst, instances' = instances \ {i}, SameNew
      PROVE  /\ i \notin instances => phase' = phase
             /\ i \in instances =>
                  phase' = [phase EXCEPT ![i] = "retired"] /\ phase[i] = "offered"
  BY <1>2 DEF phase, SameNew, Created
<1>3. ASSUME NEW i \in Inst, CreateInstance(i, device'[i].kind, device'[i].name)
      PROVE  phase' = [phase EXCEPT ![i] = "offered"] /\ phase[i] = "unborn"
  <2>1. /\ instances' = instances \cup {i} /\ state[i] = "New" /\ i \notin instances
        /\ state' = [state EXCEPT ![i] = "Creating"]
    BY <1>3 DEF CreateInstance, Fresh, Created
  <2>2. \A j \in Inst \ {i} : state'[j] = state[j] /\ (j \in instances' <=> j \in instances)
    BY <2>1 DEF TypeOK
  <2> QED BY <2>1, <2>2 DEF phase
<1> QED BY <1>1, <1>2, <1>3

\* The steps of Handout, on the pool's variables.
HandoutStep ==
  \/ phase' = phase /\ held' = held
  \/ \E i \in Inst : /\ phase[i] = "unborn" /\ held' = held
                     /\ phase' = [phase EXCEPT ![i] = "offered"]
  \/ \E i \in Inst : /\ phase[i] = "offered" /\ held' = held
                     /\ phase' = [phase EXCEPT ![i] = "retired"]
  \/ \E c \in Client :
       /\ held[c] # None /\ held' = [held EXCEPT ![c] = None]
       /\ phase' = phase \/ phase' = [phase EXCEPT ![held[c]] = "retired"]
  \/ \E c \in Client : \E i \in Inst :
       /\ held[c] = None /\ phase[i] = "offered" /\ \A d \in Client : held[d] # i
       /\ held' = [held EXCEPT ![c] = i] /\ phase' = phase

LEMMA HandoutSteps ==
  ASSUME IInv, Next
  PROVE  HandoutStep
<1>0. /\ TypeOK /\ LocalsSet /\ Created /\ Holding /\ CandidateLocked
      /\ held \in [Client -> Inst \cup {None}] /\ instances \subseteq Inst
      /\ state \in [Inst -> DeviceStates \cup {"New"}]
      /\ req \in [Client -> Requests]
  BY DEF IInv, TypeOK
<1>1. \A i \in Inst : state[i] # "New" => state'[i] # "New"
  BY <1>0, StaysCreated
<1>2. SameNew \/ \E i \in Inst : state[i] = "New" /\ state'[i] # "New"
  BY <1>1 DEF SameNew
<1> DEFINE Removes == \E i \in Inst : instances' = instances \ {i}
<1>3. ASSUME Removes \/ instances' = instances, SameNew, held' = held
      PROVE  HandoutStep
  BY <1>0, <1>3, PhaseSteps DEF HandoutStep
<1>4. ASSUME NEW i \in Inst, CreateInstance(i, device'[i].kind, device'[i].name),
             held' = held
      PROVE  HandoutStep
  BY <1>0, <1>4, PhaseSteps DEF HandoutStep
<1>5. ASSUME NEW c \in Client, req[c].pc \in {"take", "grab"}, Claim(c),
             instances' = instances
      PROVE  HandoutStep
  <2>1. req[c].inst \in Inst /\ state[req[c].inst] # "New"
    BY <1>0, <1>5, Facts DEF NeedsInst, LocalsSet, ClientLocals
  <2>2. SameNew
    BY <1>0, <1>5, <2>1 DEF Claim, SameNew
  <2>3. held'[c] = req[c].inst /\ held[c] = None /\ held'[c] # None
    BY <1>0, <1>5, <2>1, PoolAssumption DEF Claim, Holding, ClientHolding
  <2>4. held[c] = None /\ held'[c] \in instances /\ held'[c] \in Inst
        /\ \A d \in Client : held[d] # held'[c]
        /\ held' = [held EXCEPT ![c] = held'[c]]
    BY <2>1, <2>3, GrantStep
  <2>5. phase[held'[c]] = "offered" /\ phase' = phase
    BY <1>0, <1>5, <2>2, <2>4, PhaseSteps DEF phase
  <2> QED BY <2>4, <2>5 DEF HandoutStep
<1>6. ASSUME NEW c \in Client, Call(c) PROVE HandoutStep
  <2>1. instances' = instances /\ state' = state
    BY <1>6 DEF Call, AllocateAny, AllocateAVD, AllocateID, BootAVD, ReleaseBegin,
         Shutdown, poolVars
  <2>2. \/ held' = held
        \/ held[c] # None /\ held' = [held EXCEPT ![c] = None]
    BY <1>6 DEF Call, AllocateAny, AllocateAVD, AllocateID, BootAVD, ReleaseBegin,
         Shutdown
  <2>3. phase' = phase
    BY <2>1 DEF phase
  <2> QED BY <2>2, <2>3 DEF HandoutStep
<1>7. ASSUME NEW c \in Client, Proceed(c) PROVE HandoutStep
  <2>0. /\ req[c].inst \in Inst \cup {None}
        /\ req[c].pc \in NeedsInst => req[c].inst \in Inst /\ state[req[c].inst] # "New"
    BY <1>0, Facts DEF LocalsSet, ClientLocals, NeedsInst
  <2> USE <1>0 DEF NeedsInst, SameNew, poolVars
  <2>1. CASE TakeWarm(c)
    <3>1. CASE Claim(c)
      BY <1>5, <2>1, <3>1 DEF TakeWarm
    <3>2. CASE ~Claim(c)
      BY <1>3, <2>1, <3>2 DEF TakeWarm
    <3> QED BY <3>1, <3>2
  <2>2. CASE AcquireSlot(c) \/ PickAVD(c) \/ MarkBooting(c) \/ UnmarkBooting(c) \/ Unwind(c)
    BY <1>3, <2>2 DEF AcquireSlot, PickAVD, MarkBooting, UnmarkBooting, Unwind
  <2>3. CASE BootCreate(c)
    <3>1. ASSUME NEW i \in Inst, CreateInstance(i, "booted", req[c].avd)
          PROVE  HandoutStep
      <4>1. device'[i].kind = "booted" /\ device'[i].name = req[c].avd
        BY <3>1 DEF CreateInstance, TypeOK
      <4> QED BY <1>4, <2>3, <3>1, <4>1 DEF BootCreate
    <3>2. CASE UNCHANGED <<instances, state, device>>
      BY <1>3, <2>3, <3>2 DEF BootCreate
    <3> QED BY <2>3, <3>1, <3>2 DEF BootCreate
  <2>4. CASE BootToBooting(c) \/ BootPrepare(c)
    <3>1. SameNew /\ held' = held
      BY <2>0, <2>4 DEF BootToBooting, BootPrepare
    <3>2. Removes \/ instances' = instances
      BY <2>0, <2>4 DEF BootToBooting, BootPrepare, RemoveInstance
    <3> QED BY <1>3, <3>1, <3>2
  <2>5. CASE BootToWarm(c) \/ ShutdownMark(c)
    BY <1>3, <2>0, <2>5 DEF BootToWarm, ShutdownMark, Destroyed
  <2>6. CASE GrabBooted(c)
    <3>1. CASE Claim(c)
      BY <1>5, <2>6, <3>1 DEF GrabBooted
    <3>2. CASE ~Claim(c)
      BY <1>3, <2>6, <3>2 DEF GrabBooted
    <3> QED BY <3>1, <3>2
  <2>7. CASE ReleaseEnd(c)
    <3>1. /\ held[c] = req[c].inst /\ req[c].inst \in Inst /\ held[c] # None
          /\ held' = [held EXCEPT ![c] = None]
      BY <2>0, <2>7, PoolAssumption DEF ReleaseEnd, Holding, ClientHolding
    <3>2. SameNew
      BY <2>0, <2>7 DEF ReleaseEnd
    <3>3. phase' = phase \/ phase' = [phase EXCEPT ![held[c]] = "retired"]
      BY <2>7, <3>1, <3>2, PhaseSteps DEF ReleaseEnd, RemoveInstance
    <3> QED BY <3>1, <3>3 DEF HandoutStep
  <2>8. CASE ShutdownRemove(c)
    <3>1. Removes /\ SameNew /\ held' = held
      BY <2>0, <2>8 DEF ShutdownRemove, RemoveInstance
    <3> QED BY <1>3, <3>1
  <2> QED BY <1>7, <2>1, <2>2, <2>3, <2>4, <2>5, <2>6, <2>7, <2>8 DEF Proceed
<1>8. ASSUME NEW j \in Inst, ResetEnd(j) \/ Reserve(j) \/ WatchTick(j) \/ WatchProbe(j)
      PROVE  HandoutStep
  <2>1. SameNew /\ held' = held
    BY <1>0, <1>8 DEF ResetEnd, Reserve, WatchTick, WatchProbe, clientVars, poolVars,
         SameNew, Created
  <2>2. Removes \/ instances' = instances
    BY <1>8 DEF ResetEnd, Reserve, WatchTick, WatchProbe, RemoveInstance, poolVars
  <2> QED BY <1>3, <2>1, <2>2
<1>9. CASE Maintenance
  <2>1. held' = held
    BY <1>9 DEF Maintenance, AdoptScan, UsbScan, AdoptCreate, AdoptSkip, AdoptWarm,
         PruneScan, PruneOne, IdleScan, SweepMark, SweepRemove, clientVars
  <2>2. ASSUME NEW i \in Inst, AdoptCreate(i) PROVE HandoutStep
    <3>1. CreateInstance(i, device'[i].kind, device'[i].name)
      <4>1. device'[i] = [kind |-> IF maint.pc = "usb" THEN "usb" ELSE "adopted",
                          name |-> maint.name]
        BY <1>0, <2>2 DEF AdoptCreate, CreateInstance, TypeOK
      <4> QED BY <2>2, <4>1 DEF AdoptCreate
    <3> QED BY <1>4, <2>1, <3>1
  <2>3. CASE ~\E i \in Inst : AdoptCreate(i)
    <3>0. maint \in Maints /\ (maint.pc \in {"warm", "kill"} => maint.it \in Inst)
          /\ (maint.pc = "warm" => state[maint.it] # "New")
      BY <1>0, Facts DEF TypeOK, LocalsSet, MaintLocals
    <3>1. SameNew
      BY <1>0, <1>9, <2>3, <3>0 DEF Maintenance, AdoptScan, UsbScan, AdoptSkip, AdoptWarm,
           PruneScan, PruneOne, IdleScan, SweepMark, SweepRemove, Destroyed, SameNew,
           poolVars, Created
    <3>2. Removes \/ instances' = instances
      BY <1>9, <2>3, <3>0 DEF Maintenance, AdoptScan, UsbScan, AdoptSkip, AdoptWarm,
           PruneScan, PruneOne, IdleScan, SweepMark, SweepRemove, RemoveInstance, poolVars
    <3> QED BY <1>3, <2>1, <3>1, <3>2
  <2> QED BY <2>2, <2>3
<1> QED BY <1>6, <1>7, <1>8, <1>9 DEF Next

\* Every step of the pool is one of Handout's, or changes nothing it can see.
THEOREM Implements == Spec => PromiseKept
<1>1. Init => Promise!Init
  BY DEF Init, Promise!Init
<1>2. IInv /\ [Next]_vars => [Promise!Next]_<<phase, held>>
  <2>1. CASE Next /\ IInv
    <3>1. HandoutStep
      BY <2>1, HandoutSteps
    <3> QED BY <3>1 DEF HandoutStep, Promise!Next, Promise!Offer, Promise!Retire,
                        Promise!Return, Promise!Grant, phase
  <2>2. CASE UNCHANGED vars
    BY <2>2 DEF vars, phase
  <2> QED BY <2>1, <2>2
<1> QED BY <1>1, <1>2, PoolInvariant, PTL DEF Spec, PromiseKept, Promise!Spec, phase

-----------------------------------------------------------------------------
(* The semaphore *)

\* A caller that holds a slot for which there is no instance (yet): see InFlight.
HasSlot(c) ==
  /\ req[c].op # "boot"
  /\ \/ req[c].pc \in {"pick", "mark", "create", "unwind"}
     \/ req[c].pc = "unmark" /\ req[c].inst = None

\* BootAVD never asks for a slot.
SlotCallers == \A c \in Client : req[c].pc = "acquire" => req[c].op # "boot"

\* How one step changes what is counted: a slot is taken by a caller, passes from the
\* caller to the instance it boots, and is given back by either.
SlotStep ==
  \/ /\ sem' = sem /\ instances \subseteq instances' /\ InFlight \subseteq InFlight'
  \/ \E c \in Client : /\ sem' = sem + 1 /\ instances' = instances
                       /\ c \notin InFlight /\ InFlight \cup {c} \subseteq InFlight'
  \/ \E i \in Inst, n \in {1, 2} :
       /\ sem' = Drained(n) /\ instances' = instances \ {i} /\ InFlight \subseteq InFlight'
  \/ \E c \in Client, i \in Inst :
       /\ sem' = sem /\ i \notin instances /\ instances' = instances \cup {i}
       /\ InFlight \ {c} \subseteq InFlight'
  \/ \E c \in Client : /\ sem' = sem - 1 /\ instances' = instances
                       /\ InFlight \ {c} \subseteq InFlight'

\* Whatever changes so leaves no token behind.
LEMMA SlotsCounted ==
  ASSUME TypeOK, TypeOK', NoSlotLeak, SlotStep
  PROVE  NoSlotLeak'
<1>1. /\ IsFiniteSet(instances) /\ IsFiniteSet(instances')
      /\ IsFiniteSet(InFlight) /\ IsFiniteSet(InFlight')
  <2>1. /\ instances \subseteq Inst /\ instances' \subseteq Inst
        /\ InFlight \subseteq Client /\ InFlight' \subseteq Client
    BY DEF TypeOK, InFlight
  <2> QED
    BY <2>1, PoolAssumption, FS_Subset
<1>2. /\ Cardinality(instances) \in Nat /\ Cardinality(instances') \in Nat
      /\ Cardinality(InFlight) \in Nat /\ Cardinality(InFlight') \in Nat
      /\ sem \in Nat /\ sem' \in Nat
  BY <1>1, FS_CardinalityType DEF TypeOK
<1>3. instances \subseteq instances' => Cardinality(instances) <= Cardinality(instances')
  BY <1>1, FS_Subset
<1>4. InFlight \subseteq InFlight' => Cardinality(InFlight) <= Cardinality(InFlight')
  BY <1>1, FS_Subset
<1>5. ASSUME NEW c, InFlight \ {c} \subseteq InFlight'
      PROVE  Cardinality(InFlight) - 1 <= Cardinality(InFlight')
  <2>1. /\ IsFiniteSet(InFlight \ {c})
        /\ Cardinality(InFlight \ {c})
             = IF c \in InFlight THEN Cardinality(InFlight) - 1 ELSE Cardinality(InFlight)
    BY <1>1, FS_RemoveElement
  <2>2. Cardinality(InFlight \ {c}) <= Cardinality(InFlight')
    BY <1>1, <1>5, FS_Subset
  <2>3. Cardinality(InFlight \ {c}) \in Nat
    BY <2>1, FS_CardinalityType
  <2> QED
    BY ONLY <1>2, <2>1, <2>2, <2>3
<1>6. ASSUME NEW c, c \notin InFlight, InFlight \cup {c} \subseteq InFlight'
      PROVE  Cardinality(InFlight) + 1 <= Cardinality(InFlight')
  <2>1. Cardinality(InFlight \cup {c}) = Cardinality(InFlight) + 1
    BY <1>1, <1>6, FS_AddElement
  <2>2. Cardinality(InFlight \cup {c}) <= Cardinality(InFlight')
    BY <1>1, <1>6, FS_Subset
  <2> QED
    BY <1>2, <2>1, <2>2
<1>7. ASSUME NEW i, instances' = instances \ {i}
      PROVE  Cardinality(instances) - 1 <= Cardinality(instances')
  BY <1>1, <1>2, <1>7, FS_RemoveElement
<1>8. ASSUME NEW i, i \notin instances, instances' = instances \cup {i}
      PROVE  Cardinality(instances') = Cardinality(instances) + 1
  BY <1>1, <1>8, FS_AddElement
\* From here on only the four numbers matter.
<1> DEFINE n0 == Cardinality(instances)
           n1 == Cardinality(instances')
           f0 == Cardinality(InFlight)
           f1 == Cardinality(InFlight')
<1>9. /\ n0 \in Nat /\ n1 \in Nat /\ f0 \in Nat /\ f1 \in Nat
      /\ sem \in Nat /\ sem' \in Nat /\ sem <= n0 + f0
  BY <1>2 DEF NoSlotLeak
<1>10. SUFFICES sem' <= n1 + f1
  BY DEF NoSlotLeak
<1>11. CASE sem' = sem /\ instances \subseteq instances' /\ InFlight \subseteq InFlight'
  <2>1. n0 <= n1 /\ f0 <= f1
    BY <1>3, <1>4, <1>11
  <2> QED
    BY ONLY <1>9, <1>11, <2>1
<1>12. ASSUME NEW c \in Client, sem' = sem + 1, instances' = instances,
              c \notin InFlight, InFlight \cup {c} \subseteq InFlight'
       PROVE  sem' <= n1 + f1
  <2>1. n1 = n0 /\ f0 + 1 <= f1
    BY <1>6, <1>12
  <2> QED
    BY ONLY <1>9, <1>12, <2>1
<1>13. ASSUME NEW i \in Inst, NEW n \in {1, 2}, sem' = Drained(n),
              instances' = instances \ {i}, InFlight \subseteq InFlight'
       PROVE  sem' <= n1 + f1
  <2>1. sem' = 0 \/ sem' <= sem - 1
    BY <1>9, <1>13 DEF Drained
  <2>2. n0 - 1 <= n1 /\ f0 <= f1
    BY <1>4, <1>7, <1>13
  <2> QED
    BY ONLY <1>9, <2>1, <2>2
<1>14. ASSUME NEW c \in Client, NEW i \in Inst, sem' = sem, i \notin instances,
              instances' = instances \cup {i}, InFlight \ {c} \subseteq InFlight'
       PROVE  sem' <= n1 + f1
  <2>1. n1 = n0 + 1 /\ f0 - 1 <= f1
    BY <1>5, <1>8, <1>14
  <2> QED
    BY ONLY <1>9, <1>14, <2>1
<1>15. ASSUME NEW c \in Client, sem' = sem - 1, instances' = instances,
              InFlight \ {c} \subseteq InFlight'
       PROVE  sem' <= n1 + f1
  <2>1. n1 = n0 /\ f0 - 1 <= f1
    BY <1>5, <1>15
  <2> QED
    BY ONLY <1>9, <1>15, <2>1
<1> QED
  BY <1>11, <1>12, <1>13, <1>14, <1>15 DEF SlotStep

\* Every step is such a change.
LEMMA SlotSteps ==
  ASSUME IInv, SlotCallers, Next
  PROVE  SlotStep /\ SlotCallers'
<1>0. /\ req \in [Client -> Requests] /\ sem \in 0 .. MaxConcurrent
      /\ \A c \in Client : req[c].inst \in Inst \cup {None}
      /\ \A c \in Client : req[c].pc \in NeedsInst => req[c].inst \in Inst
      /\ maint \in Maints /\ (maint.pc \in {"warm", "kill"} => maint.it \in Inst)
      /\ \A i \in instances : state[i] # "New"
      /\ None \notin Inst
  BY PoolAssumption
  DEF IInv, TypeOK, LocalsSet, ClientLocals, MaintLocals, Maints, Requests, Created
<1> DEFINE Goal == SlotStep /\ SlotCallers'
\* A step of one caller, or of none.
<1>1. ASSUME NEW c \in Client, \A d \in Client \ {c} : req'[d] = req[d],
             req'[c].pc = "acquire" => req'[c].op # "boot"
      PROVE  /\ SlotCallers'
             /\ InFlight \ {c} \subseteq InFlight'
             /\ (HasSlot(c) => HasSlot(c)') => InFlight \subseteq InFlight'
             /\ HasSlot(c)' => InFlight \cup {c} \subseteq InFlight'
             /\ ~HasSlot(c) => c \notin InFlight
  BY <1>1 DEF SlotCallers, InFlight, HasSlot
<1>2. ASSUME UNCHANGED req,
             \/ UNCHANGED sem /\ instances \subseteq instances'
             \/ \E i \in Inst, n \in {1, 2} : RemoveInstance(i, n)
      PROVE  Goal
  BY <1>2 DEF SlotCallers, InFlight, SlotStep, RemoveInstance
<1>3. ASSUME NEW c \in Client, Call(c)
      PROVE  Goal
  <2> USE <1>0, ReqFields DEF CanCall
  <2>1. UNCHANGED <<sem, instances>> /\ req[c].pc = "idle"
    BY <1>3 DEF Call, AllocateAny, AllocateAVD, AllocateID, BootAVD, ReleaseBegin, Shutdown,
         poolVars
  <2>2. /\ \A d \in Client \ {c} : req'[d] = req[d]
        /\ req'[c].pc = "acquire" => req'[c].op # "boot"
    BY <1>3 DEF Call, AllocateAny, AllocateAVD, AllocateID, BootAVD, ReleaseBegin, Shutdown
  <2>3. ~HasSlot(c)
    BY <2>1 DEF HasSlot
  <2> QED
    BY <1>1, <2>1, <2>2, <2>3 DEF SlotStep
<1>4. ASSUME NEW c \in Client, Proceed(c)
      PROVE  Goal
  <2> USE <1>0, ReqFields
  <2>0. \A d \in Client \ {c} : req'[d] = req[d]
    BY <1>4 DEF Proceed, TakeWarm, Claim, AcquireSlot, PickAVD, MarkBooting, BootCreate,
         BootToBooting, BootPrepare, BootToWarm, UnmarkBooting, GrabBooted, Unwind,
         ReleaseEnd, ShutdownMark, ShutdownRemove, BootReturns
  <2>1. CASE TakeWarm(c)
    <3>1. /\ UNCHANGED <<sem, instances>> /\ ~HasSlot(c)
          /\ req'[c].pc = "acquire" => req'[c].op # "boot"
      BY <2>1 DEF TakeWarm, Claim, HasSlot
    <3> QED
      BY <1>1, <2>0, <3>1 DEF SlotStep
  <2>2. CASE AcquireSlot(c)
    <3>1. /\ req[c].op # "boot" /\ req[c].pc = "acquire" /\ UNCHANGED instances
          /\ \/ UNCHANGED sem /\ Return(c)
             \/ sem' = sem + 1 /\ \E p \in {"mark", "pick"} : Goto(c, p)
      BY <2>2 DEF AcquireSlot, SlotCallers
    <3>2. /\ req'[c].pc # "acquire" /\ ~HasSlot(c) /\ UNCHANGED instances
          /\ \/ UNCHANGED sem
             \/ sem' = sem + 1 /\ HasSlot(c)'
      BY <3>1 DEF HasSlot
    <3> QED
      BY <1>1, <2>0, <3>2 DEF SlotStep
  <2>3. CASE PickAVD(c) \/ MarkBooting(c) \/ UnmarkBooting(c)
    <3>1. /\ UNCHANGED <<sem, instances>> /\ req'[c].pc # "acquire"
          /\ HasSlot(c) => HasSlot(c)'
      BY <2>3 DEF PickAVD, MarkBooting, UnmarkBooting, HasSlot, poolVars, Requests
    <3> QED
      BY <1>1, <2>0, <3>1 DEF SlotStep
  <2>4. CASE BootCreate(c)
    <3>1. /\ req'[c].pc # "acquire" /\ UNCHANGED sem
          /\ \/ \E i \in Inst : i \notin instances /\ instances' = instances \cup {i}
             \/ UNCHANGED instances /\ (HasSlot(c) => HasSlot(c)')
      BY <2>4 DEF BootCreate, CreateInstance, Fresh, BootReturns, HasSlot
    <3> QED
      BY <1>1, <2>0, <3>1 DEF SlotStep
  <2>5. CASE BootToBooting(c) \/ BootPrepare(c)
    <3>1. /\ req'[c].pc # "acquire" /\ ~HasSlot(c) /\ req[c].inst \in Inst
          /\ UNCHANGED <<sem, instances>> \/ RemoveInstance(req[c].inst, 1)
      BY <2>5 DEF BootToBooting, BootPrepare, BootReturns, HasSlot, NeedsInst
    <3> QED
      BY <1>1, <2>0, <3>1 DEF SlotStep, RemoveInstance
  <2>6. CASE BootToWarm(c) \/ GrabBooted(c) \/ ShutdownMark(c)
    <3>1. /\ req'[c].pc # "acquire" /\ ~HasSlot(c) /\ UNCHANGED <<sem, instances>>
      BY <2>6 DEF BootToWarm, GrabBooted, Claim, ShutdownMark, BootReturns, HasSlot
    <3> QED
      BY <1>1, <2>0, <3>1 DEF SlotStep
  <2>7. CASE Unwind(c)
    <3>1. req'[c].pc # "acquire" /\ sem' = sem - 1 /\ UNCHANGED instances
      BY <2>7 DEF Unwind
    <3> QED
      BY <1>1, <2>0, <3>1 DEF SlotStep
  <2>8. CASE ReleaseEnd(c) \/ ShutdownRemove(c)
    <3>1. /\ req'[c].pc # "acquire" /\ ~HasSlot(c) /\ req[c].inst \in Inst
          /\ \/ UNCHANGED <<sem, instances>>
             \/ \E n \in {1, 2} : RemoveInstance(req[c].inst, n)
      BY <2>8 DEF ReleaseEnd, ShutdownRemove, HasSlot, NeedsInst
    <3> QED
      BY <1>1, <2>0, <3>1 DEF SlotStep, RemoveInstance
  <2> QED
    BY <1>4, <2>1, <2>2, <2>3, <2>4, <2>5, <2>6, <2>7, <2>8 DEF Proceed
<1>5. ASSUME NEW j \in Inst, ResetEnd(j) \/ Reserve(j) \/ WatchTick(j) \/ WatchProbe(j)
      PROVE  Goal
  <2>1. /\ UNCHANGED req
        /\ UNCHANGED <<sem, instances>> \/ RemoveInstance(j, 1)
    BY <1>5 DEF ResetEnd, Reserve, WatchTick, WatchProbe, clientVars, poolVars
  <2> QED
    BY <1>2, <2>1
<1>6. CASE Maintenance
  <2>1. UNCHANGED req
    BY <1>6 DEF Maintenance, AdoptScan, UsbScan, AdoptCreate, AdoptSkip, AdoptWarm,
         PruneScan, PruneOne, IdleScan, SweepMark, SweepRemove, clientVars
  <2>2. \/ UNCHANGED sem /\ instances \subseteq instances'
        \/ \E i \in Inst, n \in {1, 2} : RemoveInstance(i, n)
    BY <1>0, <1>6 DEF Maintenance, AdoptScan, UsbScan, AdoptCreate, CreateInstance,
         AdoptSkip, AdoptWarm, PruneScan, PruneOne, IdleScan, SweepMark, SweepRemove, poolVars
  <2> QED
    BY <1>2, <2>1, <2>2
<1> QED
  BY <1>3, <1>4, <1>5, <1>6 DEF Next

\* removeInstance and every failed boot: no token of the semaphore is left behind.
THEOREM NoSlotLeaks == Spec => []NoSlotLeak
<1>1. Init => SlotCallers /\ NoSlotLeak
  <2> SUFFICES ASSUME Init PROVE SlotCallers /\ NoSlotLeak
    OBVIOUS
  <2>1. SlotCallers
    BY DEF Init, SlotCallers, NoCall
  <2>2. instances = {} /\ InFlight \subseteq Client /\ sem = 0
    BY DEF Init, InFlight
  <2>3. Cardinality(instances) \in Nat /\ Cardinality(InFlight) \in Nat
    BY <2>2, PoolAssumption, FS_Subset, FS_EmptySet, FS_CardinalityType
  <2> QED
    BY <2>1, <2>2, <2>3 DEF NoSlotLeak
<1>2. /\ IInv /\ IInv' /\ SlotCallers /\ NoSlotLeak /\ [Next]_vars
      => SlotCallers' /\ NoSlotLeak'
  <2>1. ASSUME IInv, IInv', SlotCallers, NoSlotLeak, Next
        PROVE  SlotCallers' /\ NoSlotLeak'
    BY <2>1, SlotSteps, SlotsCounted DEF IInv
  <2>2. ASSUME SlotCallers, NoSlotLeak, UNCHANGED vars
        PROVE  SlotCallers' /\ NoSlotLeak'
    BY <2>2 DEF SlotCallers, NoSlotLeak, InFlight, vars
  <2> QED
    BY <2>1, <2>2
<1> QED
  BY <1>1, <1>2, PoolInvariant, PTL DEF Spec

-----------------------------------------------------------------------------
(* One instance of an AVD *)

\* From the moment it picks an AVD until it has unmarked it, a boot has it for itself.
Owns(c) == req[c].pc \in NeedsAVD \cup {"mark"}

OwnAVD ==
  /\ \A c \in Client : req[c].op \notin {"allocateAVD", "boot"}
  /\ \A c \in Client : req[c].pc = "mark" => avdMu = c
  /\ \A c \in Client : req[c].pc \in NeedsAVD => req[c].avd \in bootingAVDs
  /\ \A c, d \in Client : Owns(c) /\ Owns(d) /\ req[c].avd = req[d].avd => c = d
  /\ \A c \in Client : req[c].pc \in {"mark", "create"} => Tracked(req[c].avd) = {}
  /\ maint.pc # "adopt"
  /\ maint.pc = "usb" => maint.name \in Phone /\ Tracked(maint.name) = {}

\* Tracked after a step.
TrackedNext(n) == {i \in instances' : device'[i].name = n}

\* No instance is added, and none changes its name.
Shrinks ==
  /\ instances' \subseteq instances
  /\ \A i \in instances : device'[i] = device[i]

\* A step of c that adds no instance and neither picks nor marks an AVD.
Plain(c) ==
  /\ req'[c].op \notin {"allocateAVD", "boot"}
  /\ req'[c].pc \notin {"mark", "create"}
  /\ req'[c].pc \in NeedsAVD => /\ req[c].pc \in NeedsAVD /\ req'[c].avd = req[c].avd
                                /\ bootingAVDs' = bootingAVDs
  /\ \/ bootingAVDs' = bootingAVDs
     \/ req[c].pc = "unmark" /\ bootingAVDs' = bootingAVDs \ {req[c].avd}
  /\ avdMu' = avdMu
  /\ Shrinks

\* How a step of maintenance, a reset or a watchDevice goroutine touches them.
NoCaller ==
  /\ UNCHANGED <<req, bootingAVDs, avdMu>>
  /\ \/ /\ Shrinks /\ maint'.pc # "adopt"
        /\ maint'.pc = "usb" => maint'.name \in Phone /\ Tracked(maint'.name) = {}
     \/ \E i \in Inst :
          /\ maint.pc = "usb" /\ maint'.pc = "warm"
          /\ CreateInstance(i, "usb", maint.name)

LEMMA OwnPlain ==
  ASSUME TypeOK, OwnAVD, OneInstancePerAVD, UNCHANGED maint,
         NEW c \in Client, \A d \in Client \ {c} : req'[d] = req[d], Plain(c)
  PROVE  OwnAVD' /\ OneInstancePerAVD'
<1>1. \A n : Tracked(n) = {} => TrackedNext(n) = {}
  BY DEF Plain, Shrinks, Tracked, TrackedNext
<1>2. OneInstancePerAVD'
  BY DEF OneInstancePerAVD, Plain, Shrinks
<1>3. \A d \in Client : req'[d].op \notin {"allocateAVD", "boot"}
  BY DEF OwnAVD, Plain
<1>4. \A d \in Client : req'[d].pc = "mark" => avdMu' = d
  BY DEF OwnAVD, Plain
<1>5. \A d \in Client : Owns(d)' => Owns(d) /\ req'[d].avd = req[d].avd
  BY DEF OwnAVD, Plain, Owns
<1>6. \A d, e \in Client : Owns(d)' /\ Owns(e)' /\ req'[d].avd = req'[e].avd => d = e
  BY <1>5 DEF OwnAVD
<1>7. ASSUME NEW d \in Client, req'[d].pc \in NeedsAVD
      PROVE  req'[d].avd \in bootingAVDs'
  <2>1. req[d].pc \in NeedsAVD /\ req'[d].avd = req[d].avd /\ req[d].avd \in bootingAVDs
    BY <1>7 DEF OwnAVD, Plain
  <2>2. CASE d = c
    BY <1>7, <2>1, <2>2 DEF Plain
  <2>3. CASE d # c /\ bootingAVDs' # bootingAVDs
    <3>1. Owns(c) /\ Owns(d) /\ bootingAVDs' = bootingAVDs \ {req[c].avd}
      BY <2>1, <2>3 DEF Plain, Owns, NeedsAVD
    <3> QED
      BY <2>1, <2>3, <3>1 DEF OwnAVD
  <2> QED
    BY <2>1, <2>2, <2>3
<1>8. \A d \in Client : req'[d].pc \in {"mark", "create"} => TrackedNext(req'[d].avd) = {}
  <2>1. ASSUME NEW d \in Client, req'[d].pc \in {"mark", "create"}
        PROVE  TrackedNext(req'[d].avd) = {}
    <3>1. d # c /\ req'[d] = req[d]
      BY <2>1 DEF Plain
    <3>2. Tracked(req[d].avd) = {}
      BY <2>1, <3>1 DEF OwnAVD
    <3> QED
      BY <1>1, <3>1, <3>2
  <2> QED
    BY <2>1
<1>9. /\ maint'.pc # "adopt"
      /\ maint'.pc = "usb" => maint'.name \in Phone /\ TrackedNext(maint'.name) = {}
  BY <1>1 DEF OwnAVD
<1> QED
  BY <1>2, <1>3, <1>4, <1>6, <1>7, <1>8, <1>9 DEF OwnAVD, Tracked, TrackedNext

\* A new instance of an AVD or a phone that was not tracked.
LEMMA TrackedGrows ==
  ASSUME TypeOK, Created, OneInstancePerAVD,
         NEW i \in Inst, NEW kind, NEW n, CreateInstance(i, kind, n), Tracked(n) = {}
  PROVE  /\ OneInstancePerAVD'
         /\ \A m : m # n /\ Tracked(m) = {} => TrackedNext(m) = {}
<1>1. /\ instances' = instances \cup {i} /\ i \notin instances
      /\ device'[i].name = n
      /\ \A j \in instances : device'[j] = device[j]
  BY DEF CreateInstance, Fresh, TypeOK, Created
<1>2. \A j \in instances : device[j].name # n
  BY DEF Tracked
<1> QED
  BY <1>1, <1>2 DEF OneInstancePerAVD, Tracked, TrackedNext

LEMMA OwnNoCaller ==
  ASSUME IInv, OwnAVD, OneInstancePerAVD, NoCaller
  PROVE  OwnAVD' /\ OneInstancePerAVD'
<1>1. /\ UNCHANGED <<req, bootingAVDs, avdMu>>
      /\ \A c \in Client : Owns(c)' <=> Owns(c)
  BY DEF NoCaller, Owns
<1>2. CASE /\ Shrinks /\ maint'.pc # "adopt"
           /\ maint'.pc = "usb" => maint'.name \in Phone /\ Tracked(maint'.name) = {}
  <2>1. \A n : Tracked(n) = {} => TrackedNext(n) = {}
    BY <1>2 DEF Shrinks, Tracked, TrackedNext
  <2>2. OneInstancePerAVD'
    BY <1>2 DEF OneInstancePerAVD, Shrinks
  <2>3. \A c \in Client : req'[c].pc \in {"mark", "create"} => TrackedNext(req'[c].avd) = {}
    BY <1>1, <2>1 DEF OwnAVD
  <2>4. maint'.pc = "usb" => maint'.name \in Phone /\ TrackedNext(maint'.name) = {}
    BY <1>2, <2>1
  <2> QED
    BY <1>1, <1>2, <2>2, <2>3, <2>4 DEF OwnAVD, Tracked, TrackedNext
<1>3. ASSUME NEW i \in Inst, maint.pc = "usb", maint'.pc = "warm",
             CreateInstance(i, "usb", maint.name)
      PROVE  OwnAVD' /\ OneInstancePerAVD'
  <2>1. maint.name \in Phone /\ Tracked(maint.name) = {}
    BY <1>3 DEF OwnAVD
  <2>2. /\ OneInstancePerAVD'
        /\ \A m : m # maint.name /\ Tracked(m) = {} => TrackedNext(m) = {}
    BY <1>3, <2>1, TrackedGrows DEF IInv
  <2>3. \A c \in Client : req[c].pc \in {"mark", "create"} => req[c].avd # maint.name
    BY <2>1, PoolAssumption DEF IInv, LocalsSet, ClientLocals, TypeOK, Requests, NeedsAVD
  <2>4. \A c \in Client : req'[c].pc \in {"mark", "create"} => TrackedNext(req'[c].avd) = {}
    BY <1>1, <2>2, <2>3 DEF OwnAVD
  <2> QED
    BY <1>1, <1>3, <2>2, <2>4 DEF OwnAVD, Tracked, TrackedNext
<1> QED
  BY <1>2, <1>3 DEF NoCaller

\* Where nobody asks for a given AVD, boots by name or adopts.
LEMMA OwnSteps ==
  ASSUME Ops \cap {"allocateAVD", "boot", "adopt"} = {},
         IInv, OwnAVD, OneInstancePerAVD, Next
  PROVE  OwnAVD' /\ OneInstancePerAVD'
<1> DEFINE Goal == OwnAVD' /\ OneInstancePerAVD'
<1>0. /\ TypeOK /\ Created /\ req \in [Client -> Requests] /\ maint \in Maints
      /\ \A c \in Client : req[c].pc \in {"toBooting", "prepare", "toWarm"} => req[c].inst \in Inst
      /\ \A i \in instances : state[i] # "New"
      /\ "allocateAVD" \notin Ops /\ "boot" \notin Ops /\ "adopt" \notin Ops
  BY DEF IInv, TypeOK, Created, LocalsSet, ClientLocals, Requests, NeedsInst
<1>1. ASSUME NEW c \in Client, Call(c)
      PROVE  Goal
  <2> USE <1>0, ReqFields DEF CanCall, poolVars, locks, daemonVars
  <2>1. /\ UNCHANGED <<instances, device, bootingAVDs, avdMu, maint>>
        /\ \A d \in Client \ {c} : req'[d] = req[d]
    BY <1>1 DEF Call, AllocateAny, AllocateAVD, AllocateID, BootAVD, ReleaseBegin, Shutdown
  <2>2. /\ req'[c].op \notin {"allocateAVD", "boot"}
        /\ req'[c].pc \notin NeedsAVD \cup {"mark"}
    BY <1>1 DEF Call, AllocateAny, AllocateAVD, AllocateID, BootAVD, ReleaseBegin, Shutdown,
         OwnAVD, NeedsAVD
  <2>3. Plain(c)
    BY <2>1, <2>2 DEF Plain, Shrinks, NeedsAVD
  <2> QED
    BY <2>1, <2>3, OwnPlain
<1>2. ASSUME NEW c \in Client, Proceed(c)
      PROVE  Goal
  <2> USE <1>0, ReqFields DEF poolVars, locks, daemonVars
  <2>0. /\ UNCHANGED maint
        /\ \A d \in Client \ {c} : req'[d] = req[d]
        /\ req[c].op \notin {"allocateAVD", "boot"}
    BY <1>2 DEF OwnAVD, Proceed, TakeWarm, Claim, AcquireSlot, PickAVD, MarkBooting, BootCreate,
         BootToBooting, BootPrepare, BootToWarm, UnmarkBooting, GrabBooted, Unwind,
         ReleaseEnd, ShutdownMark, ShutdownRemove, BootReturns
  <2>1. CASE TakeWarm(c) \/ AcquireSlot(c) \/ GrabBooted(c) \/ Unwind(c)
             \/ ReleaseEnd(c) \/ ShutdownMark(c) \/ ShutdownRemove(c)
    <3>1. /\ UNCHANGED <<device, bootingAVDs, avdMu>> /\ instances' \subseteq instances
      BY <2>1 DEF TakeWarm, AcquireSlot, GrabBooted, Unwind, ReleaseEnd, ShutdownMark,
           ShutdownRemove, RemoveInstance
    <3>2. /\ req'[c].op \notin {"allocateAVD", "boot"}
          /\ req'[c].pc \notin NeedsAVD \cup {"mark"}
      BY <2>0, <2>1 DEF TakeWarm, Claim, AcquireSlot, GrabBooted, Unwind, ReleaseEnd,
           ShutdownMark, ShutdownRemove, NeedsAVD
    <3>3. Plain(c)
      BY <3>1, <3>2 DEF Plain, Shrinks, NeedsAVD
    <3> QED
      BY <2>0, <3>3, OwnPlain
  <2>2. CASE PickAVD(c)
    <3>1. CASE Goto(c, "unwind") /\ UNCHANGED avdMu
      <4>1. Plain(c)
        BY <2>0, <2>2, <3>1 DEF PickAVD, Plain, Shrinks, NeedsAVD
      <4> QED
        BY <2>0, <4>1, OwnPlain
    <3>2. ASSUME NEW a \in AVD \ bootingAVDs, Tracked(a) = {}, avdMu = None, avdMu' = c,
                 req' = [req EXCEPT ![c].pc = "mark", ![c].avd = a]
          PROVE  Goal
      <4>1. /\ req'[c].pc = "mark" /\ req'[c].avd = a /\ req'[c].op = req[c].op
            /\ UNCHANGED <<instances, device, bootingAVDs>>
        <5>1. req[c] \in Requests
          BY <1>0
        <5>2. req'[c].pc = "mark" /\ req'[c].avd = a /\ req'[c].op = req[c].op
          BY <1>0, <3>2, <5>1 DEF Requests
        <5> QED
          BY <2>2, <5>2 DEF PickAVD
      <4>2. \A d \in Client : req[d].pc # "mark"
        BY <3>2, PoolAssumption DEF OwnAVD
      <4>3. \A d \in Client \ {c} : /\ Owns(d)' <=> Owns(d)
                                    /\ Owns(d) => req[d].avd # a
        BY <2>0, <3>2, <4>2 DEF OwnAVD, Owns
      <4>4. \A d \in Client : req'[d].pc = "mark" => avdMu' = d
        BY <2>0, <3>2, <4>2
      <4>5. \A d \in Client : req'[d].pc \in NeedsAVD => req'[d].avd \in bootingAVDs'
        BY <2>0, <4>1 DEF OwnAVD, NeedsAVD
      <4>6. \A d, e \in Client : Owns(d)' /\ Owns(e)' /\ req'[d].avd = req'[e].avd => d = e
        BY <2>0, <4>1, <4>3 DEF OwnAVD
      <4>7. \A n : TrackedNext(n) = Tracked(n)
        BY <4>1 DEF Tracked, TrackedNext
      <4>8. \A d \in Client : req'[d].pc \in {"mark", "create"} => TrackedNext(req'[d].avd) = {}
        BY <2>0, <3>2, <4>1, <4>7 DEF OwnAVD
      <4>9. OneInstancePerAVD'
        BY <4>1 DEF OneInstancePerAVD
      <4> QED
        BY <2>0, <4>1, <4>4, <4>5, <4>6, <4>7, <4>8, <4>9 DEF OwnAVD, Tracked, TrackedNext
    <3> QED
      BY <2>2, <3>1, <3>2 DEF PickAVD
  <2>3. CASE MarkBooting(c)
    <3>1. /\ req[c].pc = "mark" /\ req'[c].pc = "create" /\ req'[c].avd = req[c].avd
          /\ req'[c].op = req[c].op /\ bootingAVDs' = bootingAVDs \cup {req[c].avd}
          /\ UNCHANGED <<instances, device>>
      BY <2>3 DEF MarkBooting
    <3>2. avdMu = c /\ \A d \in Client : req[d].pc = "mark" => d = c
      BY <3>1 DEF OwnAVD
    <3>3. \A d \in Client : req'[d].pc # "mark"
      BY <2>0, <3>1, <3>2
    <3>4. \A d \in Client : /\ Owns(d)' <=> Owns(d)
                            /\ req'[d].avd = req[d].avd /\ req'[d].op = req[d].op
      BY <2>0, <3>1 DEF Owns, NeedsAVD
    <3>5. \A d \in Client : req'[d].pc \in NeedsAVD => req'[d].avd \in bootingAVDs'
      BY <2>0, <3>1 DEF OwnAVD
    <3>6. \A n : TrackedNext(n) = Tracked(n)
      BY <3>1 DEF Tracked, TrackedNext
    <3>7. \A d \in Client : req'[d].pc \in {"mark", "create"} => TrackedNext(req'[d].avd) = {}
      BY <2>0, <3>1, <3>6 DEF OwnAVD
    <3>8. OneInstancePerAVD'
      BY <3>1 DEF OneInstancePerAVD
    <3> QED
      BY <2>0, <3>3, <3>4, <3>5, <3>6, <3>7, <3>8 DEF OwnAVD, Tracked, TrackedNext
  <2>4. CASE BootCreate(c)
    <3>1. CASE BootReturns(c, None) /\ UNCHANGED <<instances, state, device>>
      <4>1. Plain(c)
        BY <2>0, <2>4, <3>1 DEF BootCreate, BootReturns, Plain, Shrinks, NeedsAVD
      <4> QED
        BY <2>0, <4>1, OwnPlain
    <3>2. ASSUME NEW i \in Inst, CreateInstance(i, "booted", req[c].avd),
                 GotoWith(c, "toBooting", i)
          PROVE  Goal
      <4>1. /\ req[c].pc = "create" /\ req'[c].pc = "toBooting" /\ req'[c].avd = req[c].avd
            /\ req'[c].op = req[c].op /\ UNCHANGED <<bootingAVDs, avdMu>>
        BY <2>4, <3>2 DEF BootCreate
      <4>2. Tracked(req[c].avd) = {} /\ req[c].avd \in AVD
        <5>1. req[c] \in Requests /\ req[c].avd # None
          BY <1>0, <4>1 DEF IInv, LocalsSet, ClientLocals, NeedsAVD
        <5>2. req[c].avd \in AVD
          BY <5>1 DEF Requests
        <5> QED
          BY <4>1, <5>2 DEF OwnAVD
      <4>3. /\ OneInstancePerAVD'
            /\ \A m : m # req[c].avd /\ Tracked(m) = {} => TrackedNext(m) = {}
        BY <3>2, <4>2, TrackedGrows
      <4>4. \A d \in Client : /\ Owns(d)' <=> Owns(d)
                              /\ req'[d].avd = req[d].avd /\ req'[d].op = req[d].op
                              /\ req'[d].pc \in NeedsAVD => req[d].pc \in NeedsAVD
                              /\ req'[d].pc = "mark" => req[d].pc = "mark"
                              /\ req'[d].pc \in {"mark", "create"} => d # c /\ req'[d] = req[d]
        BY <2>0, <4>1 DEF Owns, NeedsAVD
      <4>5. ASSUME NEW d \in Client, req'[d].pc \in {"mark", "create"}
            PROVE  TrackedNext(req'[d].avd) = {}
        <5>1. d # c /\ req'[d] = req[d] /\ Owns(d) /\ Owns(c)
          BY <4>1, <4>4, <4>5 DEF Owns, NeedsAVD
        <5>2. req[d].avd # req[c].avd /\ Tracked(req[d].avd) = {}
          BY <4>5, <5>1 DEF OwnAVD
        <5> QED
          BY <4>3, <5>1, <5>2
      <4>6. /\ maint'.pc # "adopt"
            /\ maint'.pc = "usb" => maint'.name \in Phone /\ TrackedNext(maint'.name) = {}
        BY <2>0, <4>2, <4>3, PoolAssumption DEF OwnAVD
      <4> QED
        BY <4>1, <4>3, <4>4, <4>5, <4>6 DEF OwnAVD, Tracked, TrackedNext
    <3> QED
      BY <2>4, <3>1, <3>2 DEF BootCreate
  <2>5. CASE BootToBooting(c) \/ BootPrepare(c) \/ BootToWarm(c) \/ UnmarkBooting(c)
    <3>1. /\ UNCHANGED <<device, avdMu>> /\ instances' \subseteq instances
          /\ req'[c].op = req[c].op /\ req'[c].avd = req[c].avd
      BY <2>0, <2>5 DEF BootToBooting, BootPrepare, BootToWarm, UnmarkBooting, BootReturns,
           RemoveInstance
    <3>2. CASE UnmarkBooting(c)
      <4>1. /\ req[c].pc = "unmark" /\ bootingAVDs' = bootingAVDs \ {req[c].avd}
            /\ req'[c].pc \in {"unwind", "grab"}
        BY <3>2 DEF UnmarkBooting
      <4>2. Plain(c)
        BY <2>0, <3>1, <4>1 DEF Plain, Shrinks, NeedsAVD
      <4> QED
        BY <2>0, <4>2, OwnPlain
    <3>3. CASE BootToBooting(c) \/ BootPrepare(c) \/ BootToWarm(c)
      <4>1. /\ req[c].pc \in {"toBooting", "prepare", "toWarm"} /\ UNCHANGED bootingAVDs
            /\ req'[c].pc \in {"prepare", "toWarm", "unmark"}
        BY <2>0, <3>3 DEF BootToBooting, BootPrepare, BootToWarm, BootReturns
      <4>2. Plain(c)
        BY <2>0, <3>1, <4>1 DEF Plain, Shrinks, NeedsAVD
      <4> QED
        BY <2>0, <4>2, OwnPlain
    <3> QED
      BY <2>5, <3>2, <3>3
  <2> QED
    BY <1>2, <2>1, <2>2, <2>3, <2>4, <2>5 DEF Proceed
<1>3. ASSUME NEW j \in Inst, ResetEnd(j) \/ Reserve(j) \/ WatchTick(j) \/ WatchProbe(j)
      PROVE  Goal
  <2>1. /\ UNCHANGED <<req, bootingAVDs, avdMu, maint, device>> /\ instances' \subseteq instances
    BY <1>3 DEF ResetEnd, Reserve, WatchTick, WatchProbe, clientVars, poolVars, locks,
         daemonVars, RemoveInstance
  <2>2. NoCaller
    BY <2>1 DEF NoCaller, Shrinks, OwnAVD
  <2> QED
    BY <2>2, OwnNoCaller
<1>4. CASE Maintenance
  <2> USE <1>0 DEF Maints, clientVars, poolVars, locks
  <2>1. ASSUME NEW n \in Phone, UsbScan(n)
        PROVE  NoCaller
    <3>1. maint'.pc = "usb" /\ maint'.name = n /\ Tracked(n) = {}
      BY <2>1 DEF UsbScan
    <3> QED
      BY <2>1, <3>1 DEF UsbScan, NoCaller, Shrinks
  <2>2. ASSUME NEW i \in Inst, AdoptCreate(i)
        PROVE  NoCaller
    <3>1. maint.pc = "usb" /\ maint'.pc = "warm"
      BY <2>2 DEF AdoptCreate, OwnAVD
    <3> QED
      BY <2>2, <3>1 DEF AdoptCreate, NoCaller
  <2>3. ASSUME NEW i \in Inst, PruneOne(i) \/ SweepMark(i)
        PROVE  NoCaller
    <3>1. maint'.pc \in {"ready", "prune", "kill"}
      BY <2>3 DEF PruneOne, SweepMark
    <3> QED
      BY <2>3, <3>1 DEF PruneOne, SweepMark, RemoveInstance, NoCaller, Shrinks
  <2>4. ASSUME AdoptSkip \/ AdoptWarm \/ SweepRemove
        PROVE  NoCaller
    <3>1. maint'.pc \in {"ready", "sweep"}
      BY <2>4 DEF AdoptSkip, AdoptWarm, SweepRemove
    <3>2. UNCHANGED <<req, bootingAVDs, avdMu, device>>
      BY <2>4 DEF AdoptSkip, AdoptWarm, SweepRemove
    <3>3. instances' \subseteq instances
      BY <2>4 DEF AdoptSkip, AdoptWarm, SweepRemove, RemoveInstance
    <3> QED
      BY <3>1, <3>2, <3>3 DEF NoCaller, Shrinks
  <2>5. ASSUME NEW s \in SUBSET Inst, PruneScan(s) \/ IdleScan(s)
        PROVE  NoCaller
    <3>1. maint'.pc \in {"prune", "sweep"}
      BY <2>5 DEF PruneScan, IdleScan
    <3> QED
      BY <2>5, <3>1 DEF PruneScan, IdleScan, NoCaller, Shrinks
  <2>6. \A n \in AVD \cup Phone : ~AdoptScan(n)
    BY DEF AdoptScan
  <2>7. NoCaller
    BY <1>4, <2>1, <2>2, <2>3, <2>4, <2>5, <2>6 DEF Maintenance
  <2> QED
    BY <2>7, OwnNoCaller
<1> QED
  BY <1>1, <1>2, <1>3, <1>4 DEF Next

\* avdMu and bootingAVDs: "don't boot a second copy".  They hold off other allocations
\* that pick an AVD themselves; a boot that names its AVD, and the adoption of a
\* running emulator, look at neither.
THEOREM OneInstance ==
  ASSUME Ops \cap {"allocateAVD", "boot", "adopt"} = {}
  PROVE  Spec => []OneInstancePerAVD
<1>1. Init => OwnAVD /\ OneInstancePerAVD
  BY DEF Init, OwnAVD, Owns, OneInstancePerAVD, NoCall, NeedsAVD
<1>2. IInv /\ OwnAVD /\ OneInstancePerAVD /\ [Next]_vars => OwnAVD' /\ OneInstancePerAVD'
  <2>1. ASSUME OwnAVD, OneInstancePerAVD, UNCHANGED vars
        PROVE  OwnAVD' /\ OneInstancePerAVD'
    BY <2>1 DEF OwnAVD, Owns, Tracked, OneInstancePerAVD, vars
  <2> QED
    BY <2>1, OwnSteps
<1> QED
  BY <1>1, <1>2, PoolInvariant, PTL DEF Spec
=============================================================================
