# drizz-farm: a verification development

drizz-farm is a daemon that lends Android devices (emulators it boots, emulators
somebody else started, phones on USB) to test runs: a client creates a session,
is given a device, drives it over adb or Appium, and releases it. This directory
models the daemon's concurrent core in TLA+, checks the models with TLC and
proves theorems about them with TLAPS. Paths below are relative to `src/`.

## 1. The system

| component | state it keeps | operations | what is hard |
|---|---|---|---|
| **pool** `internal/pool` | `instances`, the semaphore `sem`, `bootingAVDs`, each instance's state, session and reservation | allocate (any, by AVD, by id), boot on demand, release and reset, shutdown, reserve; a watchdog per emulator; the maintenance loop | every operation is several critical sections under different locks (`p.mu`, `avdMu`, one mutex per instance) with minutes of adb in between |
| **broker** `internal/session/broker.go` | `sessions` | create, release, timeouts, eviction callback, queue draining | a session is inserted, launched and torn down in steps; four goroutines end sessions |
| **queue** `internal/session/queue.go` | `entries`, a result channel per entry | enqueue and wait, dequeue, push back, give up | an entry taken out by one goroutine while its waiter gives up |
| **Appium manager** `internal/appium` | `instances`, `usedPorts` | start, stop, stop all | `Start` gives up its mutex for 30 s in the middle |
| **port allocator, emulator device** `internal/android` | ports in use | allocate at boot, release at shutdown | shutdown may run twice; an eviction runs it not at all |
| **hub** `internal/api/handlers_appium.go` | the map from WebDriver ids to sessions | POST, commands, DELETE | finds sessions by id and servers by port number, both of which outlive what they name |
| **capture** `internal/capture` | videos, logcats, networks per session; the next proxy port | start and stop each, stop all; retention sweep | start, stop, a dying device and the next session overlap |
| **registry** `internal/registry` | group name, key and nodes; their file | create, join, add, remove, leave | several nodes, best-effort propagation, save outside the lock |
| **store** `internal/store` | SQLite rows of sessions, events and reservations | record, load, clean zombies | crash and restart; rows written out of order |
| **daemon** `cmd/start.go`, `cmd/stop.go`, `internal/daemon` | the pid file; what outlives a process: rows, emulators | start, shut down, stop, sweep | crashes and restarts; two processes and a third that stops them share only files, signals and `pkill` |
| **device handlers** `internal/api/handlers_{device,snapshot,recording,screen,webrtc}.go` | recordings, input channels, forwards, temporary files, and the settings of the device | one goroutine or several per request | they resolve a device once and act on it for minutes, whoever has it by then |
| **health** `internal/health` | registered instances | check loop | the daemon never registers one |

The API handlers call the broker and the pool from one goroutine per request.
The broker calls `pool.Allocate*` and `pool.Release`; the pool calls back
(`onReady` when a device becomes warm, `onEvicted` when an instance with a
session leaves the map). The broker starts captures and Appium for a session
and stops them at its end. `cmd/start.go` wires everything and stops it in the
order API, broker, health, pool. Everything else (CLI, configuration, mDNS,
licence, telemetry, webhooks, dashboard, client libraries, MCP server) is I/O or
stateless; `PROJECT.json` lists each with the reason it is left out.

What makes each component correct:

* pool: an instance is given to one caller at a time and never after it left the
  map; no slot leaks; one instance per AVD; a mark in `bootingAVDs` goes away;
  shutdown, maintenance and eviction do not disturb this.
* broker and queue: a session that is active owns its device; a queued request is
  in one place, answered once, and answered at all; ending a session happens once
  and tears everything down.
* Appium and ports: a port belongs to one live server or emulator, and is given back.
* hub: the id a client has leads to its own server and session, as long as that is active.
* capture: whatever was started for a session is stopped before the next has the
  device, nothing that was recorded is lost, and stopping comes to an end.
* daemon and store: one daemon at a time; after any crash the rows say what is true.
* device handlers: nobody sees another device, nothing is left behind, all end.
* registry: the file agrees with memory once writers are done; members agree.

The hazards, at their lines, are in `PROJECT.json`; each names the properties
that would catch it, or says why none does yet.

## 2. Modules

| module | models | role |
|---|---|---|
| `DeviceState` | `pool/state.go`: the states and `validTransitions` | used by `Pool` and `Broker` |
| `Pool` | `pool/pool.go`, `pool/instance.go` | the core |
| `Handout` | nothing of the code: what a pool of devices promises its callers | abstract specification, refined by `Pool` |
| `PoolProofs` | | inductive invariant and theorems about `Pool` |
| `Broker`, `BrokerProofs` | `session/broker.go`, `session/queue.go`, over the pool as they use it | the sessions; theorems |
| `Service` | nothing of the code: what the broker promises its clients | abstract specification, refined by `Broker` |
| `Appium` | `appium/server.go` | ports of the Appium servers; theorems in `HubProofs` |
| `Ports`, `PortsProofs` | `android/port.go`, `emulator_device.go`, `emulator.go` and the calls `pool.go` makes of them | ports of the emulators; theorems |
| `Hub`, `HubProofs` | `api/handlers_appium.go` with the ends of sessions of `broker.go` and `handlers_session.go`; EXTENDS `Appium` | WebDriver sessions over Appium servers; theorems about both |
| `Capture`, `CaptureProofs` | `capture/capture.go`, `capture/retention.go` and the calls the broker makes of them | recordings of sessions that have a device in turn; theorems |
| `Daemon`, `DaemonProofs` | `cmd/start.go`, `cmd/stop.go`, `daemon/daemon.go`, `store/store.go`, and what starts and stops in `pool.go` and `broker.go` | processes, restarts and what outlives them; theorems |
| `Stream` | `api/handlers_webrtc.go` | the live view of a device |
| `Commands` | `api/handlers_device.go`, `handlers_snapshot.go`, `android/adb.go` | what each handler sends to a device, as data |
| `Remote`, `RemoteProofs` | `Stream`, `Commands`, `api/handlers_screen.go`, `handlers_recording.go`; `Reset` and the boot of `emulator_device.go` | everything clients do to a device beside Appium; theorems |
| `Group` | `registry/registry.go`, `api/handlers_registry.go`, between nodes | who is in a group, over a network that loses requests |
| `NodesFile` | `registry/registry.go`, within a node | the file of the registry, over crashes |
| `RegistryProofs` | | theorems about `Group` and `NodesFile` |
| `MC...` | | symmetry for TLC |

`Broker` stands on `Pool` by way of a small copy of the pool's promise (a warm
instance is given to one caller, comes back by release, is reset, may be
evicted, or destroyed after it was allocated); what it takes for granted of the pool, `Pool` is checked for:
exclusive hand-out, and a semaphore that is full only if there are devices or
boots to show for it (`NoSlotLeak`).  The registry is modelled twice because its
two difficulties have nothing to do with each other: `Group` has many nodes and
no disk, `NodesFile` one node and its disk.

`Hub` composes the Appium manager with the ends of sessions: its steps are steps
of `Appium` or leave `Appium`'s variables alone, and `Stop` comes only for a
session that ends. `Remote` composes the live view with
the other requests; `at`, `dev`, `up` and `cancelled` are shared by all of them.
`Capture`, `Hub`, `Daemon` and `Remote` each hold as much of the broker as they
need: a session that gets the device, and the order in which `Release`, the
timeout and the eviction end it.

A set `Ops` in each module names what clients and the environment may do. It
keeps a run small, and where the code is right only for some orders of calls it
says for which: the passing runs leave the others out, and section 5 says what
happens there. The theorems say which member of `Ops` they exclude, if any.

### Pool

One step is one critical section or one external call that returned. A request
goroutine `c` has a program counter and the locals `inst` and `avdName` in
`req[c]`; `held[c]` is the instance its last allocation returned. `instances`,
`sem`, `bootingAVDs` are the fields of `Pool`; `state`, `device` and `reserved`
those of each `DeviceInstance`, kept for removed instances too, because a reset
goroutine, a watchdog and a caller may still hold the pointer. `mu` and `avdMu`
appear only where the code keeps them across steps the model separates: `p.mu`
during the scan of candidates in `allocateAny` (each `TransitionTo` there races
with goroutines that hold no pool lock), and `avdMu` while an AVD is chosen.

The allocation path is `AllocateAny | AllocateAVD | AllocateID` (the scan),
`TakeWarm` (the `TransitionTo`), else `AcquireSlot`, `PickAVD`, `MarkBooting`,
`BootCreate`, `BootToBooting`, `BootPrepare`, `BootToWarm`, `UnmarkBooting`,
`GrabBooted`, with `Unwind` for the `<-p.sem` of every failure. `BootAVD` joins
at `BootCreate`. `ReleaseBegin`, `ReleaseEnd`, `ResetEnd` are `Release` and its
goroutine; `Shutdown`, `ShutdownMark`, `ShutdownRemove` are `ShutdownInstance`;
`WatchTick` and `WatchProbe` the watchdog; `AdoptScan .. SweepRemove` the
maintenance goroutine, which is one, so its operations do not overlap.

Inputs are chosen freely: whether adb lists a device, whether a boot, a
preparation or a reset succeeds (`Device` is an interface; today's devices
never fail `Reset`), how long an instance has been idle. `Ops` names the
operations a run exercises, so that each run stays small while the proofs
cover all of them at once.

Not in the model: `Stop` (the process exits after it), which profile prefers
which device, `Error` as a source of steps (only the health checker sets it and
no instance is ever registered with it), connection counters and timestamps.

### Broker

One name of `Req` stands for a call of `Create`, the session it leads to and its
queue entry. `go[g]` is where a goroutine is: the one in `Create`
(`Create`, `Allocate`, `Exhausted`, `Enqueue`, `Receive`, `GiveUp`), the drain
loop and the `drainQueue` goroutine of each release (`TryDequeue`, `Allocate`,
`PushFront`, `AllocateFails`), and in all of them the three steps of
`createSessionFromInstance`: `Attach` (up to `SetSession`), `Insert` (into
`b.sessions`), `Launch` (captures, Appium, store). Sessions are ended by
`Release .. ReleaseFree`, by the timeout loop `ExpireScan, ExpireMark,
ExpireFree`, and by the pool's callback `EvictMark, EvictStop`; each first marks
the session under `b.mu` and goes on outside it. `live` holds the sessions whose
captures and Appium server run. The loop is woken by `readyCh` and by a ticker,
so it may run at any time and `readyCh` is not a variable.

Of the pool, `instances`, the states and `SessionID` are kept; `Warm` and `Full`
stand for its scan of candidates and its semaphore. `Destroy` is the first half of
`destroyInstance`, by `ShutdownInstance` or maintenance: they look at the state,
unlock, and destroy what may have been allocated since, so that an active session
may have a device in `Destroying`; `Evict` is `removeInstance`, after that or by the
watchdog, with its callback. `at` keeps the order of `EnqueuedAt`, as ranks. Not in
the model: rows of the store, webhooks, `Stop` (the process exits).

### Appium

`Start` is cut where it unlocks `m.mu`: the lowest port that is neither in
`usedPorts` nor bound is taken and the process spawned (`Start`), and up to 30 s
later something answers on the port (`Ready`) or nothing does (`NotReady`).
`Stop` is cut before the kill. A server binds its port or dies of finding it
bound (`Listen`); it may exit at any time (`Crash`). `Taken` are ports other
programs have bound and keep. Ports are taken by number, so the lowest matters
and they are not symmetric.

### Ports

`EmulatorDevice.Prepare` is `Allocate`, `Boot`, `Booted` with the two failures;
`destroyInstance` is `Shutdown` (an instance found in the map), `Kill`, `Free`,
`Remove`; `Evict` is the watchdog's removal, which calls nothing of the device,
and with "lost" in `Ops` it may hit an emulator that runs. `Kill` may be refused
(`unkilled` remembers of whom): the error is logged, the pair released and the
emulator taken for gone. `Adopt` is what maintenance makes of an emulator that runs
and is in nobody's map; its pair was never registered with the allocator, and its
shutdown is a command to its console (`EmuKill`), whose error is dropped and which
gives no pair back. `process` changes when
the emulator is spawned; that `d.process` is assigned a moment later, a moment in
which no shutdown finds it, is part of the same step.

### Group

`group[n]` and `roster[n]` are `r.file` of node `n`. Requests between nodes are
records in a bag, with how far their handler has come (`at`): a handler checks
the key (`Verify`), calls the new node back (`CallBack`), and only then changes
the roster and sends requests of its own (`Add`, `Remove`), which arrive in any
order, since each is sent by a goroutine. `JoinGroup` is `JoinStart`, `JoinExport`
(at the peer), `JoinImport`, `JoinSelf`; `LeaveGroup` is `LeaveRead`, `LeaveWipe`.
A key stands for group name and key, a node for its name and URL. The reading of
peers and key in `LeaveGroup` are one step, the reading of the roster for
propagation is one with the change before it, and a node runs one `JoinGroup` at
a time. `held` and `calm` are history: the keys a node has had, and whether
nothing was lost and nobody removed by another so far.

### NodesFile

A step is a critical section of `r.mu` or a system call of `save`: marshal, open
and truncate `nodes.yaml.tmp`, write it, rename it. Files are inodes, because a
process that has the temporary file open goes on writing into it after another
has renamed it. A crash kills the daemon and leaves the files (a power failure,
which may lose what was written and not synced, is not modelled); `Restart` is
`New`, which `start.go` calls again when it fails. Any system call may fail
(`OpenFails`, `WriteFails`, `RenameFails`, `DeleteFails`, `Unlink`), after the change
in memory; the request then gets an error. `last`, `acked`, `answer` and `alone`
are history: the registry after the latest change and after the latest answer,
what the latest request was answered, and whether requests have come one after the
other.

### Hub

The POST of a session is `Create` (the insertion into `b.sessions`), `Launch`
(`Appium!Start`, whatever has become of the session since), `Post`
(the capabilities go to the session's port, where whoever listens may create a
session), `Stash` (the id is mapped), with `NoURL`, `PostFails` and `Fail` for
the errors that release the session again. DELETE is `Forward` (Appium answers)
and `Deleted` (release, then the map). `Release`, `TimeOut` and `Evict` are the
other ends, `EndServer` and `GiveBack` what the broker does after the state is
set; `late` remembers the sessions whose server was launched after their `Stop`.
`issuer` is the session whose server issued an id; two sessions have the same
port only at different times, so that an id and a port may come to mean
different sessions.

### Capture

`launch[s]` is where the broker is in starting the captures of a session, `stop[s]`
where `StopAll` is; both are sequences of critical sections and adb commands.
`videoChunkLoop` is `StartChunk`, `ChunkEnds` or `ChunkCancelled`, `Pulled` or
`PullFails`. What matters of a chunk is whether it is in `vc.chunks`, whether its
file or the merged video has it, and whether screenrecord ended by itself (`whole`)
or was killed before it wrote its index (`torn`). `proxy` is the device's
`http_proxy`, as a port; `mitm` the process behind it, which may not come up (another
program has the port, a bad option), may not be spawned (`SpawnProxyFails`) and may
die at any time (`ProxyDies`): the code starts it and does not look again. Ports are given in turn and
come round again (`MaxPort`). The device may die at every step and does not come
back; `wait-for-device`, which has no timeout, then never returns.

### Daemon

A process runs `Check`, `Write`, `Open`, `PoolStart`, `Restore`, `BrokerStart`,
`Listen`, and at its end `Shutdown`, `PoolStop`, `Sweep`, `Exit`; it may crash
anywhere between. Emulators, the pid file and both tables outlive it. In between
it boots devices, reserves them (`Ask` sets the flag, `Store` the row) and has
sessions (`Create`, `RecordActive`, `End` under `b.mu`, `RecordEnd` later).
Maintenance adopts emulators that run (`Adopt`), and devices leave the pool with or
without their emulator (`Drop`). The store may not open (`opened`), and each of its
operations may fail: `Restore` then reserves nothing, `BrokerStart` cleans up nothing,
`Record` and `StoreFails` write nothing, and the daemon goes on. Of the emulators
that `PoolStop`, `Sweep` and `StopSweep` kill, any may resist. `runStop` is
`StopCheck`, `StopSignal`, `StopPoll` or `StopKill`, `StopSweep`; each reads the pid
file anew. `kept` and `missed` are history: the devices to which reservations were
restored, as long as they stay in the pool and the store takes what is asked of
them, and the sessions of which a write to the store, or the clean-up, failed.

### Stream, Commands, Remote

`at[c]` is where the request of client `c` is and `dev[c]` the device its id was
resolved to, once. In `Stream`, `Offer` leaves the goroutine `streamH264` behind:
it waits for the connection, pushes the server, takes a free port, forwards it,
dials it (the port number, and adb rebinds ports silently: `forward` says which
device is behind each), reads units and undoes all that (`Undo`, whose
`forward --remove` may fail unnoticed: `stuck`); when it fails, the
fallback pipes screenrecord. A free port is any that nobody has bound: two viewers may
be given the same one. `nals` is the channel between reader and sender,
which drops the oldest unit.

`Commands` is a table: a handler is a set of scripts, a script a sequence of
commands, and a command says which setting it writes, what the handler does if it
succeeds and if it fails, and what becomes of its temporary file. `Remote` runs the
scripts (`Ask`, `CommandDone`, `CommandFails`, `Answer`), with the polling sockets
(`StreamScreen`, `StreamLogcat`), the input relay (`SendInput`; its producer makes
three selects, its consumer runs commands) and the recorder (`Start`, `Stop` and
its steps; the limit of 180 s). `by[d][k]` is the last client that wrote a setting,
`entitled` (only with "sessions" in `Ops`) who still has the device. `Die` and
`Boots` are devices that go and come back, `HandOver` the `Reset` between sessions.
A device does not come back between the resolution of an id and the step that uses
it in the recorder's map.

## 3. Runs

Deadlock checking is off in every run (`CHECK_DEADLOCK FALSE`): instances, calls,
sessions and requests are finite supplies in a run and the system comes to rest
when they are used up; in the pool a caller may besides block for ever on `p.sem`
(section 5).

| run | question | bounds | states |
|---|---|---|---|
| `pool_alloc` | exclusivity under every way to allocate, releases, resets, evictions, reservations | 2 callers, 2 instances, 2 AVDs, 1 slot | 1.1 M |
| `pool_maint` | `Pool` implements `Handout` (tracked instances only, one caller each) and leaks no slot, beside boots and shutdowns by hand, adoption, USB and the idle sweep | 2 callers, 2 instances, 1 AVD, 1 phone, 1 slot | 2.5 M |
| `pool_live` | profile allocation never tracks an AVD twice, and every booting mark is cleared | 2 callers, 2 instances, 2 AVDs, 2 slots, fairness | 277 k |
| `broker_serve` | `Broker` implements `Service`; an active session has its device; entries are in one place and never forgotten | 3 calls, 2 devices, a queue of 2; early releases, evictions, destruction of devices in use, requests for one device | 1.4 M |
| `broker_live` | no device is stranded; a queued call is answered | 2 calls, 1 device; timeouts, clients that give up; fairness | 3.6 k |
| `hub` | the port bookkeeping is exact, `Start` speaks of its own server; ids are issued by the session's own server and lead to it; failed POSTs and ended sessions leave nothing | 3 sessions, 3 ports of which 1 is taken; releases between insertion and launch | 7.7 M |
| `ports_boot` | a port pair has one emulator; a shut-down emulator stays down, if its kill did not fail | 3 emulators, 2 pairs, 2 shutdowns; kills that are refused, adoption | 245 k |
| `group_turns` | rosters agree and show nobody who left, unless something was lost; strangers stay out always | 3 nodes, 2 groups, 7 operations, one at a time | 22 k |
| `file_saves` | while requests come one by one the file is current, or the last of them got an error; damage by overlapping ones is reported | 3 requests, 2 contents, 2 crashes, any system call failing | 69 k |
| `capture` | nothing records for a session that gave its device back, nor does the device use its proxy; no chunk is lost; `StopAll` and the chunk loop end | 2 sessions in turn, one with video, 2 proxy ports, 3 chunks, a mitmdump that may die; fairness | 500 k |
| `daemon` | the pid file, the rows and the reservations are true whatever crashed, but for what the store did not take; the daemon that stop signals goes | 2 processes, 1 AVD, 2 sessions, a store that fails; fairness | 389 k |
| `remote` | nothing is left on the host, recorders can be stopped, handlers end, the newest input runs | 2 devices, 2 ports, 3 clients in 5 mixes, channels of 1 and 2, 4 messages; fairness | 122 k |

Why these bounds. The races of the pool are between two goroutines, and the
watchdogs, resets and maintenance are further ones of their own; two instances
let one be destroyed while another is created; one slot makes the semaphore
full, two let both AVDs boot at once. In the broker the third call is the one
that overtakes two in the queue, or takes the place of one that is being
drained. Three sessions on two free Appium ports, and three emulators on two
pairs, exhaust the supply and make it be reused; the third is the one that gets
a port given back wrongly. Three nodes are the fewest where two members can
disagree about a third, and seven operations let a group be created, joined by
both others, left, and joined or created again. Three requests let one overtake two others; two crashes allow one
in the recovery of the other. Two sessions in turn are
what a recording that goes on too long needs to meet somebody, and three chunks
let the third be numbered after a failure. Two processes are one that crashed or was
stopped, or hangs, and the next: the code never looks back further than to the last
one's pid file and rows, and what is stated of safety is proved for any number. That
a pid is never reused is what two names say; "reuse" in `Ops` lifts it.
`remote` has few clients because requests meet in few places: viewers on the
forwards (two), recorders in one map entry (three clients start and stop in both
mixes), input relays nowhere but on the device. Channels of 1 and 2 overflow as
those of 2 and 4 do, with four messages to fill them; commands are all of them in
`Commands`, one handler at a time, since settings do not depend on each other.

Callers, calls, instances, sessions, devices, nodes and requests
are interchangeable, and runs without liveness use that symmetry.

Where an order of calls is left out of a passing run, it is because the code
goes wrong there: `pool_live` without calls for named AVDs, `hub`
without a `Stop` while `Start` waits, `ports_boot` with one `Shutdown` per
emulator and after its boot, `group_turns` with one operation at a time,
`broker_serve` without timeouts, `capture` without a stop during the launch and
without failing `settings`, `daemon` without two starts at once, a session that
ends before its row is written, and two reservations at once, `remote` without a
forward whose command was killed. Where a call may fail at any time (kills, system
calls of `save`, the store, mitmdump, `forward --remove`) it does in the runs too, and
the properties say what of the promise is left; section 5 has the promise.

The types (`TypeOK`, in `NodesFile` `FileTypeOK`) hold under the same configurations, and so
do `MarksHaveBooters` (`Pool`), `PortsDistinct` and `NoOrphanServer` (`Appium`),
`StandaloneIsEmpty` and `LeaveFirst` (`Group`), `WholeWhenAlone` and `SavesAtomic`
(`NodesFile`); they say less than the properties the runs list, and several of
them are proved.

## 4. Fairness

`FairSpec` is used by the runs with a liveness property only. In the
pool a request goroutine that can take a step does (`SF`): steps wait for `p.mu`
and `avdMu`, which other goroutines keep taking, and a Go mutex hands itself over
to a waiter that has starved for a millisecond; external calls return: boots and
resets have timeouts, and of the adb commands that have none it is assumed that adb
answers. Resets and the maintenance goroutine are weakly fair. In the
broker every goroutine is weakly fair, as its steps do not compete for anything
that is held over a step. The timeout loop is strongly fair towards each
session: it lists every session that has expired, and a session nobody ends
expires. In `Capture` the launch, the chunk loop and `StopAll` are weakly fair: their
commands have timeouts or end with the device, except `wait-for-device`, which is
no step that a device that is gone enables. In `Daemon` only `runStop` is: it
polls for 20 s and no longer; the daemon may hang. In `Remote` requests of the
recorder and of `Commands` are weakly fair (adb answers), streams and sockets only
once their context is cancelled, because `exec.CommandContext` then kills the
command, and of a relay the consumer and the second and third select, which do
not block. Nobody is obliged to call an operation, clients need not release, and
the environment is not obliged to do anything.

## 5. Where the code and its words disagree

The modules also state sentences of the code that the code does not keep, each
with its quotation. None of them is a property of a passing run. A configuration
beside the modules shows the trace of each (`tlc -config <file> <MC module>`):

| configuration | property | the sentence | what happens |
|---|---|---|---|
| `PoolOvercommit` | `DevicesWithinLimit` | the semaphore "limits concurrent devices to MaxConcurrent", `pool.go:46` | a boot that fails gives back two tokens, so a second allocation gets a slot that another boot is using (`BootAVD` and adoption take no token at all) |
| `PoolHang` | `SlotReleasedOnFailure` | "release slot on failure", `pool.go:426` | a failed boot gives its slot back twice; the second receive may block for ever |
| `PoolSecondCopy` | `OneInstancePerAVD` | "don't boot a second copy", `pool.go:295` | two calls for a named AVD boot it twice |
| `PoolShutdown` | `ShutdownSparesAllocated` | "cannot shutdown allocated instance", `pool.go:595` | the check and the destruction are not one step |
| `PoolPhone` | `PhonesNotReset` | "don't touch the user's phone", `usb_device.go:66` | a phone adopted as a running emulator is reset as one |
| `PoolReserved` | `AutomatedSkipsReserved` | "skip this instance", `instance.go:24` | reserved is read before the claim only |
| `BrokerLocked` | `DeviceLocked` | "Locked to a session", `state.go:12` | a session released while the timeout loop has it on its list has its device released twice, the second time under the next session |
| `BrokerEarly` | `TornDown` | "tears them down on release", `session.go:81` | a session released while it is being launched gets its services afterwards; with "expire" for "early" in `Ops`, a session that times out keeps its captures and its Appium server |
| `BrokerOldest` | `OldestFirst` | "returns the oldest queued entry", `queue.go:78` | two drains put their entries back in the wrong order |
| `BrokerBounded` | `QueueBounded` | "queue (bounded) or 503", `ARCHITECTURE.md:118` | an entry put back finds its place taken |
| `BrokerLeft` | `LeftIsRemoved` | "removes an entry ... on timeout", `queue.go:106` | a drain puts back the entry of a client that gave up |
| `BrokerGone` | `EvictedIsEnding` | "would hang in active forever", `pool.go:757` | an eviction before the session is attached or inserted interrupts nothing |
| `GroupGhost` | `NoGhost` | "so other dashboards don't show us", `handlers_registry.go:248` | a node about to import the roster is not told |
| `GroupSwitch` | `LeaveFirst` | "leave first", `registry.go:238` | a group created while the join waits is overwritten |

The others need only another property, `Ops` or bound in the configuration of a
run:

| run's configuration | change | property | the sentence | what happens |
|---|---|---|---|---|
| `PortsBoot` | `{"twice"}` | `OneEmulatorPerPair` | "reserves the next available port pair" | a second `Shutdown` gives back a pair another emulator has |
| `PortsBoot` | `{"early"}` | `ShutdownIsFinal` | "kills the emulator process" | a shutdown before the boot kills nothing |
| `PortsBoot` | | `PairIsItsOwn` | "reserves the next available port pair"; "failed to kill emulator", `emulator_device.go:138` | the error is logged and the pair released: the next emulator gets the pair of one that runs |
| `PortsBoot` | `{}` | `IdleCanBoot` | "the pool looked full even with nothing running" | evicted emulators never give back their ports |
| `GroupTurns` | 1 key, 3 operations, `{"together"}` | `RostersAgree` | "so all rosters converge", `handlers_registry.go:301` | of two nodes that join together one is unknown to the other |
| `GroupTurns` | 2 nodes, 1 key, 4 operations, `{"leave", "together"}` | `StandaloneIsEmpty` | "empty state means standalone", `registry.go:224` | an `AddNode` whose key was checked comes after the wipe |
| `FileSaves` | | `FileWhole` | "writes the file atomically", `registry.go:74` | two saves share one temporary file |
| `FileSaves` | | `MemoryOnDisk` | "in-memory, file-backed", `registry.go:45` | a system call of `save`, or the removal of the file, fails after memory has changed |
| `FileSaves` | | `FileUpToDate` | "in-memory, file-backed", `registry.go:45` | saves overtake each other |
| `FileSaves` | | `StaysOut` | "Delete file", `registry.go:224` | a save under way writes the group back after the node has left |
| `FileSaves` | | `HasRegistry` | "starting standalone", `start.go:249` | `New` is called again with the same file and gives nil again |
| `HubOwn` | `{"early"}` | `PortsDistinct` | "will pick a different port", `server.go:173` | the not-ready path frees a port that is no longer its own |
| `HubOwn` | `{"early"}` | `OwnServer` | "actually listening", `server.go:203` | a stopped `Start` is satisfied by another session's server |
| `HubOwn` | | `AlwaysIssuedByOwn`, `ListedAreActive` | "Returns only sessions we're tracking" | ids of sessions that were released or timed out stay in the map, and their port becomes another session's |
| `HubOwn` | | `DeleteReleases` | "after Appium tears down its session we also release the drizz session" | if the server has crashed the client gets 502 and the session stays active until it times out |
| `HubOwn` | | `ReleasedStops` | "tears them down on release", `session.go:81` | a session released after its insertion and before its launch: `Stop` finds nothing, and the server starts on a device given back |
| `HubOwn` | | `ServerLeavesAlways` | "Auto-released", `session.go:15` | the server of a session that timed out goes on driving the device |
| `CaptureKept` | | `HolderAloneRecorded` | captures "at the session boundary" | a session that timed out is recorded on, under the next session |
| `CaptureKept` | | `ChunksPlayable` | "so it writes the moov atom at EOF", `capture.go:181` | `exec.CommandContext` kills adb when the context is cancelled, before the `pkill -2` that was to end screenrecord well |
| `CaptureKept` | | `LaunchEnds` | "a capture failure is logged but doesn't fail session creation" | `adb wait-for-device` has no timeout: if the device dies then, `Create` never returns |
| `CaptureKept` | | `OwnProxy` | "mitmdump proxy on a per-session port" | ports come round without a look at who has them, and mitmdump may be dead |
| `CaptureKept` | | `ProxyLive` | "so in-flight requests don't pile up" | nobody looks whether mitmdump listens: if it cannot, or dies, the device has no network |
| `CaptureKept` | `{"early"}` | `StoppedIsSilent` | "drains every capture for a session" | captures started while or after `StopAll` ran are nobody's |
| `CaptureKept` | `{"settings"}` or `{"early"}` | `ProxyOfHolder` | the same | a `settings delete` that fails is not noticed, or the proxy is set after `StopAll`: the device goes on using the proxy of a session that is over |
| `CaptureKept` | `{"quiet"}` | `SweptIsOver` | "older than the daemon's retention window" | a network-only session that writes nothing for its `retention_hours` loses its directory while it runs |
| `DaemonRestart` | `{"race"}` | `PidFileNamesIt` | "drizz-farm is already running", `start.go:92` | of two processes that check before either writes both run, and the first to exit removes the other's file |
| `DaemonRestart` | | `KillsWhatItSignalled` | "Daemon didn't exit in 20s" | the daemon did exit and launchd started the next, which is killed |
| `DaemonRestart` | `{"reuse"}` | `SignalsTheDaemon` | "the daemon via its pidfile" | the pid of a dead daemon names another program |
| `DaemonRestart` | | `SweepsOrphansOnly` | "orphaned children" | the sweep of an exiting daemon, or of stop, kills the emulators of the next |
| `DaemonRestart` | | `ReservationsComeBack` | "should come back reserved", `start.go:199` | an AVD booted or adopted after the start is not reserved, though its row is there; nor is any when the store gives an error |
| `DaemonRestart` | | `RowsAlwaysTrue` | rows "stuck in 'active' state" | an error of `RecordSession` is dropped, one of `CleanupZombieSessions` logged |
| `DaemonRestart` | | `StopLeavesNone` | "Always run a final orphan sweep", `stop.go:14` | emulators that cannot be killed stay |
| `DaemonRestart` | `{"early"}` | `RowsTrue` | rows "stuck in 'active' state" | a session released before its row is written leaves it active until the next start |
| `DaemonRestart` | `{"together"}` | `ReservationsKept` | the same as above | flag and row are set by two requests in different orders |
| `RemoteAll` | `{"sessions"}` | `OnlyHolderActs` | "Locked to a session" | streams, relays and scripts go on with a device that was handed to the next session |
| `RemoteAll` | `{"sessions"}` | `CleanForNext` | "triggers snapshot restore", `broker.go:286` | without the snapshot `Reset` uninstalls apps and returns nil: settings, files and the proxy stay |
| `RemoteAll` | | `RouteRuns` | "Run route in background", `handlers_device.go:790` | the goroutine uses the context of the request, which ends with the answer |
| `RemoteAll` | | `EntryRecords` | "recording" | screenrecord ends after 180 s or with the device, the entry stays |
| `RemoteAll` | | `OneRecorder` | "already recording" | `Stop` takes the entry away before the recorder has ended |
| `RemoteAll` | | `ClipKept` | "stopped", with a file name | the pull may fail, and the clip on the device is removed all the same |
| `RemoteAll` | | `IDRWithConfig` | "IDR ... always send with SPS+PPS", `webrtc.go:514` | the parameter sets may be among the units dropped, or in the 128 bytes skipped as a header |
| `RemoteAll` | | `FallsBack` | "fall back to screenrecord", `webrtc.go:217` | adb accepts on the forwarded port whether or not scrcpy runs, so a server that never started counts as one that worked |
| `RemoteAll` | | `ConnectedHasStream` | "connection timeout", `webrtc.go:192` | a peer that connects after 30 s has no stream, and stays connected |
| `RemoteAll` | | `OwnScreen` | "Find free port and forward", `handlers_webrtc.go:329` | two viewers get the same port, and one sees the other's device |
| `RemoteAll` | `{"killed"}` | `LeavesNothing` | | a forward that adb had installed when its command was killed stays |

Reading the code for the models also showed: `InstallAPK` says `-r` and passes
`-g`; `derivePortsFromSession` calls a hash modulo 100 "non-colliding"; two clips
started in the same second have the same name; a default of -1
hours, "retain forever" (`config.go:69`), is replaced by a week (`retention.go:31`); the shutdown of the
daemon stops no capture, so mitmdump and the device's proxy setting outlive it.

## 6. Proofs

### Pool

`PoolProofs` proves, for any finite sets of callers and instances, any AVDs,
phones and operations, and any positive `MaxConcurrent` (`PoolAssumption`):

* `TypeCorrect`: `Spec => []TypeOK`;
* `Exclusive`: `Spec => []ExclusiveHandout`;
* `Implements`: `Spec => PromiseKept`, the refinement of `Handout`;
* `NoSlotLeaks`: `Spec => []NoSlotLeak`;
* `OneInstance`: `Spec => []OneInstancePerAVD`, if `Ops` is without `allocateAVD`,
  `boot` and `adopt`. The hypothesis is the code's own limit: those three look at
  neither `avdMu` nor `bootingAVDs`, and `PoolSecondCopy` (section 5) shows the
  second copy a call for a named AVD can boot.

They rest on the inductive invariant `IInv`. Exclusivity is not inductive: a
caller in `grab` is about to claim the instance it booted, and one in `release`
still holds what another might be given. `IInv` therefore says what every
goroutine knows about its instance at each step: its locals are set
(`LocalsSet`), instances that exist were created (`Created`), an instance that
is held is `Allocated`, or on the way out of it, in ways no claim can start from
(`Holding`, `TornDown`), the candidate of `take` is in the map because its
caller is inside `p.mu` (`CandidateLocked`), and an instance being booted
belongs to exactly one goroutine and cannot leave the map before it is warm
(`BootOwnsInstance`, `BootTracked`). The proof goes action by action, but
through summaries of what a step may do to each part of the state
(`StateStep`, `InstancesStep`, `OthersStep`, `CallStep`, `MuStep`,
`MaintainsStep`), so that each conjunct is preserved once per kind of change
rather than once per action.

The last two take `IInv` as given and add what they need. For `NoSlotLeaks`,
`SlotStep` lists the five ways a step may change the semaphore, the map and the
callers in flight, `SlotsCounted` does the arithmetic on the cardinalities for
each, and `SlotSteps` shows every step to be one of them; the only new invariant is
that `BootAVD` never asks for a slot. For `OneInstance`, `OwnAVD` says that from
picking an AVD until unmarking it a boot has it for itself: `avdMu` keeps a
second caller from picking while the first has not marked, the mark does so
afterwards, and until the instance is created nothing tracks the AVD. A scan that
is about to adopt a phone is safe because phones have names no AVD has.

### Appium

For any sets of sessions and ports (`AppiumAssumption`), the first part of `HubProofs` proves
`TypeCorrect` and `NoneLeftBehind` (`[]NoOrphanServer`) whatever the clients do,
and, when no session is stopped while its `Start` waits (`"early" \notin Ops`),
`PortsExact` (`[](UsedPortsExact /\ PortsDistinct)`) and `ReadyIsOwn`
(`OwnServer`). `PortsExact` needs `EntryIsPort`: the entry `NotReady` deletes is
for the port it frees. `ReadyIsOwn` needs `OneOwner` besides: between its
reservation and the death of its server a port is bound by nobody else, which is
more than `usedPorts` says, since `Stop` gives the port up before the kill.

### Ports

For any sets of emulators, shutdowns and pairs (`PortsAssumption`),
`PortsProofs` proves `TypeCorrect`, and, when each emulator is shut down at most
once and not before its `Prepare` has returned, `PairsSafe`
(`[]OneEmulatorPerPair`) and `ShutdownStays` (`[]ShutdownIsFinal`), evictions of
running emulators, adoption and refused kills included: both speak of emulators
whose kill was not refused. The invariant says that a pair stays in `inUse` from
`Allocate` to `Free`, and that the process is dead by `Free` unless it is in
`unkilled`.

### Hub

For any sets of sessions and ports (`AppiumAssumption`, `HubAssumption`),
the second part of `HubProofs` first proves `ImplementsAppium`: `HubSpec => Spec`, every step of the
hub being a step of the manager or none (`StepOfManager`). Whatever
the first part says of the manager is then true under the hub, and the other
theorems use it: `TypeCorrect`, `NoneLeftBehind` and, for the last,
`EntriesKept`, `PortsKept` and `OwnerKept`.

* `FailedReleased` (`[]FailedIsOver`) and `Reachable` (`[]StaysReachable`) need
  only the types of the variables.
* `ServerFirst` (`[]ServerLeavesFirst`) holds whatever the order of calls, the release
  between insertion and launch included, whose servers (`late`) it excepts. The
  invariant must say who kills the server of a session that was released:
  `ReleasedEnds`, it is in `ending` or in `killing`. In `Stop` without an entry,
  which kills nothing, that the server is dead already or about to be killed
  comes from `NoOrphanServer`. `ActiveHolds` says that `Release`, which
  finds the session active, finds it with its device.
* `IdIsOwn` (`[]IssuedByOwnServer`, when `"early" \notin Ops`): the session that
  POSTs is active, so it has its entry (`EntryWhileActive`: only the end of a
  session takes it away), and `OneOwner` leaves no other server on its port.

### Daemon

For any sets of processes, AVDs and sessions (`DaemonAssumption`), `DaemonProofs`
proves `TypeCorrect` whatever happens, and under the conditions the run has too, with
a store that may fail at any time:

* `PidFileTrue` (`[]PidFileNamesIt`), without "race". It needs `Alone`: at most one
  process is between its check and its write, and while it is, none is up.
  `PhaseSteps` reduces the steps to four: `Check`, `Write`, a process goes on, or
  it ends. That the pid of a dead daemon is used again does not matter.
* `RowsAreTrue` (`[]RowsTrue`), without "race" and "early". `RowsFollow`: a session
  that lives or is being ended has a process that is at least serving, and the row of
  a live one is active unless it is still to be written, or was `missed`. `RowsCleaned`:
  once a process has gone through `CleanupZombieSessions`, active rows are those of its
  sessions, or were missed. A row
  written by a daemon that is shutting down is in order because no other is up
  (`Alone`).
* `ReservationsTrue` (`[]ReservationsKept`), without "race" and "together".
  `FlagsFollow`: the flag of a device in `kept` is its row, or what the one request
  under way (`AskedOnce`) is about to make of the row; what leaves the pool leaves
  `kept`, and `NothingYet` says that nothing is in it before the restoration.

### Capture

For any sessions and any numbers of ports and chunks (`CaptureAssumption`),
`CaptureProofs` proves:

* `HolderRecorded` (`[]OnlyHolderRecorded`), without "early", from `IInv`: a session
  has the device from the beginning of its launch to the end of its stop, unless
  the device dies (`Holds`); a chunk loop has an entry to be cancelled by, and
  is over when `StopAll` has gone past it (`Entries`); so that what may record a
  device that answers belongs to its holder or to a session that timed out
  (`Recorders`).
* `NoChunkLost` (`[]ChunksKept`), without "quiet": nothing is merged before the one
  `Merge` (`Unmerged`), which therefore loses nothing when ffmpeg fails.
* `ProxyGoes` (`[]ProxyOfHolder`), whatever becomes of mitmdump, for any `MaxPort`,
  without "early" and "settings": `Settings`, a device that answers is only sent through
  the proxy that its holder's launch set (or that of a session that timed out), and
  `StopAll` clears it before the device goes back.

### Remote

For any sets of clients, devices and ports, any requests and any capacities
(`StreamAssumption`, `RemoteAssumption`), `RemoteProofs` proves:

* `NothingLeft` (`[]LeavesNothing`), without "killed": no file of a finished request is
  left, and no forward but one that adb refused to remove (`stuck`), even when two viewers
  have one port. `Temps` says that the rest of a script still removes the file it made, whatever
  fails (`Dropping`); every script of `Commands` is shown to be written so (`TidyScripts`).
* `RecordersFound` (`[]NoOrphanRecorder`), whatever happens: `Stop` takes the entry from the
  map before it cancels the recorder, and an emulator that boots again finds no recorder alive.
* `InputRunsInOrder`, which no run lists: input is run in the order in which it
  came, and `cmdCh` keeps to its capacity. `Relays` says that the channel rises
  from what runs to what is yet to be put, also between its three selects (`Due`).

### Registry

`RegistryProofs` proves, for any sets of nodes and keys, when operations of users do not
overlap (without "together" and "same" in `Ops`), though requests may be lost and nodes
removed:

* `SameGroup` (`[]RosterSameGroup`). `Entitled`: a key comes from a member that
  has it, and who is written into a roster has shown the key to the callback or was in a
  member's roster.
* `RostersExact`: when nothing was lost, nobody was removed by another, and every request has
  been answered, a roster is its group. From it follow `Converge` (`[]RostersAgree`) and
  `GhostFree` (`[]NoGhost`). It is not inductive: while requests are under way `Rosters`
  says that a roster differs from its group by exactly the node those requests are about,
  and only where one of them has yet to arrive; `OneSubject` that they are all
  about one node. The bag of requests needs its own lemmas (what is sent, what arrives).
* `GroupTypeCorrect`.

And for any requests, processes and contents of the file (`NodesFileAssumption`):

* `DamageSeen` (`[]DamageReported`): however saves overlap, the file is damaged only
  if a request got an error. `Reported` follows what each save knows of the inode it writes.
* `UpToDate` (`[]UpToDateWhenAlone`): as long as requests come one after the other file and
  memory agree between them unless the last one got an error, over any number of kills and
  whatever system calls fail (`OneByOne`); `Atomic` says of
  every step that the file is whole (`SavesAtomic`, `WholeWhenAlone`).
* `FileTypeCorrect`.

### Broker

For any sets of calls and devices and any size of the queue (`BrokerAssumption`),
and for clients that give up and leave an entry behind, `BrokerProofs` proves
`TypeCorrect` and:

* `EntryServedOnce` (`[]ServedOnce`) and `NoCallForgotten` (`[]NoneForgotten`),
  whatever else happens. `OnePlace` says where a call is: once in the queue, or
  with one worker, or neither, and without a session or a result as long as it is to
  be served. It needs `CreatorAlone` (only a call whose client waits, or has left
  without an answer, is anywhere: `Waits`) and
  `DrainerRests`: a session is released once, so its drain is not running when
  `ReleaseFree` spawns it; `Listed` (the timeout loop marks sessions that exist)
  keeps this true when sessions expire. `Remembered` adds that the place is never lost.
* `DeviceIsLocked` (`[]DeviceLocked`), without "expire". `Owned`: whoever starts a
  session, has one or is releasing one has a device, allocated or, once the pool has
  set about destroying it, `Destroying`, and no two the same. With "expire" it is false, see `BrokerLocked` in section 5.
* `DeviceComesBack` (`[]NoDeviceStranded`), with everything else that may happen, "expire"
  included. `Claimed` is the property; it is kept because `EvictMark` interrupts only
  sessions whose device is gone (`EvictedGone`), which holds because a device knows
  its session before the session is entered and a session never has another
  (`Tracked`, over `Has`), and because the timeout loop frees a device before it marks
  the next session.
* `ServedAsPromised` (`[][ServiceStep]_vars`), with everything that may happen: a call is
  answered once, "ok" only for a session that was started and "error" only if there is
  none; a session starts once, never after an error, and once over stays over. It needs
  `Answers`: a call has no answer before its goroutine is done, and a result is "ok"
  exactly if there is a session.
* `ImplementsService` (`PromiseKept`), without "expire": with `Owned`, every `ServiceStep` is a
  step of `Service` or none; what is added is that a session has its device to itself.

### Only model-checked

Liveness (`MarksCleared`, `QueuedAnswered`, `StopReturns`, `LoopEnds`, `SignalledGoes`,
`HandlersEnd`, `NewestInputRuns`), which is out of the prover's reach. And, of what
is proved under a hypothesis on the operations in use (`DeviceIsLocked` and
`ImplementsService` of the broker, without expiry; `OneInstance` of the pool), the
hypothesis cannot be dropped: the broker's double release and the pool's second copy of
section 5 break them.

## 7. Not modelled, and the plan

`PROJECT.json` lists every component with what is left out of it. What is not
modelled at all has no state to get wrong (set-up, command line, configuration,
license, telemetry, mDNS, pages and lists), is not reached (`handlers_screen_v2.go`
but for `getFreePort`), or does nothing (the health checker: no instance is ever
registered with it). What is left to add is `Broker` with the contexts of API calls,
which end while a device boots for them (a failed `Allocate` stands for it now;
`GiveUp` is what a queued call does).
