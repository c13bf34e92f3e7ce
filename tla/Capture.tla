------------------------------ MODULE Capture -------------------------------
(***************************************************************************)
(* The capture service (internal/capture) on one device: the screen video, *)
(* logcat and network capture of each session that holds the device in     *)
(* turn, and the sweeper that deletes old artifacts.  Services of          *)
(* different devices share nothing but s.mu and the counter of ports.      *)
(*                                                                         *)
(* A step is a critical section of s.mu, an adb command, or something a    *)
(* process does.  launch is where createSessionFromInstance is in starting *)
(* the captures of a session, stop where StopAll is.                       *)
(***************************************************************************)
EXTENDS Integers, FiniteSets

CONSTANTS
  Sess,      \* sessions, each of which gets the device at most once
  Video, Logcat, Network,  \* those with record_video, capture_logcat, capture_network
  MaxPort,   \* proxy ports 1..MaxPort, for 8889..8999
  MaxChunk,  \* bound on chunk numbers
  Ops,       \* "early": StopAll may come while captures are being started;
             \* "settings": adb settings may fail on a device that is there;
             \* "quiet": a session that runs may write no file for longer than
             \* its retention window
  NoPort, None

ASSUME CaptureAssumption ==
  /\ MaxPort \in Nat \ {0} /\ MaxChunk \in Nat
  /\ NoPort = 0
  /\ Video \subseteq Sess /\ Logcat \subseteq Sess /\ Network \subseteq Sess
  /\ None \notin Sess
  /\ Ops \subseteq {"early", "settings", "quiet"}

VARIABLES
  alive,      \* the device answers
  holder,     \* the session that has the device
  launch, stop,
  videos, loop, cancelled,  \* s.videos, videoChunkLoop, its context
  idx, rapid, chunks,       \* its idx, rapidFailures and vc.chunks
  screen,     \* the screenrecord of the loop on the device
  logcats, tail,            \* s.logcats; the logcat processes that run
  networks, port, mitm,     \* s.networks; each session's port and mitmdump
  nextPort,   \* s.nextProxyPort
  proxy,      \* the device's http_proxy, as a port
  disk,       \* chunk files in each session's directory
  merged,     \* the chunks its video.mp4 holds
  swept       \* sessions whose directory was deleted

device == <<alive, holder>>
video == <<videos, loop, cancelled, idx, rapid, chunks, screen, disk, merged>>
network == <<networks, port, mitm, nextPort, proxy>>
vars == <<device, launch, stop, video, logcats, tail, network, swept>>

Init ==
  /\ alive = TRUE /\ holder = None
  /\ launch = [s \in Sess |-> "idle"] /\ stop = [s \in Sess |-> "idle"]
  /\ videos = {} /\ cancelled = {}
  /\ loop = [s \in Sess |-> "none"] /\ screen = [s \in Sess |-> "none"]
  /\ idx = [s \in Sess |-> 0] /\ rapid = [s \in Sess |-> 0]
  /\ chunks = [s \in Sess |-> {}] /\ disk = [s \in Sess |-> {}]
  /\ merged = [s \in Sess |-> {}]
  /\ logcats = {} /\ tail = {}
  /\ networks = {} /\ nextPort = 1 /\ proxy = NoPort
  /\ port = [s \in Sess |-> NoPort] /\ mitm = [s \in Sess |-> "none"]
  /\ swept = {}

\* A session is over for the broker once it is released, timed out or interrupted.
Over(s) == stop[s] # "idle"

-----------------------------------------------------------------------------
(* The launch of a session's captures, in the order of                     *)
(* createSessionFromInstance.                                              *)

Begin(s) ==
  /\ holder = None /\ alive /\ launch[s] = "idle"
  /\ holder' = s
  /\ launch' = [launch EXCEPT ![s] = "video"]
  /\ UNCHANGED <<alive, stop, video, logcats, tail, network, swept>>

\* StartVideo: the entry, and the goroutine.
StartVideo(s) ==
  /\ launch[s] = "video"
  /\ launch' = [launch EXCEPT ![s] = "logcat"]
  /\ videos' = videos \cup ({s} \cap Video)
  /\ loop' = [loop EXCEPT ![s] = IF s \in Video THEN "start" ELSE "none"]
  /\ UNCHANGED <<device, stop, cancelled, idx, rapid, chunks, screen, disk, merged,
                 logcats, tail, network, swept>>

\* StartLogcat, all of it under s.mu; adb logcat ends at once without a device,
\* and the session goes on without it when adb cannot be started.
StartLogcat(s) ==
  /\ launch[s] = "logcat"
  /\ launch' = [launch EXCEPT ![s] = IF s \in Network THEN "check" ELSE "done"]
  /\ \E started \in {{}, {s} \cap Logcat} :
       /\ logcats' = logcats \cup started
       /\ tail' = IF alive THEN tail \cup started ELSE tail
  /\ UNCHANGED <<device, stop, video, network, swept>>

\* StartNetwork looks for an entry, unlocks s.mu, and looks for mitmdump.
CheckNetwork(s) ==
  /\ launch[s] = "check"
  /\ \E step \in {"done", "install"} :
       /\ s \in networks => step = "done"
       /\ launch' = [launch EXCEPT ![s] = step]
  /\ UNCHANGED <<device, stop, video, logcats, tail, network, swept>>

\* installMitmCAOnDevice, before and after "adb wait-for-device": the certificate
\* is there, root or remount is denied, a copy fails; or root restarts adbd.
InstallCA(s) ==
  /\ launch[s] = "install"
  /\ \E step \in {"spawn"} \cup (IF alive THEN {"device"} ELSE {}) :
       launch' = [launch EXCEPT ![s] = step]
  /\ UNCHANGED <<device, stop, video, logcats, tail, network, swept>>

\* wait-for-device, without a timeout, and the rest, which cannot fail the capture.
DeviceBack(s) ==
  /\ launch[s] = "device" /\ alive
  /\ launch' = [launch EXCEPT ![s] = "spawn"]
  /\ UNCHANGED <<device, stop, video, logcats, tail, network, swept>>

\* The directory cannot be made, or mitmdump not be started.
SpawnProxyFails(s) ==
  /\ launch[s] = "spawn"
  /\ launch' = [launch EXCEPT ![s] = "done"]
  /\ nextPort' \in {nextPort, (nextPort % MaxPort) + 1}
  /\ UNCHANGED <<device, stop, video, logcats, tail, networks, port, mitm, proxy, swept>>

\* The next port, whoever uses it, wrapping at 8999.  mitmdump exits when another
\* one has the port, or for reasons of its own; nobody looks.
SpawnProxy(s) ==
  /\ launch[s] = "spawn"
  /\ launch' = [launch EXCEPT ![s] = "set"]
  /\ port' = [port EXCEPT ![s] = nextPort]
  /\ nextPort' = (nextPort % MaxPort) + 1
  /\ \E m \in {"up", "dead"} :
       /\ (\E t \in Sess : mitm[t] = "up" /\ port[t] = nextPort) => m = "dead"
       /\ mitm' = [mitm EXCEPT ![s] = m]
  /\ UNCHANGED <<device, stop, video, logcats, tail, networks, proxy, swept>>

\* adb points the device at the proxy, a second later.
SetProxy(s) ==
  /\ launch[s] = "set" /\ alive
  /\ launch' = [launch EXCEPT ![s] = "record"]
  /\ proxy' = port[s]
  /\ UNCHANGED <<device, stop, video, logcats, tail, networks, port, mitm, nextPort, swept>>

\* The command fails (or is given up after 5 s, and takes effect all the same).
SetProxyFails(s) ==
  /\ launch[s] = "set"
  /\ launch' = [launch EXCEPT ![s] = "done"]
  /\ mitm' = [mitm EXCEPT ![s] = "dead"]
  /\ \E p \in {proxy} \cup (IF "settings" \in Ops THEN {port[s]} ELSE {}) : proxy' = p
  /\ UNCHANGED <<device, stop, video, logcats, tail, networks, port, nextPort, swept>>

\* s.networks[sessionID] = ..., whatever happened since CheckNetwork.
RecordNetwork(s) ==
  /\ launch[s] = "record"
  /\ launch' = [launch EXCEPT ![s] = "done"]
  /\ networks' = networks \cup {s}
  /\ UNCHANGED <<device, stop, video, logcats, tail, port, mitm, nextPort, proxy, swept>>

-----------------------------------------------------------------------------
(* videoChunkLoop.  screen is the screenrecord of the chunk: "running",    *)
(* "whole" when it could finish its file, "torn" when it was killed, "lost" *)
(* when the device went away under it, "none" when there is none.          *)

others == <<device, launch, stop, videos, logcats, tail, network>>

\* The top of the loop: the context is looked at, adb is started; screenrecord
\* runs if the device answers.  If adb cannot be started the goroutine ends.
StartChunk(s) ==
  /\ loop[s] = "start"
  /\ \E r \in {"none"} \cup (IF alive THEN {"running"} ELSE {}),
        step \in {"wait", "closed"} :
       /\ s \in cancelled => step = "closed"
       /\ step = "closed" => r = "none"
       /\ screen' = [screen EXCEPT ![s] = r]
       /\ loop' = [loop EXCEPT ![s] = step]
  /\ UNCHANGED <<others, cancelled, idx, rapid, chunks, disk, merged, swept>>

\* 180 s are over; the file is complete.
ChunkFull(s) ==
  /\ screen[s] = "running" /\ idx[s] < MaxChunk
  /\ screen' = [screen EXCEPT ![s] = "whole"]
  /\ UNCHANGED <<others, loop, cancelled, idx, rapid, chunks, disk, merged, swept>>

\* cmd.Wait returns.
ChunkEnds(s) ==
  /\ loop[s] = "wait" /\ screen[s] # "running"
  /\ loop' = [loop EXCEPT ![s] = "pull"]
  /\ UNCHANGED <<others, cancelled, idx, rapid, chunks, screen, disk, merged, swept>>

\* The context is cancelled: exec.CommandContext kills adb, and "screenrecord is
\* killed uncleanly", unless adb shell pkill -2 screenrecord comes first and lets
\* every screenrecord of the device finish its file, this loop's or not.
ChunkCancelled(s) ==
  /\ loop[s] = "wait" /\ s \in cancelled
  /\ loop' = [loop EXCEPT ![s] = "pull"]
  /\ \E told, killed \in BOOLEAN :
       /\ told => alive
       /\ ~told => killed
       /\ screen' = [t \in Sess |->
            IF screen[t] # "running" THEN screen[t]
            ELSE IF t = s /\ killed THEN "torn"
            ELSE IF told THEN "whole" ELSE screen[t]]
  /\ UNCHANGED <<others, cancelled, idx, rapid, chunks, disk, merged, swept>>

\* What the loop does after a chunk.
NextChunk(s) ==
  /\ loop' = [loop EXCEPT ![s] = IF s \in cancelled THEN "closed" ELSE "start"]
  /\ idx' = [idx EXCEPT ![s] = IF @ < MaxChunk THEN @ + 1 ELSE @]

\* The chunk, or part of it, reaches the session's directory.
Pulled(s) ==
  /\ loop[s] = "pull" /\ alive /\ screen[s] \in {"whole", "torn"}
  /\ chunks' = [chunks EXCEPT ![s] = @ \cup {idx[s]}]
  /\ disk' = [disk EXCEPT ![s] = @ \cup {idx[s]}]
  /\ screen' = [screen EXCEPT ![s] = "none"]
  /\ rapid' = [rapid EXCEPT ![s] = 0]
  /\ NextChunk(s)
  /\ UNCHANGED <<others, cancelled, merged, swept>>

\* Mutant of PullFails: the failures are not counted.
PullFailsForEver(s) ==
  /\ loop[s] = "pull"
  /\ screen' = [screen EXCEPT ![s] = "none"]
  /\ NextChunk(s)
  /\ UNCHANGED <<others, cancelled, rapid, chunks, disk, merged, swept>>

\* Nothing does.  A cycle that took under 2 s is counted, and the second in a row
\* ends the loop; adb answers at once that a device is gone.
PullFails(s) ==
  /\ loop[s] = "pull"
  /\ screen' = [screen EXCEPT ![s] = "none"]
  /\ \E fast \in (IF alive \/ screen[s] # "none" THEN BOOLEAN ELSE {TRUE}) :
       /\ rapid' = [rapid EXCEPT ![s] = IF fast THEN @ + 1 ELSE 0]
       /\ IF rapid'[s] = 2
            THEN loop' = [loop EXCEPT ![s] = "closed"] /\ UNCHANGED idx
            ELSE NextChunk(s)
  /\ UNCHANGED <<others, cancelled, chunks, disk, merged, swept>>

ChunkLoop(s) ==
  \/ StartChunk(s) \/ ChunkEnds(s) \/ ChunkCancelled(s)
  \/ Pulled(s) \/ PullFails(s)

-----------------------------------------------------------------------------
(* The end of a session.                                                   *)

\* The broker has Release or, when the watchdog missed the device,
\* handleInstanceEvicted call StopAll; timeoutLoop gives the device back
\* and stops nothing.
Release(s) ==
  /\ holder = s /\ stop[s] = "idle"
  /\ "early" \in Ops \/ launch[s] = "done"
  /\ stop' = [stop EXCEPT ![s] = "video"]
  /\ UNCHANGED <<device, launch, video, logcats, tail, network, swept>>

Evict(s) ==
  /\ holder = s /\ stop[s] = "idle" /\ ~alive
  /\ "early" \in Ops \/ launch[s] = "done"
  /\ stop' = [stop EXCEPT ![s] = "video"]
  /\ holder' = None
  /\ UNCHANGED <<alive, launch, video, logcats, tail, network, swept>>

TimeOut(s) ==
  /\ holder = s /\ stop[s] = "idle" /\ launch[s] = "done"
  /\ stop' = [stop EXCEPT ![s] = "timed out"]
  /\ holder' = None
  /\ UNCHANGED <<alive, launch, video, logcats, tail, network, swept>>

\* Mutant of StopVideo: the context is not cancelled.
StopVideoNoCancel(s) ==
  /\ stop[s] = "video"
  /\ stop' = [stop EXCEPT ![s] = IF s \in videos THEN "loop" ELSE "logcat"]
  /\ videos' = videos \ {s}
  /\ UNCHANGED <<device, launch, loop, cancelled, idx, rapid, chunks, screen, disk, merged,
                 logcats, tail, network, swept>>

\* StopVideo: the entry is taken and the loop cancelled.
StopVideo(s) ==
  /\ stop[s] = "video"
  /\ stop' = [stop EXCEPT ![s] = IF s \in videos THEN "loop" ELSE "logcat"]
  /\ videos' = videos \ {s}
  /\ cancelled' = IF s \in videos THEN cancelled \cup {s} ELSE cancelled
  /\ UNCHANGED <<device, launch, loop, idx, rapid, chunks, screen, disk, merged,
                 logcats, tail, network, swept>>

\* Mutant of Merge: the chunks are removed even if ffmpeg failed.
MergeRemovesAll(s) ==
  /\ stop[s] = "loop" /\ loop[s] = "closed"
  /\ stop' = [stop EXCEPT ![s] = "logcat"]
  /\ \E ok \in BOOLEAN : merged' = [merged EXCEPT ![s] = IF ok THEN chunks[s] ELSE @]
  /\ disk' = [disk EXCEPT ![s] = @ \ chunks[s]]
  /\ UNCHANGED <<device, launch, videos, loop, cancelled, idx, rapid, chunks, screen,
                 logcats, tail, network, swept>>

\* "<-vc.done", without a timeout; then a single chunk is renamed, several are
\* given to ffmpeg and removed when it succeeds, and kept when it does not.
Merge(s) ==
  /\ stop[s] = "loop" /\ loop[s] = "closed"
  /\ stop' = [stop EXCEPT ![s] = "logcat"]
  /\ \E done \in {{}, chunks[s]} :
       /\ merged' = [merged EXCEPT ![s] = done]
       /\ disk' = [disk EXCEPT ![s] = @ \ done]
  /\ UNCHANGED <<device, launch, videos, loop, cancelled, idx, rapid, chunks, screen,
                 logcats, tail, network, swept>>

\* StopLogcat: the entry is taken, adb killed and waited for, at most 3 s.
StopLogcat(s) ==
  /\ stop[s] = "logcat"
  /\ stop' = [stop EXCEPT ![s] = "network"]
  /\ logcats' = logcats \ {s}
  /\ tail' = IF s \in logcats THEN tail \ {s} ELSE tail
  /\ UNCHANGED <<device, launch, video, network, swept>>

\* Mutant of StopNetwork: a capture whose mitmdump is dead is taken for stopped.
StopNetworkLooks(s) ==
  /\ stop[s] = "network"
  /\ stop' = [stop EXCEPT ![s] = IF s \in networks /\ mitm[s] = "up" THEN "clear" ELSE "done"]
  /\ networks' = networks \ {s}
  /\ UNCHANGED <<device, launch, video, logcats, tail, port, mitm, nextPort, proxy, swept>>

\* StopNetwork: the entry is taken;
StopNetwork(s) ==
  /\ stop[s] = "network"
  /\ stop' = [stop EXCEPT ![s] = IF s \in networks THEN "clear" ELSE "done"]
  /\ networks' = networks \ {s}
  /\ UNCHANGED <<device, launch, video, logcats, tail, port, mitm, nextPort, proxy, swept>>

\* "Remove the emulator's proxy setting first", whatever adb answers;
ClearProxy(s) ==
  /\ stop[s] = "clear"
  /\ stop' = [stop EXCEPT ![s] = "mitm"]
  /\ \E p \in (IF alive THEN {NoPort} ELSE {proxy})
              \cup (IF "settings" \in Ops THEN {proxy} ELSE {}) : proxy' = p
  /\ UNCHANGED <<device, launch, video, logcats, tail, networks, port, mitm, nextPort, swept>>

\* SIGINT, and 5 s later the context.
StopProxy(s) ==
  /\ stop[s] = "mitm"
  /\ stop' = [stop EXCEPT ![s] = "done"]
  /\ mitm' = [mitm EXCEPT ![s] = "dead"]
  /\ UNCHANGED <<device, launch, video, logcats, tail, networks, port, nextPort, proxy, swept>>

\* Mutant of GiveBack: pool.Release comes before the captures are stopped.
GiveBackFirst(s) ==
  /\ stop[s] # "idle" /\ holder = s
  /\ holder' = None
  /\ UNCHANGED <<alive, launch, stop, video, logcats, tail, network, swept>>

\* Release goes on to pool.Release.
GiveBack(s) ==
  /\ stop[s] = "done" /\ holder = s
  /\ holder' = None
  /\ UNCHANGED <<alive, launch, stop, video, logcats, tail, network, swept>>

StopAll(s) ==
  \/ StopVideo(s) \/ Merge(s) \/ StopLogcat(s)
  \/ StopNetwork(s) \/ ClearProxy(s) \/ StopProxy(s)

-----------------------------------------------------------------------------
(* The environment, and the sweeper.                                       *)

\* The device goes, and every adb command that runs on it with it.
Die ==
  /\ alive /\ alive' = FALSE
  /\ screen' = [s \in Sess |-> IF screen[s] = "none" THEN "none" ELSE "lost"]
  /\ tail' = {}
  /\ UNCHANGED <<holder, launch, stop, videos, loop, cancelled, idx, rapid, chunks, disk,
                 merged, logcats, network, swept>>

\* mitmdump crashes.
ProxyDies(s) ==
  /\ mitm[s] = "up"
  /\ mitm' = [mitm EXCEPT ![s] = "dead"]
  /\ UNCHANGED <<device, launch, stop, video, logcats, tail, networks, port, nextPort, proxy,
                 swept>>

\* sweep, every 30 minutes, deletes a directory whose newest file is older than
\* its window: nothing writes to it any more (the chunk loop does so every 180 s),
\* and the session is over, since a window is a week, or the hours asked for, and
\* sessions last 180 minutes at most.
Sweep(s) ==
  /\ launch[s] = "done" /\ s \notin swept
  /\ loop[s] \in {"none", "closed"} /\ s \notin tail
  /\ "quiet" \in Ops \/ stop[s] \in {"done", "timed out"}
  /\ swept' = swept \cup {s}
  /\ disk' = [disk EXCEPT ![s] = {}] /\ merged' = [merged EXCEPT ![s] = {}]
  /\ UNCHANGED <<device, launch, stop, videos, loop, cancelled, idx, rapid, chunks, screen,
                 logcats, tail, network>>

Launch(s) ==
  \/ Begin(s) \/ StartVideo(s) \/ StartLogcat(s) \/ CheckNetwork(s)
  \/ InstallCA(s) \/ DeviceBack(s) \/ SpawnProxy(s) \/ SpawnProxyFails(s)
  \/ SetProxy(s) \/ SetProxyFails(s) \/ RecordNetwork(s)

Next ==
  \/ Die
  \/ \E s \in Sess :
       \/ Launch(s) \/ ChunkLoop(s) \/ ChunkFull(s)
       \/ Release(s) \/ Evict(s) \/ TimeOut(s) \/ StopAll(s) \/ GiveBack(s)
       \/ Sweep(s) \/ ProxyDies(s)

Spec == Init /\ [][Next]_vars

\* Go schedules every goroutine; every adb command of the loop and of StopAll
\* has a timeout or ends with the device.
FairSpec ==
  /\ Spec
  /\ \A s \in Sess : WF_vars(Launch(s) /\ ~Begin(s)) /\ WF_vars(ChunkLoop(s)) /\ WF_vars(StopAll(s))

-----------------------------------------------------------------------------
(* Properties                                                              *)

TypeOK ==
  /\ alive \in BOOLEAN /\ holder \in Sess \cup {None}
  /\ launch \in [Sess -> {"idle", "video", "logcat", "check", "install", "device",
                          "spawn", "set", "record", "done"}]
  /\ stop \in [Sess -> {"idle", "video", "loop", "logcat", "network", "clear", "mitm",
                        "done", "timed out"}]
  /\ videos \subseteq Sess /\ cancelled \subseteq Sess
  /\ loop \in [Sess -> {"none", "start", "wait", "pull", "closed"}]
  /\ idx \in [Sess -> 0..MaxChunk] /\ rapid \in [Sess -> 0..2]
  /\ chunks \in [Sess -> SUBSET (0..MaxChunk)]
  /\ disk \in [Sess -> SUBSET (0..MaxChunk)]
  /\ merged \in [Sess -> SUBSET (0..MaxChunk)]
  /\ screen \in [Sess -> {"none", "running", "whole", "torn", "lost"}]
  /\ logcats \subseteq Sess /\ tail \subseteq Sess
  /\ networks \subseteq Sess /\ mitm \in [Sess -> {"none", "up", "dead"}]
  /\ port \in [Sess -> 0..MaxPort] /\ nextPort \in 1..MaxPort /\ proxy \in 0..MaxPort
  /\ swept \subseteq Sess

\* "StopAll drains every capture for a session and waits for each", before the
\* device goes back to the pool: unless it timed out, nothing records a device
\* for a session that does not hold it.
OnlyHolderRecorded ==
  \A s \in Sess :
    screen[s] = "running" \/ s \in tail => holder = s \/ stop[s] = "timed out"

\* "Remove the emulator's proxy setting first": whatever became of mitmdump, a
\* device that answers is sent through the proxy of the session that has it, or of
\* one that timed out, and never through that of a session that gave it back.
ProxyOfHolder ==
  alive /\ proxy # NoPort =>
    \E s \in Sess : port[s] = proxy /\ (holder = s \/ stop[s] = "timed out")

\* "partial chunks are better than none", "ffmpeg concat failed - keeping chunks":
\* what was pulled is in video.mp4 or in its chunk file, until the session is
\* over and its window past.
ChunksKept ==
  \A s \in Sess :
    chunks[s] \subseteq disk[s] \cup merged[s] \/ (s \in swept /\ Over(s))

\* StopVideo waits for the loop without a timeout, and a release or an eviction
\* waits for StopVideo: StopAll returns, whatever the device does.
StopReturns == \A s \in Sess : stop[s] = "video" ~> stop[s] = "done"

\* "the previous version of this loop spun forever in that state": once the
\* device is gone the loop ends, even if nobody stops it.
LoopEnds == \A s \in Sess : ~alive ~> loop[s] \in {"none", "closed"}

-----------------------------------------------------------------------------
(* What comments of the code say and the code does not do                  *)

\* start.go: captures "automatically start + stop ... at the session boundary".
HolderAloneRecorded ==
  \A s \in Sess : screen[s] = "running" \/ s \in tail => holder = s

\* capture.go: "partial chunks are better than none", but pkill "so it writes the
\* moov atom at EOF": every chunk that is pulled can be played.
ChunksPlayable ==
  [][\A s \in Sess : chunks'[s] # chunks[s] => screen[s] = "whole"]_vars

\* "... so in-flight requests don't pile up once we kill mitmdump": a device that
\* answers does not point at a dead proxy.
ProxyLive ==
  alive /\ proxy # NoPort => \E s \in Sess : port[s] = proxy /\ mitm[s] = "up"

\* StartNetwork: "mitmdump proxy on a per-session port".
OwnProxy ==
  \A s \in Sess : holder = s /\ launch[s] = "done" /\ s \in networks => mitm[s] = "up"

\* StopAll: "drains every capture for a session".
StoppedIsSilent ==
  \A s \in Sess : stop[s] = "done" =>
    s \notin tail /\ loop[s] \in {"none", "closed"} /\ mitm[s] # "up"

\* "a capture failure is logged but doesn't fail session creation".
LaunchEnds == \A s \in Sess : launch[s] = "video" ~> launch[s] = "done"

\* "deletes artifact directories older than the daemon's retention window".
SweptIsOver == \A s \in swept : Over(s)
=============================================================================
