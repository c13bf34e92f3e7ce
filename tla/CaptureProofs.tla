--------------------------- MODULE CaptureProofs ----------------------------
(***************************************************************************)
(* Theorems about Capture, for any number of sessions, ports and chunks:   *)
(* who is recorded, what is kept of a recording, and where the device's    *)
(* proxy setting points.                                                   *)
(***************************************************************************)
EXTENDS Capture, TLAPS

\* What the variables are, as far as the theorems need it.
ControlTypes ==
  /\ launch \in [Sess -> {"idle", "video", "logcat", "check", "install", "device",
                          "spawn", "set", "record", "done"}]
  /\ stop \in [Sess -> {"idle", "video", "loop", "logcat", "network", "clear", "mitm",
                        "done", "timed out"}]
LoopTypes ==
  /\ loop \in [Sess -> {"none", "start", "wait", "pull", "closed"}]
  /\ screen \in [Sess -> {"none", "running", "whole", "torn", "lost"}]
  /\ alive \in BOOLEAN
FileTypes ==
  /\ idx \in [Sess -> Nat] /\ chunks \in [Sess -> SUBSET Nat]
  /\ disk \in [Sess -> SUBSET Nat] /\ merged \in [Sess -> SUBSET Nat]
ProxyTypes ==
  /\ mitm \in [Sess -> {"none", "up", "dead"}]
  /\ port \in [Sess -> Int] /\ nextPort \in Int
Types == ControlTypes /\ LoopTypes /\ FileTypes /\ ProxyTypes

\* The broker is still starting the captures of s.
Launching(s) == launch[s] \notin {"idle", "done"}

\* The broker is stopping them.
Stopping(s) == stop[s] \notin {"idle", "timed out", "done"}

\* The device is the session's from the beginning of its launch to the end of its
\* stop, unless it dies or the session times out; a session is not ended before
\* its launch is done.
Holds ==
  \A s \in Sess :
    /\ launch[s] # "done" => stop[s] = "idle"
    /\ Launching(s) => holder = s
    /\ alive /\ Stopping(s) => holder = s

\* A loop has its entry until it is cancelled, and screenrecord its loop; the
\* captures are over once StopAll has gone past them.
Entries ==
  /\ \A s \in Sess :
       /\ launch[s] \in {"idle", "video"} => loop[s] = "none"
       /\ stop[s] \in {"idle", "video", "timed out"} /\ loop[s] # "none" => s \in videos
       /\ stop[s] \in {"logcat", "network", "clear", "mitm", "done"}
            => loop[s] \in {"none", "closed"}
       /\ screen[s] = "running" => loop[s] = "wait" /\ alive
       /\ stop[s] \in {"network", "clear", "mitm", "done"} => s \notin logcats
       /\ s \in tail => s \in logcats /\ alive

\* As long as the device answers, what may record it is the session that has it.
Recorders ==
  \A s \in Sess :
    alive /\ (loop[s] \notin {"none", "closed"} \/ s \in tail)
      => holder = s \/ stop[s] = "timed out"

-----------------------------------------------------------------------------

\* One step keeps the types of launch and stop.
LEMMA ControlKept == ASSUME ControlTypes, [Next]_vars PROVE ControlTypes'
<1> USE DEF ControlTypes
<1>1. ASSUME NEW s \in Sess, Begin(s) \/ StartVideo(s) \/ StartLogcat(s)
      PROVE  ControlTypes'
  BY <1>1 DEF Begin, StartVideo, StartLogcat
<1>2. ASSUME NEW s \in Sess, CheckNetwork(s) \/ InstallCA(s) \/ DeviceBack(s)
      PROVE  ControlTypes'
  BY <1>2 DEF CheckNetwork, InstallCA, DeviceBack
<1>3. ASSUME NEW s \in Sess,
             \/ SpawnProxy(s) \/ SpawnProxyFails(s) \/ SetProxy(s)
             \/ SetProxyFails(s) \/ RecordNetwork(s)
      PROVE  ControlTypes'
  BY <1>3 DEF SpawnProxy, SpawnProxyFails, SetProxy, SetProxyFails, RecordNetwork
<1>4. ASSUME NEW s \in Sess, ChunkLoop(s) \/ ChunkFull(s) \/ GiveBack(s) \/ Sweep(s)
      PROVE  ControlTypes'
  BY <1>4 DEF ChunkLoop, StartChunk, ChunkEnds, ChunkFull, ChunkCancelled, Pulled, PullFails,
              others, GiveBack, Sweep
<1>5. ASSUME NEW s \in Sess, Release(s) \/ Evict(s) \/ TimeOut(s)
      PROVE  ControlTypes'
  BY <1>5 DEF Release, Evict, TimeOut
<1>6. ASSUME NEW s \in Sess, StopAll(s)
      PROVE  ControlTypes'
  BY <1>6 DEF StopAll, StopVideo, Merge, StopLogcat, StopNetwork, ClearProxy, StopProxy
<1>7. ASSUME Die \/ (\E s \in Sess : ProxyDies(s)) \/ UNCHANGED vars
      PROVE  ControlTypes'
  BY <1>7 DEF Die, ProxyDies, vars
<1> QED
  BY <1>1, <1>2, <1>3, <1>4, <1>5, <1>6, <1>7 DEF Next, Launch

\* One step keeps the types of the chunk loops.
LEMMA LoopKept == ASSUME LoopTypes, [Next]_vars PROVE LoopTypes'
<1> USE DEF LoopTypes
<1>1. ASSUME NEW s \in Sess, StartVideo(s) \/ StartChunk(s) \/ ChunkFull(s) \/ ChunkEnds(s)
      PROVE  LoopTypes'
  <2>1. UNCHANGED alive
    BY <1>1 DEF StartVideo, StartChunk, ChunkFull, ChunkEnds, device, others
  <2>2. loop' \in [Sess -> {"none", "start", "wait", "pull", "closed"}]
    BY <1>1 DEF StartVideo, StartChunk, ChunkFull, ChunkEnds
  <2>3. screen' \in [Sess -> {"none", "running", "whole", "torn", "lost"}]
    BY <1>1 DEF StartVideo, StartChunk, ChunkFull, ChunkEnds
  <2> QED
    BY <2>1, <2>2, <2>3
<1>2. ASSUME NEW s \in Sess, ChunkCancelled(s)
      PROVE  LoopTypes'
  <2>1. UNCHANGED alive /\ loop' \in [Sess -> {"none", "start", "wait", "pull", "closed"}]
    BY <1>2 DEF ChunkCancelled, device, others
  <2>2. screen' \in [Sess -> {"none", "running", "whole", "torn", "lost"}]
    BY <1>2 DEF ChunkCancelled
  <2> QED
    BY <2>1, <2>2
<1>3. ASSUME NEW s \in Sess, Pulled(s) \/ PullFails(s)
      PROVE  LoopTypes'
  BY <1>3 DEF Pulled, PullFails, NextChunk, device, others
<1>4. CASE Die
  BY <1>4 DEF Die
<1>5. CASE UNCHANGED <<alive, loop, screen>>
  BY <1>5
<1> QED
  BY <1>1, <1>2, <1>3, <1>4, <1>5
  DEF Next, Launch, ChunkLoop, StopAll, Begin, StartLogcat, CheckNetwork, InstallCA,
      DeviceBack, SpawnProxy, SpawnProxyFails, ProxyDies, SetProxy, SetProxyFails,
      RecordNetwork, Release, Evict, TimeOut,
      GiveBack, StopVideo, Merge, StopLogcat, StopNetwork, ClearProxy, StopProxy, Sweep, vars,
      device, video

\* One step keeps the types of the chunks and files.
LEMMA FilesKept == ASSUME FileTypes, [Next]_vars PROVE FileTypes'
<1> USE DEF FileTypes
<1>1. ASSUME NEW s \in Sess, Pulled(s)
      PROVE  FileTypes'
  BY <1>1, CaptureAssumption DEF Pulled, NextChunk
<1>2. ASSUME NEW s \in Sess, PullFails(s)
      PROVE  FileTypes'
  BY <1>2, CaptureAssumption DEF PullFails, NextChunk
<1>3. ASSUME NEW s \in Sess, Merge(s)
      PROVE  FileTypes'
  <2>1. PICK done \in {{}, chunks[s]} : /\ merged' = [merged EXCEPT ![s] = done]
                                       /\ disk' = [disk EXCEPT ![s] = @ \ done]
    BY <1>3 DEF Merge
  <2>2. done \in SUBSET Nat /\ disk[s] \ done \in SUBSET Nat
    OBVIOUS
  <2> QED
    BY <1>3, <2>1, <2>2 DEF Merge
<1>5. ASSUME NEW s \in Sess, Sweep(s)
      PROVE  FileTypes'
  BY <1>5 DEF Sweep, video
<1>4. CASE UNCHANGED <<idx, chunks, disk, merged>>
  BY <1>4
<1> QED
  BY <1>1, <1>2, <1>3, <1>4, <1>5
  DEF Next, Launch, ChunkLoop, StopAll, Begin, StartVideo, StartLogcat, CheckNetwork,
      InstallCA, DeviceBack, SpawnProxy, SpawnProxyFails, ProxyDies, SetProxy, SetProxyFails,
      RecordNetwork, StartChunk,
      ChunkFull, ChunkEnds, ChunkCancelled, Release, Evict, TimeOut, GiveBack, StopVideo,
      StopLogcat, StopNetwork, ClearProxy, StopProxy, Die, vars, video

\* One step keeps the types of the proxies and their ports.
LEMMA ProxyKept == ASSUME ProxyTypes, [Next]_vars PROVE ProxyTypes'
<1> USE DEF ProxyTypes
<1>1. ASSUME NEW s \in Sess, SpawnProxy(s)
      PROVE  ProxyTypes'
  <2>1. nextPort % MaxPort \in Int
    BY CaptureAssumption
  <2>2. nextPort' \in Int
    BY <1>1, <2>1 DEF SpawnProxy
  <2>3. port' \in [Sess -> Int] /\ mitm' \in [Sess -> {"none", "up", "dead"}]
    BY <1>1 DEF SpawnProxy
  <2> QED
    BY <2>2, <2>3
<1>2. ASSUME NEW s \in Sess, SetProxyFails(s) \/ StopProxy(s) \/ ProxyDies(s)
      PROVE  ProxyTypes'
  BY <1>2 DEF SetProxyFails, StopProxy, ProxyDies
<1>4. ASSUME NEW s \in Sess, SpawnProxyFails(s)
      PROVE  ProxyTypes'
  <2>1. nextPort % MaxPort \in Int
    BY CaptureAssumption
  <2> QED
    BY <1>4, <2>1 DEF SpawnProxyFails
<1>3. CASE UNCHANGED <<mitm, port, nextPort>>
  BY <1>3
<1> QED
  BY <1>1, <1>2, <1>3, <1>4
  DEF Next, Launch, ChunkLoop, StopAll, Begin, StartVideo, StartLogcat, CheckNetwork,
      InstallCA, DeviceBack, SetProxy, RecordNetwork, StartChunk, ChunkFull, ChunkEnds,
      ChunkCancelled, Pulled, PullFails, others, Release, Evict, TimeOut, GiveBack, StopVideo,
      Merge, StopLogcat, StopNetwork, ClearProxy, Sweep, Die, vars, network

\* The variables keep their types.
THEOREM TypesCorrect == Spec => []Types
<1>1. Init => Types
  BY CaptureAssumption DEF Init, Types, ControlTypes, LoopTypes, FileTypes, ProxyTypes
<1>2. Types /\ [Next]_vars => Types'
  BY ControlKept, LoopKept, FilesKept, ProxyKept DEF Types
<1> QED
  BY <1>1, <1>2, PTL DEF Spec

-----------------------------------------------------------------------------

\* One step leaves the device with the session whose captures are started or
\* stopped.
LEMMA HoldsKept ==
  ASSUME "early" \notin Ops, Types, Holds, [Next]_vars
  PROVE  Holds'
<1> USE DEF Types, ControlTypes, LoopTypes, Holds, Launching, Stopping
<1>1. ASSUME NEW s \in Sess, Begin(s)
      PROVE  Holds'
  BY <1>1, CaptureAssumption DEF Begin
<1>2. ASSUME NEW s \in Sess, StartVideo(s) \/ StartLogcat(s) \/ CheckNetwork(s)
      PROVE  Holds'
  BY <1>2 DEF StartVideo, StartLogcat, CheckNetwork, device
<1>3. ASSUME NEW s \in Sess,
             InstallCA(s) \/ DeviceBack(s) \/ SpawnProxy(s) \/ SpawnProxyFails(s)
      PROVE  Holds'
  BY <1>3 DEF InstallCA, DeviceBack, SpawnProxy, SpawnProxyFails, device
<1>4. ASSUME NEW s \in Sess, SetProxy(s) \/ SetProxyFails(s) \/ RecordNetwork(s)
      PROVE  Holds'
  BY <1>4 DEF SetProxy, SetProxyFails, RecordNetwork, device
<1>5. ASSUME NEW s \in Sess, Release(s) \/ Evict(s) \/ TimeOut(s)
      PROVE  Holds'
  BY <1>5 DEF Release, Evict, TimeOut, device
<1>6. ASSUME NEW s \in Sess, GiveBack(s)
      PROVE  Holds'
  BY <1>6 DEF GiveBack
<1>7. ASSUME NEW s \in Sess, StopVideo(s) \/ Merge(s) \/ StopLogcat(s)
      PROVE  Holds'
  BY <1>7 DEF StopVideo, Merge, StopLogcat, device
<1>8. ASSUME NEW s \in Sess, StopNetwork(s) \/ ClearProxy(s) \/ StopProxy(s)
      PROVE  Holds'
  BY <1>8 DEF StopNetwork, ClearProxy, StopProxy, device
<1>9. CASE Die
  BY <1>9 DEF Die
<1>10. CASE UNCHANGED <<device, launch, stop>>
  BY <1>10 DEF device
<1> QED
  BY <1>1, <1>2, <1>3, <1>4, <1>5, <1>6, <1>7, <1>8, <1>9, <1>10
  DEF Next, Launch, ChunkLoop, StopAll, StartChunk, ChunkFull, ChunkEnds, ChunkCancelled,
      Pulled, PullFails, others, Sweep, ProxyDies, vars

\* One step leaves no capture behind that StopAll has gone past.
LEMMA EntriesKept ==
  ASSUME "early" \notin Ops, Types, Holds, Entries, [Next]_vars
  PROVE  Entries'
<1> USE DEF Types, ControlTypes, LoopTypes, Entries
<1>1. ASSUME NEW s \in Sess, Begin(s)
      PROVE  Entries'
  BY <1>1 DEF Begin, video
<1>2. ASSUME NEW s \in Sess, StartVideo(s)
      PROVE  Entries'
  BY <1>2 DEF StartVideo, device, Holds
<1>3. ASSUME NEW s \in Sess, StartLogcat(s)
      PROVE  Entries'
  BY <1>3 DEF StartLogcat, device, video, Holds
<1>4. ASSUME NEW s \in Sess,
             \/ CheckNetwork(s) \/ InstallCA(s) \/ DeviceBack(s) \/ SpawnProxy(s)
             \/ SpawnProxyFails(s) \/ SetProxy(s) \/ SetProxyFails(s) \/ RecordNetwork(s)
      PROVE  Entries'
  BY <1>4 DEF CheckNetwork, InstallCA, DeviceBack, SpawnProxy, SpawnProxyFails, SetProxy,
              SetProxyFails, RecordNetwork, device, video
<1>5. ASSUME NEW s \in Sess, StartChunk(s)
      PROVE  Entries'
  BY <1>5 DEF StartChunk, others, device
<1>6. ASSUME NEW s \in Sess, ChunkFull(s) \/ ChunkEnds(s)
      PROVE  Entries'
  BY <1>6 DEF ChunkFull, ChunkEnds, others, device
<1>7. ASSUME NEW s \in Sess, ChunkCancelled(s)
      PROVE  Entries'
  <2>1. screen'[s] # "running" /\ \A t \in Sess : screen'[t] = "running" => screen[t] = "running"
    BY <1>7 DEF ChunkCancelled
  <2> QED
    BY <1>7, <2>1 DEF ChunkCancelled, others, device
<1>8. ASSUME NEW s \in Sess, Pulled(s) \/ PullFails(s)
      PROVE  Entries'
  <2>1. /\ \E x \in {"start", "closed"} : loop' = [loop EXCEPT ![s] = x]
        /\ loop[s] = "pull" /\ screen' = [screen EXCEPT ![s] = "none"]
        /\ UNCHANGED others
    BY <1>8 DEF Pulled, PullFails, NextChunk
  <2> QED
    BY <2>1 DEF others, device
<1>9. ASSUME NEW s \in Sess, Release(s) \/ Evict(s) \/ TimeOut(s) \/ GiveBack(s)
      PROVE  Entries'
  BY <1>9 DEF Release, Evict, TimeOut, GiveBack, device, video
<1>10. ASSUME NEW s \in Sess, StopVideo(s)
       PROVE  Entries'
  BY <1>10 DEF StopVideo, device
<1>11. ASSUME NEW s \in Sess, Merge(s)
       PROVE  Entries'
  BY <1>11 DEF Merge, device
<1>15. ASSUME NEW s \in Sess, StopLogcat(s)
       PROVE  Entries'
  BY <1>15 DEF StopLogcat, device, video
<1>12. ASSUME NEW s \in Sess, StopNetwork(s) \/ ClearProxy(s) \/ StopProxy(s)
       PROVE  Entries'
  BY <1>12 DEF StopNetwork, ClearProxy, StopProxy, device, video
<1>16. ASSUME NEW s \in Sess, Sweep(s)
       PROVE  Entries'
  BY <1>16 DEF Sweep, device
<1>13. CASE Die
  BY <1>13 DEF Die
<1>14. CASE UNCHANGED vars
  BY <1>14 DEF vars, device, video
<1>17. ASSUME NEW s \in Sess, ProxyDies(s)
       PROVE  Entries'
  BY <1>17 DEF ProxyDies, device, video
<1> QED
  BY <1>1, <1>2, <1>3, <1>4, <1>5, <1>6, <1>7, <1>8, <1>9, <1>10, <1>11, <1>12, <1>13, <1>14,
     <1>15, <1>16, <1>17
  DEF Next, Launch, ChunkLoop, StopAll

\* One step leaves the device to be recorded by the session that has it.
LEMMA RecordersKept ==
  ASSUME "early" \notin Ops, Types, Holds, Entries, Recorders, [Next]_vars
  PROVE  Recorders'
<1> USE DEF Types, ControlTypes, LoopTypes, Recorders
<1>1. ASSUME NEW s \in Sess, Begin(s)
      PROVE  Recorders'
  BY <1>1, CaptureAssumption DEF Begin, video
<1>2. ASSUME NEW s \in Sess, StartVideo(s) \/ StartLogcat(s)
      PROVE  Recorders'
  BY <1>2 DEF StartVideo, StartLogcat, device, video, Holds, Launching
<1>3. ASSUME NEW s \in Sess,
             StartChunk(s) \/ ChunkEnds(s) \/ ChunkCancelled(s) \/ Pulled(s) \/ PullFails(s)
      PROVE  Recorders'
  BY <1>3 DEF StartChunk, ChunkEnds, ChunkCancelled, Pulled, PullFails, NextChunk, others,
              device
<1>4. ASSUME NEW s \in Sess, Release(s)
      PROVE  Recorders'
  BY <1>4 DEF Release, device, video
<1>9. ASSUME NEW s \in Sess, Evict(s)
      PROVE  Recorders'
  BY <1>9 DEF Evict
<1>10. ASSUME NEW s \in Sess, TimeOut(s)
       PROVE  Recorders'
  BY <1>10 DEF TimeOut, video
<1>5. ASSUME NEW s \in Sess, GiveBack(s)
      PROVE  Recorders'
  BY <1>5 DEF GiveBack, Entries, video
<1>6. ASSUME NEW s \in Sess, StopAll(s)
      PROVE  Recorders'
  BY <1>6 DEF StopAll, StopVideo, Merge, StopLogcat, StopNetwork, ClearProxy, StopProxy,
              device, video
<1>7. CASE Die
  BY <1>7 DEF Die
<1>8. CASE UNCHANGED <<device, stop, loop, tail>>
  BY <1>8 DEF device
<1> QED
  BY <1>1, <1>2, <1>3, <1>4, <1>5, <1>6, <1>7, <1>8, <1>9, <1>10
  DEF Next, Launch, ChunkLoop, CheckNetwork, InstallCA, DeviceBack, SpawnProxy,
      SpawnProxyFails, ProxyDies, SetProxy,
      SetProxyFails, RecordNetwork, ChunkFull, Sweep, others, vars, video

\* What is true of the captures as long as no session ends before its launch is
\* done.
IInv == Types /\ Holds /\ Entries /\ Recorders

\* The invariant of the captures.
THEOREM CapturesInvariant == ASSUME "early" \notin Ops PROVE Spec => []IInv
<1>1. Init => IInv
  BY TypesCorrect, CaptureAssumption
  DEF Init, IInv, Types, ControlTypes, LoopTypes, FileTypes, ProxyTypes, Holds, Launching,
      Stopping, Entries, Recorders
<1>2. IInv /\ [Next]_vars => IInv'
  BY ControlKept, LoopKept, FilesKept, ProxyKept, HoldsKept, EntriesKept, RecordersKept
  DEF IInv, Types
<1> QED
  BY <1>1, <1>2, PTL DEF Spec

\* "StopAll drains every capture for a session and waits for each": nothing
\* records a device for a session that gave it back, unless it timed out.
THEOREM HolderRecorded == ASSUME "early" \notin Ops PROVE Spec => []OnlyHolderRecorded
<1>1. IInv => OnlyHolderRecorded
  BY DEF IInv, Entries, Recorders, OnlyHolderRecorded
<1> QED
  BY <1>1, CapturesInvariant, PTL

-----------------------------------------------------------------------------

\* Nothing is merged before StopAll merges.
Unmerged == \A s \in Sess : stop[s] \in {"idle", "video", "loop"} => merged[s] = {}

\* One step keeps every chunk that was pulled.
LEMMA ChunksStay ==
  ASSUME "quiet" \notin Ops, Types, Unmerged, ChunksKept, [Next]_vars
  PROVE  Unmerged' /\ ChunksKept'
<1> USE DEF Types, ControlTypes, FileTypes, Unmerged, ChunksKept, Over
<1>1. ASSUME NEW s \in Sess, Pulled(s)
      PROVE  Unmerged' /\ ChunksKept'
  BY <1>1 DEF Pulled, others
<1>2. ASSUME NEW s \in Sess, Merge(s)
      PROVE  Unmerged' /\ ChunksKept'
  <2>1. PICK done \in {{}, chunks[s]} : /\ merged' = [merged EXCEPT ![s] = done]
                                       /\ disk' = [disk EXCEPT ![s] = @ \ done]
    BY <1>2 DEF Merge
  <2>2. /\ stop[s] = "loop" /\ stop' = [stop EXCEPT ![s] = "logcat"]
        /\ UNCHANGED <<chunks, swept>> /\ merged[s] = {}
    BY <1>2 DEF Merge
  <2>3. Unmerged'
    BY <2>1, <2>2
  <2>4. chunks[s] \subseteq disk'[s] \cup merged'[s] \/ (s \in swept /\ Over(s)')
    BY <2>1, <2>2
  <2>5. \A t \in Sess \ {s} : disk'[t] = disk[t] /\ merged'[t] = merged[t] /\ stop'[t] = stop[t]
    BY <2>1, <2>2
  <2> QED
    BY <2>2, <2>3, <2>4, <2>5
<1>3. ASSUME NEW s \in Sess, Sweep(s)
      PROVE  Unmerged' /\ ChunksKept'
  BY <1>3 DEF Sweep
<1>4. ASSUME NEW s \in Sess, Release(s) \/ Evict(s) \/ TimeOut(s)
      PROVE  Unmerged' /\ ChunksKept'
  BY <1>4 DEF Release, Evict, TimeOut, video
<1>5. ASSUME NEW s \in Sess,
             StopVideo(s) \/ StopLogcat(s) \/ StopNetwork(s) \/ ClearProxy(s) \/ StopProxy(s)
      PROVE  Unmerged' /\ ChunksKept'
  BY <1>5 DEF StopVideo, StopLogcat, StopNetwork, ClearProxy, StopProxy, video
<1>6. CASE UNCHANGED <<stop, chunks, disk, merged, swept>>
  BY <1>6
<1> QED
  BY <1>1, <1>2, <1>3, <1>4, <1>5, <1>6
  DEF Next, Launch, ChunkLoop, StopAll, Begin, StartVideo, StartLogcat, CheckNetwork,
      InstallCA, DeviceBack, SpawnProxy, SpawnProxyFails, ProxyDies, SetProxy, SetProxyFails,
      RecordNetwork, StartChunk,
      ChunkFull, ChunkEnds, ChunkCancelled, PullFails, others, GiveBack, Die, vars, video

\* "Partial chunks are better than none": what was pulled is in the video or in its
\* chunk file until the session is over and its window past.
THEOREM NoChunkLost == ASSUME "quiet" \notin Ops PROVE Spec => []ChunksKept
<1>1. Init => Unmerged /\ ChunksKept
  BY DEF Init, Unmerged, ChunksKept
<1>2. Types /\ Unmerged /\ ChunksKept /\ [Next]_vars => Unmerged' /\ ChunksKept'
  BY ChunksStay
<1> QED
  BY <1>1, <1>2, TypesCorrect, PTL DEF Spec

-----------------------------------------------------------------------------
\* What s does to the proxy setting is its own business, for it has the device: it
\* is about to record the capture, has an entry, or is about to clear the setting.
Proxied(s) ==
  /\ holder = s /\ stop[s] \notin {"mitm", "done"}
  /\ launch[s] = "record" \/ s \in networks \/ stop[s] = "clear"

\* The setting is that of such a session or of one that timed out; an entry is
\* the last thing that StartNetwork makes.
Settings ==
  /\ \A s \in Sess : s \in networks => launch[s] = "done"
  /\ alive /\ proxy # NoPort =>
       \E s \in Sess : port[s] = proxy /\ (Proxied(s) \/ stop[s] = "timed out")

\* One step leaves the device's proxy setting with whoever is to clear it.
LEMMA SettingsKept ==
  ASSUME "early" \notin Ops, "settings" \notin Ops, Types, Holds, Settings, [Next]_vars
  PROVE  Settings'
<1> USE DEF Types, ControlTypes, LoopTypes, ProxyTypes, Holds, Launching, Stopping, Settings,
            Proxied
<1>1. ASSUME NEW s \in Sess, Begin(s)
      PROVE  Settings'
  BY <1>1, CaptureAssumption DEF Begin, network
<1>2. ASSUME NEW s \in Sess,
             \/ StartVideo(s) \/ StartLogcat(s) \/ CheckNetwork(s)
             \/ InstallCA(s) \/ DeviceBack(s) \/ SpawnProxyFails(s)
      PROVE  Settings'
  <2>1. /\ launch[s] \notin {"idle", "record", "done"}
        /\ \A t \in Sess : launch'[t] # launch[t] => t = s
        /\ UNCHANGED <<alive, holder, stop, networks, port, proxy>>
    BY <1>2 DEF StartVideo, StartLogcat, CheckNetwork, InstallCA, DeviceBack,
                SpawnProxyFails, device, network
  <2> QED
    BY <2>1
<1>3. ASSUME NEW s \in Sess, SpawnProxy(s)
      PROVE  Settings'
  BY <1>3 DEF SpawnProxy, device
<1>4. ASSUME NEW s \in Sess, SetProxy(s)
      PROVE  Settings'
  BY <1>4 DEF SetProxy, device
<1>5. ASSUME NEW s \in Sess, SetProxyFails(s)
      PROVE  Settings'
  BY <1>5 DEF SetProxyFails, device
<1>6. ASSUME NEW s \in Sess, RecordNetwork(s)
      PROVE  Settings'
  BY <1>6 DEF RecordNetwork, device
<1>7. ASSUME NEW s \in Sess, Release(s)
      PROVE  Settings'
  <2>1. /\ stop[s] = "idle" /\ stop' = [stop EXCEPT ![s] = "video"]
        /\ UNCHANGED <<alive, holder, launch, networks, port, proxy>>
    BY <1>7 DEF Release, device, network
  <2>2. \A t \in Sess : Proxied(t) \/ stop[t] = "timed out"
                          => Proxied(t)' \/ stop'[t] = "timed out"
    BY <2>1
  <2> QED
    BY <2>1, <2>2
<1>16. ASSUME NEW s \in Sess, Evict(s)
       PROVE  Settings'
  BY <1>16 DEF Evict, network
<1>14. ASSUME NEW s \in Sess, TimeOut(s)
       PROVE  Settings'
  <2>1. /\ stop' = [stop EXCEPT ![s] = "timed out"] /\ holder = s
        /\ UNCHANGED <<alive, launch, networks, port, proxy>>
    BY <1>14 DEF TimeOut, network
  <2>2. \A t \in Sess : Proxied(t) \/ stop[t] = "timed out" => stop'[t] = "timed out"
    BY <2>1
  <2> QED
    BY <2>1, <2>2
<1>8. ASSUME NEW s \in Sess, GiveBack(s)
      PROVE  Settings'
  BY <1>8 DEF GiveBack, network
<1>9. ASSUME NEW s \in Sess, StopVideo(s) \/ Merge(s) \/ StopLogcat(s)
      PROVE  Settings'
  <2>1. /\ stop[s] \in {"video", "loop", "logcat"} /\ stop'[s] \in {"loop", "logcat", "network"}
        /\ \A t \in Sess : t # s => stop'[t] = stop[t]
        /\ UNCHANGED <<alive, holder, launch, networks, port, proxy>>
    BY <1>9 DEF StopVideo, Merge, StopLogcat, device, network
  <2>2. \A t \in Sess : Proxied(t) \/ stop[t] = "timed out"
                          => Proxied(t)' \/ stop'[t] = "timed out"
    BY <2>1
  <2> QED
    BY <2>1, <2>2
<1>10. ASSUME NEW s \in Sess, StopNetwork(s)
       PROVE  Settings'
  BY <1>10 DEF StopNetwork, device
<1>11. ASSUME NEW s \in Sess, ClearProxy(s)
       PROVE  Settings'
  BY <1>11 DEF ClearProxy, device
<1>15. ASSUME NEW s \in Sess, StopProxy(s)
       PROVE  Settings'
  <2>1. /\ stop[s] = "mitm" /\ stop' = [stop EXCEPT ![s] = "done"]
        /\ UNCHANGED <<alive, holder, launch, networks, port, proxy>>
    BY <1>15 DEF StopProxy, device
  <2>2. \A t \in Sess : Proxied(t) \/ stop[t] = "timed out"
                          => Proxied(t)' \/ stop'[t] = "timed out"
    BY <2>1
  <2> QED
    BY <2>1, <2>2
<1>12. CASE Die
  BY <1>12 DEF Die, network
<1>13. CASE UNCHANGED <<alive, holder, launch, stop, networks, port, proxy>>
  BY <1>13
<1> QED
  BY <1>1, <1>2, <1>3, <1>4, <1>5, <1>6, <1>7, <1>8, <1>9, <1>10, <1>11, <1>12, <1>13,
     <1>14, <1>15, <1>16
  DEF Next, Launch, ChunkLoop, StopAll, StartChunk, ChunkFull, ChunkEnds, ChunkCancelled,
      Pulled, PullFails, others, Sweep, ProxyDies, vars, device, network

\* "Remove the emulator's proxy setting first": a device that answers is never sent
\* through the proxy of a session that gave it back, whatever became of mitmdump.
THEOREM ProxyGoes ==
  ASSUME "early" \notin Ops, "settings" \notin Ops
  PROVE  Spec => []ProxyOfHolder
<1>1. Init => Settings
  BY DEF Init, Settings
<1>2. IInv /\ Settings /\ [Next]_vars => Settings'
  BY SettingsKept DEF IInv
<1>3. Settings => ProxyOfHolder
  BY DEF Settings, Proxied, ProxyOfHolder
<1> QED
  BY <1>1, <1>2, <1>3, CapturesInvariant, PTL DEF Spec
=============================================================================
