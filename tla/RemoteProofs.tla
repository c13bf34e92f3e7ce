---------------------------- MODULE RemoteProofs ----------------------------
(***************************************************************************)
(* Proofs about Remote: streams read the screen of their own device,       *)
(* requests leave nothing on the host, recorders are not lost, and input   *)
(* runs in order, for every number of clients, devices and ports.          *)
(***************************************************************************)
EXTENDS Remote, TLAPS

-----------------------------------------------------------------------------
(* Scripts                                                                 *)

Cmd == [sets : Setting \cup {NoSetting, "all"}, ok : {"next", "answer"},
        bad : {"next", "fail"}, temp : {"keep", "make", "defer", "drop"}]

\* The removal of the file comes whatever the commands before it do.
Dropping(s) ==
  \E i \in DOMAIN s :
    /\ s[i].temp = "drop"
    /\ \A j \in DOMAIN s : j < i => s[j].ok = "next" /\ s[j].bad = "next"

\* A command that makes a file is followed by its removal.
Tidy(s) ==
  \A i \in DOMAIN s : s[i].temp = "make" =>
    /\ s[i].ok = "next"
    /\ \E k \in DOMAIN s :
         /\ i < k /\ s[k].temp = "drop"
         /\ \A j \in DOMAIN s : i < j /\ j < k => s[j].ok = "next" /\ s[j].bad = "next"

\* Commands that make no such file.
Plain == {cmd \in Cmd : cmd.temp # "make"}

Keys == Setting \cup {NoSetting, "all"}

\* The single commands of the scripts.
LEMMA Singles ==
  /\ \A k \in Keys : Try(k) \in Plain /\ Must(k) \in Plain /\ Unless(k) \in Plain
  /\ Receive \in Cmd /\ Receive.ok = "next" /\ ReceiveDeferred \in Plain
  /\ \A k \in Keys : MustAndRemove(k) \in Plain /\ MustAndRemove(k).temp = "drop"
BY DEF Try, Must, Unless, Receive, ReceiveDeferred, MustAndRemove, Command, Cmd, Plain, Keys

\* Commands whose errors nobody reads.
LEMMA Attempts ==
  ASSUME NEW keys \in Seq(Keys)
  PROVE  Tries(keys) \in Seq(Plain)
<1>1. Tries(keys) = [i \in 1..Len(keys) |-> Try(keys[i])]
  BY DEF Tries
<1>2. \A i \in 1..Len(keys) : Try(keys[i]) \in Plain
  BY Singles
<1> QED
  BY <1>1, <1>2

\* Short sequences, and the settings by name.
LEMMA Short ==
  ASSUME NEW S, NEW a \in S
  PROVE  /\ <<>> \in Seq(S) /\ <<a>> \in Seq(S)
         /\ \A b \in S : <<a, b>> \in Seq(S)
         /\ \A b, c \in S : <<a, b, c>> \in Seq(S)
         /\ \A b, c, d \in S : <<a, b, c, d>> \in Seq(S)
OBVIOUS

\* Every setting of a script is one.
LEMMA Named ==
  /\ "value" \in Keys /\ "location" \in Keys /\ "providers" \in Keys /\ "wifi" \in Keys
  /\ "data" \in Keys /\ "speed" \in Keys /\ "capacity" \in Keys /\ "charger" \in Keys
  /\ "autorotate" \in Keys /\ "rotation" \in Keys /\ "uimode" \in Keys /\ "night" \in Keys
  /\ "sensor" \in Keys /\ "lock" \in Keys /\ "window" \in Keys /\ "transition" \in Keys
  /\ "animator" \in Keys /\ "services" \in Keys /\ "accessibility" \in Keys
  /\ "automatic" \in Keys /\ "brightness" \in Keys /\ "pin" \in Keys /\ "finger" \in Keys
  /\ "clipboard" \in Keys /\ "text" \in Keys /\ "app" \in Keys /\ "file" \in Keys
  /\ "dump" \in Keys /\ "all" \in Keys /\ NoSetting \in Keys
BY DEF Keys, Setting

\* The scripts by their shape: one command or none,
LEMMA OneCommand ==
  ASSUME NEW s, s \in One \cup Read \cup PushFile \cup PullFile \cup PushNotification
                  \cup GetUITree \cup Restore \cup {<<>>, <<Must("app")>>}
  PROVE  s \in Seq(Plain)
<1>1. PICK cmd \in Plain : s = <<>> \/ s = <<cmd>>
  BY Singles, Named DEF One, Read, PushFile, PullFile, PushNotification, GetUITree, Restore
<1> QED
  BY <1>1, Short

\* two or three, each only if the one before fails,
LEMMA Fallbacks ==
  ASSUME NEW s, s \in SetGPS \cup Clipboard \cup StopHAR
  PROVE  s \in Seq(Plain)
<1>1. PICK a \in Plain, b \in Plain, c \in Plain : s = <<a, b>> \/ s = <<a, b, c>>
  BY Singles, Named DEF SetGPS, Clipboard, StopHAR
<1> QED
  BY <1>1, Short

\* three or four for a file that the host removes at the end,
LEMMA Uploads ==
  ASSUME NEW s \in UploadFile
  PROVE  s \in Seq(Plain)
<1>1. PICK a \in Plain, b \in Plain, c \in Plain, d \in Plain : s = <<a, b, c, d>> \/ s = <<a, b, c>>
  BY Singles, Named DEF UploadFile
<1> QED
  BY <1>1, Short

\* settings one after another, or
LEMMA ManyTries ==
  ASSUME NEW s, s \in SetNetwork \cup SetOrientation \cup SetDarkMode \cup Shake \cup LockUnlock
                     \cup Animations \cup Accessibility \cup Brightness \cup WifiToggle \cup Sensor
                     \cup StartHAR \cup GPSRoute
  PROVE  s \in Seq(Plain)
<1>1. PICK keys \in {<<"wifi", "data">>, <<"wifi", "data", "speed">>, <<"autorotate", "rotation">>,
                    <<"uimode", "night">>, <<"sensor", "sensor">>, <<"sensor">>, <<"lock">>,
                    <<"lock", "lock">>, <<"window", "transition", "animator">>,
                    <<"services", "accessibility">>, <<"automatic", "brightness">>, <<"wifi">>,
                    <<"dump">>, <<"location", "location">>} : s = Tries(keys)
  BY DEF SetNetwork, SetOrientation, SetDarkMode, Shake, LockUnlock, Animations,
         Accessibility, Brightness, WifiToggle, Sensor, StartHAR, GPSRoute
<1>2. /\ <<"wifi", "data">> \in Seq(Keys) /\ <<"wifi", "data", "speed">> \in Seq(Keys)
      /\ <<"autorotate", "rotation">> \in Seq(Keys) /\ <<"uimode", "night">> \in Seq(Keys)
      /\ <<"sensor", "sensor">> \in Seq(Keys) /\ <<"sensor">> \in Seq(Keys)
  BY Named
<1>3. /\ <<"lock">> \in Seq(Keys) /\ <<"lock", "lock">> \in Seq(Keys)
      /\ <<"window", "transition", "animator">> \in Seq(Keys)
      /\ <<"services", "accessibility">> \in Seq(Keys)
  BY Named
<1>4. /\ <<"automatic", "brightness">> \in Seq(Keys) /\ <<"wifi">> \in Seq(Keys)
      /\ <<"dump">> \in Seq(Keys) /\ <<"location", "location">> \in Seq(Keys)
  BY Named
<1>5. keys \in Seq(Keys)
  BY <1>1, <1>2, <1>3, <1>4, Zenon
<1> QED
  BY <1>1, <1>5, Attempts

\* with a part that depends on the body of the request.
LEMMA LongTries ==
  ASSUME NEW s, s \in SetBattery \cup Biometric \cup GetDeviceInfo
  PROVE  s \in Seq(Plain)
<1>1. CASE s \in SetBattery
  <2>1. PICK level \in {<<>>, <<"capacity">>}, charging \in {<<>>, <<"charger">>, <<"charger", "charger">>} :
          s = Tries(level \o charging)
    BY <1>1 DEF SetBattery
  <2>2. level \in Seq(Keys) /\ charging \in Seq(Keys)
    <3>1. /\ <<>> \in Seq(Keys) /\ <<"capacity">> \in Seq(Keys)
          /\ <<"charger">> \in Seq(Keys) /\ <<"charger", "charger">> \in Seq(Keys)
      BY Named
    <3> QED
      BY <2>1, <3>1, Zenon
  <2>3. level \o charging \in Seq(Keys)
    BY <2>2
  <2> QED
    BY <2>1, <2>3, Attempts
<1>2. CASE s \in Biometric
  <2>1. [i \in 1..6 |-> NoSetting] \in Seq(Keys) /\ <<"pin", "finger">> \in Seq(Keys)
    BY Named
  <2>2. <<"pin", "finger">> \o [i \in 1..6 |-> NoSetting] \in Seq(Keys)
    BY <2>1
  <2> QED
    BY <1>2, <2>2, Attempts, OneCommand DEF Biometric
<1>3. CASE s \in GetDeviceInfo
  <2> DEFINE cmd == Try(NoSetting)
  <2>1. cmd \in Plain /\ s = [i \in 1..10 |-> cmd]
    BY <1>3, Singles, Named DEF GetDeviceInfo
  <2> HIDE DEF cmd
  <2>2. [i \in 1..10 |-> cmd] \in Seq(Plain)
    BY <2>1
  <2> QED
    BY <2>1, <2>2
<1> QED
  BY <1>1, <1>2, <1>3

\* A file that a handler makes is removed by one of its later commands, whatever
\* those between them do.
LEMMA TidyScripts ==
  ASSUME NEW s \in Script \cup GPSRoute
  PROVE  s \in Seq(Cmd) /\ Tidy(s)
<1>1. ASSUME s \in Seq(Plain)
      PROVE  s \in Seq(Cmd) /\ Tidy(s)
  BY <1>1 DEF Plain, Tidy
<1>2. CASE s \in InstallAPK
  <2>1. CASE s = <<Must("app")>>
    BY <1>1, <2>1, OneCommand
  <2>2. CASE s = <<Receive, MustAndRemove("app")>>
    <3>1. /\ Receive \in Cmd /\ Receive.ok = "next"
          /\ MustAndRemove("app") \in Plain /\ MustAndRemove("app").temp = "drop"
      BY Singles, Named
    <3>2. Tidy(s)
      BY <2>2, <3>1 DEF Plain, Tidy
    <3>3. MustAndRemove("app") \in Cmd
      BY <3>1 DEF Plain
    <3> QED
      BY <2>2, <3>1, <3>2, <3>3
  <2> QED
    BY <1>2, <2>1, <2>2 DEF InstallAPK
<1>3. CASE s \in CameraInject
  <2>0. /\ Receive \in Cmd /\ Receive.ok = "next"
        /\ Try(NoSetting) \in Plain /\ Must("file") \in Plain
        /\ MustAndRemove("file") \in Plain /\ MustAndRemove("file").temp = "drop"
    BY Singles, Named
  <2>1. CASE s = <<Try(NoSetting), Must("file"), Try(NoSetting)>>
    BY <1>1, <2>0, <2>1, Short
  <2>2. CASE s = <<Receive, Try(NoSetting), MustAndRemove("file"), Try(NoSetting)>>
    <3>1. Try(NoSetting).ok = "next" /\ Try(NoSetting).bad = "next"
      BY DEF Try, Command
    <3>2. Tidy(s)
      BY <2>0, <2>2, <3>1 DEF Plain, Tidy
    <3>3. Try(NoSetting) \in Cmd /\ MustAndRemove("file") \in Cmd
      BY <2>0 DEF Plain
    <3> QED
      BY <2>0, <2>2, <3>2, <3>3, Short
  <2> QED
    BY <1>3, <2>1, <2>2 DEF CameraInject
<1>4. CASE s \notin InstallAPK \cup CameraInject
  <2>1. CASE s \in GPSRoute \cup UNION {SetNetwork, SetOrientation, SetDarkMode, Shake, LockUnlock,
                Animations, Accessibility, Brightness, WifiToggle, Sensor, StartHAR}
    BY <1>1, <2>1, ManyTries
  <2>2. CASE s \in UNION {SetGPS, Clipboard, StopHAR}
    BY <1>1, <2>2, Fallbacks
  <2>3. CASE s \in UNION {SetBattery, Biometric, GetDeviceInfo}
    BY <1>1, <2>3, LongTries
  <2>4. CASE s \in UploadFile
    BY <1>1, <2>4, Uploads
  <2>5. CASE s \in UNION {Volume, PushFile, PullFile, PushNotification, GetPackageInfo, GetUITree,
                         GetLogcat, Screenshot, Restore, Save, List, Delete}
    <3>1. s \in One \cup Read \cup PushFile \cup PullFile \cup PushNotification
               \cup GetUITree \cup Restore \cup {<<>>, <<Must("app")>>}
      BY <2>5 DEF Volume, GetPackageInfo, GetUITree, GetLogcat, Screenshot, Save, List, Delete
    <3> QED
      BY <1>1, <3>1, OneCommand
  <2>6. CASE s \in UNION {SetLocale, SetTimezone, FontScale, OpenDeeplink, Permissions, ClearData,
                         UninstallApp, AudioInject, LaunchApp, ForceStop, PressKey, ExecADB,
                         GetActivity, GetNotifications, GetClipboard, IsKeyboardShown}
    <3>1. s \in One \cup Read
      BY <2>6 DEF SetLocale, SetTimezone, FontScale, OpenDeeplink, Permissions, ClearData,
                  UninstallApp, AudioInject, LaunchApp, ForceStop, PressKey, ExecADB,
                  GetActivity, GetNotifications, GetClipboard, IsKeyboardShown
    <3> QED
      BY <1>1, <3>1, OneCommand
  <2> QED
    BY <1>4, <2>1, <2>2, <2>3, <2>4, <2>5, <2>6 DEF Script
<1> QED
  BY <1>2, <1>3, <1>4

-----------------------------------------------------------------------------
(* Where requests are                                                      *)

Tunnelling == {"forward", "dial", "read", "worked", "failed"}
ViewAt == {"wait", "loop", "push", "port", "check", "pipe"} \cup Tunnelling
RelayAt == {"relay", "full", "put"}
RequestAt == {"command", "route"}
RecorderAt == {"start", "stop", "cancel", "pull", "remove"}

Places ==
  /\ up \subseteq Dev
  /\ at \in [Client -> {"idle", "over", "watch"} \cup ViewAt \cup RelayAt \cup RequestAt \cup RecorderAt]
  /\ dev \in [Client -> Dev \cup {None}]
  /\ \A c \in Client : at[c] # "idle" => dev[c] \in Dev

\* Nobody but c moves, and c keeps its device unless it has none yet.
OnlyMoves(c) ==
  /\ at' = [at EXCEPT ![c] = at'[c]] /\ dev' = [dev EXCEPT ![c] = dev'[c]]
  /\ \A o \in Client : o # c => at'[o] = at[o] /\ dev'[o] = dev[o]
  /\ dev'[c] = dev[c] \/ at[c] = "idle"

\* A request begins with a kind of its own ...
LEMMA Begins ==
  ASSUME Places, NEW c \in Client, NEW d \in up,
         \/ View(c, d) \/ StreamScreen(c, d) \/ StreamLogcat(c, d) \/ SendInput(c, d)
         \/ Ask(c, d) \/ AskRoute(c, d) \/ StartAsked(c, d) \/ StopAsked(c, d)
  PROVE  /\ at[c] = "idle" /\ dev'[c] = d /\ up' = up /\ tunnel' = tunnel /\ recorder' = recorder
         /\ OnlyMoves(c)
         /\ \/ View(c, d) /\ at'[c] = "wait" /\ request' = request
            \/ (StreamScreen(c, d) \/ StreamLogcat(c, d)) /\ at'[c] = "watch" /\ request' = request
            \/ SendInput(c, d) /\ at'[c] = "relay" /\ request' = request
            \/ Ask(c, d) /\ at'[c] = "command"
            \/ AskRoute(c, d) /\ at'[c] = "route"
            \/ StartAsked(c, d) /\ at'[c] = "start" /\ request' = request
            \/ StopAsked(c, d) /\ at'[c] = "stop" /\ request' = request
BY DEF Places, OnlyMoves, View, Offer, StreamScreen, StreamLogcat, SendInput, Ask, AskRoute,
       StartAsked, StopAsked, Resolve, Go, request, tunnel, recorder

\* ... and keeps to it until it is over.
LEMMA ViewMoves ==
  ASSUME Places, NEW c \in Client, Viewing(c)
  PROVE  /\ dev' = dev /\ up' = up /\ OnlyMoves(c)
         /\ at' = at \/ (at[c] \in ViewAt /\ at'[c] \in ViewAt \cup {"over"})
<1> USE DEF Places, OnlyMoves, Only, Go, Return, ViewAt, Tunnelling
<1>1. CASE Connected(c) \/ Closed(c) \/ (\E kind \in {"config", "key"} : Unit(c, kind)) \/ Send(c)
  BY <1>1 DEF Connected, Closed, Unit, Send
<1>2. CASE StreamTimesOut(c)
  BY <1>2 DEF StreamTimesOut
<1>3. CASE StreamReady(c) \/ StreamGivesUp(c) \/ Loop(c) \/ Pushed(c) \/ PushFails(c)
  BY <1>3 DEF StreamReady, StreamGivesUp, Loop, Pushed, PushFails
<1>4. CASE (\E p \in Port : FreePort(c, p)) \/ NoPort(c) \/ Forwarded(c) \/ ForwardFails(c)
  BY <1>4 DEF FreePort, NoPort, Forwarded, ForwardFails
<1>5. CASE Dialled(c) \/ DialFails(c) \/ ReadEnds(c) \/ Undo(c) \/ Check(c) \/ PipeEnds(c)
  BY <1>5 DEF Dialled, DialFails, ReadEnds, Undo, Check, PipeEnds
<1> QED
  BY <1>1, <1>2, <1>3, <1>4, <1>5 DEF Viewing, StreamStep

\* So do the kinds of request that are no view.
LEMMA OtherMoves ==
  ASSUME Places, NEW c \in Client
  PROVE  /\ Socket(c) \/ Relay(c) \/ Requesting(c) \/ Recorder(c) =>
              dev' = dev /\ up' = up /\ tunnel' = tunnel /\ OnlyMoves(c)
         /\ Socket(c) => at' = at \/ (at[c] = "watch" /\ at'[c] = "over")
         /\ Relay(c) => at[c] \in RelayAt /\ at'[c] \in RelayAt \cup {"over"}
         /\ Requesting(c) => at[c] \in RequestAt /\ at'[c] \in RequestAt \cup {"over"}
         /\ Recorder(c) => at[c] \in RecorderAt /\ at'[c] \in RecorderAt \cup {"over"}
<1> USE DEF Places, OnlyMoves, Only, Go, Return, RelayAt, RequestAt, RecorderAt, tunnel
<1>1. ASSUME Socket(c)
      PROVE  /\ dev' = dev /\ up' = up /\ tunnel' = tunnel /\ OnlyMoves(c)
             /\ at' = at \/ (at[c] = "watch" /\ at'[c] = "over")
  BY <1>1 DEF Socket, WatchEnds, Gone
<1>2. ASSUME Relay(c)
      PROVE  /\ dev' = dev /\ up' = up /\ tunnel' = tunnel /\ OnlyMoves(c)
             /\ at[c] \in RelayAt /\ at'[c] \in RelayAt \cup {"over"}
  BY <1>2 DEF Relay, Producer, ReceiveInput, DropOldest, PutInput, CloseInput
<1>3. ASSUME Requesting(c)
      PROVE  /\ dev' = dev /\ up' = up /\ tunnel' = tunnel /\ OnlyMoves(c)
             /\ at[c] \in RequestAt /\ at'[c] \in RequestAt \cup {"over"}
  BY <1>3 DEF Requesting, Commanding, CommandDone, CommandFails, Started, Answer, Sending
<1>4. ASSUME Recorder(c)
      PROVE  /\ dev' = dev /\ up' = up /\ tunnel' = tunnel /\ OnlyMoves(c)
             /\ at[c] \in RecorderAt /\ at'[c] \in RecorderAt \cup {"over"}
  BY <1>4 DEF Recorder, Recording, Start, Stop, StopCancel, Pull, Remove
<1> QED
  BY <1>1, <1>2, <1>3, <1>4

\* Places after a step that moves c alone.
LEMMA Placed ==
  ASSUME Places, NEW c \in Client, NEW pc, NEW d \in Dev \cup {None},
         pc \in {"over", "watch"} \cup ViewAt \cup RelayAt \cup RequestAt \cup RecorderAt,
         at' = [at EXCEPT ![c] = pc], dev' = [dev EXCEPT ![c] = d], d \in Dev, up' = up
  PROVE  Places'
<1>1. at' \in [Client -> {"idle", "over", "watch"} \cup ViewAt \cup RelayAt \cup RequestAt \cup RecorderAt]
  BY DEF Places
<1>2. dev' \in [Client -> Dev \cup {None}]
  BY DEF Places
<1>3. \A o \in Client : at'[o] # "idle" => dev'[o] \in Dev
  BY DEF Places
<1> QED
  BY <1>1, <1>2, <1>3 DEF Places

\* A request in progress has a device.
LEMMA PlacesKept ==
  ASSUME Places, [Next]_vars
  PROVE  Places'
<1>1. ASSUME NEW c \in Client, NEW d \in up,
             \/ View(c, d) \/ StreamScreen(c, d) \/ StreamLogcat(c, d) \/ SendInput(c, d)
             \/ Ask(c, d) \/ AskRoute(c, d) \/ StartAsked(c, d) \/ StopAsked(c, d)
      PROVE  Places'
  <2>1. PICK pc \in {"wait", "watch", "relay", "command", "route", "start", "stop"} :
          at' = [at EXCEPT ![c] = pc]
    BY <1>1 DEF View, Offer, StreamScreen, StreamLogcat, SendInput, Ask, AskRoute,
       StartAsked, StopAsked, Resolve, Go
  <2>2. dev' = [dev EXCEPT ![c] = d] /\ up' = up /\ d \in Dev
    BY <1>1 DEF Places, View, Offer, StreamScreen, StreamLogcat, SendInput, Ask, AskRoute,
       StartAsked, StopAsked, Resolve, Go
  <2>3. pc \in {"over", "watch"} \cup ViewAt \cup RelayAt \cup RequestAt \cup RecorderAt
    BY DEF ViewAt, RelayAt, RequestAt, RecorderAt
  <2> QED
    BY <2>1, <2>2, <2>3, Placed
<1>2. ASSUME NEW c \in Client, Viewing(c) \/ Socket(c) \/ Relay(c) \/ Requesting(c) \/ Recorder(c)
      PROVE  Places'
  <2>1. dev' = dev /\ up' = up /\ at' = [at EXCEPT ![c] = at'[c]]
    BY <1>2, ViewMoves, OtherMoves DEF OnlyMoves
  <2>2. CASE at' = at
    BY <2>1, <2>2 DEF Places
  <2>3. CASE at' # at
    <3>2. at[c] # "idle" /\ at'[c] \in {"over"} \cup ViewAt \cup RelayAt \cup RequestAt \cup RecorderAt
      <4>1. CASE Viewing(c)
        BY <4>1, <2>3, ViewMoves DEF ViewAt, Tunnelling
      <4>2. CASE Socket(c)
        BY <4>2, <2>3, OtherMoves
      <4>3. CASE Relay(c)
        BY <4>3, OtherMoves DEF RelayAt
      <4>4. CASE Requesting(c) \/ Recorder(c)
        BY <4>4, OtherMoves DEF RequestAt, RecorderAt
      <4> QED
        BY <1>2, <4>1, <4>2, <4>3, <4>4
    <3>3. dev[c] \in Dev
      BY <3>2 DEF Places
    <3>4. dev' = [dev EXCEPT ![c] = dev[c]]
      BY <2>1 DEF Places
    <3> QED
      <4>1. PICK pc : pc = at'[c]
        OBVIOUS
      <4>2. /\ pc \in {"over", "watch"} \cup ViewAt \cup RelayAt \cup RequestAt \cup RecorderAt
            /\ at' = [at EXCEPT ![c] = pc]
        BY <2>1, <3>2, <4>1
      <4>3. dev[c] \in Dev \cup {None}
        BY <3>3
      <4> QED
        BY <2>1, <3>3, <3>4, <4>2, <4>3, Placed
  <2> QED
    BY <2>2, <2>3
<1>3. ASSUME NEW c \in Client, RelayRuns(c) \/ TimeLimit(c)
      PROVE  Places'
  BY <1>3 DEF RelayRuns, TimeLimit, stream, Places
<1>4. ASSUME NEW d \in Dev, Die(d) \/ Boots(d) \/ HandOver(d)
      PROVE  Places'
  BY <1>4 DEF Die, Boots, HandOver, stream, Places
<1>5. CASE UNCHANGED vars
  BY <1>5 DEF vars, stream, Places
<1> QED
  BY <1>1, <1>2, <1>3, <1>4, <1>5 DEF Next

-----------------------------------------------------------------------------
(* Forwards                                                                *)

\* A stream has a port from getFreePort to its deferred calls; a forward is of a
\* stream that has still to come to them, or one that adb would not remove.
Forwards ==
  /\ port \in [Client -> Port \cup {None}]
  /\ forward \in [Port -> Dev \cup {None}]
  /\ \A c \in Client : port[c] # None <=> at[c] \in Tunnelling
  /\ \A p \in Port \ stuck :
       forward[p] # None => \E c \in Client : port[c] = p /\ at[c] # "forward"

\* Steps of requests that have no forward.
LEMMA Aside ==
  ASSUME Forwards, NEW c \in Client, OnlyMoves(c), tunnel' = tunnel,
         at[c] \notin Tunnelling, at'[c] \notin Tunnelling
  PROVE  Forwards'
BY DEF Forwards, OnlyMoves, tunnel, Tunnelling

\* Steps of nobody.
LEMMA Still ==
  ASSUME Forwards, at' = at, dev' = dev, tunnel' = tunnel
  PROVE  Forwards'
BY DEF Forwards, tunnel

\* A forward comes with the stream that makes it and goes with it, or with its
\* device, even if two streams have one port.
LEMMA ForwardsKept ==
  ASSUME StreamAssumption, "killed" \notin Ops, Places, Forwards, [Next]_vars
  PROVE  Forwards'
<1>1. ASSUME NEW c \in Client, NEW d \in up,
             \/ View(c, d) \/ StreamScreen(c, d) \/ StreamLogcat(c, d) \/ SendInput(c, d)
             \/ Ask(c, d) \/ AskRoute(c, d) \/ StartAsked(c, d) \/ StopAsked(c, d)
      PROVE  Forwards'
  BY <1>1, Begins, Aside DEF Tunnelling
<1>2. ASSUME NEW c \in Client, Socket(c) \/ Relay(c) \/ Requesting(c) \/ Recorder(c)
      PROVE  Forwards'
  <2>1. CASE at' = at
    BY <1>2, <2>1, OtherMoves, Still
  <2>2. CASE at' # at
    BY <1>2, <2>2, OtherMoves, Aside DEF Tunnelling, RelayAt, RequestAt, RecorderAt
  <2> QED
    BY <2>1, <2>2
<1>3. ASSUME NEW c \in Client, Viewing(c)
      PROVE  Forwards'
  <2>0. OnlyMoves(c) /\ dev' = dev
    BY <1>3, ViewMoves
  <2>1. CASE Connected(c) \/ Closed(c) \/ (\E kind \in {"config", "key"} : Unit(c, kind)) \/ Send(c)
    BY <2>1, Still DEF Connected, Closed, Unit, Send, tunnel
  <2>2. CASE StreamTimesOut(c) \/ StreamReady(c) \/ StreamGivesUp(c) \/ Loop(c) \/ Pushed(c)
             \/ PushFails(c) \/ NoPort(c) \/ Check(c) \/ PipeEnds(c)
    <3>1. tunnel' = tunnel /\ at[c] \notin Tunnelling
      BY <2>2 DEF StreamTimesOut, StreamReady, StreamGivesUp, Loop, Pushed, PushFails, NoPort,
                  Check, PipeEnds, Only, Return, tunnel, Tunnelling
    <3>2. at'[c] \notin Tunnelling
      BY <2>2 DEF StreamTimesOut, StreamReady, StreamGivesUp, Loop, Pushed, PushFails, NoPort,
                  Check, PipeEnds, Only, Return, Go, Places, Tunnelling
    <3> QED
      BY <2>0, <3>1, <3>2, Aside
  <2>3. ASSUME NEW p \in Port, FreePort(c, p)
        PROVE  Forwards'
    <3>1. /\ at[c] = "port" /\ at'[c] = "forward"
          /\ port' = [port EXCEPT ![c] = p] /\ UNCHANGED <<forward, stuck>>
      BY <2>3 DEF FreePort, Go, Places
    <3> QED
      BY <2>0, <3>1 DEF Forwards, OnlyMoves, Tunnelling, StreamAssumption
  <2>4. CASE Forwarded(c)
    <3>1. /\ at[c] = "forward" /\ at'[c] = "dial"
          /\ forward' = [forward EXCEPT ![port[c]] = dev[c]]
          /\ stuck' = stuck \ {port[c]} /\ UNCHANGED port
      BY <2>4 DEF Forwarded, Go, Places
    <3>2. dev[c] \in Dev /\ port[c] \in Port
      BY <3>1 DEF Places, Forwards, Tunnelling
    <3> QED
      BY <2>0, <3>1, <3>2 DEF Forwards, OnlyMoves, Tunnelling, StreamAssumption
  <2>5. CASE ForwardFails(c)
    <3>1. /\ at[c] = "forward" /\ at'[c] = "check"
          /\ port' = [port EXCEPT ![c] = None] /\ UNCHANGED <<forward, stuck>>
      BY <2>5 DEF ForwardFails, Go, Places
    <3> QED
      BY <2>0, <3>1 DEF Forwards, OnlyMoves, Tunnelling, StreamAssumption
  <2>6. CASE Dialled(c)
    <3>1. /\ at[c] = "dial" /\ at'[c] = "read" /\ UNCHANGED <<forward, port, stuck>>
      BY <2>6 DEF Dialled, Go, Places
    <3> QED
      BY <2>0, <3>1 DEF Forwards, OnlyMoves, Tunnelling, Places
  <2>7. CASE DialFails(c) \/ ReadEnds(c)
    <3>1. /\ at[c] \in {"dial", "read"} /\ at'[c] \in {"failed", "worked"} /\ tunnel' = tunnel
      BY <2>7 DEF DialFails, ReadEnds, Only, Go, Places, tunnel
    <3> QED
      BY <2>0, <3>1 DEF Forwards, OnlyMoves, Tunnelling, tunnel
  <2>8. CASE Undo(c)
    <3>1. /\ at[c] \in {"worked", "failed"} /\ at'[c] \in {"loop", "check"}
          /\ \/ forward' = [forward EXCEPT ![port[c]] = None] /\ stuck' = stuck \ {port[c]}
             \/ forward' = forward /\ stuck' = stuck \cup {port[c]}
          /\ port' = [port EXCEPT ![c] = None]
      BY <2>8 DEF Undo, Go, Places
    <3>2. port[c] \in Port
      BY <3>1 DEF Forwards, Tunnelling
    <3> QED
      BY <2>0, <3>1, <3>2 DEF Forwards, OnlyMoves, Tunnelling, StreamAssumption
  <2> QED
    BY <1>3, <2>1, <2>2, <2>3, <2>4, <2>5, <2>6, <2>7, <2>8 DEF Viewing, StreamStep
<1>4. ASSUME NEW c \in Client, RelayRuns(c) \/ TimeLimit(c)
      PROVE  Forwards'
  BY <1>4, Still DEF RelayRuns, TimeLimit, stream, tunnel
<1>5. ASSUME NEW d \in Dev, Die(d)
      PROVE  Forwards'
  <2>1. UNCHANGED <<at, port>>
    BY <1>5 DEF Die
  <2>2. /\ forward' \in [Port -> Dev \cup {None}]
        /\ \A p \in Port : forward'[p] # None => forward'[p] = forward[p] /\ forward[p] # d
        /\ stuck' = {p \in stuck : forward[p] # d}
    BY <1>5 DEF Die, Forwards
  <2> QED
    BY <2>1, <2>2 DEF Forwards
<1>6. ASSUME NEW d \in Dev, Boots(d) \/ HandOver(d)
      PROVE  Forwards'
  BY <1>6, Still DEF Boots, HandOver, stream, tunnel
<1>7. CASE UNCHANGED vars
  BY <1>7, Still DEF vars, stream, tunnel
<1> QED
  BY <1>1, <1>2, <1>3, <1>4, <1>5, <1>6, <1>7 DEF Next

-----------------------------------------------------------------------------
(* Temporary files                                                         *)

\* What a command does to the rest of its script.
LEMMA OneLess ==
  ASSUME NEW s \in Seq(Cmd), s # <<>>, Tidy(s)
  PROVE  /\ Head(s) \in Cmd /\ Tail(s) \in Seq(Cmd) /\ Tidy(Tail(s))
         /\ Dropping(s) /\ Head(s).temp # "drop" =>
              Dropping(Tail(s)) /\ Head(s).ok = "next" /\ Head(s).bad = "next"
         /\ Head(s).temp = "make" => Dropping(Tail(s)) /\ Head(s).ok = "next"
<1> DEFINE t == Tail(s)
<1>1. /\ Head(s) = s[1] /\ 1 \in DOMAIN s /\ s[1] \in Cmd /\ t \in Seq(Cmd)
      /\ \A i \in DOMAIN t : i + 1 \in DOMAIN s /\ t[i] = s[i + 1] /\ i \in Nat \ {0}
      /\ \A i \in DOMAIN s : i \in Nat \ {0} /\ (i # 1 => i - 1 \in DOMAIN t /\ t[i - 1] = s[i])
  OBVIOUS
<1> HIDE DEF t
<1>2. Tidy(t)
  <2> SUFFICES ASSUME NEW i \in DOMAIN t, t[i].temp = "make"
               PROVE  /\ t[i].ok = "next"
                      /\ \E k \in DOMAIN t :
                           /\ i < k /\ t[k].temp = "drop"
                           /\ \A j \in DOMAIN t : i < j /\ j < k => t[j].ok = "next" /\ t[j].bad = "next"
    BY DEF Tidy
  <2>1. s[i + 1].temp = "make" /\ i + 1 \in DOMAIN s
    BY <1>1
  <2>2. PICK k \in DOMAIN s :
          /\ i + 1 < k /\ s[k].temp = "drop"
          /\ \A j \in DOMAIN s : i + 1 < j /\ j < k => s[j].ok = "next" /\ s[j].bad = "next"
    BY <2>1 DEF Tidy
  <2>3. k - 1 \in DOMAIN t /\ t[k - 1].temp = "drop" /\ i < k - 1
    BY <1>1, <2>2
  <2>4. \A j \in DOMAIN t : i < j /\ j < k - 1 => t[j].ok = "next" /\ t[j].bad = "next"
    <3> SUFFICES ASSUME NEW j \in DOMAIN t, i < j, j < k - 1
                 PROVE  t[j].ok = "next" /\ t[j].bad = "next"
      OBVIOUS
    <3>1. j + 1 \in DOMAIN s /\ t[j] = s[j + 1] /\ j \in Nat /\ k \in Nat /\ i \in Nat
      BY <1>1
    <3>2. i + 1 < j + 1 /\ j + 1 < k
      BY <3>1
    <3> QED
      BY <2>2, <3>1, <3>2
  <2>5. t[i].ok = "next"
    BY <1>1, <2>1 DEF Tidy
  <2> QED
    BY <2>3, <2>4, <2>5
<1>3. ASSUME Dropping(s), Head(s).temp # "drop"
      PROVE  Dropping(t) /\ Head(s).ok = "next" /\ Head(s).bad = "next"
  <2>1. PICK i \in DOMAIN s : /\ s[i].temp = "drop"
                             /\ \A j \in DOMAIN s : j < i => s[j].ok = "next" /\ s[j].bad = "next"
    BY <1>3 DEF Dropping
  <2>2. i # 1 /\ 1 < i
    BY <1>1, <1>3, <2>1
  <2>3. i - 1 \in DOMAIN t /\ t[i - 1].temp = "drop"
    BY <1>1, <2>1, <2>2
  <2>4. \A j \in DOMAIN t : j < i - 1 => t[j].ok = "next" /\ t[j].bad = "next"
    BY <1>1, <2>1
  <2> QED
    BY <1>1, <2>1, <2>2, <2>3, <2>4 DEF Dropping
<1>4. ASSUME Head(s).temp = "make"
      PROVE  Dropping(t) /\ Head(s).ok = "next"
  <2>1. PICK k \in DOMAIN s :
          /\ 1 < k /\ s[k].temp = "drop"
          /\ \A j \in DOMAIN s : 1 < j /\ j < k => s[j].ok = "next" /\ s[j].bad = "next"
    BY <1>1, <1>4 DEF Tidy
  <2>2. k - 1 \in DOMAIN t /\ t[k - 1].temp = "drop"
    BY <1>1, <2>1
  <2>3. \A j \in DOMAIN t : j < k - 1 => t[j].ok = "next" /\ t[j].bad = "next"
    <3> SUFFICES ASSUME NEW j \in DOMAIN t, j < k - 1
                 PROVE  t[j].ok = "next" /\ t[j].bad = "next"
      OBVIOUS
    <3>1. j + 1 \in DOMAIN s /\ t[j] = s[j + 1] /\ j \in Nat \ {0} /\ k \in Nat
      BY <1>1
    <3>2. 1 < j + 1 /\ j + 1 < k
      BY <3>1
    <3> QED
      BY <2>1, <3>1, <3>2
  <2>4. s[1].ok = "next"
    BY <1>1, <1>4 DEF Tidy
  <2> QED
    BY <1>1, <2>2, <2>3, <2>4 DEF Dropping
<1> QED
  BY <1>1, <1>2, <1>3, <1>4 DEF t

\* A request that has made a file is not over, and what it has yet to do removes
\* the file.
Temps ==
  /\ todo \in [Client -> Seq(Cmd)] /\ \A c \in Client : Tidy(todo[c])
  /\ temp \subseteq Client \X {"make", "defer"}
  /\ \A c \in Client, kept \in {"make", "defer"} : <<c, kept>> \in temp =>
       at[c] \in RequestAt /\ (kept = "make" => Dropping(todo[c]))

\* Commands that fail, contexts that are cancelled: the script still removes its file.
LEMMA TempsKept ==
  ASSUME Places, Temps, [Next]_vars
  PROVE  Temps'
<1>0. \A c \in Client : at[c] \notin RequestAt => <<c, "make">> \notin temp /\ <<c, "defer">> \notin temp
  BY DEF Temps
<1>1. ASSUME NEW c \in Client, OnlyMoves(c), request' = request, at[c] \notin RequestAt
      PROVE  Temps'
  BY <1>1 DEF Temps, OnlyMoves, request
<1>2. ASSUME at' = at, request' = request
      PROVE  Temps'
  BY <1>2 DEF Temps, request
<1>3. ASSUME NEW c \in Client, NEW d \in up,
             \/ View(c, d) \/ StreamScreen(c, d) \/ StreamLogcat(c, d) \/ SendInput(c, d)
             \/ StartAsked(c, d) \/ StopAsked(c, d)
      PROVE  Temps'
  <2>1. at[c] = "idle" /\ OnlyMoves(c)
    BY <1>3, Begins
  <2>2. request' = request
    BY <1>3 DEF View, StreamScreen, StreamLogcat, SendInput, StartAsked, StopAsked
  <2> QED
    BY <1>1, <2>1, <2>2 DEF RequestAt
<1>4. ASSUME NEW c \in Client, NEW d \in up, Ask(c, d) \/ AskRoute(c, d)
      PROVE  Temps'
  <2>1. at[c] = "idle" /\ OnlyMoves(c)
    BY <1>4, Begins
  <2>2. PICK s \in Script \cup GPSRoute : todo' = [todo EXCEPT ![c] = s] /\ temp' = temp
    BY <1>4 DEF Ask, AskRoute
  <2>3. s \in Seq(Cmd) /\ Tidy(s)
    BY TidyScripts
  <2>4. at[c] \notin RequestAt
    BY <2>1 DEF RequestAt
  <2> QED
    BY <1>0, <2>1, <2>2, <2>3, <2>4 DEF Temps, OnlyMoves
<1>5. ASSUME NEW c \in Client, Viewing(c) \/ Socket(c) \/ Relay(c) \/ Recorder(c)
      PROVE  Temps'
  <2>1. request' = request /\ OnlyMoves(c)
    BY <1>5, ViewMoves, OtherMoves DEF Viewing, Socket, Relay, Recorder
  <2>2. at' = at \/ at[c] \notin RequestAt
    BY <1>5, ViewMoves, OtherMoves DEF ViewAt, Tunnelling, RelayAt, RecorderAt, RequestAt
  <2> QED
    BY <1>1, <1>2, <2>1, <2>2
<1>6. ASSUME NEW c \in Client, CommandDone(c) \/ CommandFails(c)
      PROVE  Temps'
  <2>1. PICK ok \in BOOLEAN :
          /\ todo' = [todo EXCEPT ![c] = Rest(c, IF ok THEN Head(todo[c]).ok ELSE Head(todo[c]).bad)]
          /\ temp' = TempAfter(c, ok)
    BY <1>6 DEF CommandDone, CommandFails
  <2>2. at[c] \in RequestAt /\ at' = at /\ todo[c] # <<>>
    BY <1>6 DEF CommandDone, CommandFails, Only, Go, Sending, RequestAt, Places
  <2> DEFINE s == todo[c]
             head == Head(s)
             rest == Rest(c, IF ok THEN head.ok ELSE head.bad)
  <2>3. s \in Seq(Cmd) /\ Tidy(s) /\ s # <<>>
    BY <2>2 DEF Temps
  <2>4. /\ head \in Cmd /\ Tail(s) \in Seq(Cmd) /\ Tidy(Tail(s))
        /\ Dropping(s) /\ head.temp # "drop" =>
             Dropping(Tail(s)) /\ head.ok = "next" /\ head.bad = "next"
        /\ head.temp = "make" => Dropping(Tail(s)) /\ head.ok = "next"
    BY <2>3, OneLess
  <2>5. Tidy(<<>>) /\ <<>> \in Seq(Cmd)
    BY DEF Tidy
  <2>6. rest \in Seq(Cmd) /\ Tidy(rest)
    BY <2>4, <2>5 DEF Rest
  <2>7. temp' \subseteq Client \X {"make", "defer"}
    BY <2>1 DEF Temps, TempAfter
  <2>8. \A o \in Client, kept \in {"make", "defer"} :
          o # c => (<<o, kept>> \in temp' <=> <<o, kept>> \in temp)
    BY <2>1 DEF TempAfter
  <2>9. <<c, "make">> \in temp' => Dropping(rest)
    <3> SUFFICES ASSUME <<c, "make">> \in temp'
                 PROVE  Dropping(rest)
      OBVIOUS
    <3>1. CASE head.temp = "make" /\ ok
      BY <2>4, <3>1 DEF Rest
    <3>2. CASE ~(head.temp = "make" /\ ok)
      <4>1. head.temp # "drop" /\ <<c, "make">> \in temp
        BY <2>1, <3>2 DEF TempAfter
      <4>2. Dropping(s)
        BY <4>1 DEF Temps
      <4> QED
        BY <2>4, <4>1, <4>2 DEF Rest
    <3> QED
      BY <3>1, <3>2
  <2> HIDE DEF rest
  <2>10. todo' \in [Client -> Seq(Cmd)] /\ \A o \in Client : todo'[o] = IF o = c THEN rest ELSE todo[o]
    BY <2>1, <2>6 DEF Temps, rest
  <2> QED
    BY <2>2, <2>6, <2>7, <2>8, <2>9, <2>10 DEF Temps
<1>7. ASSUME NEW c \in Client, Started(c)
      PROVE  Temps'
  BY <1>2, <1>7 DEF Started
<1>8. ASSUME NEW c \in Client, Answer(c)
      PROVE  Temps'
  <2>1. /\ todo[c] = <<>> /\ todo' = todo /\ temp' = temp \ {<<c, "defer">>}
        /\ \A o \in Client : o # c => at'[o] = at[o]
    BY <1>8 DEF Answer, Return, Go, Places
  <2>2. ~Dropping(todo[c])
    BY <2>1 DEF Dropping
  <2> QED
    BY <2>1, <2>2 DEF Temps
<1>9. ASSUME NEW c \in Client, RelayRuns(c) \/ TimeLimit(c)
      PROVE  Temps'
  BY <1>2, <1>9 DEF RelayRuns, TimeLimit, stream
<1>10. ASSUME NEW d \in Dev, Die(d) \/ Boots(d) \/ HandOver(d)
       PROVE  Temps'
  BY <1>10 DEF Die, Boots, HandOver, stream, request, Temps
<1>11. CASE UNCHANGED vars
  BY <1>2, <1>11 DEF vars, stream
<1> QED
  BY <1>3, <1>4, <1>5, <1>6, <1>7, <1>8, <1>9, <1>10, <1>11 DEF Next, Requesting, Commanding

-----------------------------------------------------------------------------
(* Recorders                                                               *)

\* A screenrecord command runs on a device that is up, and has its entry or a Stop
\* that is about to cancel it.
Recorders ==
  /\ recording \in [Dev -> Client \cup {None}]
  /\ live \subseteq Client
  /\ mine \in [Client -> Client \cup {None}]
  /\ \A r \in live :
       /\ at[r] # "idle" /\ dev[r] \in up
       /\ recording[dev[r]] = r \/ \E c \in Client : at[c] = "cancel" /\ mine[c] = r

\* Start, Stop, the time limit, deaths and boots.
LEMMA RecordersKept ==
  ASSUME StreamAssumption, Places, Recorders, [Next]_vars
  PROVE  Recorders'
<1>0. \A r \in live : r \in Client /\ dev[r] \in Dev
  BY DEF Recorders, Places
<1>1. ASSUME NEW c \in Client, OnlyMoves(c), recorder' = recorder, up' = up,
             at[c] # "cancel", at'[c] # "idle"
      PROVE  Recorders'
  BY <1>1 DEF Recorders, OnlyMoves, recorder
<1>2. ASSUME at' = at, dev' = dev, recorder' = recorder, up' = up
      PROVE  Recorders'
  BY <1>2 DEF Recorders, recorder
<1>3. ASSUME NEW c \in Client, NEW d \in up,
             \/ View(c, d) \/ StreamScreen(c, d) \/ StreamLogcat(c, d) \/ SendInput(c, d)
             \/ Ask(c, d) \/ AskRoute(c, d) \/ StartAsked(c, d) \/ StopAsked(c, d)
      PROVE  Recorders'
  <2>1. /\ at[c] = "idle" /\ recorder' = recorder /\ up' = up /\ OnlyMoves(c)
        /\ at'[c] \in {"wait", "watch", "relay", "command", "route", "start", "stop"}
    BY <1>3, Begins
  <2> QED
    BY <1>1, <2>1
<1>4. ASSUME NEW c \in Client, Viewing(c) \/ Socket(c) \/ Relay(c) \/ Requesting(c)
      PROVE  Recorders'
  <2>1. recorder' = recorder /\ OnlyMoves(c) /\ up' = up /\ dev' = dev
    BY <1>4, ViewMoves, OtherMoves DEF Viewing, Socket, Relay, Requesting
  <2>2. CASE at' = at
    BY <1>2, <2>1, <2>2
  <2>3. CASE at' # at
    <3>1. at[c] # "cancel" /\ at'[c] # "idle"
      BY <1>4, <2>3, ViewMoves, OtherMoves DEF ViewAt, Tunnelling, RelayAt, RequestAt
    <3> QED
      BY <1>1, <2>1, <3>1
  <2> QED
    BY <2>2, <2>3
<1>5. ASSUME NEW c \in Client, Recorder(c)
      PROVE  Recorders'
  <2>1. up' = up /\ dev' = dev /\ OnlyMoves(c)
    BY <1>5, OtherMoves
  <2>2. CASE Start(c)
    <3>1. at[c] = "start" /\ at'[c] = "over" /\ mine' = mine /\ dev[c] \in Dev
      BY <2>2 DEF Start, Return, Go, Places
    <3>2. CASE recording[dev[c]] # None
      BY <2>1, <2>2, <3>1, <3>2 DEF Start, Recorders, OnlyMoves
    <3>3. CASE recording[dev[c]] = None
      <4>1. /\ recording' = [recording EXCEPT ![dev[c]] = c]
            /\ live' \subseteq live \cup {c} /\ (c \in live' => c \in live \/ dev[c] \in up)
        BY <2>2, <3>3 DEF Start
      <4> QED
        BY <1>0, <2>1, <3>1, <3>3, <4>1 DEF Recorders, OnlyMoves, StreamAssumption
    <3> QED
      BY <3>2, <3>3
  <2>3. CASE Stop(c)
    <3>1. /\ at[c] = "stop" /\ live' = live /\ dev[c] \in Dev
          /\ recording' = [recording EXCEPT ![dev[c]] = None]
      BY <2>3 DEF Stop, Places
    <3>2. CASE recording[dev[c]] = None
      <4>1. mine' = mine /\ at'[c] = "over"
        BY <2>3, <3>2 DEF Stop, Return, Go, Places
      <4> QED
        BY <1>0, <2>1, <3>1, <3>2, <4>1 DEF Recorders, OnlyMoves, StreamAssumption
    <3>3. CASE recording[dev[c]] # None
      <4>1. mine' = [mine EXCEPT ![c] = recording[dev[c]]] /\ at'[c] = "cancel"
        BY <2>3, <3>3 DEF Stop, Only, Go, Places
      <4> QED
        BY <1>0, <2>1, <3>1, <3>3, <4>1 DEF Recorders, OnlyMoves, StreamAssumption
    <3> QED
      BY <3>2, <3>3
  <2>4. CASE StopCancel(c)
    <3>1. /\ at[c] = "cancel" /\ at'[c] = "pull" /\ live' = live \ {mine[c]}
          /\ UNCHANGED <<recording, mine>>
      BY <2>4 DEF StopCancel, Only, Go, Finish, Places
    <3> QED
      BY <2>1, <3>1 DEF Recorders, OnlyMoves
  <2>5. CASE Pull(c) \/ Remove(c)
    <3>1. at[c] \in {"pull", "remove"} /\ at'[c] \in {"remove", "over"}
          /\ UNCHANGED <<recording, live, mine>>
      BY <2>5 DEF Pull, Remove, Only, Return, Go, Places
    <3> QED
      BY <2>1, <3>1 DEF Recorders, OnlyMoves
  <2> QED
    BY <1>5, <2>2, <2>3, <2>4, <2>5 DEF Recorder, Recording
<1>6. ASSUME NEW c \in Client, RelayRuns(c)
      PROVE  Recorders'
  BY <1>2, <1>6 DEF RelayRuns, stream
<1>7. ASSUME NEW c \in Client, TimeLimit(c)
      PROVE  Recorders'
  BY <1>7 DEF TimeLimit, Finish, stream, Recorders
<1>8. ASSUME NEW d \in Dev, Die(d)
      PROVE  Recorders'
  BY <1>8 DEF Die, NotOf, Recorders
<1>9. ASSUME NEW d \in Dev, Boots(d)
      PROVE  Recorders'
  <2>1. \A r \in live : dev[r] # d
    BY <1>9 DEF Boots, Recorders
  <2> QED
    BY <1>0, <1>9, <2>1 DEF Boots, Recorders
<1>10. ASSUME NEW d \in Dev, HandOver(d)
       PROVE  Recorders'
  BY <1>10 DEF HandOver, NotOf, stream, Recorders
<1>11. CASE UNCHANGED vars
  BY <1>2, <1>11 DEF vars, stream
<1> QED
  BY <1>3, <1>4, <1>5, <1>6, <1>7, <1>8, <1>9, <1>10, <1>11 DEF Next

-----------------------------------------------------------------------------
(* The input relay                                                         *)

\* Numbers that rise between two bounds.
Rising(q, low, high) ==
  /\ q \in Seq(Nat)
  /\ \A i \in DOMAIN q :
       /\ low < q[i] /\ q[i] < high
       /\ \A j \in DOMAIN q : i < j => q[i] < q[j]

\* What cmdCh holds stays in order when a newer message goes in ...
LEMMA RisingAppend ==
  ASSUME NEW q, NEW low \in Nat, NEW high \in Nat, Rising(q, low, high), low < high
  PROVE  Rising(Append(q, high), low, high + 1)
<1>1. /\ q \in Seq(Nat) /\ Append(q, high) \in Seq(Nat)
      /\ DOMAIN Append(q, high) = 1 .. Len(q) + 1 /\ DOMAIN q = 1 .. Len(q) /\ Len(q) \in Nat
      /\ \A i \in 1 .. Len(q) : Append(q, high)[i] = q[i] /\ q[i] \in Nat
      /\ Append(q, high)[Len(q) + 1] = high
  BY DEF Rising
<1>2. \A i \in 1 .. Len(q) : /\ low < q[i] /\ q[i] < high
                            /\ \A j \in 1 .. Len(q) : i < j => q[i] < q[j]
  BY <1>1 DEF Rising
<1> HIDE DEF Rising
<1>3. ASSUME NEW i \in 1 .. Len(q) + 1
      PROVE  /\ low < Append(q, high)[i] /\ Append(q, high)[i] < high + 1
             /\ \A j \in 1 .. Len(q) + 1 : i < j => Append(q, high)[i] < Append(q, high)[j]
  <2>1. CASE i = Len(q) + 1
    BY <1>1, <2>1
  <2>2. CASE i \in 1 .. Len(q)
    <3>1. \A j \in 1 .. Len(q) + 1 : j = Len(q) + 1 \/ j \in 1 .. Len(q)
      BY <1>1
    <3> QED
      BY <1>1, <1>2, <2>2, <3>1
  <2> QED
    BY <1>1, <2>1, <2>2
<1> QED
  BY <1>1, <1>3 DEF Rising

\* ... and when the oldest goes, whether it is run or dropped.
LEMMA RisingTail ==
  ASSUME NEW q, NEW low \in Nat, NEW high \in Nat, Rising(q, low, high), q # <<>>
  PROVE  /\ Rising(Tail(q), Head(q), high) /\ Rising(Tail(q), low, high)
         /\ Head(q) \in Nat /\ low < Head(q) /\ Head(q) < high
         /\ Len(Tail(q)) < Len(q) /\ Len(Tail(q)) \in Nat /\ Len(q) \in Nat
<1>1. /\ q \in Seq(Nat) /\ Len(q) \in Nat \ {0} /\ DOMAIN q = 1 .. Len(q) /\ Head(q) = q[1]
      /\ Tail(q) \in Seq(Nat) /\ DOMAIN Tail(q) = 1 .. Len(q) - 1 /\ Len(Tail(q)) = Len(q) - 1
      /\ \A i \in 1 .. Len(q) - 1 : Tail(q)[i] = q[i + 1]
      /\ \A i \in 1 .. Len(q) : q[i] \in Nat
  BY DEF Rising
<1>2. \A i \in 1 .. Len(q) : /\ low < q[i] /\ q[i] < high
                            /\ \A j \in 1 .. Len(q) : i < j => q[i] < q[j]
  BY <1>1 DEF Rising
<1>3. ASSUME NEW i \in 1 .. Len(q) - 1
      PROVE  /\ q[1] < Tail(q)[i] /\ low < Tail(q)[i] /\ Tail(q)[i] < high
             /\ \A j \in 1 .. Len(q) - 1 : i < j => Tail(q)[i] < Tail(q)[j]
  <2>1. 1 \in 1 .. Len(q) /\ i + 1 \in 1 .. Len(q) /\ 1 < i + 1
    BY <1>1
  <2>2. q[1] < q[i + 1] /\ low < q[i + 1] /\ q[i + 1] < high
    BY <1>2, <2>1
  <2>3. ASSUME NEW j \in 1 .. Len(q) - 1, i < j
        PROVE  q[i + 1] < q[j + 1]
    <3>1. j + 1 \in 1 .. Len(q) /\ i + 1 < j + 1
      BY <1>1, <2>3
    <3> QED
      BY <1>2, <2>1, <3>1
  <2> QED
    BY <1>1, <2>2, <2>3
<1>4. Head(q) \in Nat /\ low < Head(q) /\ Head(q) < high
  BY <1>1, <1>2
<1>5. Rising(Tail(q), Head(q), high) /\ Rising(Tail(q), low, high)
  BY <1>1, <1>3 DEF Rising
<1> QED
  BY <1>1, <1>4, <1>5

\* The message that a relay runs, or ran last, and the one to be put next.
Latest(c) == IF running[c] # 0 THEN running[c] ELSE ran[c]
Due(c) == IF at[c] \in {"full", "put"} THEN arrived[c] ELSE arrived[c] + 1

\* cmdCh is never over its capacity and in order: newer than what was taken from
\* it, older than what has yet to go in.
Relays ==
  /\ arrived \in [Client -> Nat] /\ running \in [Client -> Nat] /\ ran \in [Client -> Nat]
  /\ \A c \in Client :
       /\ Rising(inbox[c], Latest(c), Due(c)) /\ Latest(c) < Due(c)
       /\ Len(inbox[c]) <= InputCap
       /\ running[c] # 0 => ran[c] < running[c]
  /\ inbox \in [Client -> Seq(Nat)]

\* "Keep only latest": what runs came after everything that was run, and what
\* waits, never more than the channel holds, after what runs.
InputInOrder ==
  \A c \in Client :
    /\ running[c] # 0 => ran[c] < running[c]
    /\ \A i \in DOMAIN inbox[c] : running[c] < inbox[c][i] /\ ran[c] < inbox[c][i]
    /\ Len(inbox[c]) <= InputCap

\* A step of either goroutine of a relay keeps that.
LEMMA RelayMoves ==
  ASSUME RemoteAssumption, Places, Relays, NEW c \in Client, Producer(c) \/ (Consumer(c) /\ at' = at)
  PROVE  /\ arrived'[c] \in Nat /\ running'[c] \in Nat /\ ran'[c] \in Nat
         /\ Rising(inbox'[c], Latest(c)', Due(c)') /\ Latest(c)' < Due(c)'
         /\ Len(inbox'[c]) <= InputCap /\ (running'[c] # 0 => ran'[c] < running'[c])
<1> DEFINE q == inbox[c]
<1>0. /\ arrived[c] \in Nat /\ running[c] \in Nat /\ ran[c] \in Nat /\ InputCap \in Nat \ {0}
      /\ Rising(q, Latest(c), Due(c)) /\ Latest(c) < Due(c) /\ Len(q) <= InputCap
      /\ running[c] # 0 => ran[c] < running[c]
      /\ Latest(c) \in Nat /\ Due(c) \in Nat /\ Len(q) \in Nat
      /\ ran[c] <= Latest(c)
  BY DEF Relays, Rising, RemoteAssumption, Latest, Due
<1>1. \A low, high : Rising(<<>>, low, high) /\ Len(<<>>) = 0
  BY DEF Rising
<1>2. CASE ReceiveInput(c)
  <2>1. /\ at[c] = "relay" /\ arrived'[c] = arrived[c] + 1 /\ UNCHANGED <<running, ran>>
        /\ \/ /\ Len(q) < InputCap /\ at'[c] = "relay" /\ inbox'[c] = Append(q, arrived[c] + 1)
           \/ at'[c] = "full" /\ inbox'[c] = q
    BY <1>2 DEF ReceiveInput, Only, Go, Places, Relays
  <2>2. Due(c) = arrived[c] + 1 /\ Latest(c)' = Latest(c)
    BY <2>1 DEF Due, Latest
  <2>3. CASE inbox'[c] = q /\ at'[c] = "full"
    <3>1. Due(c)' = Due(c)
      BY <2>1, <2>2, <2>3 DEF Due
    <3> QED
      BY <1>0, <2>1, <2>2, <2>3, <3>1
  <2>4. CASE Len(q) < InputCap /\ at'[c] = "relay" /\ inbox'[c] = Append(q, Due(c))
    <3>1. Due(c)' = Due(c) + 1
      BY <2>1, <2>2, <2>4 DEF Due
    <3>2. Rising(inbox'[c], Latest(c), Due(c) + 1)
      BY <1>0, <2>4, RisingAppend
    <3>3. Len(inbox'[c]) = Len(q) + 1
      BY <1>0, <2>4 DEF Rising
    <3> QED
      BY <1>0, <2>1, <2>2, <2>4, <3>1, <3>2, <3>3
  <2> QED
    BY <2>1, <2>2, <2>3, <2>4
<1>3. CASE DropOldest(c)
  <2>1. /\ at[c] = "full" /\ at'[c] = "put" /\ UNCHANGED <<arrived, running, ran>>
        /\ inbox'[c] = IF q = <<>> THEN q ELSE Tail(q)
    BY <1>3 DEF DropOldest, Only, Go, Places, Relays
  <2>2. Due(c)' = Due(c) /\ Latest(c)' = Latest(c)
    BY <2>1 DEF Due, Latest
  <2>3. CASE q = <<>>
    BY <1>0, <2>1, <2>2, <2>3
  <2>4. CASE q # <<>>
    <3>1. /\ Rising(Tail(q), Latest(c), Due(c))
          /\ Len(Tail(q)) < Len(q) /\ Len(Tail(q)) \in Nat
      BY <1>0, <2>4, RisingTail
    <3>2. inbox'[c] = Tail(q)
      BY <2>1, <2>4
    <3> QED
      BY <1>0, <2>1, <2>2, <3>1, <3>2
  <2> QED
    BY <2>3, <2>4
<1>4. CASE PutInput(c)
  <2>1. /\ at[c] = "put" /\ at'[c] = "relay" /\ UNCHANGED <<arrived, running, ran>>
        /\ inbox'[c] = IF Len(q) < InputCap THEN Append(q, arrived[c]) ELSE q
    BY <1>4 DEF PutInput, Only, Go, Places, Relays
  <2>2. Due(c) = arrived[c] /\ Due(c)' = Due(c) + 1 /\ Latest(c)' = Latest(c)
    BY <2>1 DEF Due, Latest
  <2>3. CASE Len(q) < InputCap
    <3>1. Rising(inbox'[c], Latest(c), Due(c) + 1)
      BY <1>0, <2>1, <2>2, <2>3, RisingAppend
    <3>2. Len(inbox'[c]) = Len(q) + 1
      BY <1>0, <2>1, <2>3 DEF Rising
    <3> QED
      BY <1>0, <2>1, <2>2, <2>3, <3>1, <3>2
  <2>4. CASE ~(Len(q) < InputCap)
    <3>1. Rising(q, Latest(c), Due(c) + 1)
      BY <1>0 DEF Rising
    <3> QED
      BY <1>0, <2>1, <2>2, <2>4, <3>1
  <2> QED
    BY <2>3, <2>4
<1>5. CASE CloseInput(c)
  <2>1. at[c] = "relay" /\ at'[c] = "over" /\ UNCHANGED <<arrived, inbox, running, ran>>
    BY <1>5 DEF CloseInput, Return, Go, Places, relay
  <2>2. Due(c)' = Due(c) /\ Latest(c)' = Latest(c)
    BY <2>1 DEF Due, Latest
  <2> QED
    BY <1>0, <2>1, <2>2
<1>6. CASE TakeInput(c) /\ at' = at
  <2>1. /\ running[c] = 0 /\ q # <<>> /\ running'[c] = Head(q) /\ inbox'[c] = Tail(q)
        /\ UNCHANGED <<arrived, ran>>
    BY <1>6 DEF TakeInput, Relays
  <2>2. Latest(c) = ran[c] /\ Due(c)' = Due(c)
    BY <1>6, <2>1 DEF Latest, Due
  <2>3. /\ Rising(Tail(q), Head(q), Due(c)) /\ Head(q) \in Nat /\ ran[c] < Head(q) /\ Head(q) < Due(c)
        /\ Len(Tail(q)) < Len(q) /\ Len(Tail(q)) \in Nat
    BY <1>0, <2>1, <2>2, RisingTail
  <2>4. Latest(c)' = Head(q)
    BY <1>0, <2>1, <2>3 DEF Latest
  <2> QED
    BY <1>0, <2>1, <2>2, <2>3, <2>4
<1>7. CASE RunInput(c) /\ at' = at
  <2>1. /\ running[c] # 0 /\ ran'[c] = running[c] /\ running'[c] = 0 /\ UNCHANGED <<arrived, inbox>>
    BY <1>7 DEF RunInput, Relays
  <2>2. Latest(c)' = Latest(c) /\ Due(c)' = Due(c)
    BY <1>7, <2>1 DEF Latest, Due
  <2> QED
    BY <1>0, <2>1, <2>2
<1>8. CASE QuitInput(c) /\ at' = at
  <2>1. inbox'[c] = <<>> /\ UNCHANGED <<arrived, running, ran>>
    BY <1>8 DEF QuitInput, Relays
  <2>2. Latest(c)' = Latest(c) /\ Due(c)' = Due(c)
    BY <1>8, <2>1 DEF Latest, Due
  <2> QED
    BY <1>0, <1>1, <2>1, <2>2
<1> QED
  BY <1>2, <1>3, <1>4, <1>5, <1>6, <1>7, <1>8 DEF Producer, Consumer

\* The other steps leave the relays alone.
LEMMA RelaysKept ==
  ASSUME RemoteAssumption, Places, Relays, [Next]_vars
  PROVE  Relays'
<1>1. ASSUME UNCHANGED <<arrived, inbox, running, ran>>,
             \A c \in Client : at'[c] = at[c] \/ ({at[c], at'[c]} \cap {"full", "put"} = {})
      PROVE  Relays'
  <2>1. ASSUME NEW c \in Client
        PROVE  Latest(c)' = Latest(c) /\ Due(c)' = Due(c)
    BY <1>1 DEF Latest, Due
  <2> QED
    BY <1>1, <2>1 DEF Relays
<1>2. ASSUME NEW c \in Client, NEW d \in up,
             \/ View(c, d) \/ StreamScreen(c, d) \/ StreamLogcat(c, d) \/ SendInput(c, d)
             \/ Ask(c, d) \/ AskRoute(c, d) \/ StartAsked(c, d) \/ StopAsked(c, d)
      PROVE  Relays'
  <2>1. at[c] = "idle" /\ OnlyMoves(c) /\ at'[c] \notin {"full", "put"}
    BY <1>2, Begins
  <2>2. UNCHANGED <<arrived, inbox, running, ran>>
    BY <1>2 DEF View, StreamScreen, StreamLogcat, SendInput, Ask, AskRoute, StartAsked, StopAsked,
                relay
  <2> QED
    BY <1>1, <2>1, <2>2 DEF OnlyMoves
<1>3. ASSUME NEW c \in Client, Viewing(c) \/ Socket(c) \/ Requesting(c) \/ Recorder(c)
      PROVE  Relays'
  <2>1. UNCHANGED <<arrived, inbox, running, ran>> /\ OnlyMoves(c)
    BY <1>3, ViewMoves, OtherMoves DEF Viewing, Socket, Requesting, Recorder, relay
  <2>2. at' = at \/ {at[c], at'[c]} \cap {"full", "put"} = {}
    BY <1>3, ViewMoves, OtherMoves DEF ViewAt, Tunnelling, RequestAt, RecorderAt
  <2> QED
    BY <1>1, <2>1, <2>2 DEF OnlyMoves
<1>4. ASSUME NEW c \in Client, Relay(c) \/ RelayRuns(c)
      PROVE  Relays'
  <2>1. Producer(c) \/ (Consumer(c) /\ at' = at)
    BY <1>4 DEF Relay, RelayRuns, stream
  <2>2. \A o \in Client : o # c => at'[o] = at[o]
    BY <1>4, <2>1, OtherMoves DEF OnlyMoves, RelayRuns, stream
  <2>3. /\ arrived' = [arrived EXCEPT ![c] = arrived'[c]] /\ running' = [running EXCEPT ![c] = running'[c]]
        /\ ran' = [ran EXCEPT ![c] = ran'[c]] /\ inbox' = [inbox EXCEPT ![c] = inbox'[c]]
    <3>1. CASE ReceiveInput(c)
      BY <3>1 DEF ReceiveInput, Relays
    <3>2. CASE DropOldest(c) \/ PutInput(c)
      BY <3>2 DEF DropOldest, PutInput, Relays
    <3>3. CASE CloseInput(c)
      BY <3>3 DEF CloseInput, relay, Relays
    <3>4. CASE TakeInput(c)
      BY <3>4 DEF TakeInput, Relays
    <3>5. CASE RunInput(c) \/ QuitInput(c)
      BY <3>5 DEF RunInput, QuitInput, Relays
    <3> QED
      BY <2>1, <3>1, <3>2, <3>3, <3>4, <3>5 DEF Producer, Consumer
  <2>4. /\ arrived'[c] \in Nat /\ running'[c] \in Nat /\ ran'[c] \in Nat
        /\ Rising(inbox'[c], Latest(c)', Due(c)') /\ Latest(c)' < Due(c)'
        /\ Len(inbox'[c]) <= InputCap /\ (running'[c] # 0 => ran'[c] < running'[c])
    BY <2>1, RelayMoves
  <2>5. /\ arrived' \in [Client -> Nat] /\ running' \in [Client -> Nat] /\ ran' \in [Client -> Nat]
        /\ inbox' \in [Client -> Seq(Nat)]
    BY <2>3, <2>4 DEF Relays, Rising
  <2>6. ASSUME NEW o \in Client, o # c
        PROVE  /\ inbox'[o] = inbox[o] /\ running'[o] = running[o] /\ ran'[o] = ran[o]
               /\ Latest(o)' = Latest(o) /\ Due(o)' = Due(o)
    BY <2>2, <2>3, <2>6 DEF Relays, Latest, Due
  <2> QED
    BY <2>4, <2>5, <2>6 DEF Relays
<1>5. ASSUME NEW c \in Client, TimeLimit(c)
      PROVE  Relays'
  BY <1>1, <1>5 DEF TimeLimit, stream, relay
<1>6. ASSUME NEW d \in Dev, Die(d) \/ Boots(d) \/ HandOver(d)
      PROVE  Relays'
  BY <1>1, <1>6 DEF Die, Boots, HandOver, stream, relay
<1>7. CASE UNCHANGED vars
  BY <1>1, <1>7 DEF vars, stream, relay
<1> QED
  BY <1>2, <1>3, <1>4, <1>5, <1>6, <1>7 DEF Next

-----------------------------------------------------------------------------
(* Theorems                                                                *)

\* What holds whatever the kernel and adb do with ports.
LEMMA RemoteInvariant ==
  ASSUME StreamAssumption, RemoteAssumption
  PROVE  Spec => [](Places /\ Temps /\ Recorders /\ Relays)
<1>1. Init => Places /\ Temps /\ Recorders /\ Relays
  <2> SUFFICES ASSUME Init
               PROVE  Places /\ Temps /\ Recorders /\ Relays
    OBVIOUS
  <2>1. Places
    BY DEF Init, StreamInit, Places
  <2>2. Temps
    BY DEF Init, Temps, Tidy
  <2>3. Recorders
    BY DEF Init, Recorders
  <2>4. Relays
    BY RemoteAssumption DEF Init, StreamInit, Nothing, Relays, Rising, Latest, Due, RemoteAssumption
  <2> QED
    BY <2>1, <2>2, <2>3, <2>4
<1>2. Places /\ Temps /\ Recorders /\ Relays /\ [Next]_vars => Places' /\ Temps' /\ Recorders' /\ Relays'
  BY PlacesKept, TempsKept, RecordersKept, RelaysKept
<1> QED
  BY <1>1, <1>2, PTL DEF Spec

\* What needs a forward to be in place only when its command says so.
LEMMA TunnelInvariant ==
  ASSUME StreamAssumption, "killed" \notin Ops
  PROVE  Spec => [](Places /\ Forwards)
<1>1. Init => Places /\ Forwards
  BY DEF Init, StreamInit, Places, Forwards, Tunnelling
<1>2. Places /\ Forwards /\ [Next]_vars => Places' /\ Forwards'
  BY PlacesKept, ForwardsKept
<1> QED
  BY <1>1, <1>2, PTL DEF Spec

\* Whatever ports viewers are given, the same one or not, a forward is of a stream
\* that will remove it unless adb refuses, and every temporary file of a request that
\* will: whichever commands of a handler fail, and at whichever its context is
\* cancelled, as long as no adb forward that was killed takes effect.
THEOREM NothingLeft ==
  ASSUME "killed" \notin Ops
  PROVE  Spec => []LeavesNothing
<1>1. Forwards /\ Temps => LeavesNothing
  <2> SUFFICES ASSUME Forwards, Temps
               PROVE  LeavesNothing
    OBVIOUS
  <2>1. ASSUME NEW file \in temp
        PROVE  at[file[1]] # "over"
    <3>1. PICK c \in Client, kept \in {"make", "defer"} : file = <<c, kept>>
      BY DEF Temps
    <3> QED
      BY <3>1 DEF Temps, RequestAt
  <2> QED
    BY <2>1 DEF Forwards, LeavesNothing
<1>2. Spec => [](Places /\ Forwards)
  BY TunnelInvariant, StreamAssumption
<1>3. Spec => [](Places /\ Temps /\ Recorders /\ Relays)
  BY RemoteInvariant, StreamAssumption, RemoteAssumption
<1> QED
  BY <1>1, <1>2, <1>3, PTL

\* However Start, Stop, the time limit and the deaths of devices interleave, a
\* recorder that runs is in the map, or taken from it by a Stop that cancels it.
THEOREM RecordersFound ==
  Spec => []NoOrphanRecorder
<1>1. Recorders => NoOrphanRecorder
  BY DEF Recorders, NoOrphanRecorder
<1>2. Spec => [](Places /\ Temps /\ Recorders /\ Relays)
  BY RemoteInvariant, StreamAssumption, RemoteAssumption
<1> QED
  BY <1>1, <1>2, PTL

\* However the reader of the web socket and the consumer of cmdCh interleave, the
\* full channel of three selects included, input is run in the order in which it
\* came.
THEOREM InputRunsInOrder ==
  Spec => InputInOrder
<1>1. Relays => InputInOrder
  <2> SUFFICES ASSUME Relays, NEW c \in Client
               PROVE  /\ running[c] # 0 => ran[c] < running[c]
                      /\ \A i \in DOMAIN inbox[c] : running[c] < inbox[c][i] /\ ran[c] < inbox[c][i]
                      /\ Len(inbox[c]) <= InputCap
    BY DEF InputInOrder
  <2>1. /\ Rising(inbox[c], Latest(c), Due(c)) /\ running[c] \in Nat /\ ran[c] \in Nat
        /\ running[c] # 0 => ran[c] < running[c]
    BY DEF Relays
  <2>2. running[c] <= Latest(c) /\ ran[c] <= Latest(c) /\ Latest(c) \in Nat
    BY <2>1 DEF Latest
  <2>3. ASSUME NEW i \in DOMAIN inbox[c]
        PROVE  running[c] < inbox[c][i] /\ ran[c] < inbox[c][i]
    <3>1. Latest(c) < inbox[c][i] /\ inbox[c][i] \in Nat
      BY <2>1 DEF Rising
    <3> QED
      BY <2>1, <2>2, <3>1
  <2> QED
    BY <2>1, <2>3 DEF Relays
<1>2. Spec => [](Places /\ Temps /\ Recorders /\ Relays)
  BY RemoteInvariant, StreamAssumption, RemoteAssumption
<1> QED
  BY <1>1, <1>2, PTL
=============================================================================
