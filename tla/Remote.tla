------------------------------- MODULE Remote -------------------------------
(***************************************************************************)
(* Everything clients do to a device beside Appium: the live view of       *)
(* Stream, the input relay and the polling web sockets of                  *)
(* handlers_screen.go, the recorder of handlers_recording.go, and the      *)
(* commands of Commands; with devices that go and come back and are handed *)
(* from session to session while all that goes on.                         *)
(*                                                                         *)
(* Every handler resolves its id to a serial once, at its start.           *)
(***************************************************************************)
EXTENDS Stream, Commands, FiniteSets

CONSTANTS
  Mix,      \* what clients do together: for each a kind of request and a device
  InputCap, \* slots of cmdCh, 4 in the code
  MaxInput  \* bound on the messages of a client

Kind == {"view", "input", "watch", "start", "stop", "command", "none"}

ASSUME RemoteAssumption ==
  InputCap \in Nat \ {0} /\ MaxInput \in Nat /\ Mix \subseteq [Client -> Kind \X Dev]

VARIABLES
  does,      \* the kind of request of each client, and the device
  entitled,  \* clients whose session still has the device, if Ops has "sessions"
  todo,      \* commands a request has yet to send
  by,        \* the client that last wrote each setting of each device
  temp,      \* temporary files on the host, with how they go
  serving,   \* relays whose consumer goroutine lives
  arrived,   \* messages received from each client
  inbox,     \* cmdCh, by the number of the message
  running,   \* the message whose command runs, or 0
  ran,       \* the last message whose command was run
  recording, \* recordings: the client that started the one of each device
  live,      \* recorders: screenrecord commands that run
  mine,      \* the recording that a Stop took from the map
  clips      \* where finished clips are

request == <<todo, by, temp>>
relay == <<serving, arrived, inbox, running, ran>>
recorder == <<recording, live, mine, clips>>
vars == <<stream, does, entitled, request, relay, recorder>>

Nothing == [c \in Client |-> 0]

Init ==
  /\ StreamInit
  /\ does \in Mix /\ entitled = {}
  /\ todo = [c \in Client |-> <<>>] /\ temp = {}
  /\ by = [d \in Dev |-> [k \in Setting |-> None]]
  /\ serving = {} /\ inbox = [c \in Client |-> <<>>]
  /\ arrived = Nothing /\ running = Nothing /\ ran = Nothing
  /\ recording = [d \in Dev |-> None] /\ live = {} /\ mine = [c \in Client |-> None]
  /\ clips = [device |-> {}, host |-> {}]

\* The id is resolved; the session has the device, for now.
Resolve(c, d, kind, pc) ==
  /\ at[c] = "idle" /\ does[c] = <<kind, d>>
  /\ Go(c, pc)
  /\ dev' = [dev EXCEPT ![c] = d]
  /\ entitled' = IF "sessions" \in Ops THEN entitled \cup {c} ELSE entitled
  /\ UNCHANGED <<up, cancelled, connection, tunnel, frames, does>>

View(c, d) ==
  /\ does[c] = <<"view", d>>
  /\ Offer(c, d)
  /\ entitled' = IF "sessions" \in Ops THEN entitled \cup {c} ELSE entitled
  /\ UNCHANGED <<does, request, relay, recorder>>

-----------------------------------------------------------------------------
(* Web sockets                                                             *)

\* The screen as PNGs, or the log, polled until the client has gone.
StreamScreen(c, d) == Resolve(c, d, "watch", "watch") /\ UNCHANGED <<request, relay, recorder>>
StreamLogcat(c, d) == StreamScreen(c, d)

\* A write fails, or the context is cancelled.
WatchEnds(c) == at[c] = "watch" /\ Return(c)

\* The client goes: the read of the web socket fails, or net/http cancels the
\* context of its request.
Gone(c) ==
  /\ at[c] \in {"watch", "command", "route"} /\ c \notin cancelled
  /\ cancelled' = cancelled \cup {c}
  /\ UNCHANGED <<up, at, dev, connection, tunnel, frames>>

SendInput(c, d) ==
  /\ Resolve(c, d, "input", "relay")
  /\ serving' = serving \cup {c}
  /\ UNCHANGED <<request, arrived, inbox, running, ran, recorder>>

\* Mutant of ReceiveInput: a full channel drops the newest command.
ReceiveOrDrop(c) ==
  /\ at[c] = "relay" /\ arrived[c] < MaxInput
  /\ arrived' = [arrived EXCEPT ![c] = @ + 1]
  /\ inbox' = [inbox EXCEPT ![c] = IF Len(@) < InputCap THEN Append(@, arrived'[c]) ELSE @]
  /\ Only(c, "relay")
  /\ UNCHANGED <<serving, running, ran>>

\* The first select: the command goes in, or the channel is full.
ReceiveInput(c) ==
  /\ at[c] = "relay" /\ arrived[c] < MaxInput
  /\ arrived' = [arrived EXCEPT ![c] = @ + 1]
  /\ IF Len(inbox[c]) < InputCap
       THEN Only(c, "relay") /\ inbox' = [inbox EXCEPT ![c] = Append(@, arrived'[c])]
       ELSE Only(c, "full") /\ UNCHANGED inbox
  /\ UNCHANGED <<serving, running, ran>>

\* The second select, which may find the channel empty by now.
DropOldest(c) ==
  /\ at[c] = "full"
  /\ Only(c, "put")
  /\ inbox' = [inbox EXCEPT ![c] = IF @ = <<>> THEN @ ELSE Tail(@)]
  /\ UNCHANGED <<serving, arrived, running, ran>>

\* The third.
PutInput(c) ==
  /\ at[c] = "put"
  /\ Only(c, "relay")
  /\ inbox' = [inbox EXCEPT ![c] = IF Len(@) < InputCap THEN Append(@, arrived[c]) ELSE @]
  /\ UNCHANGED <<serving, arrived, running, ran>>

\* The read fails: the client has gone.
CloseInput(c) == at[c] = "relay" /\ Return(c) /\ UNCHANGED relay

Producer(c) == ReceiveInput(c) \/ DropOldest(c) \/ PutInput(c) \/ CloseInput(c)

\* The consumer; a cancelled context is one of two ready cases.
TakeInput(c) ==
  /\ c \in serving /\ running[c] = 0 /\ inbox[c] # <<>>
  /\ running' = [running EXCEPT ![c] = Head(inbox[c])]
  /\ inbox' = [inbox EXCEPT ![c] = Tail(@)]
  /\ UNCHANGED <<serving, arrived, ran>>

\* The command is done, fails or is killed.
RunInput(c) ==
  /\ c \in serving /\ running[c] # 0
  /\ ran' = [ran EXCEPT ![c] = running[c]]
  /\ running' = [running EXCEPT ![c] = 0]
  /\ UNCHANGED <<serving, arrived, inbox>>

QuitInput(c) ==
  /\ c \in serving /\ running[c] = 0 /\ c \in cancelled
  /\ serving' = serving \ {c}
  /\ inbox' = [inbox EXCEPT ![c] = <<>>]
  /\ UNCHANGED <<arrived, running, ran>>

Consumer(c) == TakeInput(c) \/ RunInput(c) \/ QuitInput(c)

-----------------------------------------------------------------------------
(* Commands                                                                *)

Ask(c, d) ==
  /\ \E script \in Script : todo' = [todo EXCEPT ![c] = script]
  /\ Resolve(c, d, "command", "command")
  /\ UNCHANGED <<by, temp, relay, recorder>>

AskRoute(c, d) ==
  /\ \E script \in GPSRoute : todo' = [todo EXCEPT ![c] = script]
  /\ Resolve(c, d, "command", "route")
  /\ UNCHANGED <<by, temp, relay, recorder>>

\* What remains to be sent.
Rest(c, next) == IF next = "next" THEN Tail(todo[c]) ELSE <<>>

Written(c, key) ==
  [by EXCEPT ![dev[c]] = [k \in Setting |-> IF k = key \/ key = "all" THEN c ELSE @[k]]]

\* Mutant of TempAfter: the file goes only if the command succeeds.
TempAfterSuccess(c, ok) ==
  LET kept == Head(todo[c]).temp
  IN IF kept \in {"make", "defer"} /\ ok THEN temp \cup {<<c, kept>>}
     ELSE IF kept = "drop" /\ ok THEN temp \ {<<c, "make">>} ELSE temp

TempAfter(c, ok) ==
  LET kept == Head(todo[c]).temp
  IN IF kept \in {"make", "defer"} /\ ok THEN temp \cup {<<c, kept>>}
     ELSE IF kept = "drop" THEN temp \ {<<c, "make">>} ELSE temp

Sending(c) == at[c] \in {"command", "route"} /\ todo[c] # <<>>

\* A command succeeds.  Copying the form is done by the host.
CommandDone(c) ==
  /\ Sending(c)
  /\ Works(c) \/ Head(todo[c]).temp \in {"make", "defer"}
  /\ todo' = [todo EXCEPT ![c] = Rest(c, Head(todo[c]).ok)]
  /\ by' = Written(c, Head(todo[c]).sets)
  /\ temp' = TempAfter(c, TRUE)
  /\ Only(c, at[c])

\* It fails, or is killed with the context when the device has done it or not.
CommandFails(c) ==
  /\ Sending(c)
  /\ todo' = [todo EXCEPT ![c] = Rest(c, Head(todo[c]).bad)]
  /\ by' = by \/ (dev[c] \in up /\ by' = Written(c, Head(todo[c]).sets))
  /\ temp' = TempAfter(c, FALSE)
  /\ Only(c, at[c])

\* The handler of GPSRoute returns, which cancels the context of the goroutine.
Started(c) ==
  /\ at[c] = "route" /\ c \notin cancelled
  /\ cancelled' = cancelled \cup {c}
  /\ UNCHANGED <<up, at, dev, connection, tunnel, frames, request>>

\* The last answer, and the deferred removal.
Answer(c) ==
  /\ at[c] \in {"command", "route"} /\ todo[c] = <<>>
  /\ temp' = temp \ {<<c, "defer">>}
  /\ Return(c)
  /\ UNCHANGED <<todo, by>>

Commanding(c) == CommandDone(c) \/ CommandFails(c) \/ Started(c) \/ Answer(c)

-----------------------------------------------------------------------------
(* The recorder; its map is changed with h.mu held.                        *)

StartAsked(c, d) == Resolve(c, d, "start", "start") /\ UNCHANGED <<request, relay, recorder>>
StopAsked(c, d) == Resolve(c, d, "stop", "stop") /\ UNCHANGED <<request, relay, recorder>>

\* Mutant of Start: an entry of the map is overwritten.
StartAgain(c) ==
  /\ at[c] = "start"
  /\ Return(c)
  /\ recording' = [recording EXCEPT ![dev[c]] = c]
  /\ live' = live \cup {c}
  /\ UNCHANGED <<mine, clips>>

Start(c) ==
  /\ at[c] = "start"
  /\ Return(c)
  /\ IF recording[dev[c]] # None
       THEN UNCHANGED <<recording, live>>
       ELSE /\ recording' = [recording EXCEPT ![dev[c]] = c]
            /\ live' = IF dev[c] \in up THEN live \cup {c} ELSE live
  /\ UNCHANGED <<mine, clips>>

\* The entry goes before the command is cancelled.
Stop(c) ==
  /\ at[c] = "stop"
  /\ IF recording[dev[c]] = None
       THEN Return(c) /\ UNCHANGED mine
       ELSE Only(c, "cancel") /\ mine' = [mine EXCEPT ![c] = recording[dev[c]]]
  /\ recording' = [recording EXCEPT ![dev[c]] = None]
  /\ UNCHANGED <<live, clips>>

\* A recorder that ends leaves its clip on the device.
Finish(r) ==
  /\ live' = live \ {r}
  /\ clips' = IF r \in live THEN [clips EXCEPT !.device = @ \cup {r}] ELSE clips

StopCancel(c) ==
  /\ at[c] = "cancel"
  /\ Only(c, "pull")
  /\ Finish(mine[c])
  /\ UNCHANGED <<recording, mine>>

\* The pull may fail, and nobody asks.
Pull(c) ==
  /\ at[c] = "pull"
  /\ Only(c, "remove")
  /\ \/ UNCHANGED clips
     \/ /\ dev[c] \in up /\ mine[c] \in clips.device
        /\ clips' = [clips EXCEPT !.host = @ \cup {mine[c]}]
  /\ UNCHANGED <<recording, live, mine>>

\* So may the removal.
Remove(c) ==
  /\ at[c] = "remove"
  /\ Return(c)
  /\ \/ UNCHANGED clips
     \/ dev[c] \in up /\ clips' = [clips EXCEPT !.device = @ \ {mine[c]}]
  /\ UNCHANGED <<recording, live, mine>>

Recording(c) == Start(c) \/ Stop(c) \/ StopCancel(c) \/ Pull(c) \/ Remove(c)

\* --time-limit 180: the entry of the map stays.
TimeLimit(r) ==
  /\ r \in live
  /\ Finish(r)
  /\ UNCHANGED <<stream, does, entitled, request, relay, recording, mine>>

-----------------------------------------------------------------------------
(* Devices                                                                 *)

NotOf(d, clients) == {c \in clients : dev[c] # d}

Cleaned(d) == [by EXCEPT ![d] = [k \in Setting |-> None]]

\* Shutdown, or an emulator that dies: adb drops the forwards of a device that is
\* gone, and the commands it runs end.
Die(d) ==
  /\ d \in up
  /\ up' = up \ {d}
  /\ forward' = [p \in Port |-> IF forward[p] = d THEN None ELSE forward[p]]
  /\ stuck' = {p \in stuck : forward[p] # d}
  /\ live' = NotOf(d, live)
  /\ UNCHANGED <<at, dev, cancelled, connection, port, shown, frames, does, entitled,
                 request, relay, recording, mine, clips>>

\* Another emulator gets the serial: another instance, of the same AVD or not.  It
\* does not boot while a Start or Stop waits for h.mu.
Boots(d) ==
  /\ d \notin up
  /\ \A c \in Client : at[c] \in {"start", "stop"} => dev[c] # d
  /\ up' = up \cup {d}
  /\ entitled' = NotOf(d, entitled)
  /\ recording' = [recording EXCEPT ![d] = None]
  /\ by' \in {by, Cleaned(d)}
  /\ UNCHANGED <<at, dev, cancelled, connection, tunnel, frames, does,
                 todo, temp, relay, live, mine, clips>>

\* Release with the reset of the device, and the next session.  Reset answers nil
\* whether the snapshot was loaded or not.
HandOver(d) ==
  /\ d \in up
  /\ entitled' = NotOf(d, entitled)
  /\ \/ UNCHANGED <<by, live>>
     \/ by' = Cleaned(d) /\ live' = NotOf(d, live)
  /\ UNCHANGED <<stream, does, todo, temp, relay, recording, mine, clips>>

-----------------------------------------------------------------------------

Viewing(c) ==
  /\ \/ Connected(c) \/ Closed(c)
     \/ StreamTimesOut(c) \/ StreamStep(c)
     \/ (\E kind \in {"config", "key"} : Unit(c, kind)) \/ Send(c)
  /\ UNCHANGED <<does, entitled, request, relay, recorder>>

Socket(c) ==
  /\ WatchEnds(c) \/ Gone(c)
  /\ UNCHANGED <<does, entitled, request, relay, recorder>>

Relay(c) == Producer(c) /\ UNCHANGED <<does, entitled, request, recorder>>

RelayRuns(c) == Consumer(c) /\ UNCHANGED <<stream, does, entitled, request, recorder>>

Requesting(c) == Commanding(c) /\ UNCHANGED <<does, entitled, relay, recorder>>

Recorder(c) == Recording(c) /\ UNCHANGED <<does, entitled, request, relay>>

Next ==
  \/ \E c \in Client, d \in up :
       \/ View(c, d) \/ StreamScreen(c, d) \/ StreamLogcat(c, d) \/ SendInput(c, d)
       \/ Ask(c, d) \/ AskRoute(c, d) \/ StartAsked(c, d) \/ StopAsked(c, d)
  \/ \E c \in Client :
       \/ Viewing(c) \/ Socket(c) \/ Relay(c) \/ RelayRuns(c)
       \/ Requesting(c) \/ Recorder(c) \/ TimeLimit(c)
  \/ \E d \in Dev : Die(d) \/ Boots(d) \/ HandOver(d)

Spec == Init /\ [][Next]_vars

\* Commands end: those with a cancelled context are killed, and adb answers the
\* others.  The goroutines of a relay run.
Hurry(c) ==
  \/ /\ c \in cancelled /\ (StreamStep(c) \/ WatchEnds(c))
     /\ UNCHANGED <<does, entitled, request, relay, recorder>>
  \/ (DropOldest(c) \/ PutInput(c)) /\ UNCHANGED <<does, entitled, request, recorder>>
  \/ Requesting(c) \/ Recorder(c)

Fairness == \A c \in Client : WF_vars(Hurry(c)) /\ WF_vars(RelayRuns(c))

FairSpec == Spec /\ Fairness

-----------------------------------------------------------------------------
(* Properties                                                              *)

\* When a viewer, a relay or a request is over, nothing of it is left on the host:
\* every forward is the one of a stream that has yet to remove it, or one that adb
\* refused to remove; every temporary file is of a request that runs (the early
\* returns of InstallAPK and CameraInject).
LeavesNothing ==
  /\ \A p \in Port \ stuck :
       forward[p] # None => \E c \in Client : port[c] = p /\ at[c] # "forward"
  /\ \A file \in temp : at[file[1]] # "over"

\* A screenrecord command that runs is one that a Stop can find, or about to be
\* cancelled by the Stop that took it from the map.
NoOrphanRecorder ==
  \A r \in live :
    \/ recording[dev[r]] = r
    \/ \E c \in Client : at[c] = "cancel" /\ mine[c] = r

\* Handlers end: requests whatever fails, streams and sockets once their client is
\* gone, with the goroutine that consumes the input.
HandlersEnd ==
  \A c \in Client :
    (c \in cancelled \/ at[c] \in {"command", "route", "start", "stop"})
      ~> (at[c] = "over" /\ c \notin serving)

\* "drop oldest if full": the newest input is never the one that is dropped; every
\* message is run or overtaken by one that is, while the relay lives.
NewestInputRuns ==
  \A c \in Client : \A n \in 1..MaxInput :
    (arrived[c] >= n) ~> (ran[c] >= n \/ c \in cancelled)

(* What comments and answers of the code say and the code does not do.     *)

\* A session has its device for itself: who sees or drives a device is of the
\* session that has it.
OnlyHolderActs ==
  \A c \in Client : Reading(c) \/ running[c] # 0 => c \in entitled

\* "triggers snapshot restore": no setting is left of a session that is over.
CleanForNext ==
  \A d \in Dev, k \in Setting : by[d][k] # None => by[d][k] \in entitled

\* "Run route in background".
RouteRuns == \A c \in Client : at[c] = "route" /\ todo[c] # <<>> => c \notin cancelled

\* "recording": a device with an entry is being recorded.
EntryRecords ==
  \A d \in Dev : recording[d] # None /\ d \in up => recording[d] \in live

\* "already recording": one recorder at a time.
OneRecorder == \A d \in Dev : Cardinality({r \in live : dev[r] = d}) <= 1

\* "stopped", with the name of the file: the clip is somewhere.
ClipKept ==
  \A c \in Client :
    at[c] = "over" /\ mine[c] # None => mine[c] \in clips.host \cup clips.device
=============================================================================
