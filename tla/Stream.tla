------------------------------- MODULE Stream -------------------------------
(***************************************************************************)
(* The live view of a device over WebRTC (internal/api/handlers_webrtc.go):*)
(* the peer connection, the goroutine streamH264 with scrcpy and its       *)
(* fallback screenrecord, the adb forwards they share, and the small       *)
(* channel of H.264 units between the reader and the sender.               *)
(*                                                                         *)
(* at and dev are the program counters and the devices of all requests of  *)
(* clients; Remote adds the other kinds of request to them.                *)
(***************************************************************************)
EXTENDS Naturals, Sequences

CONSTANTS
  Client,  \* requests of clients, a goroutine or two each
  Dev,     \* devices, by serial
  Port,    \* host ports the kernel gives out
  NalCap,  \* slots of nalCh, 2 in the code
  Ops,     \* "killed": a forward whose command is killed may be in place
  None

ASSUME StreamAssumption == NalCap \in Nat \ {0} /\ None \notin Client \cup Dev \cup Port

VARIABLES
  up,        \* devices that answer
  at,        \* where each request is
  dev,       \* the device its id was resolved to, once
  cancelled, \* requests whose context is cancelled
  peer,      \* state of the peer connection
  ready,     \* those with a signal in connectedCh
  port,      \* the port of each attempt with scrcpy
  forward,   \* adb forwards: the device behind each port
  shown,     \* the device whose screen a stream reads
  stuck,     \* history: ports whose forward adb refused to remove
  nals,      \* units in nalCh
  known      \* streams that have the parameter sets

connection == <<peer, ready>>
tunnel == <<port, forward, shown, stuck>>
frames == <<nals, known>>
stream == <<up, at, dev, cancelled, connection, tunnel, frames>>

StreamInit ==
  /\ up = Dev
  /\ at = [c \in Client |-> "idle"] /\ dev = [c \in Client |-> None] /\ cancelled = {}
  /\ peer = [c \in Client |-> "none"] /\ ready = {}
  /\ port = [c \in Client |-> None] /\ shown = port
  /\ forward = [p \in Port |-> None] /\ stuck = {}
  /\ nals = [c \in Client |-> <<>>] /\ known = {}

Go(c, pc) == at' = [at EXCEPT ![c] = pc]

\* Steps that change nothing but the program counter.
Only(c, pc) == Go(c, pc) /\ UNCHANGED <<up, dev, cancelled, connection, tunnel, frames>>

-----------------------------------------------------------------------------
(* The peer connection                                                     *)

\* Offer resolves the id, answers, and leaves streamH264 behind.
Offer(c, d) ==
  /\ at[c] = "idle"
  /\ Go(c, "wait")
  /\ dev' = [dev EXCEPT ![c] = d]
  /\ peer' = [peer EXCEPT ![c] = "new"]
  /\ UNCHANGED <<up, cancelled, ready, tunnel, frames>>

\* PeerConnectionStateConnected; a state of Disconnected is only logged.
Connected(c) ==
  /\ peer[c] = "new"
  /\ peer' = [peer EXCEPT ![c] = "connected"]
  /\ ready' = ready \cup {c}
  /\ UNCHANGED <<up, at, dev, cancelled, tunnel, frames>>

\* Failed or Closed: the context is cancelled.
Closed(c) ==
  /\ peer[c] \in {"new", "connected"}
  /\ peer' = [peer EXCEPT ![c] = "closed"]
  /\ cancelled' = cancelled \cup {c}
  /\ UNCHANGED <<up, at, dev, ready, tunnel, frames>>

-----------------------------------------------------------------------------
(* streamH264                                                              *)

\* The deferred cancel.
Return(c) ==
  /\ Go(c, "over")
  /\ cancelled' = cancelled \cup {c}
  /\ UNCHANGED <<up, dev, connection, tunnel, frames>>

StreamReady(c) == at[c] = "wait" /\ c \in ready /\ Only(c, "loop")
StreamGivesUp(c) == at[c] = "wait" /\ c \in cancelled /\ Return(c)

\* 30 s without a connection: the goroutine ends, the peer connection does not.
StreamTimesOut(c) == at[c] = "wait" /\ Return(c)

Loop(c) ==
  /\ at[c] = "loop"
  /\ IF c \in cancelled THEN Return(c) ELSE Only(c, "push")

\* A command with the stream's context can only succeed while that lives.
Works(c) == dev[c] \in up /\ c \notin cancelled

\* scrcpy-server is found and pushed, or not.
Pushed(c) == at[c] = "push" /\ Works(c) /\ Only(c, "port")
PushFails(c) == at[c] = "push" /\ Only(c, "check")

\* getFreePort listens on port 0 and closes it again: a port that nobody listens
\* on, though another stream may be about to.
FreePort(c, p) ==
  /\ at[c] = "port" /\ forward[p] = None
  /\ Go(c, "forward")
  /\ port' = [port EXCEPT ![c] = p]
  /\ UNCHANGED <<up, dev, cancelled, connection, forward, shown, stuck, frames>>

NoPort(c) == at[c] = "port" /\ Only(c, "check")

\* adb forward rebinds a port that is in use.
Forwarded(c) ==
  /\ at[c] = "forward" /\ Works(c)
  /\ Go(c, "dial")
  /\ forward' = [forward EXCEPT ![port[c]] = dev[c]]
  /\ stuck' = stuck \ {port[c]}
  /\ UNCHANGED <<up, dev, cancelled, connection, port, shown, frames>>

ForwardFails(c) ==
  /\ at[c] = "forward"
  /\ Go(c, "check") /\ port' = [port EXCEPT ![c] = None]
  /\ \E done \in (IF "killed" \in Ops /\ dev[c] \in up THEN BOOLEAN ELSE {FALSE}) :
       forward' = IF done THEN [forward EXCEPT ![port[c]] = dev[c]] ELSE forward
  /\ UNCHANGED <<up, dev, cancelled, connection, shown, stuck, frames>>

\* The server runs for 2 s; adb accepts on the port whatever became of it.
Dialled(c) ==
  /\ at[c] = "dial" /\ forward[port[c]] # None
  /\ Go(c, "read")
  /\ shown' = [shown EXCEPT ![c] = forward[port[c]]]
  /\ UNCHANGED <<up, dev, cancelled, connection, port, forward, stuck, frames>>

\* The server does not start, or nothing listens.
DialFails(c) == at[c] = "dial" /\ Only(c, "failed")

\* readAndSendNALs returns, and its channel and parameter sets are gone.
NoFrames(c) ==
  /\ nals' = [nals EXCEPT ![c] = <<>>]
  /\ known' = known \ {c}

\* End of file, a write error, or the context.
ReadEnds(c) ==
  /\ at[c] = "read"
  /\ Go(c, "worked")
  /\ NoFrames(c)
  /\ UNCHANGED <<up, dev, cancelled, connection, tunnel>>

\* The deferred calls: the connection, the server, the forward; of the last nobody
\* sees the error.
Undo(c) ==
  /\ at[c] \in {"worked", "failed"}
  /\ Go(c, IF at[c] = "worked" THEN "loop" ELSE "check")
  /\ \/ /\ forward' = [forward EXCEPT ![port[c]] = None]
        /\ stuck' = stuck \ {port[c]}
     \/ /\ forward[port[c]] # None
        /\ stuck' = stuck \cup {port[c]}
        /\ UNCHANGED forward
  /\ shown' = [shown EXCEPT ![c] = None]
  /\ port' = [port EXCEPT ![c] = None]
  /\ UNCHANGED <<up, dev, cancelled, connection, frames>>

\* Mutant of Check: only the device is asked.
CheckDevice(c) ==
  /\ at[c] = "check" /\ Works(c)
  /\ Go(c, "pipe")
  /\ UNCHANGED <<up, dev, cancelled, connection, tunnel, frames>>

\* streamViaScreenrecord, until the context ends; a device that does not answer
\* is asked again.
Check(c) ==
  /\ at[c] = "check"
  /\ IF c \in cancelled
       THEN Return(c)
       ELSE /\ Works(c)
            /\ Go(c, "pipe")
            /\ UNCHANGED <<up, dev, cancelled, connection, tunnel, frames>>

\* 120 s, or as ReadEnds; the process is killed.
PipeEnds(c) ==
  /\ at[c] = "pipe"
  /\ IF c \in cancelled THEN Go(c, "over") ELSE Go(c, "check")
  /\ NoFrames(c)
  /\ UNCHANGED <<up, dev, cancelled, connection, tunnel>>

StreamStep(c) ==
  \/ StreamReady(c) \/ StreamGivesUp(c) \/ Loop(c)
  \/ Pushed(c) \/ PushFails(c)
  \/ (\E p \in Port : FreePort(c, p)) \/ NoPort(c)
  \/ Forwarded(c) \/ ForwardFails(c) \/ Dialled(c) \/ DialFails(c)
  \/ ReadEnds(c) \/ Undo(c) \/ Check(c) \/ PipeEnds(c)

-----------------------------------------------------------------------------
(* readAndSendNALs                                                         *)

Reading(c) == at[c] \in {"read", "pipe"}

\* The producer: "config" stands for SPS and PPS, "key" for frames.  A unit is
\* dropped when nalCh is full, which leaves no trace.
Unit(c, kind) ==
  /\ Reading(c) /\ dev[c] \in up
  /\ Len(nals[c]) < NalCap
  /\ nals' = [nals EXCEPT ![c] = Append(@, kind)]
  /\ UNCHANGED <<up, at, dev, cancelled, connection, tunnel, known>>

\* The sender.
Send(c) ==
  /\ Reading(c) /\ nals[c] # <<>>
  /\ nals' = [nals EXCEPT ![c] = Tail(@)]
  /\ known' = IF Head(nals[c]) = "config" THEN known \cup {c} ELSE known
  /\ UNCHANGED <<up, at, dev, cancelled, connection, tunnel>>

-----------------------------------------------------------------------------
(* Properties                                                              *)

(* What comments of the code say, or a client expects, and the code does   *)
(* not do.                                                                 *)

\* A stream reads the screen of the device that the viewer asked for: but the
\* free port, its forward and the dialling are not one step, and two streams may
\* be given one port.
OwnScreen == \A c \in Client : at[c] = "read" => shown[c] = dev[c]

\* "IDR -- always send with SPS+PPS".
IDRWithConfig ==
  \A c \in Client : Reading(c) /\ nals[c] # <<>> /\ Head(nals[c]) = "key" => c \in known

\* "scrcpy worked but stream ended -- restart", otherwise "scrcpy failed to start
\* -- fall back to screenrecord": a server that never sent its
\* parameter sets did not work.
FallsBack == [][\A c \in Client : at[c] = "read" /\ at'[c] = "worked" => c \in known]_stream

\* "webrtc: connection timeout": no viewer is connected to a stream that is over.
ConnectedHasStream == \A c \in Client : peer[c] = "connected" => at[c] # "over"
=============================================================================
