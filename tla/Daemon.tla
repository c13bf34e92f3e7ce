------------------------------- MODULE Daemon -------------------------------
(***************************************************************************)
(* Starting, stopping and restarting the daemon (cmd/start.go, cmd/stop.go *)
(* and internal/daemon), with what outlives it: the pid file, the tables   *)
(* of SQLite (internal/store) and the emulators.                           *)
(*                                                                         *)
(* A process of the daemon runs once; launchd (KeepAlive) or a user may    *)
(* start the next at any time.  Processes and `drizz-farm stop` share      *)
(* nothing but files, signals and pkill.                                   *)
(***************************************************************************)
EXTENDS FiniteSets

CONSTANTS
  Proc,     \* daemon processes, by pid
  AVD, Sess,
  Ops,      \* "race": a daemon may be between its check of the pid file and its
            \* write when another one is started; "reuse": the pid of a dead
            \* daemon may be given to another program; "early": a session may
            \* end before its row is written; "together": reservations of a
            \* device may be changed by several requests at once
  None

ASSUME DaemonAssumption ==
  /\ None \notin Proc
  /\ Ops \subseteq {"race", "reuse", "early", "together"}

VARIABLES
  phase,    \* where runStart of each process is
  pidfile,  \* the process the pid file names
  port,     \* the process that listens on the API port
  term,     \* processes with a signal, or an error of the server, to handle
  reused,   \* dead processes whose pid another program has
  emus,     \* AVDs whose emulator runs
  tracked,  \* AVDs in each process's pool
  opened,   \* processes that could open the store
  reserved, \* AVDs in each process's pool with Reserved set
  rows,     \* AVDs in the table reservations
  asked,    \* requests to reserve or to unreserve: the flag is set, the row not
  kept,     \* history: AVDs in each pool since the reservations were restored to
            \* it, but for those of whose row a write failed
  sess,     \* sessions: "none", "live", "ending" when they are over and their row
            \* is not written, "over", or "lost" with their process
  owner,    \* the process of each session
  late,     \* sessions whose row "active" is still to be written
  row,      \* state of each session in the table sessions
  missed,   \* history: sessions whose row was to be written, or cleaned up, and was
            \* not, for want of a store or because of an error of it
  stop,     \* where runStop is
  target    \* the process it signalled

process == <<phase, pidfile, port, term, reused>>
pool == <<emus, tracked, opened>>
reservations == <<reserved, rows, asked, kept>>
sessions == <<sess, owner, late, row, missed>>
stopping == <<stop, target>>
vars == <<process, pool, reservations, sessions, stopping>>

Init ==
  /\ phase = [d \in Proc |-> "none"]
  /\ pidfile = None /\ port = None /\ term = {} /\ reused = {}
  /\ emus = {} /\ rows = {} /\ asked = {} /\ opened = {} /\ missed = {}
  /\ tracked = [d \in Proc |-> {}] /\ reserved = tracked /\ kept = tracked
  /\ sess = [s \in Sess |-> "none"] /\ row = sess
  /\ owner = [s \in Sess |-> None] /\ late = {}
  /\ stop = "idle" /\ target = None

Up(d) == phase[d] \in {"opening", "pool", "restore", "broker", "listen", "serving",
                       "stopping", "sweeping", "exiting"}

\* PIDFile.IsRunning: the file names a process that takes signal 0.
IsRunning == pidfile # None /\ (Up(pidfile) \/ pidfile \in reused)

\* The process is gone, with all it had in memory; its files stay, and its
\* emulators do.
Gone(d) ==
  /\ phase' = [phase EXCEPT ![d] = "gone"]
  /\ port' = IF port = d THEN None ELSE port
  /\ term' = term \ {d}
  /\ tracked' = [tracked EXCEPT ![d] = {}]
  /\ opened' = opened \ {d}
  /\ reserved' = [reserved EXCEPT ![d] = {}]
  /\ kept' = [kept EXCEPT ![d] = {}]
  /\ asked' = {q \in asked : q.proc # d}
  /\ sess' = [s \in Sess |->
       IF owner[s] = d /\ sess[s] \in {"live", "ending"} THEN "lost" ELSE sess[s]]
  /\ late' = {s \in late : owner[s] # d}

-----------------------------------------------------------------------------
(* runStart                                                                *)

\* Mutant of Check: a pid file is taken for the mark of a crash.
CheckNothing(d) ==
  /\ phase[d] = "none"
  /\ phase' = [phase EXCEPT ![d] = "checked"]
  /\ UNCHANGED <<pidfile, port, term, reused, pool, reservations, sessions, stopping>>

\* "drizz-farm is already running", or the pid file is about to be written.
Check(d) ==
  /\ phase[d] = "none"
  /\ "race" \in Ops \/ \A e \in Proc : phase[e] # "checked"
  /\ phase' = [phase EXCEPT ![d] = IF IsRunning THEN "gone" ELSE "checked"]
  /\ UNCHANGED <<pidfile, port, term, reused, pool, reservations, sessions, stopping>>

Write(d) ==
  /\ phase[d] = "checked"
  /\ phase' = [phase EXCEPT ![d] = "opening"]
  /\ pidfile' = d
  /\ UNCHANGED <<port, term, reused, pool, reservations, sessions, stopping>>

\* The SDK is not found: runStart returns, its defer removes the pid file.
StartFails(d) ==
  /\ phase[d] = "opening"
  /\ Gone(d)
  /\ pidfile' = None
  /\ UNCHANGED <<reused, emus, rows, owner, row, missed, stopping>>

\* Signals are handled from here on, and the store is open, or the daemon goes on
\* "without persistence".
Open(d) ==
  /\ phase[d] = "opening"
  /\ phase' = [phase EXCEPT ![d] = "pool"]
  /\ opened' \in {opened, opened \cup {d}}
  /\ UNCHANGED <<pidfile, port, term, reused, emus, tracked, reservations, sessions, stopping>>

\* pool.Start adopts the emulators that run and answer.
PoolStart(d) ==
  /\ phase[d] = "pool"
  /\ phase' = [phase EXCEPT ![d] = "restore"]
  /\ \E seen \in SUBSET emus : tracked' = [tracked EXCEPT ![d] = seen]
  /\ UNCHANGED <<pidfile, port, term, reused, emus, opened, reservations, sessions, stopping>>

\* Mutant of Restore: reservations are restored before pool.Start.
RestoreNothing(d) ==
  /\ phase[d] = "restore"
  /\ phase' = [phase EXCEPT ![d] = "broker"]
  /\ kept' = [kept EXCEPT ![d] = tracked[d]]
  /\ UNCHANGED <<pidfile, port, term, reused, pool, reserved, rows, asked, sessions, stopping>>

\* LoadReservations, ApplyReservations: to what is tracked at this moment.  Without
\* a store, or when it gives an error, nothing is reserved.
Restore(d) ==
  /\ phase[d] = "restore"
  /\ phase' = [phase EXCEPT ![d] = "broker"]
  /\ \E loaded \in {{}} \cup (IF d \in opened THEN {tracked[d]} ELSE {}) :
       /\ reserved' = [reserved EXCEPT ![d] = rows \cap loaded]
       /\ kept' = [kept EXCEPT ![d] = loaded]
  /\ UNCHANGED <<pidfile, port, term, reused, pool, rows, asked, sessions, stopping>>

\* Mutant of BrokerStart: CleanupZombieSessions only looks at queued sessions.
BrokerStartQueued(d) ==
  /\ phase[d] = "broker"
  /\ phase' = [phase EXCEPT ![d] = "listen"]
  /\ missed' = {}
  /\ UNCHANGED <<pidfile, port, term, reused, pool, reservations, sess, owner, late, row,
                 stopping>>

\* broker.Start: CleanupZombieSessions marks every active row "interrupted"; its
\* error is logged.
BrokerStart(d) ==
  /\ phase[d] = "broker"
  /\ phase' = [phase EXCEPT ![d] = "listen"]
  /\ \/ /\ d \in opened
        /\ row' = [s \in Sess |-> IF row[s] = "active" THEN "interrupted" ELSE row[s]]
        /\ missed' = {}
     \/ /\ missed' = missed \cup {s \in Sess : row[s] = "active"}
        /\ UNCHANGED row
  /\ UNCHANGED <<pidfile, port, term, reused, pool, reservations, sess, owner, late, stopping>>

\* server.Start; an address in use comes back as an error.
Listen(d) ==
  /\ phase[d] = "listen"
  /\ phase' = [phase EXCEPT ![d] = "serving"]
  /\ IF port = None THEN port' = d /\ UNCHANGED term
                    ELSE term' = term \cup {d} /\ UNCHANGED port
  /\ UNCHANGED <<pidfile, reused, pool, reservations, sessions, stopping>>

-----------------------------------------------------------------------------
(* The end of runStart                                                     *)

\* A signal or an error of the server: the API is shut down, the broker stopped.
\* Sessions stay as they are.
Shutdown(d) ==
  /\ phase[d] = "serving" /\ d \in term
  /\ phase' = [phase EXCEPT ![d] = "stopping"]
  /\ port' = IF port = d THEN None ELSE port
  /\ UNCHANGED <<pidfile, term, reused, pool, reservations, sessions, stopping>>

\* pool.Stop destroys what is tracked, if it comes back at all; an emulator that
\* cannot be killed is logged.
PoolStop(d) ==
  /\ phase[d] = "stopping"
  /\ phase' = [phase EXCEPT ![d] = "sweeping"]
  /\ \E killed \in SUBSET tracked[d] : emus' = emus \ killed
  /\ tracked' = [tracked EXCEPT ![d] = {}]
  /\ reserved' = [reserved EXCEPT ![d] = {}]
  /\ kept' = [kept EXCEPT ![d] = {}]
  /\ UNCHANGED <<pidfile, port, term, reused, opened, rows, asked, sessions, stopping>>

\* sweepDaemonOrphans kills every emulator of the user that it finds.
Sweep(d) ==
  /\ phase[d] = "sweeping"
  /\ phase' = [phase EXCEPT ![d] = "exiting"]
  /\ \E killed \in SUBSET emus : emus' = emus \ killed
  /\ UNCHANGED <<pidfile, port, term, reused, tracked, opened, reservations, sessions, stopping>>

\* The deferred Close, and Remove, which looks at no pid.
Exit(d) ==
  /\ phase[d] = "exiting"
  /\ Gone(d)
  /\ pidfile' = None
  /\ UNCHANGED <<reused, emus, rows, owner, row, missed, stopping>>

\* SIGKILL, a panic, a reboot; the pid is free again.
Crash(d) ==
  /\ Up(d)
  /\ Gone(d)
  /\ \E r \in {{}} \cup (IF "reuse" \in Ops THEN {{d}} ELSE {}) : reused' = reused \cup r
  /\ UNCHANGED <<pidfile, emus, rows, owner, row, missed, stopping>>

-----------------------------------------------------------------------------
(* While the daemon serves                                                 *)

\* A boot; one that was on its way may end when the daemon does.
Boot(d, a) ==
  /\ phase[d] \in {"serving", "stopping", "sweeping", "exiting"} /\ a \notin emus
  /\ emus' = emus \cup {a}
  /\ tracked' = [tracked EXCEPT ![d] = @ \cup {a}]
  /\ reserved' = [reserved EXCEPT ![d] = @ \ {a}]
  /\ kept' = [kept EXCEPT ![d] = @ \ {a}]
  /\ UNCHANGED <<process, opened, rows, asked, sessions, stopping>>

\* runMaintenance adopts what runs and is not tracked; nobody reserves it.
Adopt(d, a) ==
  /\ phase[d] \in {"restore", "broker", "listen", "serving", "stopping"}
  /\ a \in emus \ tracked[d]
  /\ tracked' = [tracked EXCEPT ![d] = @ \cup {a}]
  /\ UNCHANGED <<process, emus, opened, reservations, sessions, stopping>>

\* A device is evicted, shut down or destroyed, and leaves the pool with its flag;
\* its emulator may run on.
Drop(d, a) ==
  /\ a \in tracked[d]
  /\ tracked' = [tracked EXCEPT ![d] = @ \ {a}]
  /\ reserved' = [reserved EXCEPT ![d] = @ \ {a}]
  /\ kept' = [kept EXCEPT ![d] = @ \ {a}]
  /\ emus' \in {emus, emus \ {a}}
  /\ UNCHANGED <<process, opened, rows, asked, sessions, stopping>>

\* POST and DELETE /devices/{id}/reserve: the flag ...
Ask(d, a, on) ==
  /\ phase[d] = "serving" /\ a \in tracked[d]
  /\ "together" \in Ops \/ \A q \in asked : q.avd # a
  /\ reserved' = [reserved EXCEPT ![d] = IF on THEN @ \cup {a} ELSE @ \ {a}]
  /\ asked' = asked \cup {[proc |-> d, avd |-> a, on |-> on]}
  /\ UNCHANGED <<process, pool, rows, kept, sessions, stopping>>

\* ... and the row, SetReservation or ClearReservation.
Store(q) ==
  /\ q \in asked /\ q.proc \in opened
  /\ asked' = asked \ {q}
  /\ rows' = IF q.on THEN rows \cup {q.avd} ELSE rows \ {q.avd}
  /\ UNCHANGED <<process, pool, reserved, kept, sessions, stopping>>

\* There is no store, or its error is dropped.
StoreFails(q) ==
  /\ q \in asked
  /\ asked' = asked \ {q}
  /\ kept' = [kept EXCEPT ![q.proc] = @ \ {q.avd}]
  /\ UNCHANGED <<process, pool, reserved, rows, sessions, stopping>>

\* A session is created; its row is written at the end of the launch.
Create(d, s) ==
  /\ phase[d] = "serving" /\ port = d /\ sess[s] = "none"
  /\ sess' = [sess EXCEPT ![s] = "live"]
  /\ owner' = [owner EXCEPT ![s] = d]
  /\ late' = late \cup {s}
  /\ UNCHANGED <<process, pool, reservations, row, missed, stopping>>

\* RecordSession; without a store it is not called, and its error is dropped.
Record(s, state) ==
  \/ /\ owner[s] \in opened
     /\ row' = [row EXCEPT ![s] = state]
     /\ missed' = missed \ {s}
  \/ UNCHANGED row /\ missed' = missed \cup {s}

RecordActive(s) ==
  /\ s \in late
  /\ late' = late \ {s}
  /\ Record(s, "active")
  /\ UNCHANGED <<process, pool, reservations, sess, owner, stopping>>

\* A session is released, times out or is interrupted: under b.mu its state ...
End(s) ==
  /\ sess[s] = "live"
  /\ "early" \in Ops \/ s \notin late
  /\ sess' = [sess EXCEPT ![s] = "ending"]
  /\ UNCHANGED <<process, pool, reservations, owner, late, row, missed, stopping>>

\* ... and later, after an eviction when the captures and Appium have stopped, its
\* row.
RecordEnd(s) ==
  /\ sess[s] = "ending"
  /\ sess' = [sess EXCEPT ![s] = "over"]
  /\ Record(s, "over")
  /\ UNCHANGED <<process, pool, reservations, owner, late, stopping>>

-----------------------------------------------------------------------------
(* runStop                                                                 *)

StopCheck ==
  /\ stop = "idle"
  /\ stop' = IF IsRunning THEN "signal" ELSE "sweep"
  /\ target' = None
  /\ UNCHANGED <<process, pool, reservations, sessions>>

\* SIGTERM to what the pid file names now.  A daemon that handles no signals yet
\* dies of it; a file or a process that is gone is an error, without a sweep.
StopSignal ==
  /\ stop = "signal"
  /\ target' = pidfile
  /\ IF ~IsRunning
       THEN stop' = "idle" /\ UNCHANGED <<process, pool, reservations, sessions>>
       ELSE /\ stop' = "poll"
            /\ IF phase[pidfile] = "opening"
                 THEN Gone(pidfile)
                 ELSE /\ term' = IF Up(pidfile) THEN term \cup {pidfile} ELSE term
                      /\ UNCHANGED <<phase, port, tracked, opened, reserved, asked, kept, sess, late>>
            /\ UNCHANGED <<pidfile, reused, emus, rows, owner, row, missed>>

\* "Daemon exited cleanly."
StopPoll ==
  /\ stop = "poll" /\ ~IsRunning
  /\ stop' = "sweep"
  /\ UNCHANGED <<process, pool, reservations, sessions, target>>

\* Mutant of StopKill: stop kills only at once, with --force, and waits for ever.
StopKillForced ==
  /\ stop = "signal"
  /\ stop' = "sweep"
  /\ IF pidfile # None /\ Up(pidfile)
       THEN Gone(pidfile)
       ELSE UNCHANGED <<phase, port, term, tracked, opened, reserved, asked, kept, sess, late>>
  /\ UNCHANGED <<pidfile, reused, emus, rows, owner, row, missed, target>>

\* "Daemon didn't exit in 20s": SIGKILL to what the pid file names now.  With
\* --force at once.
StopKill ==
  /\ stop \in {"signal", "poll"}
  /\ stop' = "sweep"
  /\ IF pidfile # None /\ Up(pidfile)
       THEN Gone(pidfile)
       ELSE UNCHANGED <<phase, port, term, tracked, opened, reserved, asked, kept, sess, late>>
  /\ UNCHANGED <<pidfile, reused, emus, rows, owner, row, missed, target>>

\* sweepOrphans: every emulator it finds.
StopSweep ==
  /\ stop = "sweep"
  /\ stop' = "idle"
  /\ \E killed \in SUBSET emus : emus' = emus \ killed
  /\ UNCHANGED <<process, tracked, opened, reservations, sessions, target>>

Stop == StopCheck \/ StopSignal \/ StopPoll \/ StopKill \/ StopSweep

Starting(d) ==
  \/ Write(d) \/ StartFails(d) \/ Open(d) \/ PoolStart(d) \/ Restore(d)
  \/ BrokerStart(d) \/ Listen(d)

Next ==
  \/ \E d \in Proc :
       \/ Check(d) \/ Starting(d)
       \/ Shutdown(d) \/ PoolStop(d) \/ Sweep(d) \/ Exit(d) \/ Crash(d)
       \/ \E a \in AVD : \/ Boot(d, a) \/ Adopt(d, a) \/ Drop(d, a)
                       \/ \E on \in BOOLEAN : Ask(d, a, on)
       \/ \E s \in Sess : Create(d, s)
  \/ \E q \in asked : Store(q) \/ StoreFails(q)
  \/ \E s \in Sess : RecordActive(s) \/ End(s) \/ RecordEnd(s)
  \/ Stop

Spec == Init /\ [][Next]_vars

\* runStop goes on until it returns; nothing is assumed of the daemon, which may
\* hang ("slow emulator kill, scrcpy deadlock, broken adb").
FairSpec == Spec /\ WF_vars(Stop /\ ~StopCheck)

-----------------------------------------------------------------------------
(* Properties                                                              *)

TypeOK ==
  /\ phase \in [Proc -> {"none", "checked", "opening", "pool", "restore", "broker", "listen",
                         "serving", "stopping", "sweeping", "exiting", "gone"}]
  /\ pidfile \in Proc \cup {None} /\ port \in Proc \cup {None}
  /\ target \in Proc \cup {None}
  /\ term \subseteq Proc /\ reused \subseteq Proc
  /\ emus \subseteq AVD /\ rows \subseteq AVD
  /\ tracked \in [Proc -> SUBSET AVD] /\ opened \subseteq Proc
  /\ reserved \in [Proc -> SUBSET AVD] /\ kept \in [Proc -> SUBSET AVD]
  /\ asked \subseteq [proc : Proc, avd : AVD, on : BOOLEAN]
  /\ sess \in [Sess -> {"none", "live", "ending", "over", "lost"}]
  /\ owner \in [Sess -> Proc \cup {None}] /\ late \subseteq Sess /\ missed \subseteq Sess
  /\ row \in [Sess -> {"none", "active", "over", "interrupted"}]
  /\ stop \in {"idle", "signal", "poll", "sweep"}

\* "drizz-farm is already running": while a daemon is up the pid file names it,
\* whatever crashed or was stopped before, so there is never a second one.
PidFileNamesIt == \A d \in Proc : Up(d) => pidfile = d

\* "the session records remain stuck in 'active' state": when a daemon serves,
\* the active rows are those of its sessions that live or are being ended, whatever
\* became of the daemons before it, and every session that lives has one: but for
\* the sessions of which a write to the store failed.
RowsTrue ==
  \A d \in Proc, s \in Sess \ missed :
    phase[d] = "serving" =>
      /\ row[s] = "active" => sess[s] \in {"live", "ending"} /\ owner[s] = d
      /\ sess[s] = "live" /\ s \notin late => row[s] = "active"

\* "any AVD that was reserved before the daemon stopped should come back
\* reserved": of the emulators that outlived a daemon and that the next one found
\* at its start, it reserves those with a row, and no others, and so it stays as
\* long as they are in its pool and the store takes what is asked.
ReservationsKept ==
  \A d \in Proc : \A a \in kept[d] :
    phase[d] = "serving" /\ (\A q \in asked : q.avd # a) => (a \in reserved[d] <=> a \in rows)

\* "When the daemon hung mid-shutdown ... users were left with a zombie daemon":
\* the daemon that stop signals goes away, even if it hangs.
SignalledGoes == \A d \in Proc : stop = "poll" /\ target = d ~> ~Up(d)

-----------------------------------------------------------------------------
(* What comments and messages of the code say and the code does not do     *)

\* The rows of sessions whatever the store does: its errors are logged or dropped.
RowsAlwaysTrue ==
  \A d \in Proc, s \in Sess :
    phase[d] = "serving" /\ row[s] = "active" => sess[s] \in {"live", "ending"}

\* "Always run a final orphan sweep after success too, because the daemon may
\* have exited mid-cleanup": stop leaves no emulator behind.
StopLeavesNone ==
  [][StopSweep => emus' = {}]_vars

\* stop.go: "If still alive, SIGKILL": what is killed is what was asked to stop.
KillsWhatItSignalled ==
  [][stop = "poll" /\ StopKill => \A d \in Proc : phase'[d] # phase[d] => d = target]_vars

\* "orphaned children": a daemon that serves keeps its emulators.
SweepsOrphansOnly ==
  \A d \in Proc : phase[d] = "serving" => tracked[d] \subseteq emus

\* "any AVD that was reserved ... should come back reserved", when it is booted.
ReservationsComeBack ==
  \A d \in Proc : \A a \in tracked[d] :
    phase[d] = "serving" /\ (\A q \in asked : q.avd # a) => (a \in reserved[d] <=> a \in rows)

\* stop signals "the daemon via its pidfile", not another program.
SignalsTheDaemon == stop = "poll" => target \notin reused
=============================================================================
