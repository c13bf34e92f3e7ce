---------------------------- MODULE DaemonProofs ----------------------------
(***************************************************************************)
(* Theorems about Daemon: what becomes of the pid file and of the two      *)
(* tables over any number of processes, devices, sessions, crashes, stops  *)
(* and errors of the store.                                                *)
(***************************************************************************)
EXTENDS Daemon, TLAPS

\* The phases in which a process may have sessions and requests under way.
Serves == {"serving", "stopping", "sweeping", "exiting"}

\* Nobody is up while a process has checked the pid file and not written it.
Alone ==
  /\ PidFileNamesIt
  /\ \A d, e \in Proc : phase[d] = "checked" /\ phase[e] = "checked" => d = e
  /\ \A d, e \in Proc : phase[d] = "checked" => ~Up(e)

\* A session lives with its process, and its row follows it as long as the store
\* takes what is written.
RowsFollow ==
  \A s \in Sess :
    /\ sess[s] \in {"live", "ending"} => owner[s] \in Proc /\ phase[owner[s]] \in Serves
    /\ s \in late => sess[s] = "live" /\ row[s] = "none"
    /\ sess[s] = "none" => row[s] = "none"
    /\ sess[s] = "live" /\ s \notin late \cup missed => row[s] = "active"

\* Once the rows of earlier processes are cleaned up, active rows are those of
\* sessions that live or are being ended.
RowsCleaned ==
  \A d \in Proc, s \in Sess \ missed :
    phase[d] \in {"listen", "serving"} /\ row[s] = "active" =>
      sess[s] \in {"live", "ending"} /\ owner[s] = d

\* A request to reserve belongs to a process that serves, and a device has one.
AskedOnce ==
  /\ \A q \in asked : phase[q.proc] \in Serves
  /\ \A q, r \in asked : q.avd = r.avd => q = r

\* The flag of a device whose reservation was restored is its row, or what a
\* request is about to make of the row.
FlagsFollow ==
  /\ \A d \in Proc : kept[d] \subseteq tracked[d]
  /\ \A d \in Proc : \A a \in kept[d] :
       phase[d] \in {"broker", "listen", "serving"} =>
         /\ (\A q \in asked : q.avd # a) => (a \in reserved[d] <=> a \in rows)
         /\ \A q \in asked : q.avd = a /\ q.proc = d => (a \in reserved[d] <=> q.on)

\* Nothing is restored to a process before its turn.
NothingYet ==
  \A d \in Proc : phase[d] \in {"none", "checked", "opening", "pool", "restore"} => kept[d] = {}

-----------------------------------------------------------------------------
(* What a step may do to the process that takes it                         *)

\* A process that is up goes on to its next phase.
Moves(d) ==
  /\ Up(d) /\ UNCHANGED pidfile
  /\ \E x \in {"pool", "restore", "broker", "listen"} \cup Serves :
       phase' = [phase EXCEPT ![d] = x]

\* A process that is up is gone; it may have removed the pid file.
Ends(d) == Up(d) /\ Gone(d) /\ pidfile' \in {pidfile, None}

\* The steps that change phase or pidfile.
LEMMA PhaseSteps ==
  ASSUME TypeOK, [Next]_vars
  PROVE  \/ UNCHANGED <<phase, pidfile>>
         \/ \E d \in Proc : Check(d) \/ Write(d) \/ Moves(d) \/ Ends(d)
<1> USE DEF TypeOK
<1>1. ASSUME NEW d \in Proc,
             \/ Open(d) \/ PoolStart(d) \/ Restore(d) \/ BrokerStart(d) \/ Listen(d)
             \/ Shutdown(d) \/ PoolStop(d) \/ Sweep(d)
      PROVE  Moves(d)
  BY <1>1 DEF Moves, Serves, Up, Open, PoolStart, Restore, BrokerStart, Listen, Shutdown,
              PoolStop, Sweep
<1>2. ASSUME NEW d \in Proc, StartFails(d) \/ Exit(d) \/ Crash(d)
      PROVE  Ends(d)
  BY <1>2 DEF Ends, Up, StartFails, Exit, Crash
<1>3. ASSUME StopSignal \/ StopKill
      PROVE  UNCHANGED <<phase, pidfile>> \/ \E d \in Proc : Ends(d)
  BY <1>3, DaemonAssumption
  DEF Ends, Up, StopSignal, StopKill, IsRunning, process
<1>4. ASSUME NEW d \in Proc,
             \/ \E a \in AVD : \/ Boot(d, a) \/ Adopt(d, a) \/ Drop(d, a)
                             \/ \E on \in BOOLEAN : Ask(d, a, on)
             \/ \E s \in Sess : Create(d, s)
      PROVE  UNCHANGED <<phase, pidfile>>
  BY <1>4 DEF Boot, Adopt, Drop, Ask, Create, process
<1>5. ASSUME \/ \E q \in asked : Store(q) \/ StoreFails(q)
             \/ \E s \in Sess : RecordActive(s) \/ End(s) \/ RecordEnd(s)
             \/ StopCheck \/ StopPoll \/ StopSweep \/ UNCHANGED vars
      PROVE  UNCHANGED <<phase, pidfile>>
  BY <1>5 DEF Store, StoreFails, RecordActive, End, RecordEnd, StopCheck, StopPoll, StopSweep, process, vars
<1> QED
  BY <1>1, <1>2, <1>3, <1>4, <1>5 DEF Next, Starting, Stop

\* What Gone leaves well typed.
LEMMA GoneTypes ==
  ASSUME TypeOK, NEW d \in Proc, Gone(d)
  PROVE  /\ phase' \in [Proc -> {"none", "checked", "opening", "pool", "restore", "broker",
                                 "listen", "serving", "stopping", "sweeping", "exiting",
                                 "gone"}]
         /\ port' \in Proc \cup {None} /\ term' \subseteq Proc
         /\ tracked' \in [Proc -> SUBSET AVD] /\ opened' \subseteq Proc
         /\ reserved' \in [Proc -> SUBSET AVD] /\ kept' \in [Proc -> SUBSET AVD]
         /\ asked' \subseteq [proc : Proc, avd : AVD, on : BOOLEAN]
         /\ sess' \in [Sess -> {"none", "live", "ending", "over", "lost"}] /\ late' \subseteq Sess
<1> USE DEF TypeOK, Gone
<1>1. /\ phase' \in [Proc -> {"none", "checked", "opening", "pool", "restore", "broker",
                              "listen", "serving", "stopping", "sweeping", "exiting",
                              "gone"}]
      /\ port' \in Proc \cup {None} /\ term' \subseteq Proc /\ late' \subseteq Sess
  OBVIOUS
<1>2. tracked' \in [Proc -> SUBSET AVD] /\ opened' \subseteq Proc
  OBVIOUS
<1>3. reserved' \in [Proc -> SUBSET AVD] /\ kept' \in [Proc -> SUBSET AVD]
  OBVIOUS
<1>4. asked' \subseteq [proc : Proc, avd : AVD, on : BOOLEAN]
  OBVIOUS
<1>5. sess' \in [Sess -> {"none", "live", "ending", "over", "lost"}]
  OBVIOUS
<1> QED
  BY <1>1, <1>2, <1>3, <1>4, <1>5

\* The variables keep their types over crashes, restarts and stops.
THEOREM TypeCorrect == Spec => []TypeOK
<1>1. Init => TypeOK
  BY DEF Init, TypeOK
<1>2. TypeOK /\ [Next]_vars => TypeOK'
  <2> SUFFICES ASSUME TypeOK, [Next]_vars
               PROVE  TypeOK'
    OBVIOUS
  <2> USE DEF TypeOK
  <2>1. ASSUME NEW d \in Proc, Check(d) \/ Write(d) \/ Open(d)
        PROVE  TypeOK'
    BY <2>1 DEF Check, Write, Open, pool, reservations, sessions, stopping
  <2>2. ASSUME NEW d \in Proc, StartFails(d) \/ Exit(d) \/ Crash(d)
        PROVE  TypeOK'
    <3>1. Gone(d)
      BY <2>2 DEF StartFails, Exit, Crash
    <3>2. /\ UNCHANGED <<emus, rows, owner, row, missed, stopping>>
          /\ pidfile' \in Proc \cup {None} /\ reused' \subseteq Proc
      BY <2>2 DEF StartFails, Exit, Crash
    <3> QED
      BY <3>1, <3>2, GoneTypes DEF stopping
  <2>3. ASSUME NEW d \in Proc, PoolStart(d)
        PROVE  TypeOK'
    BY <2>3 DEF PoolStart, reservations, sessions, stopping
  <2>4. ASSUME NEW d \in Proc, Restore(d)
        PROVE  TypeOK'
    BY <2>4 DEF Restore, pool, sessions, stopping
  <2>5. ASSUME NEW d \in Proc, BrokerStart(d)
        PROVE  TypeOK'
    BY <2>5 DEF BrokerStart, pool, reservations, stopping
  <2>6. ASSUME NEW d \in Proc, Listen(d) \/ Shutdown(d)
        PROVE  TypeOK'
    BY <2>6 DEF Listen, Shutdown, pool, reservations, sessions, stopping
  <2>7. ASSUME NEW d \in Proc, PoolStop(d) \/ Sweep(d)
        PROVE  TypeOK'
    BY <2>7 DEF PoolStop, Sweep, reservations, sessions, stopping
  <2>8. ASSUME NEW d \in Proc, NEW a \in AVD, Boot(d, a) \/ Adopt(d, a) \/ Drop(d, a)
        PROVE  TypeOK'
    BY <2>8 DEF Boot, Adopt, Drop, process, reservations, sessions, stopping
  <2>9. ASSUME NEW d \in Proc, NEW a \in AVD, NEW on \in BOOLEAN, Ask(d, a, on)
        PROVE  TypeOK'
    BY <2>9 DEF Ask, process, pool, sessions, stopping
  <2>10. ASSUME NEW d \in Proc, NEW s \in Sess, Create(d, s)
         PROVE  TypeOK'
    BY <2>10 DEF Create, process, pool, reservations, stopping
  <2>11. ASSUME NEW q \in asked, Store(q) \/ StoreFails(q)
         PROVE  TypeOK'
    BY <2>11 DEF Store, StoreFails, process, pool, sessions, stopping
  <2>12. ASSUME NEW s \in Sess, RecordActive(s) \/ End(s) \/ RecordEnd(s)
         PROVE  TypeOK'
    BY <2>12 DEF RecordActive, End, RecordEnd, Record, process, pool, reservations, stopping
  <2>13. CASE StopCheck \/ StopPoll \/ StopSweep
    BY <2>13 DEF StopCheck, StopPoll, StopSweep, process, pool, reservations, sessions
  <2>14. CASE StopSignal \/ StopKill
    <3>1. UNCHANGED <<pidfile, reused, emus, rows, owner, row, missed>>
          /\ stop' \in {"idle", "poll", "sweep"}
          /\ target' \in Proc \cup {None}
      BY <2>14 DEF StopSignal, StopKill, process, pool, reservations, sessions
    <3>2. CASE Gone(pidfile) /\ pidfile \in Proc
      BY <3>1, <3>2, GoneTypes
    <3>3. CASE UNCHANGED <<phase, port, tracked, opened, reserved, asked, kept, sess, late>>
               /\ term' \subseteq Proc
      BY <3>1, <3>3
    <3> QED
      BY <2>14, <3>2, <3>3
      DEF StopSignal, StopKill, IsRunning, Up, process, pool, reservations, sessions
  <2>15. CASE UNCHANGED vars
    BY <2>15 DEF vars, process, pool, reservations, sessions, stopping
  <2> QED
    BY <2>1, <2>2, <2>3, <2>4, <2>5, <2>6, <2>7, <2>8, <2>9, <2>10, <2>11, <2>12, <2>13,
       <2>14, <2>15
    DEF Next, Starting, Stop
<1> QED
  BY <1>1, <1>2, PTL DEF Spec

-----------------------------------------------------------------------------

\* One step leaves one process up, or about to be, if no process starts between
\* another's check and its write.
LEMMA AloneKept ==
  ASSUME "race" \notin Ops, TypeOK, Alone, [Next]_vars
  PROVE  Alone'
<1> USE DEF TypeOK, Alone, PidFileNamesIt, Up
<1>1. ASSUME NEW d \in Proc, Check(d)
      PROVE  Alone'
  BY <1>1, DaemonAssumption DEF Check, IsRunning
<1>2. ASSUME NEW d \in Proc, Write(d)
      PROVE  Alone'
  BY <1>2 DEF Write
<1>3. ASSUME NEW d \in Proc, Moves(d)
      PROVE  Alone'
  BY <1>3 DEF Moves, Serves
<1>4. ASSUME NEW d \in Proc, Ends(d)
      PROVE  Alone'
  BY <1>4 DEF Ends, Gone
<1>5. CASE UNCHANGED <<phase, pidfile>>
  BY <1>5
<1> QED
  BY <1>1, <1>2, <1>3, <1>4, <1>5, PhaseSteps

\* "drizz-farm is already running": the pid file names the one daemon that is up,
\* over crashes, restarts and stops, pids used again included.
THEOREM OneDaemon == ASSUME "race" \notin Ops PROVE Spec => []Alone
<1>1. Init => Alone
  BY DEF Init, Alone, PidFileNamesIt, Up
<1>2. TypeOK /\ Alone /\ [Next]_vars => Alone'
  BY AloneKept
<1> QED
  BY <1>1, <1>2, TypeCorrect, PTL DEF Spec

\* The pid file names the daemon that is up.
THEOREM PidFileTrue == ASSUME "race" \notin Ops PROVE Spec => []PidFileNamesIt
<1>1. Alone => PidFileNamesIt
  BY DEF Alone
<1> QED
  BY <1>1, OneDaemon, PTL

-----------------------------------------------------------------------------

\* One step keeps the rows of sessions in line with them, if no session ends
\* before its row is written.
LEMMA RowsKept ==
  ASSUME "early" \notin Ops, TypeOK, Alone, RowsFollow, RowsCleaned, [Next]_vars
  PROVE  RowsFollow' /\ RowsCleaned'
<1> USE DEF TypeOK, RowsFollow, RowsCleaned
<1>1. ASSUME NEW d \in Proc, Check(d) \/ Write(d)
      PROVE  RowsFollow' /\ RowsCleaned'
  BY <1>1 DEF Check, Write, sessions, Serves
<1>2. ASSUME NEW d \in Proc, Gone(d), Up(d), UNCHANGED <<owner, row, missed>>
      PROVE  RowsFollow' /\ RowsCleaned'
  <2>1. RowsFollow'
    BY <1>2 DEF Gone
  <2>2. \A e \in Proc : phase'[e] \in {"listen", "serving"} => FALSE
    BY <1>2 DEF Gone, Alone, PidFileNamesIt, Up
  <2> QED
    BY <2>1, <2>2
<1>3. ASSUME NEW d \in Proc, BrokerStart(d)
      PROVE  RowsFollow' /\ RowsCleaned'
  <2>1. \A s \in Sess : sess[s] \notin {"live", "ending"} /\ s \notin late
    BY <1>3 DEF BrokerStart, Alone, PidFileNamesIt, Up, Serves
  <2> QED
    BY <1>3, <2>1 DEF BrokerStart
<1>4. ASSUME NEW d \in Proc, UNCHANGED sessions,
             \/ Open(d) \/ PoolStart(d) \/ Restore(d) \/ Listen(d) \/ Shutdown(d)
             \/ PoolStop(d) \/ Sweep(d)
      PROVE  RowsFollow' /\ RowsCleaned'
  BY <1>4 DEF Open, PoolStart, Restore, Listen, Shutdown, PoolStop, Sweep, sessions, Serves
<1>5. ASSUME NEW d \in Proc, NEW s \in Sess, Create(d, s)
      PROVE  RowsFollow' /\ RowsCleaned'
  BY <1>5 DEF Create, process, Serves, Alone, PidFileNamesIt, Up
<1>6. ASSUME NEW s \in Sess, RecordActive(s)
      PROVE  RowsFollow' /\ RowsCleaned'
  <2>1. \A d \in Proc : phase[d] \in {"listen", "serving"} => owner[s] = d
    BY <1>6 DEF RecordActive, Alone, PidFileNamesIt, Up, Serves
  <2> QED
    BY <1>6, <2>1 DEF RecordActive, Record, process
<1>7. ASSUME NEW s \in Sess, End(s)
      PROVE  RowsFollow' /\ RowsCleaned'
  BY <1>7 DEF End, process
<1>11. ASSUME NEW s \in Sess, RecordEnd(s)
       PROVE  RowsFollow' /\ RowsCleaned'
  BY <1>11 DEF RecordEnd, Record, process
<1>8. CASE UNCHANGED <<phase, sessions>>
  BY <1>8 DEF sessions
<1>9. ASSUME NEW d \in Proc, StartFails(d) \/ Exit(d) \/ Crash(d)
      PROVE  Gone(d) /\ Up(d) /\ UNCHANGED <<owner, row, missed>>
  BY <1>9 DEF StartFails, Exit, Crash, Up
<1>10. CASE StopSignal \/ StopKill
  <2>1. CASE /\ pidfile \in Proc /\ Gone(pidfile) /\ Up(pidfile)
             /\ UNCHANGED <<owner, row, missed>>
    BY <1>2, <2>1
  <2> QED
    BY <1>10, <2>1, <1>8
    DEF StopSignal, StopKill, IsRunning, Up, process, sessions
<1>12. ASSUME \/ \E d \in Proc, a \in AVD :
                   \/ Boot(d, a) \/ Adopt(d, a) \/ Drop(d, a)
                   \/ \E on \in BOOLEAN : Ask(d, a, on)
              \/ \E q \in asked : Store(q) \/ StoreFails(q)
              \/ StopCheck \/ StopPoll \/ StopSweep \/ UNCHANGED vars
       PROVE  UNCHANGED <<phase, sessions>>
  BY <1>12 DEF Boot, Adopt, Drop, Ask, Store, StoreFails, StopCheck, StopPoll, StopSweep,
               vars, process
<1>13. ASSUME NEW d \in Proc,
              \/ Open(d) \/ PoolStart(d) \/ Restore(d) \/ Listen(d) \/ Shutdown(d)
              \/ PoolStop(d) \/ Sweep(d)
       PROVE  UNCHANGED sessions
  BY <1>13 DEF Open, PoolStart, Restore, Listen, Shutdown, PoolStop, Sweep
<1> QED
  BY <1>1, <1>2, <1>3, <1>4, <1>5, <1>6, <1>7, <1>8, <1>9, <1>10, <1>11, <1>12, <1>13
  DEF Next, Starting, Stop

\* Of the rows of sessions, those of the sessions of the daemon that serves are
\* active, and no others, whatever crashed before, but for the sessions of which a
\* write to the store failed.
THEOREM RowsAreTrue ==
  ASSUME "race" \notin Ops, "early" \notin Ops
  PROVE  Spec => []RowsTrue
<1>1. Init => RowsFollow /\ RowsCleaned
  BY DEF Init, RowsFollow, RowsCleaned
<1>2. TypeOK /\ Alone /\ RowsFollow /\ RowsCleaned /\ [Next]_vars
        => RowsFollow' /\ RowsCleaned'
  BY RowsKept
<1>3. TypeOK /\ RowsFollow /\ RowsCleaned => RowsTrue
  BY DEF TypeOK, RowsFollow, RowsCleaned, RowsTrue
<1> QED
  BY <1>1, <1>2, <1>3, TypeCorrect, OneDaemon, PTL DEF Spec

-----------------------------------------------------------------------------

\* One step keeps flags, rows and requests of reservations in line, if the
\* requests for a device come one after the other.
LEMMA FlagsKept ==
  ASSUME "together" \notin Ops, TypeOK, Alone, AskedOnce, FlagsFollow, NothingYet, [Next]_vars
  PROVE  AskedOnce' /\ FlagsFollow' /\ NothingYet'
<1> USE DEF TypeOK, AskedOnce, FlagsFollow, NothingYet
<1>1. ASSUME NEW d \in Proc, Check(d) \/ Write(d) \/ Open(d)
      PROVE  AskedOnce' /\ FlagsFollow' /\ NothingYet'
  BY <1>1 DEF Check, Write, Open, pool, reservations, Serves
<1>2. ASSUME NEW d \in Proc, Gone(d), Up(d), UNCHANGED rows
      PROVE  AskedOnce' /\ FlagsFollow' /\ NothingYet'
  <2>1. AskedOnce'
    BY <1>2 DEF Gone
  <2>2. \A e \in Proc : phase'[e] \notin {"restore", "broker", "listen", "serving"}
    BY <1>2 DEF Gone, Alone, PidFileNamesIt, Up
  <2>3. \A e \in Proc : kept'[e] \subseteq tracked'[e] /\ (kept[e] = {} => kept'[e] = {})
    BY <1>2 DEF Gone
  <2>4. \A e \in Proc : e # d => phase'[e] = phase[e]
    BY <1>2 DEF Gone
  <2>5. phase'[d] = "gone"
    BY <1>2 DEF Gone
  <2> QED
    BY <2>1, <2>2, <2>3, <2>4, <2>5
<1>3. ASSUME NEW d \in Proc, PoolStart(d)
      PROVE  AskedOnce' /\ FlagsFollow' /\ NothingYet'
  BY <1>3 DEF PoolStart, reservations, Serves
<1>4. ASSUME NEW d \in Proc, Restore(d)
      PROVE  AskedOnce' /\ FlagsFollow' /\ NothingYet'
  BY <1>4 DEF Restore, pool, Serves
<1>5. ASSUME NEW d \in Proc, BrokerStart(d) \/ Listen(d) \/ Shutdown(d)
      PROVE  AskedOnce' /\ FlagsFollow' /\ NothingYet'
  BY <1>5 DEF BrokerStart, Listen, Shutdown, pool, reservations, Serves
<1>6. ASSUME NEW d \in Proc, PoolStop(d) \/ Sweep(d)
      PROVE  AskedOnce' /\ FlagsFollow' /\ NothingYet'
  BY <1>6 DEF PoolStop, Sweep, reservations, Serves
<1>7. ASSUME NEW d \in Proc, NEW a \in AVD, Boot(d, a) \/ Adopt(d, a) \/ Drop(d, a)
      PROVE  AskedOnce' /\ FlagsFollow' /\ NothingYet'
  BY <1>7 DEF Boot, Adopt, Drop, process, reservations
<1>8. ASSUME NEW d \in Proc, NEW a \in AVD, NEW on \in BOOLEAN, Ask(d, a, on)
      PROVE  AskedOnce' /\ FlagsFollow' /\ NothingYet'
  <2> DEFINE new == [proc |-> d, avd |-> a, on |-> on]
  <2>1. /\ phase[d] = "serving" /\ a \in tracked[d]
        /\ \A q \in asked : q.avd # a
        /\ asked' = asked \cup {new}
        /\ reserved' = [reserved EXCEPT ![d] = IF on THEN @ \cup {a} ELSE @ \ {a}]
        /\ UNCHANGED <<phase, tracked, kept, rows>>
    BY <1>8 DEF Ask, process, pool
  <2>2. new.proc = d /\ new.avd = a /\ new.on = on
    OBVIOUS
  <2> HIDE DEF new
  <2>3. AskedOnce'
    BY <2>1, <2>2 DEF Serves
  <2>4. \A e \in Proc : \A b \in AVD :
          b \in reserved'[e] <=> IF e = d /\ b = a THEN on ELSE b \in reserved[e]
    BY <2>1
  <2>5. FlagsFollow'
    BY <2>1, <2>2, <2>4
  <2> QED
    BY <2>1, <2>3, <2>5
<1>9. ASSUME NEW q \in asked, Store(q) \/ StoreFails(q)
      PROVE  AskedOnce' /\ FlagsFollow' /\ NothingYet'
  <2>1. \A d \in Proc : phase[d] \in {"broker", "listen", "serving"} => q.proc = d
    BY <1>9 DEF Alone, PidFileNamesIt, Up, Serves
  <2> QED
    BY <1>9, <2>1 DEF Store, StoreFails, process, pool
<1>10. CASE UNCHANGED <<phase, tracked, reservations>>
  BY <1>10 DEF reservations
<1>11. ASSUME NEW d \in Proc, StartFails(d) \/ Exit(d) \/ Crash(d)
       PROVE  Gone(d) /\ Up(d) /\ UNCHANGED rows
  BY <1>11 DEF StartFails, Exit, Crash, Up
<1>12. CASE StopSignal \/ StopKill
  <2>1. CASE pidfile \in Proc /\ Gone(pidfile) /\ Up(pidfile) /\ UNCHANGED rows
    BY <1>2, <2>1
  <2> QED
    BY <1>12, <2>1, <1>10
    DEF StopSignal, StopKill, IsRunning, Up, process, pool, reservations
<1> QED
  BY <1>1, <1>2, <1>3, <1>4, <1>5, <1>6, <1>7, <1>8, <1>9, <1>10, <1>11, <1>12
  DEF Next, Starting, Stop, Create, RecordActive, End, RecordEnd, StopCheck, StopPoll, StopSweep, vars,
      process, pool

\* "Any AVD that was reserved before the daemon stopped should come back
\* X
THEOREM ReservationsTrue ==
  ASSUME "race" \notin Ops, "together" \notin Ops
  PROVE  Spec => []ReservationsKept
<1>1. Init => AskedOnce /\ FlagsFollow /\ NothingYet
  BY DEF Init, AskedOnce, FlagsFollow, NothingYet
<1>2. TypeOK /\ Alone /\ AskedOnce /\ FlagsFollow /\ NothingYet /\ [Next]_vars
        => AskedOnce' /\ FlagsFollow' /\ NothingYet'
  BY FlagsKept
<1>3. FlagsFollow => ReservationsKept
  BY DEF FlagsFollow, ReservationsKept
<1> QED
  BY <1>1, <1>2, <1>3, TypeCorrect, OneDaemon, PTL DEF Spec
=============================================================================
