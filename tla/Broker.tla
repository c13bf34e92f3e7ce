------------------------------- MODULE Broker -------------------------------
(***************************************************************************)
(* The session broker and its queue (internal/session/broker.go, queue.go) *)
(* over what they use of the pool: Create, the queue and the goroutines    *)
(* that drain it, Release, the timeout loop and the eviction callback.     *)
(*                                                                         *)
(* A step is one critical section (b.mu, q.mu), one send or receive on a   *)
(* result channel, or one call of the pool or of the services.  A call of  *)
(* Create, the session it may lead to and the queue entry in between carry *)
(* one name, an element of Req: a call leads to at most one session.       *)
(*                                                                         *)
(* Goroutines: <<"create", r>> runs Create, <<"drain", r>> is the          *)
(* drainQueue that the release of session r spawns, loop is queueDrainLoop *)
(* (woken by readyCh or by its ticker, so at any time; its recursion is    *)
(* another turn).  The pool is a map of instances, each in a state of      *)
(* DeviceState and with the SessionID attached to it; Pool details it.     *)
(***************************************************************************)
EXTENDS Integers, Sequences, FiniteSets, DeviceState

CONSTANTS
  Req,        \* calls of Create
  Inst,       \* instance ids the pool may draw (bounds the run)
  MaxQueue,   \* cfg.Pool.QueueMaxSize
  Ops,        \* what clients and the environment do besides creating sessions
  None

AllOps == {"specific", "early", "giveup", "evict", "expire"}

ASSUME BrokerAssumption ==
  /\ MaxQueue \in Nat
  /\ IsFiniteSet(Req)
  /\ Ops \subseteq AllOps
  /\ None \notin Req \cup Inst

VARIABLES
  instances,  \* p.instances
  state,      \* DeviceInstance.State
  sessionOf,  \* DeviceInstance.SessionID
  sess,       \* the State of each session in b.sessions, or "none"
  device,     \* Session.InstanceID
  live,       \* sessions whose captures and Appium server are running
  queue,      \* q.entries
  at,         \* EnqueuedAt of each entry: its rank among those not answered, or 0
  result,     \* what each entry's ResultCh holds
  go,         \* the goroutines above: [pc, req, inst]
  reply,      \* what each Create returned to its client
  rel,        \* the goroutine in Release of each session
  evicting,   \* the goroutine in handleInstanceEvicted for each session
  reaper      \* the timeout loop: [pc, list, req]

poolVars  == <<instances, state, sessionOf>>
queueVars == <<queue, at, result>>
sessVars  == <<sess, device, live>>
enders    == <<rel, evicting, reaper>>
vars == <<poolVars, queueVars, sessVars, go, reply, enders>>

loop == <<"loop", None>>
Creator(r) == <<"create", r>>
Drainer(r) == <<"drain", r>>
Workers == {loop} \cup {Drainer(r) : r \in Req}
Goroutines == Workers \cup {Creator(r) : r \in Req}

Steps == {"idle", "take", "alloc", "specific", "enqueue", "waiting",
          "pushback", "attach", "insert", "launch", "done"}
Idle == [pc |-> "idle", req |-> None, inst |-> None]

Init ==
  /\ instances = {}
  /\ state = [i \in Inst |-> "New"]
  /\ sessionOf = [i \in Inst |-> None]
  /\ sess = [r \in Req |-> "none"]
  /\ device = [r \in Req |-> None]
  /\ live = {}
  /\ queue = <<>>
  /\ at = [r \in Req |-> 0]
  /\ result = [r \in Req |-> "none"]
  /\ go = [g \in Goroutines |-> Idle]
  /\ reply = [r \in Req |-> "none"]
  /\ rel = [r \in Req |-> "none"]
  /\ evicting = [r \in Req |-> "none"]
  /\ reaper = [pc |-> "idle", list |-> {}, req |-> None]

-----------------------------------------------------------------------------
(* Helpers *)

Goto(g, step) == go' = [go EXCEPT ![g].pc = step]
End(g) == go' = [go EXCEPT ![g] = Idle]
Answer(r, a) ==
  /\ reply' = [reply EXCEPT ![r] = a]
  /\ go' = [go EXCEPT ![Creator(r)] = [Idle EXCEPT !.pc = "done"]]

Warm == {i \in instances : state[i] = "Warm"}

\* No slot is free: every slot stands for a tracked instance or a boot under
\* way (NoSlotLeak of Pool).
Full(g) ==
  /\ Warm = {}
  /\ \/ instances # {}
     \/ \E h \in Goroutines \ {g} : go[h].pc \in {"alloc", "specific"}

\* pool.Release: an instance that is gone, or may not be reset, is an error; a
\* dead one is removed, its session cleared first so that nobody is notified.
PoolRelease(i, failed) ==
  \/ /\ i \notin instances \/ ~CanTransitionTo(state[i], "Resetting")
     /\ failed
     /\ UNCHANGED poolVars
  \/ /\ i \in instances /\ ~failed
     /\ sessionOf' = [sessionOf EXCEPT ![i] = None]
     /\ \/ /\ CanTransitionTo(state[i], "Resetting")
           /\ state' = [state EXCEPT ![i] = "Resetting"]
           /\ UNCHANGED instances
        \/ /\ "evict" \in Ops
           /\ instances' = instances \ {i}
           /\ UNCHANGED state

-----------------------------------------------------------------------------
(* Create *)

\* A call names a device (and then never queues) or only a profile.
Create(r) ==
  LET g == Creator(r) IN
  /\ go[g].pc = "idle"
  /\ \E step \in {"alloc", "specific"} :
       /\ step = "specific" => "specific" \in Ops
       /\ go' = [go EXCEPT ![g] = [pc |-> step, req |-> r, inst |-> None]]
  /\ UNCHANGED <<poolVars, queueVars, sessVars, reply, enders>>

\* pool.Allocate succeeded: a warm device, or one booted for the caller.
Allocate(g) ==
  /\ go[g].pc \in {"alloc", "specific"}
  /\ \E i \in IF Warm # {} THEN Warm ELSE {x \in Inst : state[x] = "New"} :
       /\ state' = [state EXCEPT ![i] = "Allocated"]
       /\ instances' = instances \cup {i}
       /\ go' = [go EXCEPT ![g].pc = "attach", ![g].inst = i]
  /\ UNCHANGED <<sessionOf, queueVars, sessVars, reply, enders>>

\* ErrPoolExhausted: a profile request queues, a drain puts its entry back; a
\* request for a specific device that is not free fails.
Exhausted(g) ==
  LET r == go[g].req IN
  /\ \/ /\ go[g].pc = "alloc" /\ Full(g)
        /\ Goto(g, IF g = Creator(r) THEN "enqueue" ELSE "pushback")
        /\ UNCHANGED reply
     \/ /\ go[g].pc = "specific"
        /\ Answer(r, "error")
  /\ UNCHANGED <<poolVars, queueVars, sessVars, enders>>

\* Any other error, a failed boot: the loop passes it on, drainQueue retries.
AllocateFails(g) ==
  LET r == go[g].req IN
  /\ go[g].pc = "alloc" /\ Warm = {}
  /\ \/ /\ g = Creator(r) /\ Answer(r, "error")
        /\ UNCHANGED result
     \/ /\ g = loop /\ End(g)
        /\ result' = [result EXCEPT ![r] = "error"]
        /\ UNCHANGED reply
     \/ /\ g \notin {loop, Creator(r)} /\ Goto(g, "pushback")
        /\ UNCHANGED <<result, reply>>
  /\ UNCHANGED <<poolVars, queue, at, sessVars, enders>>

\* createSessionFromInstance: SetSession ...
Attach(g) ==
  /\ go[g].pc = "attach"
  /\ sessionOf' = [sessionOf EXCEPT ![go[g].inst] = go[g].req]
  /\ Goto(g, "insert")
  /\ UNCHANGED <<instances, state, queueVars, sessVars, reply, enders>>

\* ... then the session enters b.sessions ...
Insert(g) ==
  LET r == go[g].req IN
  /\ go[g].pc = "insert"
  /\ sess' = [sess EXCEPT ![r] = "active"]
  /\ device' = [device EXCEPT ![r] = go[g].inst]
  /\ Goto(g, "launch")
  /\ UNCHANGED <<poolVars, queueVars, live, reply, enders>>

\* ... then its captures and its Appium server start, whatever has become of
\* the session by then, and the caller or its ResultCh gets it.
Launch(g) ==
  LET r == go[g].req IN
  /\ go[g].pc = "launch"
  /\ live' = live \cup {r}
  /\ \/ /\ g = Creator(r) /\ Answer(r, "ok")
        /\ UNCHANGED result
     \/ /\ g \in Workers /\ End(g)
        /\ result[r] = "none"
        /\ result' = [result EXCEPT ![r] = "ok"]
        /\ UNCHANGED reply
  /\ UNCHANGED <<poolVars, queue, at, sess, device, enders>>

-----------------------------------------------------------------------------
(* The queue *)

Enqueue(r) ==
  LET g == Creator(r) IN
  /\ go[g].pc = "enqueue"
  /\ \/ /\ Len(queue) >= MaxQueue
        /\ Answer(r, "error")
        /\ UNCHANGED <<queue, at>>
     \/ /\ Len(queue) < MaxQueue
        /\ queue' = Append(queue, r)
        /\ at' = [at EXCEPT ![r] = 1 + Cardinality({s \in Req : at[s] > 0})]
        /\ Goto(g, "waiting")
        /\ UNCHANGED reply
  /\ UNCHANGED <<poolVars, result, sessVars, enders>>

Receive(r) ==
  /\ go[Creator(r)].pc = "waiting" /\ result[r] # "none"
  /\ result' = [result EXCEPT ![r] = "none"]
  /\ at' = [s \in Req |-> IF s = r THEN 0 ELSE IF at[s] > at[r] THEN at[s] - 1 ELSE at[s]]
  /\ Answer(r, result[r])
  /\ UNCHANGED <<poolVars, queue, sessVars, enders>>

\* remove takes the entry out, if it is in the queue.
RemoveEntry(r) ==
  \/ /\ \A n \in DOMAIN queue : queue[n] # r
     /\ UNCHANGED queue
  \/ \E n \in DOMAIN queue :
       /\ queue[n] = r /\ \A m \in 1..(n - 1) : queue[m] # r
       /\ queue' = SubSeq(queue, 1, n - 1) \o SubSeq(queue, n + 1, Len(queue))

\* The queue timeout or the client's context; select may prefer it to a result
\* that is there.
GiveUp(r) ==
  /\ "giveup" \in Ops
  /\ go[Creator(r)].pc = "waiting"
  /\ RemoveEntry(r)
  /\ Answer(r, "left")
  /\ UNCHANGED <<poolVars, at, result, sessVars, enders>>

\* Mutant of TryDequeue: the front is looked at and stays.
TryDequeuePeek(w) ==
  /\ go[w].pc = IF w = loop THEN "idle" ELSE "take"
  /\ queue # <<>>
  /\ go' = [go EXCEPT ![w] = [pc |-> "alloc", req |-> Head(queue), inst |-> None]]
  /\ UNCHANGED <<poolVars, queueVars, sessVars, reply, enders>>

\* TryDequeue by the loop or by a drainQueue; the latter ends on an empty queue.
TryDequeue(w) ==
  /\ go[w].pc = IF w = loop THEN "idle" ELSE "take"
  /\ \/ /\ queue # <<>>
        /\ queue' = Tail(queue)
        /\ go' = [go EXCEPT ![w] =
                    [pc |-> "alloc", req |-> Head(queue), inst |-> None]]
     \/ /\ queue = <<>> /\ w # loop
        /\ End(w)
        /\ UNCHANGED queue
  /\ UNCHANGED <<poolVars, at, result, sessVars, reply, enders>>

\* Mutant of PushFront: an entry that could not be served is dropped.
PushFrontDrops(w) ==
  /\ go[w].pc = "pushback"
  /\ End(w)
  /\ UNCHANGED <<poolVars, queueVars, sessVars, reply, enders>>

PushFront(w) ==
  /\ go[w].pc = "pushback"
  /\ queue' = <<go[w].req>> \o queue
  /\ End(w)
  /\ UNCHANGED <<poolVars, at, result, sessVars, reply, enders>>

-----------------------------------------------------------------------------
(* Release *)

\* Mutant of Release: IsActive is not asked.
ReleaseAgain(r) ==
  /\ rel[r] = "none"
  /\ sess[r] # "none"
  /\ "early" \in Ops \/ reply[r] = "ok"
  /\ sess' = [sess EXCEPT ![r] = "released"]
  /\ rel' = [rel EXCEPT ![r] = "stop"]
  /\ UNCHANGED <<poolVars, queueVars, device, live, go, reply, evicting, reaper>>

\* Under b.mu, for an active session.  The session is listed, and so may be
\* released, before its creator has answered ("early").
Release(r) ==
  /\ rel[r] = "none"
  /\ sess[r] = "active"
  /\ "early" \in Ops \/ reply[r] = "ok"
  /\ sess' = [sess EXCEPT ![r] = "released"]
  /\ rel' = [rel EXCEPT ![r] = "stop"]
  /\ UNCHANGED <<poolVars, queueVars, device, live, go, reply, evicting, reaper>>

\* StopAll and Appium's Stop.
ReleaseStop(r) ==
  /\ rel[r] = "stop"
  /\ live' = live \ {r}
  /\ rel' = [rel EXCEPT ![r] = "free"]
  /\ UNCHANGED <<poolVars, queueVars, sess, device, go, reply, evicting, reaper>>

\* pool.Release, and a drainQueue if it succeeded.
ReleaseFree(r) ==
  /\ rel[r] = "free"
  /\ rel' = [rel EXCEPT ![r] = "none"]
  /\ \E failed \in BOOLEAN :
       /\ PoolRelease(device[r], failed)
       /\ IF failed THEN UNCHANGED go ELSE Goto(Drainer(r), "take")
  /\ UNCHANGED <<queueVars, sessVars, reply, evicting, reaper>>

-----------------------------------------------------------------------------
(* enforceTimeouts *)

\* Under b.mu.RLock: the sessions that have expired.
ExpireScan(list) ==
  /\ "expire" \in Ops
  /\ reaper.pc = "idle"
  /\ list # {} /\ \A r \in list : sess[r] = "active"
  /\ reaper' = [pc |-> "mark", list |-> list, req |-> None]
  /\ UNCHANGED <<poolVars, queueVars, sessVars, go, reply, rel, evicting>>

\* Each is marked, whatever has become of it since.
ExpireMark(r) ==
  /\ reaper.pc = "mark" /\ r \in reaper.list
  /\ sess' = [sess EXCEPT ![r] = "timed_out"]
  /\ reaper' = [reaper EXCEPT !.pc = "free", !.list = @ \ {r}, !.req = r]
  /\ UNCHANGED <<poolVars, queueVars, device, live, go, reply, rel, evicting>>

\* Mutant of ExpireFree: the device is not given back.
ExpireKeeps ==
  /\ reaper.pc = "free"
  /\ reaper' = [reaper EXCEPT !.pc = IF reaper.list = {} THEN "idle" ELSE "mark",
                              !.req = None]
  /\ UNCHANGED <<poolVars, queueVars, sessVars, go, reply, rel, evicting>>

\* The device goes back; captures and Appium are not stopped, no drain starts.
ExpireFree ==
  /\ reaper.pc = "free"
  /\ \E failed \in BOOLEAN : PoolRelease(device[reaper.req], failed)
  /\ reaper' = [reaper EXCEPT !.pc = IF reaper.list = {} THEN "idle" ELSE "mark",
                              !.req = None]
  /\ UNCHANGED <<queueVars, sessVars, go, reply, rel, evicting>>

-----------------------------------------------------------------------------
(* The pool on its own *)

\* The reset of a released device ends; the device is warm again.
ResetEnd(i) ==
  /\ i \in instances /\ state[i] = "Resetting"
  /\ state' = [state EXCEPT ![i] = "Warm"]
  /\ UNCHANGED <<instances, sessionOf, queueVars, sessVars, go, reply, enders>>

\* destroyInstance, of a device that ShutdownInstance or maintenance saw while no
\* session had it, as every device once was; it may have been allocated since.
Destroy(i) ==
  /\ "evict" \in Ops
  /\ i \in instances /\ CanTransitionTo(state[i], "Destroying")
  /\ state' = [state EXCEPT ![i] = "Destroying"]
  /\ UNCHANGED <<instances, sessionOf, queueVars, sessVars, go, reply, enders>>

\* removeInstance, by the watchdog, of a dead device, or at the end of
\* destroyInstance; the session attached to it is reported.
Evict(i) ==
  /\ "evict" \in Ops
  /\ i \in instances
  /\ instances' = instances \ {i}
  /\ evicting' = IF sessionOf[i] = None THEN evicting
                 ELSE [evicting EXCEPT ![sessionOf[i]] = "mark"]
  /\ UNCHANGED <<state, sessionOf, queueVars, sessVars, go, reply, rel, reaper>>

\* Mutant of EvictMark: the session is not looked at first.
EvictMarkUnchecked(r) ==
  /\ evicting[r] = "mark"
  /\ sess' = [sess EXCEPT ![r] = "interrupted"]
  /\ evicting' = [evicting EXCEPT ![r] = "stop"]
  /\ UNCHANGED <<poolVars, queueVars, device, live, go, reply, rel, reaper>>

\* handleInstanceEvicted: nothing to do for a session that is not there (yet)
\* or has ended.
EvictMark(r) ==
  /\ evicting[r] = "mark"
  /\ IF sess[r] = "active"
       THEN /\ sess' = [sess EXCEPT ![r] = "interrupted"]
            /\ evicting' = [evicting EXCEPT ![r] = "stop"]
       ELSE /\ evicting' = [evicting EXCEPT ![r] = "none"]
            /\ UNCHANGED sess
  /\ UNCHANGED <<poolVars, queueVars, device, live, go, reply, rel, reaper>>

EvictStop(r) ==
  /\ evicting[r] = "stop"
  /\ live' = live \ {r}
  /\ evicting' = [evicting EXCEPT ![r] = "none"]
  /\ UNCHANGED <<poolVars, queueVars, sess, device, go, reply, rel, reaper>>

-----------------------------------------------------------------------------
\* What a goroutine does once it is under way.
Serve(g) ==
  \/ Allocate(g) \/ Exhausted(g) \/ AllocateFails(g)
  \/ Attach(g) \/ Insert(g) \/ Launch(g)

Work(w) == TryDequeue(w) \/ PushFront(w) \/ Serve(w)
Request(r) == Enqueue(r) \/ Receive(r) \/ Serve(Creator(r))
Expiring == (\E r \in Req : ExpireMark(r)) \/ ExpireFree
Ending(r) == ReleaseStop(r) \/ ReleaseFree(r) \/ EvictMark(r) \/ EvictStop(r)

Next ==
  \/ \E r \in Req : Create(r) \/ Request(r) \/ GiveUp(r) \/ Release(r) \/ Ending(r)
  \/ \E w \in Workers : Work(w)
  \/ \E s \in SUBSET Req : ExpireScan(s)
  \/ Expiring
  \/ \E i \in Inst : ResetEnd(i) \/ Destroy(i) \/ Evict(i)

Spec == Init /\ [][Next]_vars

\* Goroutines run and the calls they make return.  Clients need not release
\* their sessions, but each expires (at most SessionMaxMinutes after its start)
\* and every scan of the timeout loop lists all that have: hence SF.
FairSpec ==
  /\ Spec
  /\ \A r \in Req : WF_vars(Request(r)) /\ WF_vars(Ending(r))
                     /\ SF_vars(\E s \in SUBSET Req : r \in s /\ ExpireScan(s))
  /\ \A w \in Workers : WF_vars(Work(w))
  /\ \A i \in Inst : WF_vars(ResetEnd(i))
  /\ WF_vars(Expiring)

-----------------------------------------------------------------------------
(* Properties *)

\* What the pool, the queue, the sessions and the goroutines hold: a goroutine that
\* starts a session has a call and a device for it, and a device of a broker's pool
\* is never in another state than these.
TypeOK ==
  /\ instances \subseteq Inst
  /\ state \in [Inst -> {"New", "Warm", "Allocated", "Resetting", "Destroying"}]
  /\ sessionOf \in [Inst -> Req \cup {None}]
  /\ sess \in [Req -> {"none", "active", "released", "timed_out", "interrupted"}]
  /\ device \in [Req -> Inst \cup {None}]
  /\ live \subseteq Req
  /\ queue \in Seq(Req)
  /\ at \in [Req -> Nat]
  /\ result \in [Req -> {"none", "ok", "error"}]
  /\ go \in [Goroutines -> [pc : Steps, req : Req \cup {None},
                            inst : Inst \cup {None}]]
  /\ \A g \in Goroutines : go[g].pc \in {"attach", "insert", "launch"} =>
       go[g].req \in Req /\ go[g].inst \in Inst
  /\ reply \in [Req -> {"none", "ok", "error", "left"}]
  /\ rel \in [Req -> {"none", "stop", "free"}]
  /\ evicting \in [Req -> {"none", "mark", "stop"}]
  /\ reaper \in [pc : {"idle", "mark", "free"}, list : SUBSET Req,
                 req : Req \cup {None}]

\* "StateAllocated: locked to a session": as long as a session is active, its
\* device, if the pool still has it, is attached to that session, and allocated, or
\* being destroyed by the pool, which will report that session.
DeviceLocked ==
  \A r \in Req : sess[r] = "active" /\ device[r] \in instances =>
    state[device[r]] \in {"Allocated", "Destroying"} /\ sessionOf[device[r]] = r

\* No device is stranded: one that is allocated belongs to a session that is
\* active or whose end is under way, or to a goroutine about to start one.
NoDeviceStranded ==
  \A i \in instances : state[i] = "Allocated" =>
    \/ \E g \in Goroutines : go[g].inst = i /\ go[g].pc \in {"attach", "insert"}
    \/ \E r \in Req : device[r] = i /\
         (sess[r] = "active" \/ rel[r] # "none" \/ reaper.req = r)

\* Where the entry of r is: positions in the queue, and workers that have it.
Positions(r) == {n \in DOMAIN queue : queue[n] = r}
Holders(r) == {w \in Workers : go[w].req = r}

\* TryDequeue, PushFront and remove move an entry, they never copy it: a call
\* is served by one worker at most, and not any more once it has its result.
ServedOnce ==
  \A r \in Req :
    Cardinality(Positions(r)) + Cardinality(Holders(r))
      <= IF result[r] = "none" THEN 1 ELSE 0

\* "Put it back": a call that waits has a result coming, whatever the workers
\* meet on the way.
NoneForgotten ==
  \A r \in Req : go[Creator(r)].pc = "waiting" =>
    result[r] # "none" \/ Positions(r) # {} \/ Holders(r) # {}

\* The broker keeps what it promises its clients: see Service.
Promise == INSTANCE Service WITH
  session <- [r \in Req |-> IF sess[r] \in {"none", "active"} THEN sess[r]
                            ELSE "over"]
PromiseKept == Promise!Spec

\* README: "queue when exhausted".  A queued call is answered: the loop polls,
\* sessions end and their devices come back.
QueuedAnswered ==
  \A r \in Req : go[Creator(r)].pc = "waiting" ~> reply[r] # "none"

-----------------------------------------------------------------------------
(* What comments and documents say and the code does not do *)

\* queue.go: "TryDequeue returns the oldest queued entry".
OldestFirst ==
  [][\A w \in Workers : queue # <<>> /\ go[w].pc # "alloc" /\ go'[w].pc = "alloc" =>
       \A n \in DOMAIN queue : at[go'[w].req] <= at[queue[n]]]_vars

\* ARCHITECTURE.md: "queue (bounded) or 503".
QueueBounded == Len(queue) <= MaxQueue

\* queue.go: "remove removes an entry from the queue (e.g., on timeout)".
LeftIsRemoved == \A n \in DOMAIN queue : reply[queue[n]] # "left"

\* pool.go: "otherwise the session would hang in active forever even though the
\* underlying emulator is gone": such a session is about to be ended.
EvictedIsEnding ==
  \A r \in Req : sess[r] = "active" /\ device[r] \notin instances =>
    evicting[r] = "mark"

\* session.go: the broker "tears them down on release": nothing runs for a
\* session that is over, once nobody is ending it any more.
TornDown ==
  \A r \in live : sess[r] \in {"none", "active"} \/ rel[r] # "none"
                  \/ evicting[r] # "none" \/ reaper.req = r
=============================================================================
