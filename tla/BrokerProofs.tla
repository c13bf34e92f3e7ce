---------------------------- MODULE BrokerProofs ----------------------------
(***************************************************************************)
(* Theorems about Broker, for any number of calls and devices and any size *)
(* of the queue: a call is served by one goroutine at a time, is not       *)
(* forgotten while it waits, and has its device to itself.                 *)
(***************************************************************************)
EXTENDS Broker, SequenceTheorems, FiniteSetTheorems, TLAPS

\* TypeOK, part by part.
PoolTypes ==
  /\ instances \subseteq Inst
  /\ state \in [Inst -> {"New", "Warm", "Allocated", "Resetting", "Destroying"}]
  /\ sessionOf \in [Inst -> Req \cup {None}]
SessTypes ==
  /\ sess \in [Req -> {"none", "active", "released", "timed_out", "interrupted"}]
  /\ device \in [Req -> Inst \cup {None}]
  /\ live \subseteq Req
QueueTypes ==
  /\ queue \in Seq(Req)
  /\ at \in [Req -> Nat]
  /\ result \in [Req -> {"none", "ok", "error"}]
GoTypes ==
  /\ go \in [Goroutines -> [pc : Steps, req : Req \cup {None}, inst : Inst \cup {None}]]
  /\ \A g \in Goroutines : go[g].pc \in {"attach", "insert", "launch"} =>
       go[g].req \in Req /\ go[g].inst \in Inst
  /\ \A g \in Goroutines : go[g].pc \in {"alloc", "specific", "pushback"} => go[g].req \in Req
EndTypes ==
  /\ reply \in [Req -> {"none", "ok", "error", "left"}]
  /\ rel \in [Req -> {"none", "stop", "free"}]
  /\ evicting \in [Req -> {"none", "mark", "stop"}]
  /\ reaper \in [pc : {"idle", "mark", "free"}, list : SUBSET Req, req : Req \cup {None}]
  /\ reaper.pc = "free" => reaper.req \in Req
  /\ reaper.pc # "free" => reaper.req = None
Types == PoolTypes /\ SessTypes /\ QueueTypes /\ GoTypes /\ EndTypes

\* The goroutines are as many different ones as there are calls, and the loop.
LEMMA GoroutineNames ==
  /\ \A r \in Req : Creator(r) \in Goroutines /\ Creator(r) \notin Workers
  /\ \A r \in Req : Drainer(r) \in Workers /\ Drainer(r) # loop
  /\ \A r, q \in Req : Creator(r) = Creator(q) => r = q
  /\ \A r, q \in Req : Drainer(r) = Drainer(q) => r = q
  /\ loop \in Workers /\ Workers \subseteq Goroutines
  /\ \A g \in Goroutines \ Workers : \E r \in Req : g = Creator(r)
BY DEF Goroutines, Workers, Creator, Drainer, loop

\* remove takes out one entry and leaves the others in their order: a position
\* that follows it moves up.
LEMMA Removed ==
  ASSUME queue \in Seq(Req), NEW r \in Req, RemoveEntry(r)
  PROVE  /\ queue' \in Seq(Req)
         /\ \/ UNCHANGED queue /\ \A n \in DOMAIN queue : queue[n] # r
            \/ \E k \in DOMAIN queue :
                 /\ queue[k] = r
                 /\ \A n \in DOMAIN queue' :
                      IF n < k THEN n \in DOMAIN queue /\ queue'[n] = queue[n]
                               ELSE n + 1 \in DOMAIN queue /\ queue'[n] = queue[n + 1]
                 /\ \A n \in DOMAIN queue :
                      /\ n < k => n \in DOMAIN queue' /\ queue'[n] = queue[n]
                      /\ n > k => n - 1 \in DOMAIN queue' /\ queue'[n - 1] = queue[n]
<1>1. CASE UNCHANGED queue /\ \A n \in DOMAIN queue : queue[n] # r
  BY <1>1
<1>2. CASE \E n \in DOMAIN queue :
             /\ queue[n] = r
             /\ queue' = SubSeq(queue, 1, n - 1) \o SubSeq(queue, n + 1, Len(queue))
  <2>1. PICK k \in DOMAIN queue :
             /\ queue[k] = r
             /\ queue' = SubSeq(queue, 1, k - 1) \o SubSeq(queue, k + 1, Len(queue))
    BY <1>2
  <2> DEFINE a == SubSeq(queue, 1, k - 1)
             b == SubSeq(queue, k + 1, Len(queue))
             len == Len(queue)
  <2>2. DOMAIN queue = 1..len /\ len \in Nat /\ k \in 1..len
    BY <2>1
  <2>3. /\ a \in Seq(Req) /\ Len(a) = k - 1
        /\ \A n \in 1..(k - 1) : a[n] = queue[n]
    BY <2>2
  <2>4. /\ b \in Seq(Req) /\ Len(b) = len - k
        /\ \A n \in 1..(len - k) : b[n] = queue[k + n]
    BY <2>2
  <2> HIDE DEF a, b, len
  <2>8. queue' = a \o b
    BY <2>1 DEF a, b, len
  <2>9. /\ queue' \in Seq(Req) /\ Len(queue') = Len(a) + Len(b)
        /\ \A n \in 1..(Len(a) + Len(b)) :
             queue'[n] = IF n <= Len(a) THEN a[n] ELSE b[n - Len(a)]
    BY <2>3, <2>4, <2>8, ConcatProperties
  <2>5. /\ queue' \in Seq(Req) /\ Len(queue') = len - 1 /\ DOMAIN queue' = 1..(len - 1)
        /\ \A n \in 1..(len - 1) : queue'[n] = IF n <= k - 1 THEN a[n] ELSE b[n - (k - 1)]
    BY <2>2, <2>3, <2>4, <2>9
  <2>6. \A n \in 1..(len - 1) :
          IF n < k THEN n \in 1..len /\ queue'[n] = queue[n]
                   ELSE n + 1 \in 1..len /\ queue'[n] = queue[n + 1]
    <3> SUFFICES ASSUME NEW n \in 1..(len - 1)
                 PROVE  IF n < k THEN n \in 1..len /\ queue'[n] = queue[n]
                                 ELSE n + 1 \in 1..len /\ queue'[n] = queue[n + 1]
      OBVIOUS
    <3>1. CASE n < k
      BY <2>2, <2>3, <2>5, <3>1
    <3>2. CASE n >= k
      <4> DEFINE j == n - (k - 1)
      <4>1. j \in 1..(len - k) /\ k + j = n + 1
        BY <2>2, <3>2
      <4>2. queue'[n] = b[j]
        BY <2>2, <2>5, <3>2
      <4> HIDE DEF j
      <4> QED
        BY <2>2, <2>4, <3>2, <4>1, <4>2
    <3> QED
      BY <2>2, <3>1, <3>2
  <2>7. \A n \in 1..len :
          /\ n < k => n \in 1..(len - 1) /\ queue'[n] = queue[n]
          /\ n > k => n - 1 \in 1..(len - 1) /\ queue'[n - 1] = queue[n]
    BY <2>2, <2>6
  <2> QED
    BY <2>1, <2>2, <2>5, <2>6, <2>7
<1> QED
  BY <1>1, <1>2 DEF RemoveEntry

-----------------------------------------------------------------------------

\* What pool.Release does of the pool's state.
LEMMA PoolReleased ==
  ASSUME PoolTypes, NEW i, NEW failed, PoolRelease(i, failed)
  PROVE  \/ UNCHANGED poolVars
         \/ /\ i \in instances
            /\ sessionOf' = [sessionOf EXCEPT ![i] = None]
            /\ \/ /\ state' = [state EXCEPT ![i] = "Resetting"]
                  /\ UNCHANGED instances
               \/ instances' = instances \ {i} /\ UNCHANGED state
BY DEF PoolRelease

\* One step keeps the types.
LEMMA PoolKept == ASSUME Types, [Next]_vars PROVE PoolTypes'
<1> USE DEF Types, PoolTypes
<1>1. ASSUME NEW g \in Goroutines, Allocate(g)
      PROVE  PoolTypes'
  BY <1>1 DEF Allocate, Warm
<1>2. ASSUME NEW g \in Goroutines, Attach(g)
      PROVE  PoolTypes'
  BY <1>2 DEF Attach, GoTypes
<1>3. ASSUME NEW i, NEW failed, PoolRelease(i, failed)
      PROVE  PoolTypes'
  BY <1>3, PoolReleased DEF poolVars
<1>4. ASSUME NEW i \in Inst, ResetEnd(i) \/ Destroy(i) \/ Evict(i)
      PROVE  PoolTypes'
  BY <1>4 DEF ResetEnd, Destroy, Evict
<1>5. CASE UNCHANGED poolVars
  BY <1>5 DEF poolVars
<1>6. ASSUME NEW g \in Goroutines, Exhausted(g) \/ AllocateFails(g) \/ Insert(g) \/ Launch(g)
      PROVE  UNCHANGED poolVars
  BY <1>6 DEF Exhausted, AllocateFails, Insert, Launch
<1>7. ASSUME NEW g \in Goroutines, Serve(g)
      PROVE  PoolTypes'
  BY <1>1, <1>2, <1>5, <1>6, <1>7 DEF Serve
<1> QED
  BY <1>3, <1>4, <1>5, <1>7, GoroutineNames
  DEF Next, Create, Request, Enqueue, Receive, GiveUp, Release, Ending, ReleaseStop,
      ReleaseFree, EvictMark, EvictStop, Work, TryDequeue, PushFront, ExpireScan, Expiring,
      ExpireMark, ExpireFree, vars

\* One step keeps the types of the sessions.
LEMMA SessKept == ASSUME Types, [Next]_vars PROVE SessTypes'
<1> USE DEF Types, SessTypes
<1>1. ASSUME NEW g \in Goroutines, Insert(g)
      PROVE  SessTypes'
  BY <1>1 DEF Insert, GoTypes
<1>2. ASSUME NEW g \in Goroutines, Launch(g)
      PROVE  SessTypes'
  BY <1>2 DEF Launch, GoTypes
<1>3. ASSUME NEW r \in Req,
             Release(r) \/ ReleaseStop(r) \/ ExpireMark(r) \/ EvictMark(r) \/ EvictStop(r)
      PROVE  SessTypes'
  BY <1>3 DEF Release, ReleaseStop, ExpireMark, EvictMark, EvictStop
<1>4. CASE UNCHANGED sessVars
  BY <1>4 DEF sessVars
<1>5. ASSUME NEW g \in Goroutines, Serve(g)
      PROVE  SessTypes'
  BY <1>1, <1>2, <1>4, <1>5 DEF Serve, Allocate, Exhausted, AllocateFails, Attach
<1> QED
  BY <1>3, <1>4, <1>5, GoroutineNames
  DEF Next, Create, Request, Enqueue, Receive, GiveUp, Ending, ReleaseFree, Work, TryDequeue,
      PushFront, ExpireScan, Expiring, ExpireFree, ResetEnd, Destroy, Evict, vars

\* One step keeps the types of the queue.
LEMMA QueueKept == ASSUME Types, [Next]_vars PROVE QueueTypes'
<1> USE DEF Types, QueueTypes
<1>1. ASSUME NEW r \in Req, Enqueue(r)
      PROVE  QueueTypes'
  <2>1. Cardinality({s \in Req : at[s] > 0}) \in Nat
    BY BrokerAssumption, FS_Subset, FS_CardinalityType
  <2>2. CASE UNCHANGED <<queue, at>>
    BY <1>1, <2>2 DEF Enqueue
  <2>3. CASE queue' = Append(queue, r)
    <3>1. queue' \in Seq(Req)
      BY <2>3
    <3>2. UNCHANGED at \/ at' = [at EXCEPT ![r] = 1 + Cardinality({s \in Req : at[s] > 0})]
      BY <1>1 DEF Enqueue
    <3> QED
      BY <1>1, <2>1, <3>1, <3>2 DEF Enqueue
  <2> QED
    BY <1>1, <2>2, <2>3 DEF Enqueue
<1>2. ASSUME NEW r \in Req, Receive(r)
      PROVE  QueueTypes'
  BY <1>2 DEF Receive
<1>3. ASSUME NEW w \in Workers, TryDequeue(w)
      PROVE  QueueTypes'
  <2>1. UNCHANGED <<at, result>>
    BY <1>3 DEF TryDequeue
  <2>2. CASE queue # <<>> /\ queue' = Tail(queue)
    <3>1. queue' \in Seq(Req)
      BY <2>2, HeadTailProperties
    <3> QED
      BY <2>1, <3>1
  <2> QED
    BY <1>3, <2>1, <2>2 DEF TryDequeue
<1>4. ASSUME NEW w \in Workers, PushFront(w)
      PROVE  QueueTypes'
  BY <1>4, GoroutineNames DEF PushFront, GoTypes
<1>5. ASSUME NEW g \in Goroutines, AllocateFails(g) \/ Launch(g)
      PROVE  QueueTypes'
  BY <1>5 DEF AllocateFails, Launch
<1>6. CASE UNCHANGED queueVars
  BY <1>6 DEF queueVars
<1>7. ASSUME NEW g \in Goroutines, Serve(g)
      PROVE  QueueTypes'
  BY <1>5, <1>6, <1>7 DEF Serve, Allocate, Exhausted, Attach, Insert
<1>8. ASSUME NEW r \in Req, GiveUp(r)
      PROVE  QueueTypes'
  BY <1>8, Removed DEF GiveUp
<1> QED
  BY <1>1, <1>2, <1>3, <1>4, <1>6, <1>7, <1>8, GoroutineNames
  DEF Next, Create, Request, Release, Ending, ReleaseStop, ReleaseFree, EvictMark,
      EvictStop, Work, ExpireScan, Expiring, ExpireMark, ExpireFree, ResetEnd, Destroy, Evict, vars

\* One step keeps the types of the goroutines.
LEMMA GoKept == ASSUME Types, [Next]_vars PROVE GoTypes'
<1> USE DEF Types, GoTypes
<1>1. ASSUME NEW g \in Goroutines, NEW x \in {"idle", "done"},
             go' = [go EXCEPT ![g] = [pc |-> x, req |-> None, inst |-> None]]
      PROVE  GoTypes'
  BY <1>1 DEF Steps
<1>14. ASSUME NEW g \in Goroutines, End(g)
       PROVE  GoTypes'
  BY <1>1, <1>14 DEF End, Idle
<1>15. ASSUME NEW r \in Req, NEW a, Answer(r, a)
       PROVE  GoTypes'
  <2>1. [Idle EXCEPT !.pc = "done"] = [pc |-> "done", req |-> None, inst |-> None]
    BY DEF Idle
  <2> QED
    BY <1>1, <1>15, <2>1, GoroutineNames DEF Answer
<1>2. ASSUME NEW g \in Goroutines, NEW step \in {"enqueue", "waiting", "pushback", "take"},
             Goto(g, step), step = "pushback" => go[g].req \in Req
      PROVE  GoTypes'
  BY <1>2 DEF Goto, Steps
<1>3. ASSUME NEW r \in Req, Create(r)
      PROVE  GoTypes'
  BY <1>3, GoroutineNames DEF Create, Steps
<1>4. ASSUME NEW g \in Goroutines, Allocate(g)
      PROVE  GoTypes'
  <2>1. PICK i \in Inst : go' = [go EXCEPT ![g].pc = "attach", ![g].inst = i]
    BY <1>4 DEF Allocate, Warm, PoolTypes
  <2>2. go[g].req \in Req
    BY <1>4 DEF Allocate
  <2> QED
    BY <2>1, <2>2 DEF Steps
<1>5. ASSUME NEW g \in Goroutines, Exhausted(g)
      PROVE  GoTypes'
  <2>1. /\ go[g].req \in Req
        /\ (\E a : Answer(go[g].req, a)) \/ \E step \in {"enqueue", "pushback"} : Goto(g, step)
    BY <1>5 DEF Exhausted
  <2> QED
    BY <1>2, <1>15, <2>1
<1>6. ASSUME NEW g \in Goroutines, AllocateFails(g)
      PROVE  GoTypes'
  BY <1>14, <1>15, <1>2, <1>6 DEF AllocateFails
<1>7. ASSUME NEW g \in Goroutines, Attach(g) \/ Insert(g)
      PROVE  GoTypes'
  BY <1>7 DEF Attach, Insert, Goto, Steps
<1>8. ASSUME NEW g \in Goroutines, Launch(g)
      PROVE  GoTypes'
  BY <1>14, <1>15, <1>8 DEF Launch
<1>9. ASSUME NEW r \in Req, Enqueue(r) \/ Receive(r) \/ GiveUp(r) \/ ReleaseFree(r)
      PROVE  GoTypes'
  <2>1. (\E a \in {"ok", "error", "left"} : Answer(r, a)) \/ Goto(Creator(r), "waiting")
           \/ Goto(Drainer(r), "take") \/ UNCHANGED go
    BY <1>9 DEF Enqueue, Receive, GiveUp, ReleaseFree, QueueTypes
  <2> QED
    BY <1>14, <1>15, <1>2, <2>1, GoroutineNames
<1>10. ASSUME NEW w \in Workers, TryDequeue(w)
       PROVE  GoTypes'
  <2>1. CASE queue # <<>> /\ go' = [go EXCEPT ![w] =
                    [pc |-> "alloc", req |-> Head(queue), inst |-> None]]
    <3>1. Head(queue) \in Req
      BY <2>1, HeadTailProperties DEF QueueTypes
    <3> QED
      BY <2>1, <3>1, GoroutineNames DEF Steps
  <2>2. CASE End(w)
    BY <1>14, <1>15, <2>2, GoroutineNames
  <2> QED
    BY <1>10, <2>1, <2>2 DEF TryDequeue
<1>11. ASSUME NEW w \in Workers, PushFront(w)
       PROVE  GoTypes'
  BY <1>14, <1>15, <1>11, GoroutineNames DEF PushFront
<1>12. CASE UNCHANGED go
  BY <1>12
<1>13. ASSUME NEW g \in Goroutines, Serve(g)
       PROVE  GoTypes'
  BY <1>4, <1>5, <1>6, <1>7, <1>8, <1>13 DEF Serve
<1> QED
  BY <1>3, <1>9, <1>10, <1>11, <1>12, <1>13, GoroutineNames
  DEF Next, Request, Release, Ending, ReleaseStop, EvictMark, EvictStop, Work, ExpireScan,
      Expiring, ExpireMark, ExpireFree, ResetEnd, Destroy, Evict, vars

\* One step keeps the types of answers and of what ends sessions.
LEMMA EndKept == ASSUME Types, [Next]_vars PROVE EndTypes'
<1> USE DEF Types, EndTypes
<1>1. ASSUME NEW r \in Req, NEW a \in {"ok", "error", "left"}, Answer(r, a), UNCHANGED enders
      PROVE  EndTypes'
  BY <1>1 DEF Answer, enders
<1>2. ASSUME NEW g \in Goroutines, Exhausted(g) \/ AllocateFails(g) \/ Launch(g)
      PROVE  EndTypes'
  <2>1. /\ UNCHANGED enders
        /\ UNCHANGED reply \/ \E a \in {"ok", "error"} : Answer(go[g].req, a)
    BY <1>2 DEF Exhausted, AllocateFails, Launch
  <2>2. go[g].req \in Req
    BY <1>2 DEF Exhausted, AllocateFails, Launch, GoTypes
  <2> QED
    BY <1>1, <2>1, <2>2 DEF enders
<1>3. ASSUME NEW r \in Req, Enqueue(r) \/ Receive(r) \/ GiveUp(r)
      PROVE  EndTypes'
  <2>1. /\ UNCHANGED enders
        /\ UNCHANGED reply \/ \E a \in {"ok", "error", "left"} : Answer(r, a)
    BY <1>3 DEF Enqueue, Receive, GiveUp, QueueTypes
  <2> QED
    BY <1>1, <2>1 DEF enders
<1>4. ASSUME NEW r \in Req,
             Release(r) \/ ReleaseStop(r) \/ ReleaseFree(r) \/ EvictMark(r) \/ EvictStop(r)
      PROVE  EndTypes'
  BY <1>4 DEF Release, ReleaseStop, ReleaseFree, EvictMark, EvictStop
<1>5. ASSUME NEW i \in Inst, Evict(i)
      PROVE  EndTypes'
  BY <1>5 DEF Evict, PoolTypes
<1>6. ASSUME NEW s \in SUBSET Req, ExpireScan(s)
      PROVE  EndTypes'
  BY <1>6 DEF ExpireScan
<1>7. ASSUME NEW r \in Req, ExpireMark(r)
      PROVE  EndTypes'
  BY <1>7 DEF ExpireMark
<1>8. CASE ExpireFree
  BY <1>8 DEF ExpireFree
<1>9. CASE UNCHANGED <<reply, enders>>
  BY <1>9 DEF enders
<1>10. ASSUME NEW g \in Goroutines, Serve(g)
       PROVE  EndTypes'
  BY <1>2, <1>9, <1>10 DEF Serve, Allocate, Attach, Insert
<1> QED
  BY <1>3, <1>4, <1>5, <1>6, <1>7, <1>8, <1>9, <1>10, GoroutineNames
  DEF Next, Create, Request, Ending, Work, TryDequeue, PushFront, Expiring, ResetEnd, Destroy, vars

\* The broker's variables keep their types, and a goroutine that starts a session
\* has a call and a device for it.
THEOREM TypeCorrect == Spec => []TypeOK
<1>1. Init => Types
  BY GoroutineNames
  DEF Init, Types, PoolTypes, SessTypes, QueueTypes, GoTypes, EndTypes, Idle, Steps
<1>2. Types /\ [Next]_vars => Types'
  BY PoolKept, SessKept, QueueKept, GoKept, EndKept DEF Types
<1>3. Types => TypeOK
  BY DEF Types, PoolTypes, SessTypes, QueueTypes, GoTypes, EndTypes, TypeOK
<1> QED
  BY <1>1, <1>2, <1>3, PTL DEF Spec

-----------------------------------------------------------------------------
(* One goroutine serves a call.                                            *)

\* Its entry is in the queue, or a worker has it.
Queued(r) == \E n \in DOMAIN queue : queue[n] = r
Held(r) == \E w \in Workers : go[w].req = r

\* Workers have a call exactly as long as they work for it.
WorkersBusy ==
  \A w \in Workers :
    /\ go[w].pc \in {"idle", "take"} => go[w].req = None
    /\ go[w].pc \in {"idle", "take", "alloc", "pushback", "attach", "insert", "launch"}

\* The client waits, or has left without an answer.
Waits(r) ==
  \/ go[Creator(r)].pc = "waiting"
  \/ go[Creator(r)].pc = "done" /\ reply[r] = "left"

\* The goroutine of Create works for its own call, on its own: an entry is in the
\* queue or with a worker only for a client that waits or has left.
CreatorAlone ==
  \A r \in Req :
    LET c == go[Creator(r)] IN
    /\ c.pc \in {"alloc", "specific", "enqueue", "attach", "insert", "launch"} => c.req = r
    /\ ~Waits(r) => ~Queued(r) /\ ~Held(r) /\ result[r] = "none"
    /\ c.pc \in {"idle", "alloc", "specific", "enqueue", "attach", "insert"}
         => sess[r] = "none"
    /\ c.pc \notin {"take", "pushback"}

\* A call that waits is in one place, and has no session before a worker inserts it.
OnePlace ==
  /\ \A m, n \in DOMAIN queue : queue[m] = queue[n] => m = n
  /\ \A v, w \in Workers : go[v].req \in Req /\ go[v].req = go[w].req => v = w
  /\ \A r \in Req :
       /\ Queued(r) => ~Held(r) /\ result[r] = "none" /\ sess[r] = "none"
       /\ Held(r) => result[r] = "none"
  /\ \A w \in Workers :
       go[w].pc \in {"alloc", "pushback", "attach", "insert"} => sess[go[w].req] = "none"

\* A session is released once, and its drain starts afterwards.
DrainerRests ==
  \A r \in Req :
    /\ rel[r] # "none" => sess[r] \notin {"none", "active"}
    /\ sess[r] \in {"none", "active"} \/ rel[r] # "none" => go[Drainer(r)] = Idle

Single == WorkersBusy /\ CreatorAlone /\ OnePlace /\ DrainerRests

\* The sessions the timeout loop has listed exist.
Listed == \A r \in reaper.list : sess[r] # "none"

\* One step never unmakes a session.
LEMMA ListedKept == ASSUME Types, Listed, [Next]_vars PROVE Listed'
<1> USE DEF Types, SessTypes, EndTypes, Listed
<1>1. ASSUME UNCHANGED reaper,
             \/ UNCHANGED sess
             \/ \E r \in Req, x \in {"active", "released", "interrupted"} :
                  sess' = [sess EXCEPT ![r] = x]
      PROVE  Listed'
  BY <1>1
<1>2. ASSUME NEW g \in Goroutines, Serve(g)
      PROVE  Listed'
  <2>1. CASE Insert(g)
    BY <1>1, <2>1 DEF Insert, enders, GoTypes
  <2>2. CASE ~Insert(g)
    BY <1>1, <1>2, <2>2
    DEF Serve, Allocate, Exhausted, AllocateFails, Attach, Launch, sessVars, enders
  <2> QED
    BY <2>1, <2>2
<1>3. ASSUME NEW r \in Req, Release(r) \/ EvictMark(r)
      PROVE  Listed'
  BY <1>1, <1>3 DEF Release, EvictMark
<1>4. ASSUME NEW s \in SUBSET Req, ExpireScan(s)
      PROVE  Listed'
  BY <1>4 DEF ExpireScan, sessVars
<1>5. ASSUME NEW r \in Req, ExpireMark(r)
      PROVE  Listed'
  <2>1. reaper'.list \subseteq reaper.list /\ sess' = [sess EXCEPT ![r] = "timed_out"]
    BY <1>5 DEF ExpireMark
  <2> QED
    BY <2>1
<1>6. CASE ExpireFree
  <2>1. reaper'.list = reaper.list /\ UNCHANGED sess
    BY <1>6 DEF ExpireFree, sessVars
  <2> QED
    BY <2>1
<1> QED
  BY <1>1, <1>2, <1>3, <1>4, <1>5, <1>6, GoroutineNames
  DEF Next, Create, Request, Enqueue, Receive, GiveUp, Ending, ReleaseStop, ReleaseFree,
      EvictStop, Work, TryDequeue, PushFront, Expiring, ResetEnd, Destroy, Evict, vars, sessVars,
      enders

\* One step leaves a call with one goroutine.
LEMMA SingleKept ==
  ASSUME Types, Listed, Single, [Next]_vars
  PROVE  Single'
<1> USE GoroutineNames DEF Single, Queued, Held, Waits
<1>0. /\ go \in [Goroutines -> [pc : Steps, req : Req \cup {None}, inst : Inst \cup {None}]]
      /\ queue \in Seq(Req)
      /\ sess \in [Req -> {"none", "active", "released", "timed_out", "interrupted"}]
      /\ result \in [Req -> {"none", "ok", "error"}]
      /\ rel \in [Req -> {"none", "stop", "free"}]
      /\ reply \in [Req -> {"none", "ok", "error", "left"}]
  BY DEF Types, SessTypes, QueueTypes, GoTypes, EndTypes
<1>1. ASSUME NEW r \in Req, Create(r)
      PROVE  Single'
  <2>1. PICK step \in {"alloc", "specific"} :
             go' = [go EXCEPT ![Creator(r)] = [pc |-> step, req |-> r, inst |-> None]]
    BY <1>0, <1>1 DEF Create
  <2>2. UNCHANGED <<queueVars, sessVars, reply, enders>> /\ go[Creator(r)].pc = "idle"
    BY <1>0, <1>1 DEF Create
  <2>3. \A w \in Workers : go'[w] = go[w]
    BY <1>0, <2>1
  <2>4. WorkersBusy'
    BY <1>0, <2>3 DEF WorkersBusy
  <2>5. CreatorAlone'
    BY <1>0, <2>1, <2>2, <2>3 DEF CreatorAlone, queueVars, sessVars
  <2>6. OnePlace'
    BY <1>0, <2>2, <2>3 DEF OnePlace, queueVars, sessVars
  <2>7. DrainerRests'
    BY <1>0, <2>2, <2>3 DEF DrainerRests, sessVars, enders
  <2> QED
    BY <1>0, <2>4, <2>5, <2>6, <2>7
<1>2. ASSUME NEW g \in Goroutines, NEW step, go' = [go EXCEPT ![g] = step],
             step.req = go[g].req,
             g \in Workers => go[g].pc \notin {"idle", "take"}
               /\ step.pc \in {"alloc", "pushback", "attach", "insert", "launch"}
               /\ (step.pc = "launch" \/ go[g].pc # "launch"),
             g \notin Workers =>
               /\ go[g].pc \in {"alloc", "specific", "attach"}
               /\ step.pc \in {"enqueue", "attach", "insert"},
             UNCHANGED <<queueVars, sess, rel, reply>>
      PROVE  Single'
  <2>1. WorkersBusy'
    BY <1>0, <1>2 DEF WorkersBusy
  <2>2. \A r \in Req : Held(r)' <=> Held(r)
    BY <1>0, <1>2
  <2>3. \A r \in Req : Queued(r)' <=> Queued(r)
    BY <1>0, <1>2 DEF queueVars
  <2>4. CreatorAlone'
    BY <1>0, <1>2, <2>2, <2>3 DEF CreatorAlone, queueVars
  <2>5. OnePlace'
    BY <1>0, <1>2, <2>2, <2>3 DEF OnePlace, queueVars, WorkersBusy
  <2>6. DrainerRests'
    BY <1>0, <1>2 DEF DrainerRests, Idle
  <2> QED
    BY <1>0, <2>1, <2>4, <2>5, <2>6
<1>3. ASSUME NEW r \in Req, go' = [go EXCEPT ![Creator(r)] = [Idle EXCEPT !.pc = "done"]],
             UNCHANGED <<queue, sess, rel>>, NEW a, reply' = [reply EXCEPT ![r] = a],
             \/ UNCHANGED result /\ go[Creator(r)].pc \notin {"waiting", "done"}
             \/ result[r] # "none" /\ result' = [result EXCEPT ![r] = "none"]
      PROVE  Single'
  <2>1. \A w \in Workers : go'[w] = go[w]
    BY <1>0, <1>3
  <2>2. go'[Creator(r)] = [pc |-> "done", req |-> None, inst |-> None]
    BY <1>0, <1>3 DEF Idle
  <2>3. ~Queued(r) /\ ~Held(r) /\ result'[r] = "none"
    BY <1>0, <1>3 DEF CreatorAlone, OnePlace
  <2>4. WorkersBusy'
    BY <1>0, <2>1 DEF WorkersBusy
  <2>5. \A q \in Req : q # r => go'[Creator(q)] = go[Creator(q)] /\ result'[q] = result[q]
                                /\ reply'[q] = reply[q]
    BY <1>0, <1>3
  <2>6. CreatorAlone'
    BY <1>0, <1>3, <2>1, <2>2, <2>3, <2>5 DEF CreatorAlone
  <2>7. OnePlace'
    BY <1>0, <1>3, <2>1, <2>3, <2>5 DEF OnePlace
  <2>8. DrainerRests'
    BY <1>0, <1>3, <2>1 DEF DrainerRests
  <2> QED
    BY <1>0, <2>4, <2>6, <2>7, <2>8
<1>4. ASSUME NEW g \in Workers, End(g), go[g].pc \notin {"idle", "take"},
             NEW x \in {"ok", "error"}, result' = [result EXCEPT ![go[g].req] = x],
             UNCHANGED <<queue, sess, rel, reply>>
      PROVE  Single'
  <2> DEFINE r == go[g].req
  <2>1. r \in Req
    BY <1>0, <1>4 DEF WorkersBusy, Types, GoTypes
  <2>2. Held(r) /\ Waits(r) /\ ~Queued(r)
    BY <1>0, <2>1, <1>4 DEF CreatorAlone, OnePlace
  <2>3. \A w \in Workers : w # g => go'[w] = go[w] /\ go[w].req # r
    BY <1>0, <1>4, <2>1 DEF OnePlace, End
  <2>4. go'[g].pc = "idle" /\ go'[g].req = None
    BY <1>0, <1>4 DEF End, Idle
  <2>5. \A q \in Req : go'[Creator(q)] = go[Creator(q)]
    BY <1>0, <1>4 DEF End
  <2>6. None \notin Req
    BY BrokerAssumption
  <2>7. WorkersBusy'
    BY <1>0, <2>3, <2>4 DEF WorkersBusy
  <2>8. ASSUME NEW q \in Req, Held(q)'
        PROVE  Held(q) /\ q # r
    <3>1. PICK w \in Workers : go'[w].req = q
      BY <1>0, <2>8
    <3> QED
      BY <1>0, <2>3, <2>4, <2>6, <3>1
  <2>12. \A q \in Req : q # r => result'[q] = result[q]
    BY <1>0, <1>4
  <2>9. CreatorAlone'
    BY <1>0, <1>4, <2>2, <2>5, <2>8, <2>12 DEF CreatorAlone
  <2>10. OnePlace'
    <3>1. ASSUME NEW v \in Workers, NEW w \in Workers,
                 go'[v].req \in Req, go'[v].req = go'[w].req
          PROVE  v = w
      <4>1. v # g /\ w # g
        BY <2>4, <2>6, <3>1
      <4> QED
        BY <2>3, <3>1, <4>1 DEF OnePlace
    <3>2. \A q \in Req : Queued(q)' => ~Held(q)' /\ result'[q] = "none" /\ sess'[q] = "none"
      BY <1>0, <1>4, <2>2, <2>8, <2>12 DEF OnePlace
    <3>3. \A q \in Req : Held(q)' => result'[q] = "none"
      BY <1>0, <2>8, <2>12 DEF OnePlace
    <3>4. \A w \in Workers :
            go'[w].pc \in {"alloc", "pushback", "attach", "insert"} => sess'[go'[w].req] = "none"
      BY <1>4, <2>3, <2>4 DEF OnePlace
    <3> QED
      BY <1>0, <1>4, <3>1, <3>2, <3>3, <3>4 DEF OnePlace
  <2>11. DrainerRests'
    BY <1>0, <1>4, <2>3, <2>4 DEF DrainerRests, Idle, End
  <2> QED
    BY <1>0, <2>7, <2>9, <2>10, <2>11
<1>5. ASSUME NEW g \in Goroutines, Insert(g)
      PROVE  Single'
  <2> DEFINE r == go[g].req
  <2>1. /\ r \in Req /\ go[g].pc = "insert" /\ UNCHANGED <<queueVars, rel, reply>>
        /\ sess' = [sess EXCEPT ![r] = "active"]
        /\ go' = [go EXCEPT ![g].pc = "launch"]
    BY <1>0, <1>5 DEF Insert, Goto, enders, Types, GoTypes
  <2>2. \A q \in Req : Held(q)' <=> Held(q)
    BY <1>0, <2>1
  <2>3. \A q \in Req : Queued(q)' <=> Queued(q)
    BY <1>0, <2>1 DEF queueVars
  <2>4. sess[r] = "none" /\ ~Queued(r)
    <3>1. CASE g \in Workers
      <4>1. Held(r)
        BY <1>0, <3>1
      <4> QED
        BY <1>0, <2>1, <3>1, <4>1 DEF OnePlace
    <3>2. CASE g \notin Workers
      BY <1>0, <2>1, <3>2 DEF CreatorAlone
    <3> QED
      BY <1>0, <3>1, <3>2
  <2>5. \A w \in Workers : w # g => go[w].req # r
    <3>1. CASE g \in Workers
      BY <2>1, <3>1 DEF OnePlace
    <3>2. CASE g \notin Workers
      <4>1. g = Creator(r) /\ ~Waits(r)
        BY <2>1, <3>2 DEF CreatorAlone
      <4> QED
        BY <2>1, <4>1 DEF CreatorAlone
    <3> QED
      BY <3>1, <3>2
  <2>6. g # Creator(r) => Waits(r)
    BY <1>0, <2>1 DEF CreatorAlone
  <2>7. go[Drainer(r)] = Idle /\ g # Drainer(r)
    BY <1>0, <2>1, <2>4 DEF DrainerRests, Idle
  <2>8. WorkersBusy'
    BY <1>0, <2>1 DEF WorkersBusy
  <2>9. CreatorAlone'
    BY <1>0, <2>1, <2>2, <2>3, <2>6 DEF CreatorAlone, queueVars
  <2>10. OnePlace'
    BY <1>0, <2>1, <2>2, <2>3, <2>4, <2>5 DEF OnePlace, queueVars
  <2>11. DrainerRests'
    BY <1>0, <2>1, <2>4, <2>7 DEF DrainerRests, Idle
  <2> QED
    BY <1>0, <2>8, <2>9, <2>10, <2>11
<1>6. ASSUME NEW r \in Req, queue' = Append(queue, r), Goto(Creator(r), "waiting"),
             go[Creator(r)].pc = "enqueue", UNCHANGED <<result, sess, rel, reply>>
      PROVE  Single'
  <2>1. \A w \in Workers : go'[w] = go[w]
    BY <1>0, <1>6 DEF Goto
  <2>2. /\ go'[Creator(r)].pc = "waiting"
        /\ \A q \in Req : q # r => go'[Creator(q)] = go[Creator(q)]
    BY <1>0, <1>6 DEF Goto
  <2>3. ~Queued(r) /\ ~Held(r) /\ result[r] = "none" /\ sess[r] = "none"
    BY <1>0, <1>6 DEF CreatorAlone
  <2>4. /\ DOMAIN queue' = 1..(Len(queue) + 1) /\ DOMAIN queue = 1..Len(queue)
        /\ Len(queue) \in Nat
        /\ \A n \in 1..Len(queue) : queue'[n] = queue[n]
        /\ queue'[Len(queue) + 1] = r
    BY <1>0, <1>6
  <2>5. ASSUME NEW q \in Req, q # r
        PROVE  Queued(q)' <=> Queued(q)
    <3>1. ASSUME Queued(q) PROVE Queued(q)'
      <4>1. PICK n \in DOMAIN queue : queue[n] = q
        BY <1>0, <3>1
      <4> QED
        BY <1>0, <2>4, <4>1
    <3>2. ASSUME Queued(q)' PROVE Queued(q)
      <4>1. PICK n \in DOMAIN queue' : queue'[n] = q
        BY <1>0, <3>2
      <4> QED
        BY <1>0, <2>4, <2>5, <4>1
    <3> QED
      BY <1>0, <3>1, <3>2
  <2>6. WorkersBusy'
    BY <1>0, <2>1 DEF WorkersBusy
  <2>7. CreatorAlone'
    BY <1>0, <1>6, <2>1, <2>2, <2>3, <2>5 DEF CreatorAlone
  <2>8. ASSUME NEW m \in DOMAIN queue', NEW n \in DOMAIN queue', queue'[m] = queue'[n]
        PROVE  m = n
    <3>1. CASE m \in DOMAIN queue /\ n \in DOMAIN queue
      BY <1>0, <2>4, <2>8, <3>1 DEF OnePlace
    <3>2. CASE ~(m \in DOMAIN queue /\ n \in DOMAIN queue)
      <4>1. \A k \in DOMAIN queue : queue[k] # r
        BY <1>0, <2>3
      <4> QED
        BY <1>0, <2>4, <2>8, <3>2, <4>1
    <3> QED
      BY <1>0, <3>1, <3>2
  <2>9. OnePlace'
    BY <1>0, <1>6, <2>1, <2>3, <2>5, <2>8 DEF OnePlace
  <2>10. DrainerRests'
    BY <1>0, <1>6, <2>1 DEF DrainerRests
  <2> QED
    BY <1>0, <2>6, <2>7, <2>9, <2>10
<1>7. ASSUME NEW w \in Workers, TryDequeue(w)
      PROVE  Single'
  <2>1. UNCHANGED <<result, sess, rel, reply>> /\ go[w].pc \in {"idle", "take"} /\ go[w].req = None
    BY <1>0, <1>7 DEF TryDequeue, sessVars, enders, WorkersBusy
  <2>2. CASE queue # <<>> /\ queue' = Tail(queue)
               /\ go' = [go EXCEPT ![w] = [pc |-> "alloc", req |-> Head(queue), inst |-> None]]
    <3> DEFINE r == Head(queue)
    <3>1. /\ DOMAIN queue = 1..Len(queue) /\ Len(queue) \in Nat /\ Len(queue) > 0
          /\ DOMAIN queue' = 1..(Len(queue) - 1)
          /\ \A n \in 1..(Len(queue) - 1) : queue'[n] = queue[n + 1]
          /\ queue[1] = r /\ r \in Req
      BY <1>0, <2>2, HeadTailProperties
    <3>2. Queued(r) /\ ~Held(r) /\ result[r] = "none" /\ sess[r] = "none"
      <4>1. 1 \in DOMAIN queue
        BY <1>0, <3>1
      <4>2. Queued(r)
        BY <1>0, <3>1, <4>1
      <4> QED
        BY <1>0, <3>1, <4>2 DEF OnePlace
    <3>3. Waits(r)
      BY <1>0, <3>1, <3>2 DEF CreatorAlone
    <3>4. ASSUME NEW q \in Req, Queued(q)'
          PROVE  Queued(q) /\ q # r
      <4>1. PICK n \in 1..(Len(queue) - 1) : queue'[n] = q
        BY <1>0, <3>1, <3>4
      <4>2. n + 1 \in DOMAIN queue /\ 1 \in DOMAIN queue /\ n + 1 # 1 /\ queue[n + 1] = q
        BY <1>0, <3>1, <4>1
      <4>3. Queued(q)
        BY <1>0, <4>2
      <4> QED
        BY <1>0, <3>1, <4>2, <4>3 DEF OnePlace
    <3>5. \A v \in Workers : v # w => go'[v] = go[v] /\ go[v].req # r
      BY <1>0, <2>2, <3>1, <3>2
    <3>6. go'[w].pc = "alloc" /\ go'[w].req = r
      BY <1>0, <2>2
    <3>7. \A q \in Req : go'[Creator(q)] = go[Creator(q)]
      BY <1>0, <2>2
    <3>8. \A q \in Req : Held(q)' => Held(q) \/ q = r
      BY <1>0, <3>5, <3>6
    <3>9. WorkersBusy'
      BY <1>0, <3>5, <3>6 DEF WorkersBusy
    <3>10. CreatorAlone'
      <4>1. ASSUME NEW q \in Req, ~Waits(q)
            PROVE  ~Queued(q)' /\ ~Held(q)'
        BY <1>0, <3>3, <3>4, <3>8, <4>1 DEF CreatorAlone
      <4> QED
        BY <1>0, <2>1, <3>7, <4>1 DEF CreatorAlone
    <3>11. ASSUME NEW m \in DOMAIN queue', NEW n \in DOMAIN queue', queue'[m] = queue'[n]
           PROVE  m = n
      <4>1. m + 1 \in DOMAIN queue /\ n + 1 \in DOMAIN queue /\ queue[m + 1] = queue[n + 1]
        BY <1>0, <3>1, <3>11
      <4> QED
        BY <1>0, <3>1, <4>1 DEF OnePlace
    <3>12. OnePlace'
      <4>1. \A u, v \in Workers : go'[u].req \in Req /\ go'[u].req = go'[v].req => u = v
        BY <1>0, <3>5, <3>6 DEF OnePlace
      <4>2. ASSUME NEW q \in Req, Queued(q)'
            PROVE  ~Held(q)' /\ result'[q] = "none" /\ sess'[q] = "none"
        BY <1>0, <2>1, <3>4, <3>8, <4>2 DEF OnePlace
      <4>3. \A q \in Req : Held(q)' => result'[q] = "none"
        BY <1>0, <2>1, <3>2, <3>8 DEF OnePlace
      <4>4. \A v \in Workers :
              go'[v].pc \in {"alloc", "pushback", "attach", "insert"} => sess'[go'[v].req] = "none"
        BY <1>0, <2>1, <3>2, <3>5, <3>6 DEF OnePlace
      <4> QED
        BY <1>0, <3>11, <4>1, <4>2, <4>3, <4>4 DEF OnePlace
    <3>13. DrainerRests'
      <4>1. ASSUME NEW q \in Req, w = Drainer(q)
            PROVE  sess[q] \notin {"none", "active"} /\ rel[q] = "none"
        <5>1. go[w].pc = "take"
          BY <1>0, <1>7, <4>1 DEF TryDequeue
        <5> QED
          BY <1>0, <4>1, <5>1 DEF DrainerRests, Idle
      <4> QED
        BY <1>0, <2>1, <3>5, <4>1 DEF DrainerRests
    <3> QED
      BY <1>0, <3>9, <3>10, <3>12, <3>13
  <2>3. CASE End(w) /\ UNCHANGED queue
    <3>1. /\ go'[w] = Idle /\ go'[w].pc = "idle" /\ go'[w].req = None
          /\ \A g \in Goroutines : g # w => go'[g] = go[g]
      BY <1>0, <2>3 DEF End, Idle
    <3>2. \A q \in Req : go'[Creator(q)] = go[Creator(q)]
      BY <1>0, <3>1
    <3>7. None \notin Req
      BY BrokerAssumption
    <3>8. ASSUME NEW q \in Req, Held(q)'
          PROVE  Held(q)
      <4>1. PICK v \in Workers : go'[v].req = q
        BY <1>0, <3>8
      <4> QED
        BY <1>0, <3>1, <3>7, <4>1
    <3>3. WorkersBusy'
      BY <1>0, <3>1 DEF WorkersBusy, Idle
    <3>4. CreatorAlone'
      BY <1>0, <2>1, <2>3, <3>2, <3>8 DEF CreatorAlone
    <3>5. OnePlace'
      <4>1. ASSUME NEW u \in Workers, NEW v \in Workers,
                   go'[u].req \in Req, go'[u].req = go'[v].req
            PROVE  u = v
        <5>1. u # w /\ v # w
          BY <3>1, <3>7, <4>1
        <5> QED
          BY <1>0, <3>1, <4>1, <5>1 DEF OnePlace
      <4>2. \A v \in Workers :
              go'[v].pc \in {"alloc", "pushback", "attach", "insert"} => sess'[go'[v].req] = "none"
        BY <1>0, <2>1, <3>1 DEF OnePlace
      <4> QED
        BY <1>0, <2>1, <2>3, <3>8, <4>1, <4>2 DEF OnePlace
    <3>6. DrainerRests'
      BY <1>0, <2>1, <3>1 DEF DrainerRests
    <3> QED
      BY <1>0, <3>3, <3>4, <3>5, <3>6
  <2> QED
    BY <1>0, <1>7, <2>2, <2>3 DEF TryDequeue
<1>8. ASSUME NEW w \in Workers, PushFront(w)
      PROVE  Single'
  <2> DEFINE r == go[w].req
  <2>1. /\ go[w].pc = "pushback" /\ r \in Req /\ queue' = <<r>> \o queue
        /\ go' = [go EXCEPT ![w] = Idle] /\ UNCHANGED <<result, sess, rel, reply>>
    BY <1>0, <1>8 DEF PushFront, End, sessVars, enders, Types, GoTypes
  <2>2. Held(r)
    BY <2>1
  <2>3. /\ ~Queued(r) /\ result[r] = "none" /\ sess[r] = "none"
        /\ Waits(r)
    BY <2>1, <2>2 DEF OnePlace, CreatorAlone
  <2>4. /\ DOMAIN queue = 1..Len(queue) /\ DOMAIN queue' = 1..(Len(queue) + 1)
        /\ Len(queue) \in Nat /\ queue'[1] = r
        /\ \A n \in 2..(Len(queue) + 1) : queue'[n] = queue[n - 1]
    BY <1>0, <2>1
  <2>5. None \notin Req
    BY BrokerAssumption
  <2>6. /\ go'[w] = Idle /\ go'[w].pc = "idle" /\ go'[w].req = None
        /\ \A g \in Goroutines : g # w => go'[g] = go[g]
    BY <1>0, <2>1 DEF Idle
  <2>7. \A v \in Workers : v # w => go[v].req # r
    BY <2>1 DEF OnePlace
  <2>8. ASSUME NEW q \in Req, Held(q)'
        PROVE  Held(q) /\ q # r
    <3>1. PICK v \in Workers : go'[v].req = q
      BY <2>8
    <3> QED
      BY <2>5, <2>6, <2>7, <3>1
  <2>9. ASSUME NEW q \in Req, Queued(q)', q # r
        PROVE  Queued(q)
    <3>1. PICK n \in 1..(Len(queue) + 1) : queue'[n] = q
      BY <2>4, <2>9
    <3>2. n - 1 \in DOMAIN queue /\ queue[n - 1] = q
      BY <2>4, <2>9, <3>1
    <3> QED
      BY <3>2
  <2>10. WorkersBusy'
    BY <2>6 DEF WorkersBusy
  <2>11. CreatorAlone'
    <3>1. ASSUME NEW q \in Req, ~Waits(q)
          PROVE  ~Queued(q)' /\ ~Held(q)'
      BY <2>3, <2>8, <2>9, <3>1 DEF CreatorAlone
    <3> QED
      BY <2>1, <2>6, <3>1 DEF CreatorAlone
  <2>12. ASSUME NEW m \in DOMAIN queue', NEW n \in DOMAIN queue', queue'[m] = queue'[n]
         PROVE  m = n
    <3>1. \A k \in DOMAIN queue : queue[k] # r
      BY <2>3
    <3>2. \A k \in DOMAIN queue' : k # 1 => k - 1 \in DOMAIN queue /\ queue'[k] = queue[k - 1]
      BY <2>4
    <3>3. CASE m = 1 \/ n = 1
      BY <2>4, <2>12, <3>1, <3>2, <3>3
    <3>4. CASE m # 1 /\ n # 1
      <4>1. m - 1 = n - 1
        BY <2>12, <3>2, <3>4 DEF OnePlace
      <4> QED
        BY <2>4, <4>1
    <3> QED
      BY <3>3, <3>4
  <2>13. OnePlace'
    <3>1. ASSUME NEW u \in Workers, NEW v \in Workers,
                 go'[u].req \in Req, go'[u].req = go'[v].req
          PROVE  u = v
      <4>1. u # w /\ v # w
        BY <2>5, <2>6, <3>1
      <4> QED
        BY <2>6, <3>1, <4>1 DEF OnePlace
    <3>2. ASSUME NEW q \in Req, Queued(q)'
          PROVE  ~Held(q)' /\ result'[q] = "none" /\ sess'[q] = "none"
      BY <2>1, <2>3, <2>8, <2>9, <3>2 DEF OnePlace
    <3>3. \A q \in Req : Held(q)' => result'[q] = "none"
      BY <2>1, <2>8 DEF OnePlace
    <3>4. \A v \in Workers :
            go'[v].pc \in {"alloc", "pushback", "attach", "insert"} => sess'[go'[v].req] = "none"
      BY <2>1, <2>6 DEF OnePlace
    <3> QED
      BY <2>12, <3>1, <3>2, <3>3, <3>4 DEF OnePlace
  <2>14. DrainerRests'
    BY <2>1, <2>6 DEF DrainerRests
  <2> QED
    BY <2>10, <2>11, <2>13, <2>14
<1>9. ASSUME UNCHANGED <<queueVars, go, reply>>, NEW r \in Req,
             \/ /\ sess[r] = "active" /\ rel[r] = "none"
                /\ sess' = [sess EXCEPT ![r] = "released"]
                /\ rel' = [rel EXCEPT ![r] = "stop"]
             \/ /\ sess[r] # "none" /\ UNCHANGED rel
                /\ \E x \in {"interrupted", "timed_out"} : sess' = [sess EXCEPT ![r] = x]
             \/ /\ rel[r] = "stop" /\ UNCHANGED sess
                /\ rel' = [rel EXCEPT ![r] = "free"]
             \/ /\ rel[r] = "free" /\ UNCHANGED sess
                /\ rel' = [rel EXCEPT ![r] = "none"]
      PROVE  Single'
  <2>1. WorkersBusy'
    BY <1>9 DEF WorkersBusy
  <2>2. \A q \in Req : sess'[q] = sess[q] \/ (sess[q] # "none" /\ sess'[q] # "none")
    BY <1>0, <1>9
  <2>3. CreatorAlone'
    BY <1>9, <2>2 DEF CreatorAlone, queueVars
  <2>4. OnePlace'
    <3>1. \A w \in Workers :
            go[w].pc \in {"alloc", "pushback", "attach", "insert"} => go[w].req \in Req
      BY DEF Types, GoTypes
    <3> QED
      BY <1>9, <2>2, <3>1 DEF OnePlace, queueVars
  <2>5. DrainerRests'
    BY <1>0, <1>9 DEF DrainerRests
  <2> QED
    BY <2>1, <2>3, <2>4, <2>5
<1>10. ASSUME NEW r \in Req, ReleaseFree(r)
       PROVE  Single'
  <2>1. /\ rel[r] = "free" /\ rel' = [rel EXCEPT ![r] = "none"]
        /\ UNCHANGED <<queueVars, sess, reply>> /\ (UNCHANGED go \/ Goto(Drainer(r), "take"))
    BY <1>10 DEF ReleaseFree, sessVars
  <2>2. CASE Goto(Drainer(r), "take")
    <3>1. /\ go[Drainer(r)].pc = "idle" /\ go[Drainer(r)].req = None
          /\ sess[r] \notin {"none", "active"}
      BY <2>1 DEF DrainerRests, Idle
    <3>2. /\ go'[Drainer(r)].pc = "take" /\ go'[Drainer(r)].req = None
          /\ \A g \in Goroutines : g # Drainer(r) => go'[g] = go[g]
      BY <1>0, <2>2, <3>1 DEF Goto
    <3>3. \A g \in Goroutines : go'[g].req = go[g].req
      BY <3>1, <3>2
    <3>4. \A q \in Req : Held(q)' <=> Held(q)
      BY <3>3
    <3>5. WorkersBusy'
      BY <3>2 DEF WorkersBusy
    <3>6. CreatorAlone'
      BY <2>1, <3>2, <3>4 DEF CreatorAlone, queueVars
    <3>7. OnePlace'
      BY <2>1, <3>2, <3>3, <3>4 DEF OnePlace, queueVars
    <3>8. DrainerRests'
      BY <1>0, <2>1, <3>1, <3>2 DEF DrainerRests
    <3> QED
      BY <3>5, <3>6, <3>7, <3>8
  <2> QED
    BY <1>9, <2>1, <2>2
<1>11. CASE UNCHANGED <<queueVars, go, sess, rel, reply>>
  BY <1>11 DEF WorkersBusy, CreatorAlone, OnePlace, DrainerRests, queueVars
<1>12. ASSUME NEW g \in Goroutines, Allocate(g)
       PROVE  Single'
  <2>1. PICK i : go' = [go EXCEPT ![g].pc = "attach", ![g].inst = i]
    BY <1>12 DEF Allocate
  <2> DEFINE y == [go[g] EXCEPT !.pc = "attach", !.inst = i]
  <2>2. y.pc = "attach" /\ y.req = go[g].req
    BY <1>0
  <2>4. go' = [go EXCEPT ![g] = y]
    BY <1>0, <2>1, Zenon
  <2>3. UNCHANGED <<queueVars, sess, rel, reply>> /\ go[g].pc \in {"alloc", "specific"}
    BY <1>12 DEF Allocate, sessVars, enders
  <2> QED
    BY <1>2, <2>2, <2>3, <2>4
<1>22. ASSUME NEW g \in Goroutines, Attach(g)
       PROVE  Single'
  <2> DEFINE y == [go[g] EXCEPT !.pc = "insert"]
  <2>1. go' = [go EXCEPT ![g] = y] /\ y.pc = "insert" /\ y.req = go[g].req
    BY <1>0, <1>22 DEF Attach, Goto
  <2>2. UNCHANGED <<queueVars, sess, rel, reply>> /\ go[g].pc = "attach"
    BY <1>22 DEF Attach, sessVars, enders
  <2> QED
    BY <1>2, <2>1, <2>2
<1>13. ASSUME NEW g \in Goroutines, NEW x \in {"enqueue", "pushback"}, Goto(g, x),
              go[g].pc = "alloc", x = "enqueue" <=> g \notin Workers,
              UNCHANGED <<queueVars, sess, rel, reply>>
       PROVE  Single'
  <2> DEFINE y == [go[g] EXCEPT !.pc = x]
  <2>1. go' = [go EXCEPT ![g] = y] /\ y.pc = x /\ y.req = go[g].req
    BY <1>0, <1>13 DEF Goto
  <2> QED
    BY <1>2, <1>13, <2>1
<1>14. ASSUME NEW g \in Goroutines, Exhausted(g)
       PROVE  Single'
  <2>1. UNCHANGED <<queueVars, sess, rel>> /\ go[g].req \in Req
    BY <1>14 DEF Exhausted, sessVars, enders, Types, GoTypes
  <2>2. go[g].pc = "specific" => g = Creator(go[g].req)
    BY <1>14 DEF WorkersBusy, CreatorAlone
  <2>3. go[g].pc = "alloc" => (g = Creator(go[g].req) <=> g \notin Workers)
    BY <1>14, <2>1 DEF CreatorAlone
  <2>4. CASE go[g].pc = "specific"
    BY <1>3, <1>14, <2>1, <2>2, <2>4 DEF Exhausted, Answer, queueVars
  <2>5. CASE go[g].pc = "alloc"
    BY <1>13, <1>14, <2>1, <2>3, <2>5 DEF Exhausted
  <2> QED
    BY <1>14, <2>4, <2>5 DEF Exhausted
<1>15. ASSUME NEW g \in Goroutines, AllocateFails(g)
       PROVE  Single'
  <2>1. UNCHANGED <<queue, at, sess, rel>> /\ go[g].req \in Req /\ go[g].pc = "alloc"
    BY <1>15 DEF AllocateFails, sessVars, enders, Types, GoTypes
  <2>2. g = Creator(go[g].req) <=> g \notin Workers
    BY <2>1 DEF CreatorAlone
  <2>3. CASE g = loop /\ End(g) /\ UNCHANGED reply /\ result' = [result EXCEPT ![go[g].req] = "error"]
    BY <1>4, <2>1, <2>3
  <2>4. CASE g = Creator(go[g].req) /\ Answer(go[g].req, "error") /\ UNCHANGED result
    BY <1>3, <2>1, <2>4 DEF Answer
  <2>5. CASE g \in Workers /\ Goto(g, "pushback") /\ UNCHANGED <<result, reply>>
    BY <1>13, <2>1, <2>5 DEF queueVars
  <2> QED
    BY <1>15, <2>2, <2>3, <2>4, <2>5 DEF AllocateFails
<1>16. ASSUME NEW g \in Goroutines, Launch(g)
       PROVE  Single'
  <2>1. UNCHANGED <<queue, at, sess, rel>> /\ go[g].req \in Req /\ go[g].pc = "launch"
    BY <1>16 DEF Launch, enders, Types, GoTypes
  <2>2. CASE g = Creator(go[g].req) /\ Answer(go[g].req, "ok") /\ UNCHANGED result
    BY <1>3, <2>1, <2>2 DEF Answer
  <2>3. CASE g \in Workers /\ End(g) /\ UNCHANGED reply /\ result' = [result EXCEPT ![go[g].req] = "ok"]
    BY <1>4, <2>1, <2>3
  <2> QED
    BY <1>16, <2>2, <2>3 DEF Launch
<1>17. ASSUME NEW r \in Req, Enqueue(r)
       PROVE  Single'
  <2>1. UNCHANGED <<result, sess, rel>> /\ go[Creator(r)].pc = "enqueue"
    BY <1>17 DEF Enqueue, sessVars, enders
  <2>2. CASE Answer(r, "error") /\ UNCHANGED queue
    BY <1>3, <2>1, <2>2 DEF Answer
  <2>3. CASE queue' = Append(queue, r) /\ Goto(Creator(r), "waiting") /\ UNCHANGED reply
    BY <1>6, <2>1, <2>3
  <2> QED
    BY <1>17, <2>2, <2>3 DEF Enqueue
<1>18. ASSUME NEW r \in Req, Receive(r)
       PROVE  Single'
  BY <1>3, <1>18 DEF Receive, Answer, sessVars, enders
<1>19. ASSUME NEW r \in Req, Release(r) \/ ReleaseStop(r) \/ EvictMark(r) \/ EvictStop(r)
       PROVE  Single'
  BY <1>9, <1>11, <1>19 DEF Release, ReleaseStop, EvictMark, EvictStop, sessVars
<1>20. ASSUME NEW g \in Goroutines, Serve(g)
       PROVE  Single'
  BY <1>5, <1>12, <1>22, <1>14, <1>15, <1>16, <1>20 DEF Serve
<1>21. ASSUME NEW r \in Req, ExpireMark(r)
       PROVE  Single'
  BY <1>9, <1>21 DEF ExpireMark, Listed
<1>23. ASSUME NEW r \in Req, GiveUp(r)
       PROVE  Single'
  <2>1. /\ UNCHANGED <<result, sess, rel>> /\ go[Creator(r)].pc = "waiting"
        /\ reply' = [reply EXCEPT ![r] = "left"]
        /\ go' = [go EXCEPT ![Creator(r)] = [Idle EXCEPT !.pc = "done"]]
    BY <1>23 DEF GiveUp, Answer, sessVars, enders
  <2>2. /\ \A w \in Workers : go'[w] = go[w]
        /\ go'[Creator(r)].pc = "done"
        /\ reply'[r] = "left"
        /\ \A q \in Req : q # r => go'[Creator(q)] = go[Creator(q)] /\ reply'[q] = reply[q]
    BY <1>0, <2>1 DEF Idle
  <2>3. \A q \in Req : Held(q)' <=> Held(q)
    BY <2>2
  <2>4. ASSUME NEW q \in Req, Queued(q)'
        PROVE  Queued(q)
    <3>1. PICK n \in DOMAIN queue' : queue'[n] = q
      BY <2>4
    <3>2. CASE UNCHANGED queue
      BY <3>1, <3>2
    <3>3. CASE \E k \in DOMAIN queue : \A j \in DOMAIN queue' :
                 IF j < k THEN j \in DOMAIN queue /\ queue'[j] = queue[j]
                          ELSE j + 1 \in DOMAIN queue /\ queue'[j] = queue[j + 1]
      BY <3>1, <3>3
    <3> QED
      BY <1>0, <1>23, <3>2, <3>3, Removed DEF GiveUp
  <2>5. ASSUME NEW m \in DOMAIN queue', NEW n \in DOMAIN queue', queue'[m] = queue'[n]
        PROVE  m = n
    <3>1. RemoveEntry(r) /\ queue' \in Seq(Req)
      BY <1>0, <1>23, Removed DEF GiveUp
    <3>2. CASE UNCHANGED queue
      BY <2>5, <3>2 DEF OnePlace
    <3>3. CASE \E k \in DOMAIN queue : \A j \in DOMAIN queue' :
                 IF j < k THEN j \in DOMAIN queue /\ queue'[j] = queue[j]
                          ELSE j + 1 \in DOMAIN queue /\ queue'[j] = queue[j + 1]
      <4>1. PICK k \in DOMAIN queue : \A j \in DOMAIN queue' :
                 IF j < k THEN j \in DOMAIN queue /\ queue'[j] = queue[j]
                          ELSE j + 1 \in DOMAIN queue /\ queue'[j] = queue[j + 1]
        BY <3>3
      <4>2. k \in Nat /\ m \in Nat /\ n \in Nat
        BY <1>0, <3>1
      <4> DEFINE new(j) == IF j < k THEN j ELSE j + 1
      <4>3. new(m) \in DOMAIN queue /\ new(n) \in DOMAIN queue /\ queue[new(m)] = queue[new(n)]
        BY <2>5, <4>1
      <4>4. new(m) = new(n)
        BY <4>3 DEF OnePlace
      <4> QED
        BY <4>2, <4>4
    <3> QED
      BY <1>0, <3>1, <3>2, <3>3, Removed
  <2>6. WorkersBusy'
    BY <2>2 DEF WorkersBusy
  <2>7. CreatorAlone'
    BY <2>1, <2>2, <2>3, <2>4 DEF CreatorAlone
  <2>8. OnePlace'
    BY <2>1, <2>2, <2>3, <2>4, <2>5 DEF OnePlace
  <2>9. DrainerRests'
    BY <2>1, <2>2 DEF DrainerRests
  <2> QED
    BY <2>6, <2>7, <2>8, <2>9
<1> QED
  BY <1>1, <1>7, <1>8, <1>10, <1>11, <1>17, <1>18, <1>19, <1>20, <1>21, <1>23
  DEF Next, Request, Ending, Work, ExpireScan, Expiring, ExpireFree, ResetEnd, Destroy, Evict,
      vars, sessVars, enders
-----------------------------------------------------------------------------
(* What follows for the queue.                                             *)

Calls == Types /\ Listed /\ Single

\* A call that waits has a result coming: NoneForgotten, without counting.
Remembered ==
  \A r \in Req : go[Creator(r)].pc = "waiting" => result[r] # "none" \/ Queued(r) \/ Held(r)

\* One step forgets no call.
LEMMA RememberedKept ==
  ASSUME Calls, Remembered, [Next]_vars
  PROVE  Remembered'
<1> USE GoroutineNames DEF Remembered, Queued, Held, Single
<1>0. /\ go \in [Goroutines -> [pc : Steps, req : Req \cup {None}, inst : Inst \cup {None}]]
      /\ queue \in Seq(Req)
      /\ result \in [Req -> {"none", "ok", "error"}]
      /\ Single /\ None \notin Req
  BY BrokerAssumption DEF Calls, Types, QueueTypes, GoTypes
\* A goroutine that keeps its call, and does not begin to wait.
<1>1. ASSUME NEW g \in Goroutines, NEW y, go' = [go EXCEPT ![g] = y],
             y.req = go[g].req \/ go[g].req = None \/ g \notin Workers,
             g \notin Workers => y.pc # "waiting",
             UNCHANGED <<queue, result>>
      PROVE  Remembered'
  <2>1. \A r \in Req : Held(r) => Held(r)'
    BY <1>0, <1>1
  <2> QED
    BY <1>0, <1>1, <2>1
\* A goroutine that has done with its call, which is answered or has a result.
<1>2. ASSUME NEW g \in Goroutines, NEW x \in {"idle", "done"},
             go' = [go EXCEPT ![g] = [Idle EXCEPT !.pc = x]], UNCHANGED queue,
             \/ g \notin Workers /\ UNCHANGED result
             \/ \E r \in Req : g = Creator(r) /\ result' = [result EXCEPT ![r] = "none"]
             \/ g \in Workers /\ go[g].req = None /\ UNCHANGED result
             \/ /\ g \in Workers /\ go[g].req \in Req
                /\ \E a \in {"ok", "error"} : result' = [result EXCEPT ![go[g].req] = a]
      PROVE  Remembered'
  <2>1. /\ go'[g].pc = x
        /\ \A h \in Goroutines : h # g => go'[h] = go[h]
    BY <1>0, <1>2 DEF Idle
  <2>2. ASSUME NEW r \in Req, go'[Creator(r)].pc = "waiting"
        PROVE  /\ go[Creator(r)].pc = "waiting"
               /\ result'[r] # "none" \/ (result'[r] = result[r] /\ (Held(r) => Held(r)'))
    <3>1. Creator(r) # g /\ go[Creator(r)].pc = "waiting"
      BY <2>1, <2>2
    <3>2. ASSUME Held(r), go[g].req # r \/ g \notin Workers
          PROVE  Held(r)'
      BY <2>1, <3>2
    <3>3. CASE g \in Workers /\ go[g].req = r
      <4>1. PICK a \in {"ok", "error"} : result' = [result EXCEPT ![r] = a]
        BY <1>0, <1>2, <3>3
      <4> QED
        BY <1>0, <3>1, <4>1
    <3>4. CASE ~(g \in Workers /\ go[g].req = r)
      BY <1>0, <1>2, <3>1, <3>2, <3>4
    <3> QED
      BY <3>1, <3>3, <3>4
  <2> QED
    BY <1>2, <2>2
<1>3. ASSUME NEW r \in Req, Enqueue(r)
      PROVE  Remembered'
  <2>1. CASE Answer(r, "error") /\ UNCHANGED queue
    BY <1>2, <1>3, <2>1 DEF Enqueue, Answer
  <2>2. CASE queue' = Append(queue, r) /\ Goto(Creator(r), "waiting")
    <3>1. \A q \in Req : Queued(q) \/ q = r => Queued(q)'
      <4>1. /\ DOMAIN queue' = 1..(Len(queue) + 1) /\ DOMAIN queue = 1..Len(queue)
            /\ Len(queue) \in Nat /\ queue'[Len(queue) + 1] = r
            /\ \A n \in 1..Len(queue) : queue'[n] = queue[n]
        BY <1>0, <2>2
      <4>2. Len(queue) + 1 \in DOMAIN queue'
        BY <4>1
      <4>3. ASSUME NEW q \in Req, Queued(q) PROVE Queued(q)'
        <5>1. PICK n \in DOMAIN queue : queue[n] = q
          BY <4>3
        <5> QED
          BY <4>1, <5>1
      <4> QED
        BY <4>1, <4>2, <4>3
    <3>2. \A h \in Goroutines : h # Creator(r) => go'[h] = go[h]
      BY <1>0, <2>2 DEF Goto
    <3>3. \A q \in Req : Held(q) => Held(q)'
      BY <3>2
    <3> QED
      BY <1>0, <1>3, <3>1, <3>2, <3>3 DEF Enqueue
  <2> QED
    BY <1>3, <2>1, <2>2 DEF Enqueue
<1>4. ASSUME NEW r \in Req, Receive(r)
      PROVE  Remembered'
  BY <1>2, <1>4 DEF Receive, Answer
<1>5. ASSUME NEW w \in Workers, TryDequeue(w)
      PROVE  Remembered'
  <2>1. go[w].req = None
    BY <1>0, <1>5 DEF TryDequeue, WorkersBusy
  <2>2. CASE End(w) /\ UNCHANGED queue
    <3>1. [Idle EXCEPT !.pc = "idle"] = Idle
      BY DEF Idle
    <3> QED
      BY <1>2, <1>5, <2>1, <2>2, <3>1 DEF End, TryDequeue
  <2>3. CASE queue # <<>> /\ queue' = Tail(queue)
               /\ go' = [go EXCEPT ![w] = [pc |-> "alloc", req |-> Head(queue), inst |-> None]]
    <3>1. /\ DOMAIN queue = 1..Len(queue) /\ Len(queue) \in Nat /\ Len(queue) > 0
          /\ DOMAIN queue' = 1..(Len(queue) - 1)
          /\ \A n \in 1..(Len(queue) - 1) : queue'[n] = queue[n + 1]
          /\ queue[1] = Head(queue)
      BY <1>0, <2>3, HeadTailProperties
    <3>2. go'[w].req = Head(queue) /\ \A h \in Goroutines : h # w => go'[h] = go[h]
      BY <1>0, <2>3
    <3>3. \A q \in Req : Held(q) => Held(q)'
      BY <1>0, <2>1, <3>2
    <3>4. ASSUME NEW q \in Req, Queued(q) PROVE Queued(q)' \/ Held(q)'
      <4>1. PICK n \in DOMAIN queue : queue[n] = q
        BY <3>4
      <4>2. CASE n = 1
        BY <3>1, <3>2, <4>1, <4>2
      <4>3. CASE n # 1
        <5>1. n - 1 \in DOMAIN queue' /\ queue'[n - 1] = q
          BY <3>1, <4>1, <4>3
        <5> QED
          BY <5>1
      <4> QED
        BY <4>2, <4>3
    <3>5. \A q \in Req : go'[Creator(q)] = go[Creator(q)]
      BY <3>2
    <3> QED
      BY <1>5, <3>3, <3>4, <3>5 DEF TryDequeue
  <2> QED
    BY <1>5, <2>2, <2>3 DEF TryDequeue
<1>6. ASSUME NEW w \in Workers, PushFront(w)
      PROVE  Remembered'
  <2>1. /\ go[w].req \in Req /\ queue' = <<go[w].req>> \o queue /\ End(w) /\ UNCHANGED result
    BY <1>6 DEF PushFront, Calls, Types, GoTypes
  <2>2. /\ DOMAIN queue = 1..Len(queue) /\ DOMAIN queue' = 1..(Len(queue) + 1)
        /\ Len(queue) \in Nat /\ queue'[1] = go[w].req
        /\ \A n \in 2..(Len(queue) + 1) : queue'[n] = queue[n - 1]
    BY <1>0, <2>1
  <2>3. \A h \in Goroutines : h # w => go'[h] = go[h]
    BY <1>0, <2>1 DEF End
  <2>4. ASSUME NEW q \in Req, Queued(q) PROVE Queued(q)'
    <3>1. PICK n \in DOMAIN queue : queue[n] = q
      BY <2>4
    <3>2. n + 1 \in DOMAIN queue' /\ queue'[n + 1] = q
      BY <2>2, <3>1
    <3> QED
      BY <3>2
  <2>5. ASSUME NEW q \in Req, Held(q) PROVE Held(q)' \/ Queued(q)'
    <3>1. PICK v \in Workers : go[v].req = q
      BY <2>5
    <3>2. CASE v = w
      <4>1. 1 \in DOMAIN queue'
        BY <2>2
      <4> QED
        BY <2>2, <3>1, <3>2, <4>1
    <3> QED
      BY <2>3, <3>1, <3>2
  <2>6. \A q \in Req : go'[Creator(q)] = go[Creator(q)]
    BY <2>3
  <2> QED
    BY <2>1, <2>4, <2>5, <2>6
<1>7. ASSUME NEW g \in Goroutines, NEW x \in Steps \ {"waiting"}, Goto(g, x),
             UNCHANGED <<queue, result>>
      PROVE  Remembered'
  <2> DEFINE y == [go[g] EXCEPT !.pc = x]
  <2>1. go' = [go EXCEPT ![g] = y] /\ y.pc = x /\ y.req = go[g].req
    BY <1>0, <1>7 DEF Goto
  <2> QED
    BY <1>1, <1>7, <2>1
<1>8. ASSUME NEW g \in Goroutines, Allocate(g)
      PROVE  Remembered'
  <2>1. PICK i : go' = [go EXCEPT ![g].pc = "attach", ![g].inst = i]
    BY <1>8 DEF Allocate
  <2> DEFINE y == [go[g] EXCEPT !.pc = "attach", !.inst = i]
  <2>2. y.pc = "attach" /\ y.req = go[g].req
    BY <1>0
  <2>3. go' = [go EXCEPT ![g] = y]
    BY <1>0, <2>1, Zenon
  <2> QED
    BY <1>1, <1>8, <2>2, <2>3 DEF Allocate, queueVars
<1>9. ASSUME NEW r \in Req, NEW a, Answer(r, a), UNCHANGED <<queue, result>>
      PROVE  Remembered'
  BY <1>2, <1>9 DEF Answer
<1>10. ASSUME NEW g \in Workers, End(g), go[g].req \in Req, UNCHANGED queue,
              NEW a \in {"ok", "error"}, result' = [result EXCEPT ![go[g].req] = a]
       PROVE  Remembered'
  <2>1. [Idle EXCEPT !.pc = "idle"] = Idle
    BY DEF Idle
  <2> QED
    BY <1>2, <1>10, <2>1 DEF End
<1>11. ASSUME NEW g \in Goroutines, Exhausted(g)
       PROVE  Remembered'
  BY <1>7, <1>9, <1>11 DEF Exhausted, queueVars, Steps, Calls, Types, GoTypes
<1>12. ASSUME NEW g \in Goroutines, AllocateFails(g)
       PROVE  Remembered'
  BY <1>7, <1>9, <1>10, <1>12 DEF AllocateFails, Steps, Calls, Types, GoTypes
<1>13. ASSUME NEW g \in Goroutines, Attach(g) \/ Insert(g)
       PROVE  Remembered'
  BY <1>7, <1>13 DEF Attach, Insert, queueVars, Steps
<1>14. ASSUME NEW g \in Goroutines, Launch(g)
       PROVE  Remembered'
  BY <1>9, <1>10, <1>14 DEF Launch, Calls, Types, GoTypes
<1>15. ASSUME NEW r \in Req, Create(r)
       PROVE  Remembered'
  <2>1. PICK x \in {"alloc", "specific"} :
             go' = [go EXCEPT ![Creator(r)] = [pc |-> x, req |-> r, inst |-> None]]
    BY <1>15 DEF Create
  <2> QED
    BY <1>1, <1>15, <2>1 DEF Create, queueVars
<1>16. ASSUME NEW r \in Req, ReleaseFree(r)
       PROVE  Remembered'
  BY <1>7, <1>16 DEF ReleaseFree, queueVars, Steps
<1>17. CASE UNCHANGED <<go, queue, result>>
  BY <1>17
<1>18. ASSUME NEW r \in Req, GiveUp(r)
       PROVE  Remembered'
  <2>1. /\ UNCHANGED result /\ \A h \in Goroutines : h # Creator(r) => go'[h] = go[h]
        /\ go'[Creator(r)].pc = "done"
    BY <1>0, <1>18 DEF GiveUp, Answer, Idle
  <2>2. ASSUME NEW q \in Req, Queued(q), q # r
        PROVE  Queued(q)'
    <3>1. PICK n \in DOMAIN queue : queue[n] = q
      BY <2>2
    <3>2. CASE UNCHANGED queue
      BY <3>1, <3>2
    <3>3. CASE \E k \in DOMAIN queue :
                 /\ queue[k] = r
                 /\ \A j \in DOMAIN queue :
                      /\ j < k => j \in DOMAIN queue' /\ queue'[j] = queue[j]
                      /\ j > k => j - 1 \in DOMAIN queue' /\ queue'[j - 1] = queue[j]
      <4>1. PICK k \in DOMAIN queue :
                 /\ queue[k] = r
                 /\ \A j \in DOMAIN queue :
                      /\ j < k => j \in DOMAIN queue' /\ queue'[j] = queue[j]
                      /\ j > k => j - 1 \in DOMAIN queue' /\ queue'[j - 1] = queue[j]
        BY <3>3
      <4>2. n < k \/ n > k
        BY <1>0, <2>2, <3>1, <4>1
      <4> QED
        BY <3>1, <4>1, <4>2
    <3> QED
      BY <1>0, <1>18, <3>2, <3>3, Removed DEF GiveUp
  <2>3. \A q \in Req : Held(q) => Held(q)'
    BY <2>1
  <2> QED
    BY <2>1, <2>2, <2>3
<1> QED
  BY <1>3, <1>4, <1>5, <1>6, <1>8, <1>11, <1>12, <1>13, <1>14, <1>15, <1>16, <1>17, <1>18
  DEF Next, Request, Release, Ending, ReleaseStop, EvictMark, EvictStop, Work, Serve,
      ExpireScan, Expiring, ExpireMark, ExpireFree, ResetEnd, Destroy, Evict, vars, queueVars

\* Calls, the queue and the goroutines that serve it agree at every step.
THEOREM CallsInvariant ==
  Spec => [](Calls /\ Remembered)
<1>1. Init => Calls /\ Remembered
  <2>1. ASSUME Init PROVE Types
    BY <2>1, GoroutineNames
    DEF Init, Types, PoolTypes, SessTypes, QueueTypes, GoTypes, EndTypes, Idle, Steps
  <2>2. ASSUME Init PROVE Listed /\ Single /\ Remembered
    <3>1. /\ \A g \in Goroutines : go[g] = Idle /\ go[g].pc = "idle" /\ go[g].req = None
          /\ None \notin Req /\ queue = <<>> /\ DOMAIN queue = {}
      BY <2>2, BrokerAssumption DEF Init, Idle
    <3>2. \A r \in Req : ~Queued(r) /\ ~Held(r) /\ result[r] = "none" /\ sess[r] = "none"
      BY <2>2, <3>1, GoroutineNames DEF Init, Queued, Held
    <3>3. reaper.list = {} /\ \A r \in Req : rel[r] = "none"
      BY <2>2 DEF Init
    <3>4. WorkersBusy /\ DrainerRests
      BY <3>1, <3>3, GoroutineNames DEF WorkersBusy, DrainerRests
    <3>5. CreatorAlone
      BY <3>1, <3>2, GoroutineNames DEF CreatorAlone
    <3>6. OnePlace
      BY <3>1, <3>2, GoroutineNames DEF OnePlace
    <3>7. Remembered
      BY <3>1, GoroutineNames DEF Remembered
    <3> QED
      BY <3>3, <3>4, <3>5, <3>6, <3>7 DEF Listed, Single
  <2> QED
    BY <2>1, <2>2 DEF Calls
<1>2. Calls /\ Remembered /\ [Next]_vars => Calls' /\ Remembered'
  BY PoolKept, SessKept, QueueKept, GoKept, EndKept, ListedKept, SingleKept, RememberedKept
  DEF Calls, Types
<1> QED
  BY <1>1, <1>2, PTL DEF Spec

\* TryDequeue, PushFront and remove move an entry, they never copy it: a call is
\* served by one worker at most, and by none once it has its result.
THEOREM EntryServedOnce == Spec => []ServedOnce
<1>1. Calls => ServedOnce
  <2> SUFFICES ASSUME Calls, NEW r \in Req
               PROVE  Cardinality(Positions(r)) + Cardinality(Holders(r))
                        <= IF result[r] = "none" THEN 1 ELSE 0
    BY DEF ServedOnce
  <2> USE DEF Queued, Held, Positions, Holders
  <2>1. OnePlace
    BY DEF Calls, Single
  <2>2. CASE Queued(r)
    <3>1. PICK n \in DOMAIN queue : queue[n] = r
      BY <2>2
    <3>2. Positions(r) = {n}
      BY <2>1, <3>1 DEF OnePlace
    <3>3. Holders(r) = {} /\ result[r] = "none"
      BY <2>1, <2>2 DEF OnePlace
    <3>4. Cardinality(Positions(r)) = 1 /\ Cardinality(Holders(r)) = 0
      BY ONLY <3>2, <3>3, FS_Singleton, FS_EmptySet
    <3> QED
      BY <3>3, <3>4
  <2>3. CASE Held(r)
    <3>1. PICK w \in Workers : go[w].req = r
      BY <2>3
    <3>2. Holders(r) = {w}
      BY <2>1, <3>1 DEF OnePlace
    <3>3. Positions(r) = {} /\ result[r] = "none"
      BY <2>1, <2>3 DEF OnePlace
    <3>4. Cardinality(Positions(r)) = 0 /\ Cardinality(Holders(r)) = 1
      BY ONLY <3>2, <3>3, FS_Singleton, FS_EmptySet
    <3> QED
      BY <3>3, <3>4
  <2>4. CASE ~Queued(r) /\ ~Held(r)
    <3>1. Positions(r) = {} /\ Holders(r) = {}
      BY <2>4
    <3>2. Cardinality(Positions(r)) = 0 /\ Cardinality(Holders(r)) = 0
      BY ONLY <3>1, FS_EmptySet
    <3> QED
      BY <3>2
  <2> QED
    BY <2>2, <2>3, <2>4
<1> QED
  BY <1>1, CallsInvariant, PTL

\* "Put it back": a call that waits has a result coming, whatever the workers
\* meet on the way.
THEOREM NoCallForgotten == Spec => []NoneForgotten
<1>1. Remembered => NoneForgotten
  BY DEF Remembered, NoneForgotten, Queued, Held, Positions, Holders
<1> QED
  BY <1>1, CallsInvariant, PTL

-----------------------------------------------------------------------------
(* Devices.                                                                *)

\* A goroutine that starts a session, and a session that is not over.
Starts(g) == go[g].pc \in {"attach", "insert"}
Uses(r) == sess[r] = "active" \/ rel[r] # "none"

\* What the state of a device is as long as a session has it.
Taken == {"Allocated", "Destroying"}

\* Each has its device to itself.
Owned ==
  /\ \A g \in Goroutines : Starts(g) =>
       /\ state[go[g].inst] \in Taken
       /\ go[g].pc = "insert" => sessionOf[go[g].inst] = go[g].req
  /\ \A g, h \in Goroutines : Starts(g) /\ Starts(h) /\ go[g].inst = go[h].inst => g = h
  /\ \A r \in Req : Uses(r) =>
       device[r] \in Inst /\ state[device[r]] \in Taken /\ sessionOf[device[r]] = r
  /\ \A r \in Req, g \in Goroutines : Uses(r) /\ Starts(g) => device[r] # go[g].inst
  /\ reaper.pc = "idle"

\* One step gives no device away twice, as long as the timeout loop does not end
\* sessions that a client is ending as well.
LEMMA OwnedKept ==
  ASSUME "expire" \notin Ops, Calls, Owned, [Next]_vars
  PROVE  Owned'
<1> USE GoroutineNames DEF Starts, Uses, Taken
<1>0. /\ go \in [Goroutines -> [pc : Steps, req : Req \cup {None}, inst : Inst \cup {None}]]
      /\ \A g \in Goroutines : Starts(g) => go[g].req \in Req /\ go[g].inst \in Inst
      /\ instances \subseteq Inst
      /\ state \in [Inst -> {"New", "Warm", "Allocated", "Resetting", "Destroying"}]
      /\ sessionOf \in [Inst -> Req \cup {None}]
      /\ sess \in [Req -> {"none", "active", "released", "timed_out", "interrupted"}]
      /\ device \in [Req -> Inst \cup {None}]
      /\ rel \in [Req -> {"none", "stop", "free"}]
  BY DEF Calls, Types, PoolTypes, SessTypes, GoTypes, EndTypes
\* A step that takes no device and starts to use none.
<1>1. ASSUME UNCHANGED <<state, sessionOf, device, reaper>>,
             \A g \in Goroutines : Starts(g)' => go'[g] = go[g],
             \A r \in Req : Uses(r)' => Uses(r)
      PROVE  Owned'
  BY <1>1 DEF Owned
<1>2. ASSUME NEW g \in Goroutines, Allocate(g)
      PROVE  Owned'
  <2>1. PICK i \in Inst : /\ state[i] \notin Taken /\ state' = [state EXCEPT ![i] = "Allocated"]
                         /\ go' = [go EXCEPT ![g].pc = "attach", ![g].inst = i]
    BY <1>0, <1>2 DEF Allocate, Warm
  <2>2. UNCHANGED <<sessionOf, sess, rel, device, reaper>> /\ ~Starts(g)
    BY <1>2 DEF Allocate, sessVars, enders
  <2>3. /\ go'[g].pc = "attach" /\ go'[g].inst = i
        /\ \A h \in Goroutines : h # g => go'[h] = go[h]
    BY <1>0, <2>1
  <2>4. state'[i] \in Taken /\ \A j \in Inst : j # i => state'[j] = state[j]
    BY <1>0, <2>1
  <2>5. \A h \in Goroutines : Starts(h) => go[h].inst # i
    BY <2>1 DEF Owned
  <2>6. \A r \in Req : Uses(r) => device[r] # i
    BY <2>1 DEF Owned
  <2>7. \A h \in Goroutines : h # g => (Starts(h)' <=> Starts(h))
    BY <2>3
  <2>8. \A h \in Goroutines : Starts(h)' =>
          /\ state'[go'[h].inst] \in Taken
          /\ go'[h].pc = "insert" => sessionOf'[go'[h].inst] = go'[h].req
    BY <1>0, <2>2, <2>3, <2>4, <2>5, <2>7 DEF Owned
  <2>9. \A h, k \in Goroutines : Starts(h)' /\ Starts(k)' /\ go'[h].inst = go'[k].inst => h = k
    BY <2>3, <2>5, <2>7 DEF Owned
  <2>10. \A r \in Req : Uses(r)' =>
           /\ device'[r] \in Inst /\ state'[device'[r]] \in Taken
           /\ sessionOf'[device'[r]] = r
           /\ \A h \in Goroutines : Starts(h)' => device'[r] # go'[h].inst
    BY <2>2, <2>3, <2>4, <2>6, <2>7 DEF Owned
  <2>11. reaper'.pc = "idle"
    BY <2>2 DEF Owned
  <2> QED
    BY <2>8, <2>9, <2>10, <2>11 DEF Owned
<1>3. ASSUME NEW g \in Goroutines, Attach(g)
      PROVE  Owned'
  <2> DEFINE i == go[g].inst
  <2>1. /\ Starts(g) /\ i \in Inst /\ go[g].req \in Req
        /\ sessionOf' = [sessionOf EXCEPT ![i] = go[g].req]
        /\ UNCHANGED <<state, sess, rel, device, reaper>>
    BY <1>0, <1>3 DEF Attach, sessVars, enders
  <2>2. /\ go'[g].pc = "insert" /\ go'[g].inst = i /\ go'[g].req = go[g].req
        /\ \A h \in Goroutines : h # g => go'[h] = go[h]
    BY <1>0, <1>3 DEF Attach, Goto
  <2>3. /\ sessionOf'[i] = go[g].req
        /\ \A j \in Inst : j # i => sessionOf'[j] = sessionOf[j]
    BY <1>0, <2>1
  <2>4. \A h \in Goroutines : Starts(h) /\ h # g => go[h].inst # i
    BY <2>1 DEF Owned
  <2>5. \A r \in Req : Uses(r) => device[r] # i
    BY <2>1 DEF Owned
  <2>6. \A h \in Goroutines : Starts(h)' =>
          /\ Starts(h) /\ go'[h].inst = go[h].inst /\ state'[go'[h].inst] \in Taken
          /\ go'[h].pc = "insert" => sessionOf'[go'[h].inst] = go'[h].req
    BY <1>0, <2>1, <2>2, <2>3, <2>4 DEF Owned
  <2>7. \A r \in Req : Uses(r)' => sessionOf'[device'[r]] = r
    BY <2>1, <2>3, <2>5 DEF Owned
  <2> QED
    BY <2>1, <2>6, <2>7 DEF Owned
<1>4. ASSUME NEW g \in Goroutines, Insert(g)
      PROVE  Owned'
  <2> DEFINE r == go[g].req
  <2>1. /\ go[g].pc = "insert" /\ Starts(g) /\ go[g].inst \in Inst /\ r \in Req
        /\ sess' = [sess EXCEPT ![r] = "active"]
        /\ device' = [device EXCEPT ![r] = go[g].inst]
        /\ UNCHANGED <<state, sessionOf, rel, reaper>>
    BY <1>0, <1>4 DEF Insert, poolVars, enders
  <2>2. /\ go'[g].pc = "launch"
        /\ \A h \in Goroutines : h # g => go'[h] = go[h]
    BY <1>0, <1>4 DEF Insert, Goto
  <2>3. /\ device'[r] = go[g].inst
        /\ \A q \in Req : q # r => device'[q] = device[q] /\ (Uses(q)' <=> Uses(q))
    BY <1>0, <2>1
  <2>4. \A h \in Goroutines : Starts(h) /\ h # g => go[h].inst # go[g].inst
    BY <2>1 DEF Owned
  <2>5. state[go[g].inst] \in Taken /\ sessionOf[go[g].inst] = r
    BY <2>1 DEF Owned
  <2>6. \A h \in Goroutines : Starts(h)' => Starts(h) /\ h # g /\ go'[h] = go[h]
    BY <2>2
  <2>7. ASSUME NEW q \in Req, Uses(q)'
        PROVE  /\ device'[q] \in Inst /\ state'[device'[q]] \in Taken
               /\ sessionOf'[device'[q]] = q
               /\ \A h \in Goroutines : Starts(h)' => device'[q] # go'[h].inst
    <3>1. CASE q = r
      BY <2>1, <2>3, <2>4, <2>5, <2>6, <3>1
    <3>2. CASE q # r
      BY <2>1, <2>3, <2>6, <2>7, <3>2 DEF Owned
    <3> QED
      BY <3>1, <3>2
  <2> QED
    BY <2>1, <2>6, <2>7 DEF Owned
<1>5. ASSUME NEW r \in Req, ReleaseFree(r)
      PROVE  Owned'
  <2>1. /\ rel[r] = "free" /\ rel' = [rel EXCEPT ![r] = "none"]
        /\ UNCHANGED <<sess, device, reaper>> /\ (UNCHANGED go \/ Goto(Drainer(r), "take"))
    BY <1>5 DEF ReleaseFree, sessVars
  <2>2. sess[r] # "active"
    BY <2>1 DEF Calls, Single, DrainerRests
  <2>3. ~Uses(r)' /\ \A q \in Req : q # r => (Uses(q)' <=> Uses(q))
    BY <1>0, <2>1, <2>2
  <2>4. \A g \in Goroutines : Starts(g)' => go'[g] = go[g]
    BY <1>0, <2>1 DEF Goto
  <2>5. CASE UNCHANGED poolVars
    BY <1>1, <2>1, <2>3, <2>4, <2>5 DEF poolVars
  <2>6. CASE /\ sessionOf' = [sessionOf EXCEPT ![device[r]] = None]
             /\ UNCHANGED state \/ state' = [state EXCEPT ![device[r]] = "Resetting"]
    <3> DEFINE i == device[r]
    <3>1. i \in Inst /\ sessionOf[i] = r
      BY <2>1 DEF Owned
    <3>2. \A j \in Inst : j # i => sessionOf'[j] = sessionOf[j] /\ state'[j] = state[j]
      BY <1>0, <2>6
    <3>3. \A g \in Goroutines : Starts(g) => go[g].inst # i
      BY <2>1 DEF Owned
    <3>4. \A q \in Req : Uses(q) /\ q # r => device[q] # i
      BY <3>1 DEF Owned
    <3> QED
      BY <1>0, <2>1, <2>3, <2>4, <3>2, <3>3, <3>4 DEF Owned
  <2>7. \E failed \in BOOLEAN : PoolRelease(device[r], failed)
    BY <1>5 DEF ReleaseFree
  <2>8. PoolTypes
    BY DEF Calls, Types
  <2> QED
    BY <2>5, <2>6, <2>7, <2>8, PoolReleased
<1>6. ASSUME NEW i \in Inst, ResetEnd(i)
      PROVE  Owned'
  <2>1. /\ state[i] = "Resetting" /\ state' = [state EXCEPT ![i] = "Warm"]
        /\ UNCHANGED <<sessionOf, go, sess, device, rel, reaper>>
    BY <1>6 DEF ResetEnd, sessVars, enders
  <2>2. \A j \in Inst : state[j] \in Taken => state'[j] \in Taken
    BY <1>0, <2>1
  <2> QED
    BY <1>0, <2>1, <2>2 DEF Owned
<1>7. ASSUME NEW g \in Goroutines, NEW y, go' = [go EXCEPT ![g] = y],
             y.pc \notin {"attach", "insert"},
             UNCHANGED <<poolVars, sess, device, enders>>
      PROVE  Owned'
  BY <1>0, <1>1, <1>7 DEF poolVars, enders
<1>8. ASSUME NEW g \in Goroutines, NEW x \in Steps \ {"attach", "insert"}, Goto(g, x),
             UNCHANGED <<poolVars, sess, device, enders>>
      PROVE  Owned'
  <2> DEFINE y == [go[g] EXCEPT !.pc = x]
  <2>1. go' = [go EXCEPT ![g] = y] /\ y.pc = x
    BY <1>0, <1>8 DEF Goto
  <2> QED
    BY <1>7, <1>8, <2>1
<1>9. ASSUME NEW g \in Goroutines, End(g), UNCHANGED <<poolVars, sess, device, enders>>
      PROVE  Owned'
  BY <1>7, <1>9 DEF End, Idle
<1>10. ASSUME NEW r \in Req, NEW a, Answer(r, a), UNCHANGED <<poolVars, sess, device, enders>>
       PROVE  Owned'
  <2>1. [Idle EXCEPT !.pc = "done"].pc = "done"
    BY DEF Idle
  <2> QED
    BY <1>7, <1>10, <2>1 DEF Answer
<1>11. ASSUME NEW g \in Goroutines, Exhausted(g) \/ AllocateFails(g) \/ Launch(g)
       PROVE  Owned'
  <2>1. UNCHANGED <<poolVars, sess, device, enders>> /\ go[g].req \in Req
    BY <1>11 DEF Exhausted, AllocateFails, Launch, sessVars, Calls, Types, GoTypes
  <2>2. \/ End(g) \/ \E a : Answer(go[g].req, a)
        \/ \E x \in {"enqueue", "pushback"} : Goto(g, x)
    BY <1>11 DEF Exhausted, AllocateFails, Launch
  <2> QED
    BY <1>8, <1>9, <1>10, <2>1, <2>2 DEF Steps
<1>12. ASSUME NEW r \in Req, Create(r)
       PROVE  Owned'
  <2>1. PICK x \in {"alloc", "specific"} :
             go' = [go EXCEPT ![Creator(r)] = [pc |-> x, req |-> r, inst |-> None]]
    BY <1>12 DEF Create
  <2> QED
    BY <1>7, <1>12, <2>1 DEF Create, sessVars
<1>13. ASSUME NEW r \in Req, Enqueue(r) \/ Receive(r) \/ GiveUp(r)
       PROVE  Owned'
  <2>1. /\ UNCHANGED <<poolVars, sess, device, enders>>
        /\ (\E a : Answer(r, a)) \/ Goto(Creator(r), "waiting")
    BY <1>13 DEF Enqueue, Receive, GiveUp, sessVars
  <2> QED
    BY <1>8, <1>10, <2>1 DEF Steps
<1>14. ASSUME NEW w \in Workers, TryDequeue(w) \/ PushFront(w)
       PROVE  Owned'
  <2>1. /\ UNCHANGED <<poolVars, sess, device, enders>>
        /\ \/ End(w)
           \/ go' = [go EXCEPT ![w] = [pc |-> "alloc", req |-> Head(queue), inst |-> None]]
    BY <1>14 DEF TryDequeue, PushFront, sessVars
  <2> QED
    BY <1>7, <1>9, <2>1
<1>15. ASSUME NEW r \in Req, Release(r) \/ ReleaseStop(r) \/ EvictMark(r) \/ EvictStop(r)
       PROVE  Owned'
  <2>1. UNCHANGED <<poolVars, device, go, reaper>>
    BY <1>15 DEF Release, ReleaseStop, EvictMark, EvictStop, sessVars
  <2>2. \A q \in Req : Uses(q)' => Uses(q)
    BY <1>0, <1>15 DEF Release, ReleaseStop, EvictMark, EvictStop, sessVars
  <2> QED
    BY <1>1, <2>1, <2>2 DEF poolVars
<1>16. ASSUME NEW i \in Inst, Evict(i)
       PROVE  Owned'
  BY <1>1, <1>16 DEF Evict, sessVars
<1>19. ASSUME NEW i \in Inst, Destroy(i)
       PROVE  Owned'
  <2>1. /\ state' = [state EXCEPT ![i] = "Destroying"]
        /\ UNCHANGED <<sessionOf, go, sess, device, rel, reaper>>
    BY <1>19 DEF Destroy, sessVars, enders
  <2>2. \A j \in Inst : state[j] \in Taken => state'[j] \in Taken
    BY <1>0, <2>1
  <2> QED
    BY <1>0, <2>1, <2>2 DEF Owned
<1>17. CASE UNCHANGED vars
  BY <1>1, <1>17 DEF vars, poolVars, sessVars, enders
<1>18. ~Expiring /\ \A s \in SUBSET Req : ~ExpireScan(s)
  BY DEF Owned, Expiring, ExpireMark, ExpireFree, ExpireScan
<1> QED
  BY <1>2, <1>3, <1>4, <1>5, <1>6, <1>11, <1>12, <1>13, <1>14, <1>15, <1>16, <1>17, <1>18,
     <1>19
  DEF Next, Request, Ending, Work, Serve

\* "StateAllocated: locked to a session": as long as a session is active, its
\* device, if the pool still has it, is attached to that session, and allocated, or
\* being destroyed by the pool, which will report that session.
THEOREM DeviceIsLocked ==
  ASSUME "expire" \notin Ops
  PROVE  Spec => []DeviceLocked
<1>1. Init => Owned
  BY GoroutineNames DEF Init, Owned, Taken, Starts, Uses, Idle
<1>2. Calls /\ Owned /\ [Next]_vars => Owned'
  BY OwnedKept
<1>3. Owned => DeviceLocked
  BY DEF Owned, Uses, Taken, DeviceLocked
<1> QED
  BY <1>1, <1>2, <1>3, CallsInvariant, PTL DEF Spec

-----------------------------------------------------------------------------
(* No device is left behind.                                               *)

\* The session of r has the device i, or is about to be entered with it.
Has(r, i) ==
  \/ device[r] = i
  \/ \E g \in Goroutines : go[g].pc = "insert" /\ go[g].req = r /\ go[g].inst = i

\* Somebody is to give the device of session r back.
Claims(r) == sess[r] = "active" \/ rel[r] # "none" \/ reaper.req = r

\* A device knows its session before the session is entered, and an id that was
\* never drawn is nobody's.
Tracked ==
  /\ \A i \in Inst : sessionOf[i] # None => Has(sessionOf[i], i)
  /\ \A r \in Req : sess[r] = "none" <=> device[r] = None
  /\ \A i \in Inst : state[i] = "New" =>
       /\ i \notin instances /\ sessionOf[i] = None
       /\ \A r \in Req : device[r] # i
       /\ \A g \in Goroutines : Starts(g) => go[g].inst # i

\* A session is reported for a device that is gone: it never had, and will never
\* have, another one.
EvictedGone ==
  \A r \in Req : evicting[r] # "none" =>
    /\ \E i \in Inst : Has(r, i)
    /\ \A i \in instances : ~Has(r, i)

\* NoDeviceStranded in these words.
Belongs(i) ==
  \/ \E g \in Goroutines : Starts(g) /\ go[g].inst = i
  \/ \E r \in Req : device[r] = i /\ Claims(r)
Claimed == \A i \in instances : state[i] = "Allocated" => Belongs(i)

\* The goroutine that starts a session is the only one for its call.
LEMMA StartsAlone ==
  ASSUME Calls, NEW g \in Goroutines, Starts(g)
  PROVE  /\ go[g].req \in Req /\ go[g].inst \in Inst /\ sess[go[g].req] = "none"
         /\ \A h \in Goroutines : Starts(h) /\ go[h].req = go[g].req => h = g
<1> USE GoroutineNames DEF Starts
<1>1. \A h \in Goroutines : Starts(h) => go[h].req \in Req /\ go[h].inst \in Inst
  BY DEF Calls, Types, GoTypes
<1>2. CreatorAlone /\ OnePlace
  BY DEF Calls, Single
<1>3. \A h \in Workers : Starts(h) => sess[go[h].req] = "none" /\ Held(go[h].req)
  BY <1>2 DEF OnePlace, Held
<1>4. \A h \in Goroutines \ Workers : Starts(h) =>
        /\ h = Creator(go[h].req) /\ sess[go[h].req] = "none" /\ ~Held(go[h].req)
  BY <1>2 DEF CreatorAlone, Waits
<1>5. \A h, k \in Workers : Starts(h) /\ go[k].req = go[h].req => k = h
  BY <1>1, <1>2 DEF OnePlace
<1> QED
  BY <1>1, <1>3, <1>4, <1>5

\* One step leaves no device behind.
LEMMA ClaimedKept ==
  ASSUME Calls, Tracked, EvictedGone, Claimed, [Next]_vars
  PROVE  Tracked' /\ EvictedGone' /\ Claimed'
<1> USE GoroutineNames
<1> DEFINE Goal == Tracked' /\ EvictedGone' /\ Claimed'
<1>0. /\ go \in [Goroutines -> [pc : Steps, req : Req \cup {None}, inst : Inst \cup {None}]]
      /\ instances \subseteq Inst
      /\ state \in [Inst -> {"New", "Warm", "Allocated", "Resetting", "Destroying"}]
      /\ sessionOf \in [Inst -> Req \cup {None}]
      /\ sess \in [Req -> {"none", "active", "released", "timed_out", "interrupted"}]
      /\ device \in [Req -> Inst \cup {None}]
      /\ rel \in [Req -> {"none", "stop", "free"}]
      /\ evicting \in [Req -> {"none", "mark", "stop"}]
      /\ None \notin Req \cup Inst
  BY BrokerAssumption DEF Calls, Types, PoolTypes, SessTypes, GoTypes, EndTypes
\* A goroutine that neither starts a session nor begins to.
<1>1. ASSUME \A g \in Goroutines : Starts(g) \/ Starts(g)' => go'[g] = go[g], UNCHANGED device
      PROVE  /\ \A g \in Goroutines : Starts(g)' <=> Starts(g)
             /\ \A r \in Req : \A i : Has(r, i)' <=> Has(r, i)
  BY <1>1 DEF Has, Starts
\* A step that leaves the pool alone, and ends claims only on devices that are gone.
<1>2. ASSUME UNCHANGED <<poolVars, device>>,
             \A g \in Goroutines : Starts(g) \/ Starts(g)' => go'[g] = go[g],
             \A r \in Req : sess'[r] = "none" <=> sess[r] = "none",
             \A r \in Req : evicting'[r] # "none" => evicting[r] # "none",
             \A r \in Req : Claims(r) => Claims(r)' \/ device[r] \notin instances
      PROVE  Goal
  <2>1. Tracked'
    BY <1>1, <1>2, <1>0 DEF Tracked, poolVars
  <2>2. EvictedGone'
    BY <1>1, <1>2 DEF EvictedGone, poolVars
  <2>3. Claimed'
    BY <1>1, <1>2 DEF Claimed, Belongs, poolVars
  <2> QED
    BY <2>1, <2>2, <2>3
\* pool.Release of the device of session q.
<1>3. ASSUME NEW q \in Req, NEW failed, PoolRelease(device[q], failed),
             UNCHANGED <<sess, device, evicting>>,
             \A g \in Goroutines : Starts(g) \/ Starts(g)' => go'[g] = go[g],
             \A r \in Req : r # q /\ Claims(r) => Claims(r)'
      PROVE  Goal
  <2>1. PoolTypes
    BY DEF Calls, Types
  <2>2. CASE UNCHANGED poolVars
    <3>1. device[q] \notin instances \/ state[device[q]] # "Allocated"
          \/ state'[device[q]] # state[device[q]] \/ instances' # instances
      BY <1>0, <1>3 DEF PoolRelease, CanTransitionTo, validTransitions, DeviceStates
    <3>2. Tracked'
      BY <1>1, <1>3, <1>0, <2>2 DEF Tracked, poolVars
    <3>3. EvictedGone'
      BY <1>1, <1>3, <2>2 DEF EvictedGone, poolVars
    <3>4. Claimed'
      BY <1>1, <1>3, <2>2, <3>1 DEF Claimed, Belongs, poolVars
    <3> QED
      BY <3>2, <3>3, <3>4
  <2>3. CASE /\ device[q] \in instances
             /\ sessionOf' = [sessionOf EXCEPT ![device[q]] = None]
             /\ \/ /\ state' = [state EXCEPT ![device[q]] = "Resetting"]
                   /\ UNCHANGED instances
                \/ instances' = instances \ {device[q]} /\ UNCHANGED state
    <3> DEFINE i == device[q]
    <3>1. /\ i \in Inst /\ instances' \subseteq instances
          /\ sessionOf'[i] = None
          /\ \A j \in Inst : j # i => sessionOf'[j] = sessionOf[j] /\ state'[j] = state[j]
          /\ i \in instances' => state'[i] = "Resetting"
          /\ state'[i] \in {state[i], "Resetting"}
      BY <1>0, <2>3
    <3> HIDE DEF i
    <3>2. Tracked'
      BY <1>0, <1>1, <1>3, <3>1 DEF Tracked
    <3>3. EvictedGone'
      BY <1>1, <1>3, <3>1 DEF EvictedGone
    <3>4. Claimed'
      <4> SUFFICES ASSUME NEW j \in instances', state'[j] = "Allocated"
                   PROVE  Belongs(j)'
        BY DEF Claimed
      <4>1. j # i /\ j \in instances /\ state[j] = "Allocated"
        BY <1>0, <3>1
      <4>2. Belongs(j)
        BY <4>1 DEF Claimed
      <4> QED
        BY <1>1, <1>3, <4>1, <4>2 DEF Belongs, i
    <3> QED
      BY <3>2, <3>3, <3>4
  <2> QED
    BY <1>3, <2>1, <2>2, <2>3, PoolReleased
<1>4. ASSUME NEW g \in Goroutines, Allocate(g)
      PROVE  Goal
  <2>1. PICK i \in Inst : /\ i \in instances \/ state[i] = "New"
                         /\ state' = [state EXCEPT ![i] = "Allocated"]
                         /\ instances' = instances \cup {i}
                         /\ go' = [go EXCEPT ![g].pc = "attach", ![g].inst = i]
    BY <1>0, <1>4 DEF Allocate, Warm
  <2>2. UNCHANGED <<sessionOf, sess, device, rel, evicting, reaper>> /\ ~Starts(g)
    BY <1>4 DEF Allocate, sessVars, enders, Starts
  <2>3. /\ go'[g].pc = "attach" /\ go'[g].inst = i
        /\ \A h \in Goroutines : h # g => go'[h] = go[h]
    BY <1>0, <2>1
  <2>4. state'[i] = "Allocated" /\ \A j \in Inst : j # i => state'[j] = state[j]
    BY <1>0, <2>1
  <2>5. \A r \in Req : \A j : Has(r, j)' <=> Has(r, j)
    BY <2>2, <2>3 DEF Has, Starts
  <2>6. \A h \in Goroutines : h # g => (Starts(h)' <=> Starts(h))
    BY <2>3 DEF Starts
  <2>7. Tracked'
    <3>1. \A j \in Inst : sessionOf'[j] # None => Has(sessionOf[j], j)'
      BY <1>0, <2>2, <2>5 DEF Tracked
    <3>2. ASSUME NEW j \in Inst, state'[j] = "New"
          PROVE  /\ j # i /\ j \notin instances' /\ sessionOf'[j] = None
                 /\ \A r \in Req : device'[r] # j
                 /\ \A h \in Goroutines : Starts(h)' => go'[h].inst # j
      <4>1. j # i /\ state[j] = "New"
        BY <2>4, <3>2
      <4>2. /\ j \notin instances' /\ sessionOf'[j] = None
            /\ \A r \in Req : device'[r] # j
        BY <2>1, <2>2, <4>1 DEF Tracked
      <4>3. ASSUME NEW h \in Goroutines, Starts(h)' PROVE go'[h].inst # j
        <5>1. CASE h = g
          BY <2>3, <4>1, <5>1
        <5>2. CASE h # g
          BY <2>3, <2>6, <4>1, <4>3, <5>2 DEF Tracked
        <5> QED
          BY <5>1, <5>2
      <4> QED
        BY <4>1, <4>2, <4>3
    <3> QED
      BY <2>2, <3>1, <3>2 DEF Tracked
  <2>8. EvictedGone'
    <3>1. ASSUME NEW r \in Req, evicting[r] # "none" PROVE ~Has(r, i)
      <4>1. CASE i \in instances
        BY <3>1, <4>1 DEF EvictedGone
      <4>2. CASE state[i] = "New"
        BY <4>2 DEF Tracked, Has, Starts
      <4> QED
        BY <2>1, <4>1, <4>2
    <3> QED
      BY <2>1, <2>2, <2>5, <3>1 DEF EvictedGone
  <2>9. Claimed'
    <3> SUFFICES ASSUME NEW j \in instances', state'[j] = "Allocated"
                 PROVE  Belongs(j)'
      BY DEF Claimed
    <3>1. CASE j = i
      BY <2>3, <3>1 DEF Belongs, Starts
    <3>2. CASE j # i
      <4>1. Belongs(j)
        BY <1>0, <2>1, <2>4, <3>2 DEF Claimed
      <4> QED
        BY <2>2, <2>3, <2>6, <4>1 DEF Belongs, Claims
    <3> QED
      BY <3>1, <3>2
  <2> QED
    BY <2>7, <2>8, <2>9
<1>5. ASSUME NEW g \in Goroutines, Attach(g)
      PROVE  Goal
  <2> DEFINE i == go[g].inst
             r == go[g].req
  <2>1. /\ go[g].pc = "attach" /\ sessionOf' = [sessionOf EXCEPT ![i] = r]
        /\ UNCHANGED <<instances, state, sess, device, rel, evicting, reaper>>
    BY <1>5 DEF Attach, sessVars, enders
  <2>2. /\ go'[g].pc = "insert" /\ go'[g].inst = i /\ go'[g].req = r
        /\ \A h \in Goroutines : h # g => go'[h] = go[h]
    BY <1>0, <1>5 DEF Attach, Goto
  <2>3. /\ Starts(g) /\ i \in Inst /\ r \in Req /\ sess[r] = "none"
        /\ \A h \in Goroutines : Starts(h) /\ go[h].req = r => h = g
    BY <2>1, StartsAlone DEF Starts
  <2>4. sessionOf'[i] = r /\ \A j \in Inst : j # i => sessionOf'[j] = sessionOf[j]
    BY <1>0, <2>1, <2>3
  <2>5. \A h \in Goroutines : (Starts(h)' <=> Starts(h)) /\ go'[h].inst = go[h].inst
    BY <2>1, <2>2, <2>3 DEF Starts
  <2>6. \A q \in Req : \A j : Has(q, j)' <=> Has(q, j) \/ (q = r /\ j = i)
    BY <2>1, <2>2 DEF Has
  <2>7. evicting[r] = "none"
    <3>1. SUFFICES ASSUME NEW j \in Inst, Has(r, j) PROVE FALSE
      BY <2>3 DEF EvictedGone
    <3>2. device[r] # j
      BY <1>0, <2>3 DEF Tracked
    <3> QED
      BY <2>1, <2>3, <3>1, <3>2 DEF Has, Starts
  <2> HIDE DEF i, r
  <2>8. Tracked'
    <3>1. ASSUME NEW j \in Inst, sessionOf'[j] # None PROVE Has(sessionOf[j], j)'
      BY <1>0, <2>3, <2>4, <2>6, <3>1 DEF Tracked
    <3>2. ASSUME NEW j \in Inst, state'[j] = "New"
          PROVE  /\ j \notin instances' /\ sessionOf'[j] = None
                 /\ \A q \in Req : device'[q] # j
                 /\ \A h \in Goroutines : Starts(h)' => go'[h].inst # j
      BY <2>1, <2>3, <2>4, <2>5, <3>2 DEF Tracked, i
    <3> QED
      BY <2>1, <3>1, <3>2 DEF Tracked
  <2>9. EvictedGone'
    BY <2>1, <2>6, <2>7 DEF EvictedGone
  <2>10. Claimed'
    BY <2>1, <2>5 DEF Claimed, Belongs, Claims
  <2> QED
    BY <2>8, <2>9, <2>10
<1>6. ASSUME NEW g \in Goroutines, Insert(g)
      PROVE  Goal
  <2> DEFINE i == go[g].inst
             r == go[g].req
  <2>1. /\ go[g].pc = "insert" /\ sess' = [sess EXCEPT ![r] = "active"]
        /\ device' = [device EXCEPT ![r] = i]
        /\ UNCHANGED <<instances, state, sessionOf, rel, evicting, reaper>>
    BY <1>6 DEF Insert, poolVars, enders
  <2>2. /\ go'[g].pc = "launch" /\ \A h \in Goroutines : h # g => go'[h] = go[h]
    BY <1>0, <1>6 DEF Insert, Goto
  <2>3. Starts(g) /\ i \in Inst /\ r \in Req /\ sess[r] = "none" /\ device[r] = None
    BY <2>1, StartsAlone DEF Starts, Tracked
  <2> HIDE DEF i, r
  <2>4. /\ sess'[r] = "active" /\ device'[r] = i
        /\ \A q \in Req : q # r => sess'[q] = sess[q] /\ device'[q] = device[q]
    BY <1>0, <2>1, <2>3
  <2>5. \A h \in Goroutines : Starts(h)' <=> Starts(h) /\ h # g
    BY <2>2 DEF Starts
  <2>6. \A q \in Req, j \in Inst : Has(q, j)' <=> Has(q, j)
    <3> SUFFICES ASSUME NEW q \in Req, NEW j \in Inst PROVE Has(q, j)' <=> Has(q, j)
      OBVIOUS
    <3>1. CASE q = r /\ j = i
      BY <2>1, <2>4, <3>1 DEF Has, i, r
    <3>2. CASE q # r
      BY <2>2, <2>4, <3>2 DEF Has, r
    <3>3. CASE q = r /\ j # i
      <4>1. device[q] # j /\ device'[q] # j
        BY <1>0, <2>3, <2>4, <3>3
      <4> QED
        BY <2>2, <3>3, <4>1 DEF Has, i, r
    <3> QED
      BY <3>1, <3>2, <3>3
  <2>7. Tracked'
    <3>1. \A j \in Inst : sessionOf'[j] # None => Has(sessionOf[j], j)'
      BY <1>0, <2>1, <2>6 DEF Tracked
    <3>2. \A q \in Req : sess'[q] = "none" <=> device'[q] = None
      BY <1>0, <2>3, <2>4 DEF Tracked
    <3>3. ASSUME NEW j \in Inst, state'[j] = "New"
          PROVE  /\ j \notin instances' /\ sessionOf'[j] = None
                 /\ \A q \in Req : device'[q] # j
                 /\ \A h \in Goroutines : Starts(h)' => go'[h].inst # j
      <4>1. j # i
        BY <2>1, <2>3, <3>3 DEF Tracked, i
      <4> QED
        BY <2>1, <2>2, <2>4, <2>5, <3>3, <4>1 DEF Tracked
    <3> QED
      BY <2>1, <3>1, <3>2, <3>3 DEF Tracked
  <2>8. EvictedGone'
    BY <1>0, <2>1, <2>6 DEF EvictedGone
  <2>9. Claimed'
    <3> SUFFICES ASSUME NEW j \in instances, state[j] = "Allocated"
                 PROVE  Belongs(j)'
      BY <2>1 DEF Claimed
    <3>1. CASE j = i
      BY <2>3, <2>4, <3>1 DEF Belongs, Claims
    <3>2. CASE j # i
      <4>1. Belongs(j)
        BY DEF Claimed
      <4>2. CASE \E h \in Goroutines : Starts(h) /\ go[h].inst = j
        BY <2>2, <2>5, <3>2, <4>2 DEF Belongs, i
      <4>3. CASE \E q \in Req : device[q] = j /\ Claims(q)
        <5>1. PICK q \in Req : device[q] = j /\ Claims(q)
          BY <4>3
        <5>2. q # r
          BY <1>0, <2>3, <5>1
        <5> QED
          BY <2>1, <2>4, <5>1, <5>2 DEF Belongs, Claims
      <4> QED
        BY <4>1, <4>2, <4>3 DEF Belongs
    <3> QED
      BY <3>1, <3>2
  <2> QED
    BY <2>7, <2>8, <2>9
<1>7. ASSUME NEW i \in Inst, ResetEnd(i) \/ Destroy(i)
      PROVE  Goal
  <2>1. /\ \E x \in {"Warm", "Destroying"} : state' = [state EXCEPT ![i] = x]
        /\ UNCHANGED <<instances, sessionOf, sess, device, go, rel, evicting, reaper>>
    BY <1>7 DEF ResetEnd, Destroy, sessVars, enders
  <2>2. \A j \in Inst : state'[j] \in {"New", "Allocated"} => state'[j] = state[j]
    BY <1>0, <2>1
  <2>3. /\ \A g \in Goroutines : Starts(g)' <=> Starts(g)
        /\ \A r \in Req : \A j : Has(r, j)' <=> Has(r, j)
    BY <1>1, <2>1
  <2>4. Tracked'
    BY <1>0, <2>1, <2>2, <2>3 DEF Tracked
  <2>5. EvictedGone'
    BY <2>1, <2>3 DEF EvictedGone
  <2>6. Claimed'
    BY <1>0, <2>1, <2>2, <2>3 DEF Claimed, Belongs, Claims
  <2> QED
    BY <2>4, <2>5, <2>6
<1>8. ASSUME NEW i \in Inst, Evict(i)
      PROVE  Goal
  <2>1. /\ i \in instances /\ instances' = instances \ {i}
        /\ UNCHANGED <<state, sessionOf, sess, device, go, rel, reaper>>
        /\ evicting' = IF sessionOf[i] = None THEN evicting
                       ELSE [evicting EXCEPT ![sessionOf[i]] = "mark"]
    BY <1>8 DEF Evict, sessVars
  <2>2. /\ \A g \in Goroutines : Starts(g)' <=> Starts(g)
        /\ \A r \in Req : \A j : Has(r, j)' <=> Has(r, j)
    BY <1>1, <2>1
  <2>3. Tracked'
    BY <1>0, <2>1, <2>2 DEF Tracked
  <2>4. EvictedGone'
    <3> SUFFICES ASSUME NEW r \in Req, evicting'[r] # "none"
                 PROVE  (\E j \in Inst : Has(r, j)) /\ \A j \in instances' : ~Has(r, j)
      BY <2>2 DEF EvictedGone
    <3>1. CASE evicting[r] # "none"
      BY <2>1, <3>1 DEF EvictedGone
    <3>2. CASE evicting[r] = "none"
      <4>1. r = sessionOf[i]
        BY <1>0, <2>1, <3>2
      <4>2. Has(r, i)
        BY <1>0, <4>1 DEF Tracked
      <4>3. ASSUME NEW j \in Inst, Has(r, j) PROVE j = i
        <5>1. \A g \in Goroutines : go[g].pc = "insert" /\ go[g].req = r =>
                /\ device[r] = None
                /\ \A h \in Goroutines : go[h].pc = "insert" /\ go[h].req = r => h = g
          BY StartsAlone DEF Starts, Tracked
        <5> QED
          BY <1>0, <4>2, <4>3, <5>1 DEF Has
      <4> QED
        BY <1>0, <2>1, <4>2, <4>3
    <3> QED
      BY <3>1, <3>2
  <2>5. Claimed'
    BY <2>1, <2>2 DEF Claimed, Belongs, Claims
  <2> QED
    BY <2>3, <2>4, <2>5
\* The other steps of goroutines.
<1>9. ASSUME NEW g \in Goroutines, ~Starts(g),
             \/ \E y : go' = [go EXCEPT ![g] = y] /\ y.pc \notin {"attach", "insert"}
             \/ \E x \in Steps \ {"attach", "insert"} : Goto(g, x)
             \/ End(g) \/ UNCHANGED go
      PROVE  \A h \in Goroutines : Starts(h) \/ Starts(h)' => go'[h] = go[h]
  <2>1. /\ \A h \in Goroutines : h # g => go'[h] = go[h]
        /\ UNCHANGED go \/ go'[g].pc \notin {"attach", "insert"}
    BY <1>0, <1>9 DEF Goto, End, Idle
  <2> QED
    BY <1>9, <2>1 DEF Starts
<1>10. ASSUME NEW r \in Req, NEW a, Answer(r, a), ~Starts(Creator(r))
       PROVE  \A h \in Goroutines : Starts(h) \/ Starts(h)' => go'[h] = go[h]
  <2>1. [Idle EXCEPT !.pc = "done"].pc \notin {"attach", "insert"}
    BY DEF Idle
  <2> QED
    BY <1>9, <1>10, <2>1 DEF Answer
<1>11. ASSUME UNCHANGED <<poolVars, sess, device, rel, evicting, reaper>>,
              \A h \in Goroutines : Starts(h) \/ Starts(h)' => go'[h] = go[h]
       PROVE  Goal
  BY <1>2, <1>11 DEF Claims
<1>12. ASSUME NEW g \in Goroutines, Exhausted(g) \/ AllocateFails(g) \/ Launch(g)
       PROVE  Goal
  <2>1. /\ UNCHANGED <<poolVars, sess, device, rel, evicting, reaper>>
        /\ go[g].req \in Req /\ go[g].pc \in {"alloc", "specific", "launch"}
    BY <1>12 DEF Exhausted, AllocateFails, Launch, sessVars, enders, Calls, Types, GoTypes
  <2>2. \/ End(g) \/ \E x \in {"enqueue", "pushback"} : Goto(g, x)
        \/ \E a : Answer(go[g].req, a)
    BY <1>12 DEF Exhausted, AllocateFails, Launch
  <2>3. ~Starts(g) /\ ((\E a : Answer(go[g].req, a)) => ~Starts(Creator(go[g].req)))
    <3>1. (g \in Workers => Held(go[g].req)) /\ (g \notin Workers => g = Creator(go[g].req))
      BY <2>1 DEF Held, Calls, Single, CreatorAlone
    <3> QED
      BY <2>1, <3>1 DEF Starts, Calls, Single, CreatorAlone, Waits
  <2> QED
    BY <1>9, <1>10, <1>11, <2>1, <2>2, <2>3 DEF Steps
<1>13. ASSUME NEW r \in Req, Create(r)
       PROVE  Goal
  <2>1. PICK x \in {"alloc", "specific"} :
             go' = [go EXCEPT ![Creator(r)] = [pc |-> x, req |-> r, inst |-> None]]
    BY <1>13 DEF Create
  <2>2. /\ ~Starts(Creator(r))
        /\ UNCHANGED <<poolVars, sess, device, rel, evicting, reaper>>
    BY <1>13 DEF Create, Starts, sessVars, enders
  <2> DEFINE y == [pc |-> x, req |-> r, inst |-> None]
  <2>3. go' = [go EXCEPT ![Creator(r)] = y] /\ y.pc \notin {"attach", "insert"}
    BY <2>1
  <2> HIDE DEF y
  <2>4. \A h \in Goroutines : Starts(h) \/ Starts(h)' => go'[h] = go[h]
    BY <1>9, <2>2, <2>3
  <2> QED
    BY <1>11, <2>2, <2>4
<1>14. ASSUME NEW r \in Req, Enqueue(r) \/ Receive(r) \/ GiveUp(r)
       PROVE  Goal
  <2>1. /\ UNCHANGED <<poolVars, sess, device, rel, evicting, reaper>> /\ ~Starts(Creator(r))
        /\ (\E a : Answer(r, a)) \/ Goto(Creator(r), "waiting")
    BY <1>14 DEF Enqueue, Receive, GiveUp, sessVars, enders, Starts
  <2> QED
    BY <1>9, <1>10, <1>11, <2>1 DEF Steps
<1>15. ASSUME NEW w \in Workers, TryDequeue(w) \/ PushFront(w)
       PROVE  Goal
  <2>1. /\ UNCHANGED <<poolVars, sess, device, rel, evicting, reaper>> /\ ~Starts(w)
        /\ \/ End(w)
           \/ go' = [go EXCEPT ![w] = [pc |-> "alloc", req |-> Head(queue), inst |-> None]]
    BY <1>15 DEF TryDequeue, PushFront, sessVars, enders, Starts
  <2> DEFINE y == [pc |-> "alloc", req |-> Head(queue), inst |-> None]
  <2>2. End(w) \/ go' = [go EXCEPT ![w] = y]
    BY <2>1
  <2>3. y.pc \notin {"attach", "insert"}
    OBVIOUS
  <2> HIDE DEF y
  <2>4. \A h \in Goroutines : Starts(h) \/ Starts(h)' => go'[h] = go[h]
    BY <1>9, <2>1, <2>2, <2>3
  <2> QED
    BY <1>11, <2>1, <2>4
<1>16. ASSUME NEW r \in Req, Release(r) \/ ReleaseStop(r) \/ EvictStop(r)
       PROVE  Goal
  <2>1. /\ UNCHANGED <<poolVars, device, go, reaper>>
        /\ \A q \in Req : sess'[q] = "none" <=> sess[q] = "none"
        /\ \A q \in Req : evicting'[q] # "none" => evicting[q] # "none"
        /\ \A q \in Req : Claims(q) => Claims(q)'
    BY <1>0, <1>16 DEF Release, ReleaseStop, EvictStop, sessVars, Claims
  <2> QED
    BY <1>2, <2>1
<1>17. ASSUME NEW r \in Req, EvictMark(r)
       PROVE  Goal
  <2>1. /\ UNCHANGED <<poolVars, device, go, reaper, rel>> /\ evicting[r] = "mark"
        /\ \A q \in Req : sess'[q] = "none" <=> sess[q] = "none"
        /\ \A q \in Req : q # r => evicting'[q] = evicting[q] /\ sess'[q] = sess[q]
    BY <1>0, <1>17 DEF EvictMark
  <2>2. device[r] \notin instances
    BY <2>1 DEF EvictedGone, Has
  <2> QED
    BY <1>2, <2>1, <2>2 DEF Claims
<1>18. ASSUME NEW r \in Req, ReleaseFree(r)
       PROVE  Goal
  <2>1. PICK failed \in BOOLEAN : PoolRelease(device[r], failed)
    BY <1>18 DEF ReleaseFree
  <2>2. /\ UNCHANGED <<sess, device, evicting, reaper>> /\ rel' = [rel EXCEPT ![r] = "none"]
        /\ UNCHANGED go \/ Goto(Drainer(r), "take")
    BY <1>18 DEF ReleaseFree, sessVars
  <2>3. ~Starts(Drainer(r))
    BY <1>18 DEF ReleaseFree, Calls, Single, DrainerRests, Starts, Idle
  <2>4. \A g \in Goroutines : Starts(g) \/ Starts(g)' => go'[g] = go[g]
    BY <1>9, <2>2, <2>3 DEF Steps
  <2>5. \A q \in Req : q # r /\ Claims(q) => Claims(q)'
    BY <1>0, <2>2 DEF Claims
  <2> QED
    BY <1>3, <2>1, <2>2, <2>4, <2>5
<1>19. ASSUME NEW s \in SUBSET Req, ExpireScan(s)
       PROVE  Goal
  <2>1. /\ UNCHANGED <<poolVars, sess, device, go, rel, evicting>>
        /\ reaper.req = None
    BY <1>19 DEF ExpireScan, sessVars, Calls, Types, EndTypes
  <2> QED
    BY <1>0, <1>2, <2>1 DEF Claims
<1>20. ASSUME NEW r \in Req, ExpireMark(r)
       PROVE  Goal
  <2>1. /\ UNCHANGED <<poolVars, device, go, rel, evicting>> /\ sess' = [sess EXCEPT ![r] = "timed_out"]
        /\ reaper.req = None /\ reaper'.req = r /\ sess[r] # "none"
    BY <1>20 DEF ExpireMark, Calls, Types, EndTypes, Listed
  <2> QED
    BY <1>0, <1>2, <2>1 DEF Claims
<1>21. CASE ExpireFree
  <2>1. PICK failed \in BOOLEAN : PoolRelease(device[reaper.req], failed)
    BY <1>21 DEF ExpireFree
  <2>2. reaper.req \in Req /\ UNCHANGED <<sess, device, go, rel, evicting>>
    BY <1>21 DEF ExpireFree, sessVars, Calls, Types, EndTypes
  <2>3. \A q \in Req : q # reaper.req /\ Claims(q) => Claims(q)'
    BY <2>2 DEF Claims
  <2> QED
    BY <1>3, <2>1, <2>2, <2>3
<1>22. CASE UNCHANGED vars
  BY <1>11, <1>22 DEF vars, sessVars, enders
<1>23. ASSUME NEW g \in Goroutines, Serve(g)
       PROVE  Goal
  BY <1>4, <1>5, <1>6, <1>12, <1>23 DEF Serve
<1> QED
  BY <1>7, <1>8, <1>13, <1>14, <1>15, <1>16, <1>17, <1>18, <1>19, <1>20, <1>21, <1>22, <1>23
  DEF Next, Request, Ending, Work, Expiring

\* No device is stranded, whatever clients, the timeout loop and the watchdog do: one
\* that is allocated belongs to a session that is active or whose end is under way, or
\* to a goroutine about to start one.
THEOREM DeviceComesBack == Spec => []NoDeviceStranded
<1>1. Init => Tracked /\ EvictedGone /\ Claimed
  BY BrokerAssumption, GoroutineNames
  DEF Init, Tracked, EvictedGone, Claimed, Has, Starts, Idle
<1>2. Calls /\ Tracked /\ EvictedGone /\ Claimed /\ [Next]_vars
        => Tracked' /\ EvictedGone' /\ Claimed'
  BY ClaimedKept
<1>3. Claimed => NoDeviceStranded
  BY DEF Claimed, Belongs, Claims, Starts, NoDeviceStranded
<1> QED
  BY <1>1, <1>2, <1>3, CallsInvariant, PTL DEF Spec

-----------------------------------------------------------------------------
(* Answers.                                                                *)

\* A call is not answered before its goroutine is done, and then as its session is.
Answers ==
  /\ \A r \in Req :
       /\ go[Creator(r)].pc # "done" => reply[r] = "none"
       /\ result[r] = "ok" => sess[r] # "none"
       /\ result[r] = "error" => sess[r] = "none"
  /\ \A g \in Goroutines : go[g].pc = "launch" => sess[go[g].req] # "none"

\* One step answers no call before its goroutine is done.
LEMMA AnswersKept ==
  ASSUME Calls, Answers, [Next]_vars
  PROVE  Answers'
<1> USE GoroutineNames
<1>0. /\ go \in [Goroutines -> [pc : Steps, req : Req \cup {None}, inst : Inst \cup {None}]]
      /\ \A g \in Goroutines : go[g].pc \in {"alloc", "specific", "pushback", "attach", "insert",
                                            "launch"} => go[g].req \in Req
      /\ sess \in [Req -> {"none", "active", "released", "timed_out", "interrupted"}]
      /\ result \in [Req -> {"none", "ok", "error"}]
      /\ reply \in [Req -> {"none", "ok", "error", "left"}]
      /\ WorkersBusy /\ CreatorAlone /\ OnePlace
  BY DEF Calls, Types, SessTypes, QueueTypes, GoTypes, EndTypes, Single
<1>1. ASSUME NEW g \in Goroutines, NEW y, go' = [go EXCEPT ![g] = y],
             y.pc # "launch", go[g].pc = "done" => y.pc = "done",
             UNCHANGED <<result, reply, sess>>
      PROVE  Answers'
  BY <1>0, <1>1 DEF Answers
<1>2. ASSUME NEW r \in Req, NEW a, Answer(r, a), UNCHANGED sess,
             UNCHANGED result \/ result' = [result EXCEPT ![r] = "none"]
      PROVE  Answers'
  <2>1. /\ go'[Creator(r)].pc = "done"
        /\ \A g \in Goroutines : g # Creator(r) => go'[g] = go[g]
    BY <1>0, <1>2 DEF Answer, Idle
  <2>2. \A q \in Req : q # r => reply'[q] = reply[q] /\ go'[Creator(q)] = go[Creator(q)]
    BY <1>0, <1>2, <2>1 DEF Answer
  <2>3. \A q \in Req : result'[q] = result[q] \/ result'[q] = "none"
    BY <1>0, <1>2
  <2> QED
    BY <1>2, <2>1, <2>2, <2>3 DEF Answers
<1>3. ASSUME NEW g \in Workers, End(g), UNCHANGED <<sess, reply>>, go[g].req \in Req,
             NEW a \in {"ok", "error"}, result' = [result EXCEPT ![go[g].req] = a],
             a = "ok" <=> sess[go[g].req] # "none"
      PROVE  Answers'
  <2>1. /\ go'[g].pc = "idle"
        /\ \A h \in Goroutines : h # g => go'[h] = go[h]
    BY <1>0, <1>3 DEF End, Idle
  <2>2. /\ result'[go[g].req] = a
        /\ \A q \in Req : q # go[g].req => result'[q] = result[q]
    BY <1>0, <1>3
  <2> QED
    BY <1>3, <2>1, <2>2 DEF Answers
<1>4. ASSUME NEW g \in Goroutines, Insert(g)
      PROVE  Answers'
  <2> DEFINE r == go[g].req
  <2>1. /\ go[g].pc = "insert" /\ r \in Req /\ sess' = [sess EXCEPT ![r] = "active"]
        /\ UNCHANGED <<result, reply>>
    BY <1>0, <1>4 DEF Insert, queueVars
  <2>2. /\ go'[g].pc = "launch" /\ go'[g].req = r
        /\ \A h \in Goroutines : h # g => go'[h] = go[h]
    BY <1>0, <1>4 DEF Insert, Goto
  <2>3. result[r] = "none"
    <3>1. CASE g \in Workers
      <4>1. Held(r)
        BY <3>1 DEF Held
      <4> QED
        BY <1>0, <2>1, <4>1 DEF OnePlace
    <3>2. CASE g \notin Workers
      BY <1>0, <2>1, <3>2 DEF CreatorAlone, Waits
    <3> QED
      BY <3>1, <3>2
  <2>4. sess'[r] = "active" /\ \A q \in Req : q # r => sess'[q] = sess[q]
    BY <1>0, <2>1
  <2>5. \A h \in Goroutines : h # g /\ go[h].pc = "launch" => sess'[go[h].req] # "none"
    BY <1>0, <2>4 DEF Answers
  <2> QED
    BY <2>1, <2>2, <2>3, <2>4, <2>5 DEF Answers
<1>5. ASSUME UNCHANGED <<go, result, reply>>, NEW r \in Req, sess[r] # "none",
             NEW x \in {"released", "timed_out", "interrupted"},
             sess' = [sess EXCEPT ![r] = x]
      PROVE  Answers'
  <2>1. \A q \in Req : sess'[q] = "none" <=> sess[q] = "none"
    BY <1>0, <1>5
  <2> QED
    BY <1>0, <1>5, <2>1 DEF Answers
<1>6. CASE UNCHANGED <<go, result, reply, sess>>
  BY <1>6 DEF Answers
<1>7. ASSUME NEW g \in Goroutines, NEW x \in Steps \ {"launch"}, Goto(g, x),
             go[g].pc # "done", UNCHANGED <<result, reply, sess>>
      PROVE  Answers'
  <2> DEFINE y == [go[g] EXCEPT !.pc = x]
  <2>1. go' = [go EXCEPT ![g] = y] /\ y.pc = x
    BY <1>0, <1>7 DEF Goto
  <2> QED
    BY <1>1, <1>7, <2>1
<1>8. ASSUME NEW g \in Goroutines, Allocate(g)
      PROVE  Answers'
  <2>1. PICK i : go' = [go EXCEPT ![g].pc = "attach", ![g].inst = i]
    BY <1>8 DEF Allocate
  <2> DEFINE y == [go[g] EXCEPT !.pc = "attach", !.inst = i]
  <2>2. y.pc = "attach"
    BY <1>0
  <2>3. go' = [go EXCEPT ![g] = y]
    BY <1>0, <2>1, Zenon
  <2> QED
    BY <1>1, <1>8, <2>2, <2>3 DEF Allocate, queueVars, sessVars
<1>9. ASSUME NEW g \in Goroutines, Attach(g)
      PROVE  Answers'
  BY <1>7, <1>9 DEF Attach, queueVars, sessVars, Steps
<1>10. ASSUME NEW g \in Goroutines, Exhausted(g)
       PROVE  Answers'
  BY <1>0, <1>2, <1>7, <1>10 DEF Exhausted, queueVars, sessVars, Steps
<1>11. ASSUME NEW g \in Goroutines, AllocateFails(g)
       PROVE  Answers'
  <2>1. go[g].pc = "alloc" /\ go[g].req \in Req /\ UNCHANGED sess
    BY <1>0, <1>11 DEF AllocateFails, sessVars
  <2>2. g \in Workers => sess[go[g].req] = "none"
    BY <1>0, <2>1 DEF OnePlace
  <2>3. CASE Answer(go[g].req, "error") /\ UNCHANGED result
    BY <1>2, <2>1, <2>3
  <2>4. CASE /\ g = loop /\ End(g) /\ UNCHANGED reply
             /\ result' = [result EXCEPT ![go[g].req] = "error"]
    BY <1>3, <2>1, <2>2, <2>4
  <2>5. CASE Goto(g, "pushback") /\ UNCHANGED <<result, reply>>
    BY <1>7, <2>1, <2>5 DEF Steps
  <2> QED
    BY <1>11, <2>3, <2>4, <2>5 DEF AllocateFails
<1>12. ASSUME NEW g \in Goroutines, Launch(g)
       PROVE  Answers'
  <2>1. /\ go[g].pc = "launch" /\ go[g].req \in Req /\ UNCHANGED sess
        /\ sess[go[g].req] # "none"
    BY <1>0, <1>12 DEF Launch, Answers
  <2> QED
    BY <1>2, <1>3, <1>12, <2>1 DEF Launch
<1>13. ASSUME NEW r \in Req, Create(r)
       PROVE  Answers'
  <2>1. PICK x \in {"alloc", "specific"} :
             go' = [go EXCEPT ![Creator(r)] = [pc |-> x, req |-> r, inst |-> None]]
    BY <1>13 DEF Create
  <2>2. go[Creator(r)].pc = "idle" /\ UNCHANGED <<result, reply, sess>>
    BY <1>13 DEF Create, queueVars, sessVars
  <2> DEFINE y == [pc |-> x, req |-> r, inst |-> None]
  <2>3. y.pc # "launch"
    OBVIOUS
  <2> HIDE DEF y
  <2> QED
    BY <1>1, <2>1, <2>2, <2>3 DEF y
<1>14. ASSUME NEW r \in Req, Enqueue(r) \/ Receive(r) \/ GiveUp(r)
       PROVE  Answers'
  BY <1>2, <1>7, <1>14 DEF Enqueue, Receive, GiveUp, sessVars, Steps
<1>15. ASSUME NEW w \in Workers, TryDequeue(w) \/ PushFront(w)
       PROVE  Answers'
  <2>1. UNCHANGED <<result, reply, sess>> /\ go[w].pc # "done"
    BY <1>15 DEF TryDequeue, PushFront, sessVars
  <2>2. \/ go' = [go EXCEPT ![w] = Idle] \/ UNCHANGED go
        \/ go' = [go EXCEPT ![w] = [pc |-> "alloc", req |-> Head(queue), inst |-> None]]
    BY <1>15 DEF TryDequeue, PushFront, End
  <2>3. Idle.pc = "idle" /\ [pc |-> "alloc", req |-> Head(queue), inst |-> None].pc = "alloc"
    BY DEF Idle
  <2> QED
    BY <1>1, <1>6, <2>1, <2>2, <2>3
<1>16. ASSUME NEW r \in Req, ReleaseFree(r)
       PROVE  Answers'
  BY <1>0, <1>6, <1>7, <1>16 DEF ReleaseFree, queueVars, sessVars, Steps, WorkersBusy
<1>17. ASSUME NEW r \in Req, Release(r) \/ ExpireMark(r) \/ EvictMark(r)
       PROVE  Answers'
  BY <1>5, <1>6, <1>17
  DEF Release, ExpireMark, EvictMark, queueVars, Calls, Listed
<1>18. ASSUME NEW g \in Goroutines, Serve(g)
       PROVE  Answers'
  BY <1>4, <1>8, <1>9, <1>10, <1>11, <1>12, <1>18 DEF Serve
<1> QED
  BY <1>6, <1>13, <1>14, <1>15, <1>16, <1>17, <1>18
  DEF Next, Request, Ending, ReleaseStop, EvictStop, Work, ExpireScan, Expiring,
      ExpireFree, ResetEnd, Destroy, Evict, vars, queueVars, sessVars

-----------------------------------------------------------------------------
(* The promise to the clients.                                             *)

\* The state of each session as a client sees it, and what Service lets a step do,
\* but that a session that starts has the device its goroutine attached it to, rather
\* than one that nobody has.
Session == [r \in Req |-> IF sess[r] \in {"none", "active"} THEN sess[r] ELSE "over"]

ServiceStep ==
  \/ UNCHANGED <<Session, device, reply>>
  \/ \E r \in Req :
       /\ Session[r] = "active" /\ Session' = [Session EXCEPT ![r] = "over"]
       /\ UNCHANGED <<device, reply>>
  \/ \E r \in Req, i \in Inst :
       /\ Session[r] = "none" /\ reply[r] # "error"
       /\ \E g \in Goroutines : go[g].pc = "insert" /\ go[g].inst = i
       /\ Session' = [Session EXCEPT ![r] = "active"]
       /\ device' = [device EXCEPT ![r] = i] /\ UNCHANGED reply
  \/ \E r \in Req, a \in {"ok", "error", "left"} :
       /\ reply[r] = "none" /\ reply' = [reply EXCEPT ![r] = a]
       /\ a # "left" => (a = "ok" <=> Session[r] # "none")
       /\ UNCHANGED <<Session, device>>

\* What the broker does is what its clients may see.
LEMMA ServiceSteps ==
  ASSUME Calls, Answers, [Next]_vars
  PROVE  ServiceStep
<1> USE GoroutineNames
<1>0. /\ \A g \in Goroutines : go[g].pc \in {"alloc", "specific", "pushback", "attach", "insert",
                                            "launch"} => go[g].req \in Req
      /\ \A g \in Goroutines : go[g].pc \in {"attach", "insert", "launch"} => go[g].inst \in Inst
      /\ sess \in [Req -> {"none", "active", "released", "timed_out", "interrupted"}]
      /\ result \in [Req -> {"none", "ok", "error"}]
      /\ reaper.list \subseteq Req /\ Listed
      /\ WorkersBusy /\ CreatorAlone /\ OnePlace
  BY DEF Calls, Types, SessTypes, QueueTypes, GoTypes, EndTypes, Single
<1>1. CASE UNCHANGED <<sess, device, reply>>
  BY <1>1 DEF ServiceStep, Session
<1>2. ASSUME NEW r \in Req, NEW a \in {"ok", "error", "left"}, Answer(r, a),
             go[Creator(r)].pc # "done", a # "left" => (a = "ok" <=> sess[r] # "none"),
             UNCHANGED <<sess, device>>
      PROVE  ServiceStep
  <2>1. reply[r] = "none" /\ reply' = [reply EXCEPT ![r] = a]
    BY <1>2 DEF Answers, Answer
  <2>2. (a # "left" => (a = "ok" <=> Session[r] # "none")) /\ UNCHANGED Session
    BY <1>0, <1>2 DEF Session
  <2> QED
    BY <1>2, <2>1, <2>2 DEF ServiceStep
<1>3. ASSUME NEW r \in Req, sess[r] = "active", NEW x \in {"released", "interrupted"},
             sess' = [sess EXCEPT ![r] = x], UNCHANGED <<device, reply>>
      PROVE  ServiceStep
  <2>1. Session[r] = "active" /\ Session' = [Session EXCEPT ![r] = "over"]
    BY <1>0, <1>3 DEF Session
  <2> QED
    BY <1>3, <2>1 DEF ServiceStep
<1>4. ASSUME NEW g \in Goroutines, Insert(g)
      PROVE  ServiceStep
  <2> DEFINE r == go[g].req
             i == go[g].inst
  <2>1. /\ go[g].pc = "insert" /\ r \in Req /\ i \in Inst /\ UNCHANGED reply
        /\ sess' = [sess EXCEPT ![r] = "active"] /\ device' = [device EXCEPT ![r] = i]
    BY <1>0, <1>4 DEF Insert
  <2>2. sess[r] = "none" /\ (go[Creator(r)].pc = "done" => reply[r] = "left")
    <3>1. CASE g \in Workers
      <4>1. Held(r)
        BY <3>1 DEF Held
      <4> QED
        BY <1>0, <2>1, <3>1, <4>1 DEF OnePlace, CreatorAlone, Waits
    <3>2. CASE g \notin Workers
      BY <1>0, <2>1, <3>2 DEF CreatorAlone
    <3> QED
      BY <3>1, <3>2
  <2>3. reply[r] \in {"none", "left"}
    BY <2>1, <2>2 DEF Answers
  <2>4. \E h \in Goroutines : go[h].pc = "insert" /\ go[h].inst = i
    BY <2>1
  <2>5. Session[r] = "none" /\ Session' = [Session EXCEPT ![r] = "active"]
    BY <1>0, <2>1, <2>2 DEF Session
  <2> HIDE DEF r, i
  <2>6. reply[r] # "error" /\ device' = [device EXCEPT ![r] = i]
    BY <2>1, <2>3
  <2> QED
    BY <2>1, <2>4, <2>5, <2>6 DEF ServiceStep
<1>5. ASSUME NEW g \in Goroutines, Exhausted(g)
      PROVE  ServiceStep
  <2>1. CASE Answer(go[g].req, "error")
    <3>1. go[g].req \in Req /\ UNCHANGED <<sess, device>>
      BY <1>0, <1>5 DEF Exhausted, sessVars
    <3>2. go[g].pc \in {"alloc", "specific"}
      BY <1>5 DEF Exhausted
    <3>3. CASE go[g].pc = "specific"
      <4>1. g = Creator(go[g].req) /\ sess[go[g].req] = "none"
        BY <1>0, <3>1, <3>3 DEF WorkersBusy, CreatorAlone
      <4> QED
        BY <1>2, <2>1, <3>1, <3>3, <4>1
    <3>4. CASE go[g].pc = "alloc"
      BY <1>1, <1>5, <3>1, <3>4 DEF Exhausted
    <3> QED
      BY <3>2, <3>3, <3>4
  <2>2. CASE UNCHANGED reply
    BY <1>1, <1>5, <2>2 DEF Exhausted, sessVars
  <2> QED
    BY <1>5, <2>1, <2>2 DEF Exhausted
<1>6. ASSUME NEW g \in Goroutines, AllocateFails(g)
      PROVE  ServiceStep
  <2>1. go[g].pc = "alloc" /\ go[g].req \in Req /\ UNCHANGED <<sess, device>>
    BY <1>0, <1>6 DEF AllocateFails, sessVars
  <2>2. CASE g = Creator(go[g].req) /\ Answer(go[g].req, "error")
    <3>1. sess[go[g].req] = "none" /\ go[Creator(go[g].req)].pc # "done"
      BY <1>0, <2>1, <2>2 DEF CreatorAlone
    <3> QED
      BY <1>2, <2>1, <2>2, <3>1
  <2>3. CASE UNCHANGED reply
    BY <1>1, <2>1, <2>3
  <2> QED
    BY <1>6, <2>2, <2>3 DEF AllocateFails
<1>7. ASSUME NEW g \in Goroutines, Launch(g)
      PROVE  ServiceStep
  <2>1. go[g].pc = "launch" /\ go[g].req \in Req /\ UNCHANGED <<sess, device>>
    BY <1>0, <1>7 DEF Launch
  <2>2. sess[go[g].req] # "none"
    BY <2>1 DEF Answers
  <2>3. CASE g = Creator(go[g].req) /\ Answer(go[g].req, "ok")
    <3>1. go[Creator(go[g].req)].pc # "done"
      BY <2>1, <2>3
    <3> QED
      BY <1>2, <2>1, <2>2, <2>3, <3>1
  <2>4. CASE UNCHANGED reply
    BY <1>1, <2>1, <2>4
  <2> QED
    BY <1>7, <2>3, <2>4 DEF Launch
<1>8. ASSUME NEW r \in Req, Enqueue(r)
      PROVE  ServiceStep
  <2>1. UNCHANGED <<sess, device>> /\ go[Creator(r)].pc = "enqueue"
    BY <1>8 DEF Enqueue, sessVars
  <2>2. sess[r] = "none"
    BY <1>0, <2>1 DEF CreatorAlone
  <2> QED
    BY <1>1, <1>2, <1>8, <2>1, <2>2 DEF Enqueue
<1>9. ASSUME NEW r \in Req, Receive(r)
      PROVE  ServiceStep
  <2>1. UNCHANGED <<sess, device>> /\ go[Creator(r)].pc = "waiting"
    BY <1>9 DEF Receive, sessVars
  <2>2. result[r] \in {"ok", "error"} /\ (result[r] = "ok" <=> sess[r] # "none")
    BY <1>0, <1>9 DEF Receive, Answers
  <2>3. Answer(r, result[r])
    BY <1>9 DEF Receive
  <2> QED
    BY <1>2, <2>1, <2>2, <2>3
<1>10. ASSUME NEW r \in Req, Release(r) \/ EvictMark(r)
       PROVE  ServiceStep
  BY <1>1, <1>3, <1>10 DEF Release, EvictMark
<1>11. ASSUME NEW r \in Req, ExpireMark(r)
       PROVE  ServiceStep
  <2>1. /\ sess[r] # "none" /\ sess' = [sess EXCEPT ![r] = "timed_out"]
        /\ UNCHANGED <<device, reply>>
    BY <1>0, <1>11 DEF ExpireMark, Listed
  <2>2. CASE sess[r] = "active"
    <3>1. Session[r] = "active" /\ Session' = [Session EXCEPT ![r] = "over"]
      BY <1>0, <2>1, <2>2 DEF Session
    <3> QED
      BY <2>1, <3>1 DEF ServiceStep
  <2>3. CASE sess[r] # "active"
    <3>1. UNCHANGED Session
      BY <1>0, <2>1, <2>3 DEF Session
    <3> QED
      BY <2>1, <3>1 DEF ServiceStep
  <2> QED
    BY <2>2, <2>3
<1>13. ASSUME NEW r \in Req, GiveUp(r)
       PROVE  ServiceStep
  BY <1>2, <1>13 DEF GiveUp, sessVars
<1>12. ASSUME NEW g \in Goroutines, Serve(g)
       PROVE  ServiceStep
  BY <1>1, <1>4, <1>5, <1>6, <1>7, <1>12 DEF Serve, Allocate, Attach, sessVars
<1> QED
  BY <1>1, <1>8, <1>9, <1>10, <1>11, <1>12, <1>13
  DEF Next, Create, Request, Ending, ReleaseStop, ReleaseFree, EvictStop, Work,
      TryDequeue, PushFront, ResetEnd, Destroy, Evict, Expiring, ExpireFree, ExpireScan, vars,
      sessVars

\* Create, Release and the ends of sessions, all of them, the timeout loop too: a call
\* is answered once, and truthfully; its session starts once, never after an error,
\* with a device its goroutine allocated; and once over it stays over.
THEOREM ServedAsPromised == Spec => [][ServiceStep]_vars
<1>1. Init => Answers
  BY GoroutineNames DEF Init, Answers, Idle
<1> QED
  BY <1>1, AnswersKept, ServiceSteps, CallsInvariant, PTL DEF Spec

\* The broker keeps what it promises its clients: see Service.
THEOREM ImplementsService ==
  ASSUME "expire" \notin Ops
  PROVE  Spec => PromiseKept
<1>1. Init => Owned /\ Answers
  BY GoroutineNames DEF Init, Owned, Taken, Starts, Uses, Answers, Idle
<1>2. Calls /\ Owned /\ Answers /\ [Next]_vars => Owned' /\ Answers'
  BY OwnedKept, AnswersKept
<1>3. Init => Promise!Init
  BY DEF Init, Promise!Init
<1>4. Calls /\ Owned /\ Answers /\ [Next]_vars => [Promise!Next]_<<Session, device, reply>>
  <2> SUFFICES ASSUME Calls, Owned, Answers, [Next]_vars
               PROVE  [Promise!Next]_<<Session, device, reply>>
    OBVIOUS
  <2>1. ServiceStep
    BY ServiceSteps
  <2>2. ASSUME NEW g \in Goroutines, go[g].pc = "insert", NEW s \in Req, Session[s] = "active"
        PROVE  device[s] # go[g].inst
    BY <2>2 DEF Session, Owned, Uses, Starts
  <2>3. \/ UNCHANGED <<Session, device, reply>>
        \/ \E r \in Req :
             /\ Session[r] = "active" /\ Session' = [Session EXCEPT ![r] = "over"]
             /\ UNCHANGED <<device, reply>>
        \/ \E r \in Req, i \in Inst :
             /\ Session[r] = "none" /\ reply[r] # "error"
             /\ \A s \in Req : ~(Session[s] = "active" /\ device[s] = i)
             /\ Session' = [Session EXCEPT ![r] = "active"]
             /\ device' = [device EXCEPT ![r] = i] /\ UNCHANGED reply
        \/ \E r \in Req, a \in {"ok", "error", "left"} :
             /\ reply[r] = "none" /\ reply' = [reply EXCEPT ![r] = a]
             /\ a # "left" => (a = "ok" <=> Session[r] # "none")
             /\ UNCHANGED <<Session, device>>
    BY <2>1, <2>2 DEF ServiceStep
  <2> QED
    BY <2>3 DEF Session, Promise!Next, Promise!Stop, Promise!Start, Promise!Reply
<1> QED
  BY <1>1, <1>2, <1>3, <1>4, CallsInvariant, PTL DEF Spec, PromiseKept, Promise!Spec, Session
=============================================================================
