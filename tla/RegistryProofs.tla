--------------------------- MODULE RegistryProofs ---------------------------
(***************************************************************************)
(* Theorems about the registry: of one node's file (NodesFile), for any   *)
(* requests that change it and any crashes, and of the groups that nodes   *)
(* form (Group), for any nodes and keys, when one operation ends before    *)
(* the next begins.                                                        *)
(***************************************************************************)
EXTENDS Group, NodesFile, TLAPS

-----------------------------------------------------------------------------
(* nodes.yaml                                                              *)

\* Each request opens the temporary file at most once, and an inode is its own.
Inodes ==
  /\ \A p \in Proc : pc[p] \in {"idle", "marshal", "open", "delete"} => p # disk /\ p # tmp
  /\ \A p \in Proc : pc[p] = "write" => fd[p] \in Proc
  /\ mem \notin Registry => Active = {}

\* A request has the temporary file open, or is about to rename it.
Saving(p) == pc[p] \in {"write", "rename"}

\* Two saves overlap: one of the requests will find the temporary name gone.
Clash ==
  \/ tmp = NoFile /\ \E p \in Proc : Saving(p)
  \/ tmp # NoFile /\ \E p, q \in Proc : p # q /\ Saving(p) /\ Saving(q)

\* At most one save, and what it has written so far.
Solo ==
  /\ disk # NoFile => content[disk] \in Registry
  /\ tmp # NoFile => \E p \in Proc : Saving(p)
  /\ \A p \in Proc :
       /\ Saving(p) => tmp # NoFile /\ fd[p] = tmp /\ \A q \in Proc : Saving(q) => p = q
       /\ pc[p] = "write" => content[tmp] = Blank
       /\ pc[p] = "rename" => content[tmp] \in Registry

Reported ==
  crashes = 0 =>
    (\E p \in Proc : pc[p] \in {"unlink", "failed"}) \/ Clash \/ Solo

\* With one request at a time, what the files hold at each of its steps.
OneByOne ==
  alone =>
    /\ \A p, q \in Active : p = q
    /\ disk # NoFile => content[disk] \in Registry
    /\ mem \in Registry => mem = last
    /\ OnDisk = acked
    /\ mem \in Registry /\ Active = {} /\ answer = "ok" => acked = mem
    /\ \A p \in Proc :
         /\ pc[p] \in {"open", "write"} => data[p] = mem
         /\ pc[p] = "write" => fd[p] = tmp /\ content[tmp] = Blank
         /\ pc[p] = "rename" => tmp # NoFile /\ content[tmp] = mem
         /\ pc[p] = "delete" => mem = Empty

\* What the files, the registry and the requests hold keeps its type.
LEMMA InodesKept ==
  ASSUME FileTypeOK, Inodes, [FileNext]_fileVars
  PROVE  FileTypeOK' /\ Inodes'
<1> USE NodesFileAssumption DEF FileTypeOK, Inodes, Registry, Active,
            Step, files
<1>1. ASSUME NEW p \in Proc, Change(p) \/ Leave(p)
      PROVE  FileTypeOK' /\ Inodes'
  <2>1. alone' \in BOOLEAN
    BY <1>1, Zenon DEF Change, Leave, Begin
  <2>2. /\ mem' \in Value \cup {Empty} /\ last' = mem'
        /\ pc[p] = "idle"
        /\ \E to \in {"marshal", "delete"} : pc' = [pc EXCEPT ![p] = to]
        /\ UNCHANGED <<data, fd, content, disk, tmp, acked, answer, crashes>>
    BY <1>1 DEF Change, Leave, Begin
  <2> QED
    BY <2>1, <2>2
<1>2. ASSUME NEW p \in Proc, Marshal(p)
      PROVE  FileTypeOK' /\ Inodes'
  BY <1>2 DEF Marshal
<1>3. ASSUME NEW p \in Proc, Open(p) \/ OpenFails(p)
      PROVE  FileTypeOK' /\ Inodes'
  BY <1>3 DEF Open, OpenFails, Fail
<1>4. ASSUME NEW p \in Proc, Write(p) \/ WriteFails(p)
      PROVE  FileTypeOK' /\ Inodes'
  BY <1>4 DEF Write, WriteFails, Fail
<1>5. ASSUME NEW p \in Proc, Rename(p) \/ RenameFails(p) \/ Unlink(p)
      PROVE  FileTypeOK' /\ Inodes'
  BY <1>5 DEF Rename, RenameFails, Unlink, Succeed, Fail
<1>6. ASSUME NEW p \in Proc, Delete(p) \/ DeleteFails(p)
      PROVE  FileTypeOK' /\ Inodes'
  BY <1>6 DEF Delete, DeleteFails, Succeed, Fail
<1>7. CASE Crash
  BY <1>7 DEF Crash
<1>8. CASE Restart
  BY <1>8 DEF Restart, OnDisk
<1>9. CASE UNCHANGED fileVars
  BY <1>9 DEF fileVars
<1> QED
  BY <1>1, <1>2, <1>3, <1>4, <1>5, <1>6, <1>7, <1>8, <1>9 DEF FileNext

\* One step keeps the overlap in sight, or the damage reported.
LEMMA ReportedKept ==
  ASSUME FileTypeOK, Inodes, Reported, [FileNext]_fileVars
  PROVE  Reported'
<1> SUFFICES ASSUME crashes' = 0
             PROVE  Reported'
  BY DEF Reported
<1> DEFINE Failing == \E p \in Proc : pc[p] \in {"unlink", "failed"}
<1> USE NodesFileAssumption DEF FileTypeOK, Inodes, Registry, Step, files
<1>1. ASSUME NEW p \in Proc,
             \/ Change(p) \/ Leave(p) \/ Marshal(p) \/ Open(p)
             \/ Write(p) \/ Rename(p) \/ RenameFails(p)
             \/ Unlink(p) \/ Delete(p) \/ OpenFails(p)
             \/ WriteFails(p) \/ DeleteFails(p)
      PROVE  Reported'
  <2>1. crashes = 0
    BY <1>1 DEF Change, Leave, Begin, Marshal, Open, Write, Rename,
                RenameFails, Unlink, Delete, OpenFails, WriteFails, DeleteFails
  <2>2. CASE Failing
    <3>1. PICK q \in Proc : pc[q] \in {"unlink", "failed"}
      BY <2>2
    <3>2. pc'[q] \in {"unlink", "failed"}
      BY <1>1, <3>1 DEF Change, Leave, Begin, Marshal, Open, Write, Rename,
         RenameFails, Unlink, Delete, OpenFails, WriteFails, DeleteFails
    <3> QED
      BY <3>2 DEF Reported
  <2>3. CASE Clash
    <3>1. CASE Change(p) \/ Leave(p) \/ Marshal(p) \/ Write(p) \/ Delete(p)
      <4>1. \A q \in Proc : Saving(q) => Saving(q)'
        BY <3>1 DEF Saving, Change, Leave, Begin, Marshal, Write,
                    Delete
      <4>2. tmp' = tmp
        BY <3>1 DEF Change, Leave, Begin, Marshal, Write, Delete
      <4> QED
        BY <2>3, <4>1, <4>2 DEF Reported, Clash
    <3>2. CASE Open(p)
      <4>1. Saving(p)' /\ ~Saving(p) /\ \A q \in Proc : Saving(q) => Saving(q)'
        BY <3>2 DEF Saving, Open
      <4>2. tmp' # NoFile
        BY <3>2 DEF Open
      <4> QED
        BY <2>3, <4>1, <4>2 DEF Reported, Clash
    <3>3. CASE Rename(p)
      <4>1. PICK q \in Proc : q # p /\ Saving(q)
        BY <2>3, <3>3 DEF Clash, Rename
      <4>2. Saving(q)' /\ tmp' = NoFile
        BY <3>3, <4>1 DEF Saving, Rename
      <4> QED
        BY <4>2 DEF Reported, Clash
    <3>4. CASE RenameFails(p) \/ Unlink(p) \/ OpenFails(p) \/ WriteFails(p)
               \/ DeleteFails(p)
      <4>1. pc'[p] \in {"unlink", "failed"}
        BY <3>4 DEF RenameFails, Unlink, OpenFails, WriteFails, DeleteFails
      <4> QED
        BY <4>1 DEF Reported
    <3> QED
      BY <1>1, <3>1, <3>2, <3>3, <3>4
  <2>4. CASE Solo
    <3>1. CASE Change(p) \/ Leave(p)
      BY <2>4, <3>1 DEF Reported, Solo, Saving, Change, Leave, Begin
    <3>2. CASE Marshal(p)
      BY <2>4, <3>2 DEF Reported, Solo, Saving, Marshal
    <3>3. CASE Open(p) /\ tmp = NoFile
      BY <2>4, <3>3 DEF Reported, Solo, Saving, Open
    <3>4. CASE Open(p) /\ tmp # NoFile
      <4>1. PICK q \in Proc : Saving(q)
        BY <2>4, <3>4 DEF Solo
      <4>2. q # p /\ Saving(q)' /\ Saving(p)' /\ tmp' # NoFile
        BY <3>4, <4>1 DEF Saving, Open
      <4> QED
        BY <4>2 DEF Reported, Clash
    <3>5. CASE Write(p)
      BY <2>4, <3>5 DEF Reported, Solo, Saving, Write
    <3>6. CASE Rename(p)
      BY <2>4, <3>6 DEF Reported, Solo, Saving, Rename
    <3>7. CASE RenameFails(p) \/ Unlink(p) \/ OpenFails(p) \/ WriteFails(p)
               \/ DeleteFails(p)
      <4>1. pc'[p] \in {"unlink", "failed"}
        BY <3>7 DEF RenameFails, Unlink, OpenFails, WriteFails, DeleteFails
      <4> QED
        BY <4>1 DEF Reported
    <3>8. CASE Delete(p)
      BY <2>4, <3>8 DEF Reported, Solo, Saving, Delete
    <3> QED
      BY <1>1, <3>1, <3>2, <3>3, <3>4, <3>5, <3>6, <3>7, <3>8
  <2> QED
    BY <2>1, <2>2, <2>3, <2>4 DEF Reported
<1>2. ~Crash
  BY DEF Crash
<1>3. CASE Restart
  BY <1>3 DEF Restart, Reported, Clash, Solo, Saving
<1>4. CASE UNCHANGED fileVars
  BY <1>4 DEF fileVars, Reported, Clash, Solo, Saving
<1> QED
  BY <1>1, <1>2, <1>3, <1>4 DEF FileNext

\* One step of requests that come one after the other.
LEMMA OneByOneKept ==
  ASSUME FileTypeOK, Inodes, OneByOne, [FileNext]_fileVars
  PROVE  OneByOne'
<1> SUFFICES ASSUME alone'
             PROVE  OneByOne'
  BY DEF OneByOne
<1> USE NodesFileAssumption DEF FileTypeOK, Inodes, Registry, Active,
            Step, files, OnDisk
<1>1. ASSUME NEW p \in Proc, Change(p) \/ Leave(p)
      PROVE  OneByOne'
  <2>1. alone /\ {q \in Proc : pc[q] \notin {"idle", "done", "failed"}} = {}
    BY <1>1, Zenon DEF Change, Leave, Begin
  <2>2. /\ mem \in Registry
        /\ mem' \in Value \cup {Empty} /\ last' = mem'
        /\ \/ pc' = [pc EXCEPT ![p] = "marshal"]
           \/ pc' = [pc EXCEPT ![p] = "delete"] /\ mem' = Empty
        /\ UNCHANGED <<data, fd, content, disk, tmp, acked, answer, crashes>>
    BY <1>1 DEF Change, Leave, Begin
  <2> QED
    BY <2>1, <2>2 DEF OneByOne
<1>2. ASSUME NEW p \in Proc, Marshal(p)
      PROVE  OneByOne'
  BY <1>2 DEF OneByOne, Marshal
<1>3. ASSUME NEW p \in Proc, Open(p) \/ OpenFails(p)
      PROVE  OneByOne'
  <2>1. CASE Open(p)
    BY <2>1 DEF OneByOne, Open
  <2>2. CASE OpenFails(p)
    BY <2>2 DEF OneByOne, OpenFails, Fail
  <2> QED
    BY <1>3, <2>1, <2>2
<1>4. ASSUME NEW p \in Proc, Write(p) \/ WriteFails(p)
      PROVE  OneByOne'
  <2>1. CASE Write(p)
    BY <2>1 DEF OneByOne, Write
  <2>2. CASE WriteFails(p)
    BY <2>2 DEF OneByOne, WriteFails, Fail
  <2> QED
    BY <1>4, <2>1, <2>2
<1>5. ASSUME NEW p \in Proc, Rename(p)
      PROVE  OneByOne'
  BY <1>5 DEF OneByOne, Rename, Succeed
<1>6. ASSUME NEW p \in Proc, RenameFails(p) \/ Unlink(p)
      PROVE  OneByOne'
  <2>1. CASE RenameFails(p)
    BY <2>1 DEF OneByOne, RenameFails
  <2>2. CASE Unlink(p)
    BY <2>2 DEF OneByOne, Unlink, Fail
  <2> QED
    BY <1>6, <2>1, <2>2
<1>7. ASSUME NEW p \in Proc, Delete(p) \/ DeleteFails(p)
      PROVE  OneByOne'
  <2>1. CASE Delete(p)
    BY <2>1 DEF OneByOne, Delete, Succeed
  <2>2. CASE DeleteFails(p)
    BY <2>2 DEF OneByOne, DeleteFails, Fail
  <2> QED
    BY <1>7, <2>1, <2>2
<1>8. CASE Crash
  BY <1>8 DEF OneByOne, Crash
<1>9. CASE Restart
  BY <1>9 DEF OneByOne, Restart
<1>10. CASE UNCHANGED fileVars
  BY <1>10 DEF OneByOne, fileVars
<1> QED
  BY <1>1, <1>2, <1>3, <1>4, <1>5, <1>6, <1>7, <1>8, <1>9, <1>10 DEF FileNext

\* All of it, throughout.
LEMMA FileInvariant == FileSpec => [](FileTypeOK /\ Inodes /\ Reported /\ OneByOne)
<1>1. FileInit => FileTypeOK /\ Inodes /\ Reported /\ OneByOne
  BY NodesFileAssumption DEF FileInit, FileTypeOK, Registry, Active,
         OnDisk, Inodes, Reported, Clash, Solo, Saving, OneByOne
<1>2. FileTypeOK /\ Inodes /\ Reported /\ OneByOne /\ [FileNext]_fileVars
      => FileTypeOK' /\ Inodes' /\ Reported' /\ OneByOne'
  BY InodesKept, ReportedKept, OneByOneKept
<1> QED
  BY <1>1, <1>2, PTL DEF FileSpec

\* Overlapping saves may leave an empty file or a mixture, but then one of the
\* requests got an error from save: while the daemon runs and every request has
\* been answered without one, nodes.yaml is a whole registry.
THEOREM DamageSeen == FileSpec => []DamageReported
<1>1. Reported => DamageReported
  BY DEF Reported, Clash, Solo, Saving, DamageReported, FileWhole, Active
<1>2. FileSpec => [](FileTypeOK /\ Inodes /\ Reported /\ OneByOne)
  BY FileInvariant
<1> QED
  BY <1>1, <1>2, PTL

\* When requests come one after the other, nodes.yaml says between them what the
\* registry says or, after an error, what the last request without one left; whatever
\* system calls fail and whatever crashes there have been.
THEOREM UpToDate == FileSpec => []UpToDateWhenAlone
<1>1. OneByOne => UpToDateWhenAlone
  BY DEF OneByOne, UpToDateWhenAlone, FileUpToDate
<1>2. FileSpec => [](FileTypeOK /\ Inodes /\ Reported /\ OneByOne)
  BY FileInvariant
<1> QED
  BY <1>1, <1>2, PTL

\* And at every moment of such a request, also of one that fails, the file is whole,
\* and a restart finds what the request before it left or what it was about to
\* leave: what the temporary file and its rename are for.
THEOREM Atomic == FileSpec => [](SavesAtomic /\ WholeWhenAlone)
<1>1. OneByOne => SavesAtomic /\ WholeWhenAlone
  BY DEF OneByOne, SavesAtomic, WholeWhenAlone, FileWhole
<1>2. FileSpec => [](FileTypeOK /\ Inodes /\ Reported /\ OneByOne)
  BY FileInvariant
<1> QED
  BY <1>1, <1>2, PTL

\* Memory and files keep their types, and a file never has both names.
THEOREM FileTypeCorrect == FileSpec => []FileTypeOK
BY FileInvariant, PTL

-----------------------------------------------------------------------------
(* Groups                                                                  *)

InFlight == BagToSet(msgs)

Message == [to : Node, op : {"add", "remove"}, node : Node, key : Key,
            hop : BOOLEAN, at : {"sent", "verified", "called"}]

Joining(n) == join[n].at # "idle"
Leaving(n) == leaving[n].on

JoinState ==
  {NoJoin} \cup [at : {"export", "self"}, peer : Node, key : Key]
           \cup [at : {"import"}, peer : Node, key : Key, nodes : SUBSET Node]

LeaveState == {NoLeave} \cup [on : {TRUE}, peers : SUBSET Node, key : Key]

\* What the fields hold.
GroupFields ==
  /\ group \in [Node -> Key \cup {NoKey}]
  /\ roster \in [Node -> SUBSET Node]
  /\ held \in [Node -> SUBSET Key]
  /\ join \in [Node -> JoinState]
  /\ leaving \in [Node -> LeaveState]
  /\ IsABag(msgs) /\ InFlight \subseteq Message
  /\ calm \in BOOLEAN /\ ops \in 0..MaxOps

\* One operation at a time: the nodes that join or leave do so one after the
\* other, and between the messages of the others.
Turns ==
  /\ \A n, m \in Node : Joining(n) \/ Leaving(n) => InFlight = {} /\ (Joining(m) \/ Leaving(m) => n = m)
  /\ \A n \in Node : Joining(n) => ~Leaving(n)
  /\ \A n \in Node : Joining(n) /\ join[n].at # "self" => group[n] = NoKey
  /\ \A n \in Node : join[n].at = "import" => group[join[n].peer] = join[n].key
  /\ \A n \in Node : join[n].at = "self" =>
       group[n] = join[n].key /\ group[join[n].peer] = join[n].key /\ join[n].peer # n
  /\ \A n \in Node : Leaving(n) => group[n] = leaving[n].key /\ leaving[n].peers = roster[n]

\* Nobody knows a key that its group did not give it, and only those who had it
\* get into rosters.
Entitled ==
  /\ \A n \in Node : group[n] # NoKey => group[n] \in held[n]
  /\ \A n \in Node : group[n] = NoKey => roster[n] = {}
  /\ \A n \in Node : \A m \in roster[n] : group[n] \in held[m]
  /\ \A n \in Node : join[n].at = "import" => \A m \in join[n].nodes : join[n].key \in held[m]
  /\ \A n \in Node : join[n].at # "idle" => \E m \in Node : join[n].key \in held[m]
  /\ \A m \in InFlight : \E n \in Node : m.key \in held[n]
  /\ \A m \in InFlight : m.op = "add" => m.key \in held[m.node]
  /\ \A m \in InFlight : m.at # "sent" => group[m.to] = m.key

\* While nothing is lost, all messages are about the same node, and are let in.
OneSubject ==
  calm =>
    /\ \A m, o \in InFlight : m.op = o.op /\ m.node = o.node /\ m.key = o.key
    /\ \A m \in InFlight :
         /\ group[m.to] = m.key
         /\ m.op = "add" => group[m.node] = m.key
         /\ m.op = "remove" => m.hop /\ group[m.node] = NoKey /\ m.to # m.node

\* Somebody is about to tell x that y is in its group ...
ToldOfJoin(x, y) ==
  \/ join[y].at = "self"
  \/ \E m \in InFlight : m.op = "add" /\ m.node = y /\ (~m.hop \/ m.to = x)

\* ... or that it is not.
ToldOfLeave(x, y) == \E m \in InFlight : m.op = "remove" /\ m.node = y /\ m.to = x

\* While nothing is lost, a roster shows the members of its group, but for what
\* its node is about to be told.
Rosters ==
  calm =>
    /\ \A x, y \in Node :
         group[x] # NoKey =>
           /\ group[y] = group[x] /\ y \notin roster[x] => ToldOfJoin(x, y)
           /\ group[y] # group[x] /\ y \in roster[x] => ToldOfLeave(x, y)
    /\ \A n \in Node : group[n] # NoKey /\ join[n].at # "self" => n \in roster[n]
    /\ \A n, y \in Node : join[n].at = "import" => (y \in join[n].nodes <=> group[y] = join[n].key)

\* What becomes of the set of requests in flight: new ones ...
LEMMA Sent ==
  ASSUME IsABag(msgs), NEW ms, Send(ms)
  PROVE  IsABag(msgs') /\ InFlight' = InFlight \cup ms
BY DEF Send, IsABag, InFlight, BagToSet, SetToBag, (+)

\* ... a request that gets no further ...
LEMMA Dropped ==
  ASSUME IsABag(msgs), NEW m \in InFlight, Drop(m)
  PROVE  /\ IsABag(msgs')
         /\ InFlight' \subseteq InFlight
         /\ InFlight \ {m} \subseteq InFlight'
BY DEF Drop, IsABag, InFlight, BagToSet, SetToBag, (-)

\* ... and one that is followed by others.
LEMMA Turned ==
  ASSUME IsABag(msgs), NEW m \in InFlight, NEW ms, Turn(m, ms)
  PROVE  /\ IsABag(msgs')
         /\ InFlight' \subseteq InFlight \cup ms
         /\ (InFlight \ {m}) \cup ms \subseteq InFlight'
<1> DEFINE less == msgs (-) SetToBag({m})
<1>1. IsABag(less) /\ DOMAIN less \subseteq DOMAIN msgs /\ DOMAIN msgs \ {m} \subseteq DOMAIN less
  BY DEF IsABag, InFlight, BagToSet, SetToBag, (-)
<1>2. msgs' = less (+) SetToBag(ms)
  BY DEF Turn
<1> HIDE DEF less
<1> QED
  BY <1>1, <1>2 DEF IsABag, InFlight, BagToSet, SetToBag, (+)

\* When a user may ask for something: nothing is in flight, nobody is busy.
LEMMA MayAsk ==
  ASSUME GroupAssumption, Ops \cap {"together", "same"} = {}, GroupFields, NEW n \in Node, Ask(n)
  PROVE  /\ InFlight = {} /\ \A m \in Node : ~Joining(m) /\ ~Leaving(m)
         /\ ops' \in 0..MaxOps
<1>1. Quiet
  BY DEF Ask
<1>2. InFlight = {}
  BY <1>1 DEF Quiet, InFlight, BagToSet, EmptyBag, SetToBag
<1>3. \A m \in Node : ~Joining(m) /\ ~Leaving(m)
  BY <1>1 DEF Quiet, Busy, Joining, Leaving, NoJoin, NoLeave
<1>4. ops' \in 0..MaxOps
  BY DEF Ask, GroupFields, GroupAssumption
<1> QED
  BY <1>2, <1>3, <1>4

\* A request that a handler takes one check further.
LEMMA Advanced ==
  ASSUME NEW m \in Message, NEW at \in {"sent", "verified", "called"}
  PROVE  [m EXCEPT !.at = at] \in Message
BY DEF Message

\* One step keeps the types.
LEMMA FieldsKept ==
  ASSUME GroupAssumption, Ops \cap {"together", "same"} = {},
         GroupFields, Entitled, [Next]_vars
  PROVE  GroupFields'
<1>0. IsABag(msgs) /\ InFlight \subseteq Message
  BY DEF GroupFields
<1>1. ASSUME NEW n \in Node, CreateGroup(n)
      PROVE  GroupFields'
  <2>1. ops' \in 0..MaxOps
    BY <1>1, MayAsk DEF CreateGroup
  <2>2. PICK k \in Key : /\ group' = [group EXCEPT ![n] = k]
                        /\ held' = [held EXCEPT ![n] = held[n] \cup {k}]
    BY <1>1 DEF CreateGroup
  <2>3. group' \in [Node -> Key \cup {NoKey}] /\ held' \in [Node -> SUBSET Key]
    BY <2>2 DEF GroupFields
  <2> QED
    BY <1>1, <2>1, <2>3 DEF CreateGroup, GroupFields, InFlight
<1>2. ASSUME NEW n \in Node, NEW peer \in Node, JoinStart(n, peer)
      PROVE  GroupFields'
  <2>1. ops' \in 0..MaxOps
    BY <1>2, MayAsk DEF JoinStart
  <2>2. UNION {held[m] : m \in Node} \subseteq Key
    BY DEF GroupFields
  <2>3. PICK k \in Key : join' = [join EXCEPT ![n] = [at |-> "export", peer |-> peer, key |-> k]]
    BY <1>2, <2>2 DEF JoinStart
  <2> QED
    BY <1>2, <2>1, <2>3 DEF JoinStart, GroupFields, InFlight, JoinState
<1>3. ASSUME NEW n \in Node, JoinExport(n)
      PROVE  GroupFields'
  <2>1. /\ join[n].peer \in Node /\ join[n].key \in Key
        /\ join' = [join EXCEPT ![n] = [at |-> "import", peer |-> join[n].peer,
                                       key |-> join[n].key, nodes |-> roster[join[n].peer]]]
    BY <1>3 DEF JoinExport, GroupFields, JoinState, NoJoin
  <2>2. roster[join[n].peer] \in SUBSET Node
    BY <2>1 DEF GroupFields
  <2>3. [at |-> "import", peer |-> join[n].peer, key |-> join[n].key, nodes |-> roster[join[n].peer]]
        \in JoinState
    BY <2>1, <2>2 DEF JoinState
  <2> QED
    BY <1>3, <2>1, <2>3 DEF JoinExport, GroupFields, InFlight, history
<1>4. ASSUME NEW n \in Node, JoinFails(n)
      PROVE  GroupFields'
  BY <1>4 DEF JoinFails, GroupFields, InFlight, history, JoinState
<1>5. ASSUME NEW n \in Node, JoinImport(n)
      PROVE  GroupFields'
  <2>1. /\ join[n].peer \in Node /\ join[n].key \in Key /\ join[n].nodes \in SUBSET Node
        /\ join' = [join EXCEPT ![n] = [at |-> "self", peer |-> join[n].peer, key |-> join[n].key]]
    BY <1>5 DEF JoinImport, GroupFields, JoinState, NoJoin
  <2>2. /\ group' = [group EXCEPT ![n] = join[n].key]
        /\ held' = [held EXCEPT ![n] = held[n] \cup {join[n].key}]
        /\ roster' = [roster EXCEPT ![n] = join[n].nodes]
    BY <1>5 DEF JoinImport
  <2>3. join' \in [Node -> JoinState]
    BY <2>1 DEF GroupFields, JoinState
  <2> QED
    BY <1>5, <2>1, <2>2, <2>3 DEF JoinImport, GroupFields, InFlight
<1>6. ASSUME NEW n \in Node, JoinSelf(n)
      PROVE  GroupFields'
  <2>1. join[n].peer \in Node /\ join[n].key \in Key
    BY <1>6 DEF JoinSelf, GroupFields, JoinState, NoJoin
  <2>2. Request(join[n].peer, "add", n, join[n].key, FALSE) \in Message
    BY <2>1 DEF Request, Message
  <2>3. IsABag(msgs') /\ InFlight' = InFlight \cup {Request(join[n].peer, "add", n, join[n].key, FALSE)}
    BY <1>0, <1>6, Sent DEF JoinSelf
  <2> QED
    BY <1>6, <2>2, <2>3 DEF JoinSelf, GroupFields, history, JoinState
<1>7. ASSUME NEW n \in Node, LeaveRead(n)
      PROVE  GroupFields'
  <2>1. ops' \in 0..MaxOps
    BY <1>7, MayAsk DEF LeaveRead
  <2> QED
    BY <1>7, <2>1 DEF LeaveRead, GroupFields, InFlight, LeaveState
<1>8. ASSUME NEW n \in Node, LeaveWipe(n)
      PROVE  GroupFields'
  <2> DEFINE told == {Request(p, "remove", n, leaving[n].key, TRUE) : p \in leaving[n].peers \ {n}}
  <2>1. leaving[n].peers \subseteq Node /\ leaving[n].key \in Key
    BY <1>8 DEF LeaveWipe, GroupFields, LeaveState, NoLeave
  <2>2. told \subseteq Message
    <3>1. \A p \in leaving[n].peers : Request(p, "remove", n, leaving[n].key, TRUE) \in Message
      BY <2>1 DEF Request, Message
    <3> QED
      BY <3>1
  <2>3. IsABag(msgs') /\ InFlight' = InFlight \cup told
    BY <1>0, <1>8, Sent DEF LeaveWipe
  <2> HIDE DEF told
  <2> QED
    BY <1>8, <2>2, <2>3 DEF LeaveWipe, GroupFields, history, LeaveState
<1>9. ASSUME NEW n \in Node, NEW x \in Node, AskRemove(n, x)
      PROVE  GroupFields'
  <2>1. ops' \in 0..MaxOps
    BY <1>9, MayAsk DEF AskRemove
  <2>2. Request(n, "remove", x, group[n], FALSE) \in Message
    BY <1>9 DEF AskRemove, Entitled, GroupFields, Request, Message
  <2>3. IsABag(msgs') /\ InFlight' = InFlight \cup {Request(n, "remove", x, group[n], FALSE)}
    BY <1>0, <1>9, Sent DEF AskRemove
  <2> QED
    BY <1>9, <2>1, <2>2, <2>3 DEF AskRemove, GroupFields
<1>10. ASSUME NEW m \in InFlight, Verify(m) \/ CallBack(m)
       PROVE  GroupFields'
  <2>1. PICK at \in {"verified", "called"} : Advance(m, at)
    BY <1>10 DEF Verify, CallBack
  <2>2. [m EXCEPT !.at = at] \in Message
    BY <1>0, Advanced
  <2>3. IsABag(msgs') /\ InFlight' \subseteq InFlight \cup {[m EXCEPT !.at = at]}
    BY <1>0, <2>1, Turned DEF Advance
  <2> QED
    BY <2>1, <2>2, <2>3 DEF Advance, GroupFields, history
<1>11. ASSUME NEW m \in InFlight, Refuse(m) \/ CallBackFails(m)
       PROVE  GroupFields'
  <2>1. IsABag(msgs') /\ InFlight' \subseteq InFlight
    BY <1>0, <1>11, Dropped DEF Refuse, CallBackFails
  <2> QED
    BY <1>11, <2>1 DEF Refuse, CallBackFails, GroupFields
<1>12. ASSUME NEW m \in InFlight, Add(m) \/ Remove(m)
       PROVE  GroupFields'
  <2>1. m \in Message
    BY <1>0
  <2>2. roster' \in [Node -> SUBSET Node] /\ roster'[m.to] \subseteq Node
    BY <1>12, <2>1 DEF Add, Remove, GroupFields, Message
  <2>3. Propagate(m, roster'[m.to]) \subseteq Message
    <3>1. group[m.to] # NoKey => \A p \in roster'[m.to] :
             Request(p, m.op, m.node, group[m.to], TRUE) \in Message
      BY <2>1, <2>2 DEF Request, Message, GroupFields
    <3> QED
      BY <3>1 DEF Propagate
  <2>4. \E ms \in SUBSET Message : Turn(m, ms)
    <3>1. Turn(m, Propagate(m, roster'[m.to])) \/ Turn(m, {})
      BY <1>12 DEF Add, Remove
    <3> QED
      BY <2>3, <3>1
  <2>5. IsABag(msgs') /\ InFlight' \subseteq Message
    BY <1>0, <2>4, Turned
  <2> QED
    BY <1>12, <2>2, <2>5 DEF Add, Remove, GroupFields, history
<1>13. CASE UNCHANGED vars
  BY <1>13 DEF vars, history, GroupFields, InFlight
<1> QED
  BY <1>1, <1>2, <1>3, <1>4, <1>5, <1>6, <1>7, <1>8, <1>9, <1>10, <1>11, <1>12, <1>13
  DEF Next, InFlight

\* One step keeps operations apart.
LEMMA TurnsKept ==
  ASSUME GroupAssumption, Ops \cap {"together", "same"} = {},
         GroupFields, Turns, Entitled, [Next]_vars
  PROVE  Turns'
<1>0. IsABag(msgs)
  BY DEF GroupFields
<1> USE DEF Joining, Leaving
<1>1. ASSUME NEW n \in Node, CreateGroup(n)
      PROVE  Turns'
  <2>1. \A m \in Node : ~Joining(m) /\ ~Leaving(m)
    BY <1>1, MayAsk DEF CreateGroup
  <2> QED
    BY <1>1, <2>1 DEF CreateGroup, Turns
<1>2. ASSUME NEW n \in Node, NEW peer \in Node, JoinStart(n, peer)
      PROVE  Turns'
  <2>1. InFlight = {} /\ \A m \in Node : ~Joining(m) /\ ~Leaving(m)
    BY <1>2, MayAsk DEF JoinStart
  <2>2. /\ join'[n].at = "export" /\ join'[n].peer = peer
        /\ \A m \in Node : m # n => join'[m] = join[m]
    BY <1>2 DEF JoinStart, GroupFields
  <2> QED
    BY <1>2, <2>1, <2>2 DEF JoinStart, Turns, InFlight
<1>3. ASSUME NEW n \in Node, JoinExport(n)
      PROVE  Turns'
  <2>1. /\ join'[n].at = "import" /\ join'[n].peer = join[n].peer /\ join'[n].key = join[n].key
        /\ \A m \in Node : m # n => join'[m] = join[m]
    BY <1>3 DEF JoinExport, GroupFields
  <2> QED
    BY <1>3, <2>1 DEF JoinExport, Turns, InFlight
<1>4. ASSUME NEW n \in Node, JoinFails(n)
      PROVE  Turns'
  <2>1. join'[n].at = "idle" /\ \A m \in Node : m # n => join'[m] = join[m]
    BY <1>4 DEF JoinFails, GroupFields, NoJoin
  <2> QED
    BY <1>4, <2>1 DEF JoinFails, Turns, InFlight
<1>5. ASSUME NEW n \in Node, JoinImport(n)
      PROVE  Turns'
  <2>1. /\ join'[n].at = "self" /\ join'[n].peer = join[n].peer /\ join'[n].key = join[n].key
        /\ \A m \in Node : m # n => join'[m] = join[m]
    BY <1>5 DEF JoinImport, GroupFields
  <2>2. group'[n] = join[n].key /\ \A m \in Node : m # n => group'[m] = group[m]
    BY <1>5 DEF JoinImport, GroupFields
  <2>3. join[n].peer \in Node /\ join[n].key # NoKey
    BY <1>5 DEF JoinImport, GroupFields, JoinState, NoJoin, GroupAssumption
  <2>4. join[n].peer # n /\ \A m \in Node : ~Leaving(m) /\ (m # n => ~Joining(m))
    BY <1>5, <2>3 DEF JoinImport, Turns
  <2> QED
    BY <1>5, <2>1, <2>2, <2>3, <2>4 DEF JoinImport, Turns, InFlight
<1>6. ASSUME NEW n \in Node, JoinSelf(n)
      PROVE  Turns'
  <2>1. join'[n].at = "idle" /\ \A m \in Node : m # n => join'[m] = join[m]
    BY <1>6 DEF JoinSelf, GroupFields, NoJoin
  <2>2. \A m \in Node : ~Joining(m)' /\ ~Leaving(m)'
    BY <1>6, <2>1 DEF JoinSelf, Turns
  <2> QED
    BY <2>2 DEF Turns
<1>7. ASSUME NEW n \in Node, LeaveRead(n)
      PROVE  Turns'
  <2>1. InFlight = {} /\ \A m \in Node : ~Joining(m) /\ ~Leaving(m)
    BY <1>7, MayAsk DEF LeaveRead
  <2>2. /\ leaving'[n].on /\ leaving'[n].peers = roster[n] /\ leaving'[n].key = group[n]
        /\ \A m \in Node : m # n => leaving'[m] = leaving[m]
    BY <1>7 DEF LeaveRead, GroupFields
  <2> QED
    BY <1>7, <2>1, <2>2 DEF LeaveRead, Turns, InFlight
<1>8. ASSUME NEW n \in Node, LeaveWipe(n)
      PROVE  Turns'
  <2>1. ~leaving'[n].on /\ \A m \in Node : m # n => leaving'[m] = leaving[m]
    BY <1>8 DEF LeaveWipe, GroupFields, NoLeave
  <2>2. Leaving(n)
    BY <1>8 DEF LeaveWipe, GroupFields, LeaveState
  <2>3. \A m \in Node : ~Joining(m)' /\ ~Leaving(m)'
    BY <1>8, <2>1, <2>2 DEF LeaveWipe, Turns
  <2> QED
    BY <2>3 DEF Turns
<1>9. ASSUME NEW n \in Node, NEW x \in Node, AskRemove(n, x)
      PROVE  Turns'
  <2>1. \A m \in Node : ~Joining(m) /\ ~Leaving(m)
    BY <1>9, MayAsk DEF AskRemove
  <2> QED
    BY <1>9, <2>1 DEF AskRemove, Turns
<1>10. ASSUME NEW m \in InFlight,
              Verify(m) \/ Refuse(m) \/ CallBack(m) \/ CallBackFails(m) \/ Add(m) \/ Remove(m)
       PROVE  Turns'
  <2>1. \A n \in Node : ~Joining(n) /\ ~Leaving(n)
    BY <1>10 DEF Turns
  <2>2. UNCHANGED <<join, leaving>>
    BY <1>10 DEF Verify, Refuse, CallBack, CallBackFails, Add, Remove, Advance
  <2> QED
    BY <2>1, <2>2 DEF Turns
<1>11. CASE UNCHANGED vars
  BY <1>11 DEF vars, Turns, InFlight
<1> QED
  BY <1>1, <1>2, <1>3, <1>4, <1>5, <1>6, <1>7, <1>8, <1>9, <1>10, <1>11 DEF Next, InFlight

\* One step lets no stranger into a roster.
LEMMA EntitledKept ==
  ASSUME GroupAssumption, Ops \cap {"together", "same"} = {},
         GroupFields, Turns, Entitled, [Next]_vars
  PROVE  Entitled'
<1>0. IsABag(msgs) /\ InFlight \subseteq Message
  BY DEF GroupFields
<1>1. ASSUME NEW n \in Node, CreateGroup(n)
      PROVE  Entitled'
  <2>1. InFlight = {} /\ \A m \in Node : join[m].at = "idle"
    BY <1>1, MayAsk DEF CreateGroup, Joining
  <2>2. PICK k \in Key : /\ group' = [group EXCEPT ![n] = k]
                        /\ held' = [held EXCEPT ![n] = held[n] \cup {k}]
    BY <1>1 DEF CreateGroup
  <2> QED
    BY <1>1, <2>1, <2>2 DEF CreateGroup, Entitled, GroupFields, InFlight, GroupAssumption
<1>2. ASSUME NEW n \in Node, NEW peer \in Node, JoinStart(n, peer)
      PROVE  Entitled'
  <2>1. PICK k \in UNION {held[m] : m \in Node} :
          /\ join'[n].at = "export" /\ join'[n].key = k
          /\ \A m \in Node : m # n => join'[m] = join[m]
    BY <1>2 DEF JoinStart, GroupFields
  <2>2. \E m \in Node : k \in held[m]
    BY <2>1
  <2> QED
    BY <1>2, <2>1, <2>2 DEF JoinStart, Entitled, InFlight
<1>3. ASSUME NEW n \in Node, JoinExport(n)
      PROVE  Entitled'
  <2>1. /\ join'[n].at = "import" /\ join'[n].key = join[n].key
        /\ join'[n].nodes = roster[join[n].peer]
        /\ \A m \in Node : m # n => join'[m] = join[m]
    BY <1>3 DEF JoinExport, GroupFields
  <2>2. join[n].peer \in Node /\ group[join[n].peer] = join[n].key
    BY <1>3 DEF JoinExport, GroupFields, JoinState, NoJoin
  <2> QED
    BY <1>3, <2>1, <2>2 DEF JoinExport, Entitled, InFlight, history
<1>4. ASSUME NEW n \in Node, JoinFails(n)
      PROVE  Entitled'
  <2>1. join'[n].at = "idle" /\ \A m \in Node : m # n => join'[m] = join[m]
    BY <1>4 DEF JoinFails, GroupFields, NoJoin
  <2> QED
    BY <1>4, <2>1 DEF JoinFails, Entitled, InFlight, history
<1>5. ASSUME NEW n \in Node, JoinImport(n)
      PROVE  Entitled'
  <2>1. /\ join'[n].at = "self" /\ join'[n].key = join[n].key
        /\ \A m \in Node : m # n => join'[m] = join[m]
    BY <1>5 DEF JoinImport, GroupFields
  <2>2. join[n].key # NoKey /\ join[n].nodes \subseteq Node /\ \A m \in join[n].nodes : join[n].key \in held[m]
    BY <1>5 DEF JoinImport, GroupFields, JoinState, NoJoin, GroupAssumption, Entitled
  <2>3. /\ \A m \in Node : held[m] \subseteq held'[m]
        /\ join[n].key \in held'[n]
    BY <1>5 DEF JoinImport, GroupFields
  <2>4. /\ group'[n] = join[n].key /\ \A m \in Node : m # n => group'[m] = group[m]
        /\ roster'[n] = join[n].nodes /\ \A m \in Node : m # n => roster'[m] = roster[m]
    BY <1>5 DEF JoinImport, GroupFields
  <2>5. InFlight = {} /\ InFlight' = {}
    BY <1>5 DEF JoinImport, Turns, Joining, InFlight
  <2>6. \A m \in Node : roster'[m] \subseteq Node
    BY <2>2, <2>4 DEF GroupFields
  <2>7. \A m \in Node : \A x \in roster'[m] : group'[m] \in held'[x]
    BY <2>2, <2>3, <2>4, <2>6 DEF Entitled
  <2>8. \A m \in Node : /\ group'[m] # NoKey => group'[m] \in held'[m]
                        /\ group'[m] = NoKey => roster'[m] = {}
    BY <2>2, <2>3, <2>4 DEF Entitled
  <2>9. \A m \in Node : /\ join'[m].at # "import"
                        /\ join'[m].at # "idle" => \E x \in Node : join'[m].key \in held'[x]
    BY <1>5, <2>1, <2>3 DEF JoinImport, Turns, Joining
  <2> QED
    BY <2>5, <2>7, <2>8, <2>9 DEF Entitled
<1>6. ASSUME NEW n \in Node, JoinSelf(n)
      PROVE  Entitled'
  <2> DEFINE ask == Request(join[n].peer, "add", n, join[n].key, FALSE)
  <2>1. join'[n].at = "idle" /\ \A m \in Node : m # n => join'[m] = join[m]
    BY <1>6 DEF JoinSelf, GroupFields, NoJoin
  <2>2. group[n] = join[n].key /\ group[n] # NoKey
    BY <1>6 DEF JoinSelf, Turns, GroupFields, JoinState, NoJoin, GroupAssumption
  <2>3. InFlight' = {ask}
    <3>1. InFlight = {}
      BY <1>6 DEF JoinSelf, Turns, Joining
    <3>2. InFlight' = InFlight \cup {ask}
      BY <1>0, <1>6, Sent DEF JoinSelf
    <3> QED
      BY <3>1, <3>2
  <2>4. ask.op = "add" /\ ask.node = n /\ ask.key = join[n].key /\ ask.at = "sent"
    BY DEF Request
  <2>5. roster'[n] = roster[n] \cup {n} /\ \A m \in Node : m # n => roster'[m] = roster[m]
    BY <1>6 DEF JoinSelf, GroupFields
  <2> HIDE DEF ask
  <2>6. UNCHANGED <<group, held>>
    BY <1>6 DEF JoinSelf, history
  <2> QED
    BY <2>1, <2>2, <2>3, <2>4, <2>5, <2>6 DEF Entitled
<1>7. ASSUME NEW n \in Node, LeaveRead(n)
      PROVE  Entitled'
  BY <1>7 DEF LeaveRead, Entitled, InFlight
<1>8. ASSUME NEW n \in Node, LeaveWipe(n)
      PROVE  Entitled'
  <2> DEFINE told == {Request(p, "remove", n, leaving[n].key, TRUE) : p \in leaving[n].peers \ {n}}
  <2>1. Leaving(n)
    BY <1>8 DEF LeaveWipe, Leaving, GroupFields, LeaveState
  <2>2. InFlight' = told
    BY <1>0, <1>8, <2>1, Sent DEF LeaveWipe, Turns
  <2>3. \A m \in told : m.op = "remove" /\ m.key = leaving[n].key /\ m.at = "sent"
    BY DEF Request
  <2>4. leaving[n].key \in held[n]
    <3>1. leaving[n].key \in Key
      BY <1>8 DEF LeaveWipe, GroupFields, LeaveState
    <3>2. group[n] = leaving[n].key
      BY <2>1 DEF Turns
    <3> QED
      BY <3>1, <3>2 DEF Entitled, GroupAssumption
  <2>5. /\ group'[n] = NoKey /\ \A m \in Node : m # n => group'[m] = group[m]
        /\ roster'[n] = {} /\ \A m \in Node : m # n => roster'[m] = roster[m]
        /\ UNCHANGED <<join, held>>
    BY <1>8 DEF LeaveWipe, GroupFields, history
  <2> HIDE DEF told
  <2> QED
    BY <2>2, <2>3, <2>4, <2>5 DEF Entitled
<1>9. ASSUME NEW n \in Node, NEW x \in Node, AskRemove(n, x)
      PROVE  Entitled'
  <2> DEFINE ask == Request(n, "remove", x, group[n], FALSE)
  <2>1. InFlight' = {ask}
    BY <1>0, <1>9, Sent, MayAsk DEF AskRemove
  <2>2. ask.op = "remove" /\ ask.key = group[n] /\ ask.at = "sent"
    BY DEF Request
  <2>3. group[n] \in held[n]
    BY <1>9 DEF AskRemove, Entitled
  <2> HIDE DEF ask
  <2> QED
    BY <1>9, <2>1, <2>2, <2>3 DEF AskRemove, Entitled
<1>10. ASSUME NEW m \in InFlight, Verify(m) \/ CallBack(m)
       PROVE  Entitled'
  <2>1. PICK at \in {"verified", "called"} : Advance(m, at)
    BY <1>10 DEF Verify, CallBack
  <2>2. group[m.to] = m.key
    BY <1>10 DEF Verify, CallBack, Entitled
  <2> DEFINE n == [m EXCEPT !.at = at]
  <2>3. n.op = m.op /\ n.key = m.key /\ n.node = m.node /\ n.to = m.to
    BY <1>0 DEF Message
  <2>4. InFlight' \subseteq InFlight \cup {n}
    BY <1>0, <2>1, Turned DEF Advance
  <2> HIDE DEF n
  <2> QED
    BY <2>1, <2>2, <2>3, <2>4 DEF Advance, Entitled, history
<1>11. ASSUME NEW m \in InFlight, Refuse(m) \/ CallBackFails(m)
       PROVE  Entitled'
  <2>1. InFlight' \subseteq InFlight
    BY <1>0, <1>11, Dropped DEF Refuse, CallBackFails
  <2> QED
    BY <1>11, <2>1 DEF Refuse, CallBackFails, Entitled
<1>12. ASSUME NEW m \in InFlight, Add(m) \/ Remove(m)
       PROVE  Entitled'
  <2>1. m \in Message /\ m.at # "sent" /\ m.key # NoKey
    BY <1>0, <1>12 DEF Add, Remove, FirstHand, Message, GroupAssumption
  <2>2. group[m.to] = m.key /\ m.to \in Node /\ m.node \in Node
    BY <2>1 DEF Entitled, Message
  <2>3. PICK ms : Turn(m, ms) /\ ms \subseteq Propagate(m, roster'[m.to])
    BY <1>12 DEF Add, Remove
  <2>4. \A o \in ms : o.op = m.op /\ o.node = m.node /\ o.key = m.key /\ o.at = "sent"
    BY <2>2, <2>3 DEF Propagate, Request
  <2>5. InFlight' \subseteq InFlight \cup ms
    BY <1>0, <2>3, Turned
  <2>6. /\ \A n \in Node : n # m.to => roster'[n] = roster[n]
        /\ roster'[m.to] \subseteq IF m.op = "add" THEN roster[m.to] \cup {m.node} ELSE roster[m.to]
    BY <1>12, <2>2 DEF Add, Remove, GroupFields
  <2>7. UNCHANGED <<group, held, join>>
    BY <1>12 DEF Add, Remove, history
  <2> QED
    BY <2>1, <2>2, <2>4, <2>5, <2>6, <2>7 DEF Entitled
<1>13. CASE UNCHANGED vars
  BY <1>13 DEF vars, history, Entitled, InFlight
<1> QED
  BY <1>1, <1>2, <1>3, <1>4, <1>5, <1>6, <1>7, <1>8, <1>9, <1>10, <1>11, <1>12, <1>13
  DEF Next, InFlight

\* With nothing to tell, rosters are exact.
LEMMA ExactWhenIdle ==
  ASSUME Rosters, calm, InFlight = {}, NEW n \in Node, \A y \in Node : y # n => ~Joining(y),
         join[n].at # "self"
  PROVE  \A x, y \in Node : group[x] # NoKey => (y \in roster[x] <=> group[y] = group[x])
BY DEF Rosters, ToldOfJoin, ToldOfLeave, Joining

\* One step keeps rosters and messages in tune.
LEMMA RostersKept ==
  ASSUME GroupAssumption, Ops \cap {"together", "same"} = {},
         GroupFields, Turns, Entitled, OneSubject, Rosters, [Next]_vars
  PROVE  OneSubject' /\ Rosters'
<1> SUFFICES ASSUME calm'
             PROVE  OneSubject' /\ Rosters'
  BY DEF OneSubject, Rosters
<1>0. IsABag(msgs) /\ InFlight \subseteq Message
  BY DEF GroupFields
<1>a. calm
  BY DEF Next, vars, history, CreateGroup, JoinStart, JoinExport, JoinFails, JoinImport, JoinSelf,
         LeaveRead, LeaveWipe, AskRemove, Verify, Refuse, CallBack, CallBackFails, Add, Remove,
         Advance
<1>1. ASSUME NEW n \in Node, CreateGroup(n)
      PROVE  OneSubject' /\ Rosters'
  <2>1. InFlight = {} /\ \A m \in Node : ~Joining(m)
    BY <1>1, MayAsk DEF CreateGroup
  <2>2. PICK k \in Key \ UNION {held[m] : m \in Node} : group' = [group EXCEPT ![n] = k]
    BY <1>1 DEF CreateGroup
  <2>3. k # NoKey /\ \A m \in Node : group[m] # k
    BY <2>2 DEF Entitled, GroupAssumption
  <2>4. \A x, y \in Node : group[x] # NoKey => (y \in roster[x] <=> group[y] = group[x])
    BY <1>a, <2>1, ExactWhenIdle DEF Joining
  <2>5. /\ group'[n] = k /\ roster'[n] = {n} /\ group[n] = NoKey
        /\ \A m \in Node : m # n => group'[m] = group[m] /\ roster'[m] = roster[m]
        /\ UNCHANGED <<join, msgs>>
    BY <1>1, <2>2 DEF CreateGroup, GroupFields
  <2>6. InFlight' = {} /\ \A m \in Node : join'[m].at = "idle"
    BY <2>1, <2>5 DEF Joining, InFlight
  <2> QED
    BY <2>3, <2>4, <2>5, <2>6 DEF OneSubject, Rosters
<1>2. ASSUME NEW n \in Node, NEW peer \in Node, JoinStart(n, peer)
      PROVE  OneSubject' /\ Rosters'
  <2>1. InFlight = {} /\ \A m \in Node : ~Joining(m)
    BY <1>2, MayAsk DEF JoinStart
  <2>2. join'[n].at = "export" /\ \A m \in Node : m # n => join'[m] = join[m]
    BY <1>2 DEF JoinStart, GroupFields
  <2>3. \A x, y \in Node : group[x] # NoKey => (y \in roster[x] <=> group[y] = group[x])
    BY <1>a, <2>1, ExactWhenIdle DEF Joining
  <2>4. InFlight' = {} /\ UNCHANGED <<group, roster>>
    BY <1>2, <2>1 DEF JoinStart, InFlight
  <2>5. \A m \in Node : m # n => join'[m].at = "idle"
    BY <2>1, <2>2 DEF Joining
  <2> QED
    BY <2>2, <2>3, <2>4, <2>5 DEF OneSubject, Rosters
<1>3. ASSUME NEW n \in Node, JoinExport(n) \/ JoinFails(n)
      PROVE  OneSubject' /\ Rosters'
  <2>1. /\ join[n].peer \in Node /\ join[n].key # NoKey
        /\ InFlight = {} /\ \A m \in Node : m # n => ~Joining(m)
    BY <1>3 DEF JoinExport, JoinFails, GroupFields, JoinState, NoJoin, Turns, Joining, GroupAssumption
  <2>2. /\ \/ join'[n].at = "idle"
           \/ /\ join'[n].at = "import" /\ join'[n].key = join[n].key
              /\ group[join[n].peer] = join[n].key /\ join'[n].nodes = roster[join[n].peer]
        /\ \A m \in Node : m # n => join'[m] = join[m]
    BY <1>3 DEF JoinExport, JoinFails, GroupFields, NoJoin
  <2>3. \A x, y \in Node : group[x] # NoKey => (y \in roster[x] <=> group[y] = group[x])
    BY <1>3, <1>a, <2>1, ExactWhenIdle DEF JoinExport, JoinFails
  <2>4. InFlight' = {} /\ UNCHANGED <<group, roster>>
    BY <1>3, <2>1 DEF JoinExport, JoinFails, InFlight
  <2>5. \A m \in Node : m # n => join'[m].at = "idle"
    BY <2>1, <2>2 DEF Joining
  <2> QED
    BY <2>1, <2>2, <2>3, <2>4, <2>5 DEF OneSubject, Rosters
<1>4. ASSUME NEW n \in Node, JoinImport(n)
      PROVE  OneSubject' /\ Rosters'
  <2>1. /\ join[n].key # NoKey /\ join[n].nodes \subseteq Node /\ group[n] = NoKey
        /\ InFlight = {} /\ \A m \in Node : m # n => ~Joining(m)
    BY <1>4 DEF JoinImport, GroupFields, JoinState, NoJoin, Turns, Joining, GroupAssumption
  <2>2. join'[n].at = "self" /\ \A m \in Node : m # n => join'[m] = join[m]
    BY <1>4 DEF JoinImport, GroupFields
  <2>3. \A x, y \in Node : group[x] # NoKey => (y \in roster[x] <=> group[y] = group[x])
    BY <1>4, <1>a, <2>1, ExactWhenIdle DEF JoinImport
  <2>4. \A y \in Node : y \in join[n].nodes <=> group[y] = join[n].key
    BY <1>4, <1>a DEF Rosters, JoinImport
  <2>5. /\ group'[n] = join[n].key /\ \A m \in Node : m # n => group'[m] = group[m]
        /\ roster'[n] = join[n].nodes /\ \A m \in Node : m # n => roster'[m] = roster[m]
    BY <1>4 DEF JoinImport, GroupFields
  <2>6. InFlight' = {} /\ \A m \in Node : m # n => join'[m].at = "idle"
    BY <1>4, <2>1, <2>2 DEF JoinImport, InFlight, Joining
  <2>7. \A x, y \in Node : group'[x] # NoKey =>
          /\ group'[y] = group'[x] /\ y \notin roster'[x] => y = n
          /\ group'[y] # group'[x] => y \notin roster'[x]
    BY <2>1, <2>3, <2>4, <2>5
  <2>8. \A m \in Node : group'[m] # NoKey /\ m # n => m \in roster'[m]
    BY <2>3, <2>5
  <2> QED
    BY <2>2, <2>6, <2>7, <2>8 DEF OneSubject, Rosters, ToldOfJoin
<1>5. ASSUME NEW n \in Node, JoinSelf(n)
      PROVE  OneSubject' /\ Rosters'
  <2> DEFINE ask == Request(join[n].peer, "add", n, join[n].key, FALSE)
  <2>1. /\ join[n].key # NoKey /\ group[n] = join[n].key /\ group[join[n].peer] = join[n].key
        /\ InFlight = {} /\ \A m \in Node : m # n => ~Joining(m)
    BY <1>5 DEF JoinSelf, GroupFields, JoinState, NoJoin, Turns, Joining, GroupAssumption
  <2>2. InFlight' = {ask}
    <3>1. InFlight' = InFlight \cup {ask}
      BY <1>0, <1>5, Sent DEF JoinSelf
    <3> QED
      BY <2>1, <3>1
  <2>3. /\ ask.op = "add" /\ ask.node = n /\ ask.key = join[n].key /\ ~ask.hop
        /\ ask.to = join[n].peer
    BY DEF Request
  <2> HIDE DEF ask
  <2>4. /\ roster'[n] = roster[n] \cup {n} /\ \A m \in Node : m # n => roster'[m] = roster[m]
        /\ group' = group
        /\ \A m \in Node : join'[m].at = "idle"
    BY <1>5, <2>1 DEF JoinSelf, GroupFields, NoJoin, Joining
  <2>5. \A x, y \in Node : group[x] # NoKey =>
          /\ group[y] = group[x] /\ y \notin roster[x] => y = n
          /\ group[y] # group[x] => y \notin roster[x]
    BY <1>a, <2>1 DEF Rosters, ToldOfJoin, ToldOfLeave, Joining
  <2>6. OneSubject'
    BY <2>1, <2>2, <2>3, <2>4 DEF OneSubject
  <2>7. \A x, y \in Node : group'[x] # NoKey =>
          /\ group'[y] = group'[x] /\ y \notin roster'[x] => y = n
          /\ group'[y] # group'[x] => y \notin roster'[x]
    BY <2>4, <2>5
  <2>8. \A m \in Node : group'[m] # NoKey => m \in roster'[m]
    BY <2>4, <2>5
  <2>9. \A x \in Node : ToldOfJoin(x, n)'
    BY <2>2, <2>3 DEF ToldOfJoin
  <2> QED
    BY <2>4, <2>6, <2>7, <2>8, <2>9 DEF Rosters
<1>6. ASSUME NEW n \in Node, LeaveRead(n)
      PROVE  OneSubject' /\ Rosters'
  <2>1. UNCHANGED <<group, roster, join, msgs>>
    BY <1>6 DEF LeaveRead
  <2> QED
    BY <1>a, <2>1 DEF OneSubject, Rosters, ToldOfJoin, ToldOfLeave, InFlight
<1>7. ASSUME NEW n \in Node, LeaveWipe(n)
      PROVE  OneSubject' /\ Rosters'
  <2> DEFINE told == {Request(p, "remove", n, leaving[n].key, TRUE) : p \in leaving[n].peers \ {n}}
  <2>1. /\ leaving[n].key # NoKey /\ leaving[n].key = group[n] /\ leaving[n].peers = roster[n]
        /\ InFlight = {} /\ \A m \in Node : ~Joining(m)
    <3>1. leaving[n].key \in Key /\ Leaving(n)
      BY <1>7 DEF LeaveWipe, GroupFields, LeaveState, Leaving
    <3> QED
      BY <3>1 DEF Turns, GroupAssumption
  <2>2. \A x, y \in Node : group[x] # NoKey => (y \in roster[x] <=> group[y] = group[x])
    BY <1>a, <2>1, ExactWhenIdle DEF Joining
  <2>3. InFlight' = told
    <3>1. InFlight' = InFlight \cup told
      BY <1>0, <1>7, Sent DEF LeaveWipe
    <3> QED
      BY <2>1, <3>1
  <2>4. \A m \in told : /\ m.op = "remove" /\ m.node = n /\ m.key = leaving[n].key /\ m.hop
                        /\ m.to \in roster[n] /\ m.to # n
    BY <2>1 DEF Request
  <2>5. \A x \in roster[n] : x # n => \E m \in told : m.op = "remove" /\ m.node = n /\ m.to = x
    <3> SUFFICES ASSUME NEW x \in roster[n], x # n
                 PROVE  \E m \in told : m.op = "remove" /\ m.node = n /\ m.to = x
      OBVIOUS
    <3>1. Request(x, "remove", n, leaving[n].key, TRUE) \in told
      BY <2>1
    <3> QED
      BY <3>1 DEF Request
  <2> HIDE DEF told
  <2>6. /\ group'[n] = NoKey /\ roster'[n] = {} /\ join' = join
        /\ \A m \in Node : m # n => group'[m] = group[m] /\ roster'[m] = roster[m]
    BY <1>7 DEF LeaveWipe, GroupFields
  <2>7. \A x \in roster[n] : x \in Node /\ group[x] = group[n]
    BY <2>1, <2>2 DEF GroupFields
  <2>8. OneSubject'
    BY <2>1, <2>3, <2>4, <2>6, <2>7 DEF OneSubject
  <2>9. \A x, y \in Node : group'[x] # NoKey =>
          /\ group'[y] = group'[x] => y \in roster'[x]
          /\ group'[y] # group'[x] /\ y \in roster'[x] => y = n /\ x # n /\ x \in roster[n]
    BY <2>2, <2>6
  <2>10. \A x \in roster[n] : x # n => ToldOfLeave(x, n)'
    BY <2>3, <2>5 DEF ToldOfLeave
  <2>11. \A m \in Node : join'[m].at = "idle"
    BY <2>1, <2>6 DEF Joining
  <2> QED
    BY <2>8, <2>9, <2>10, <2>11 DEF Rosters
<1>8. ASSUME NEW n \in Node, NEW x \in Node, AskRemove(n, x)
      PROVE  FALSE
  BY <1>8 DEF AskRemove
<1>9. ASSUME NEW m \in InFlight, Verify(m) \/ CallBack(m)
      PROVE  OneSubject' /\ Rosters'
  <2>1. PICK at \in {"verified", "called"} : Advance(m, at)
    BY <1>9 DEF Verify, CallBack
  <2> DEFINE o == [m EXCEPT !.at = at]
  <2>2. o.op = m.op /\ o.node = m.node /\ o.key = m.key /\ o.hop = m.hop /\ o.to = m.to
    BY <1>0 DEF Message
  <2>3. InFlight' \subseteq InFlight \cup {o} /\ (InFlight \ {m}) \cup {o} \subseteq InFlight'
    BY <1>0, <2>1, Turned DEF Advance
  <2> HIDE DEF o
  <2>4. UNCHANGED <<group, roster, join>>
    BY <2>1 DEF Advance
  <2>5. OneSubject'
    BY <1>a, <2>2, <2>3, <2>4 DEF OneSubject
  <2>6. ASSUME NEW x \in Node, NEW y \in Node, group'[x] # NoKey
        PROVE  /\ group'[y] = group'[x] /\ y \notin roster'[x] => ToldOfJoin(x, y)'
               /\ group'[y] # group'[x] /\ y \in roster'[x] => ToldOfLeave(x, y)'
    <3>1. /\ group[y] = group[x] /\ y \notin roster[x] => ToldOfJoin(x, y)
          /\ group[y] # group[x] /\ y \in roster[x] => ToldOfLeave(x, y)
      BY <1>a, <2>4, <2>6 DEF Rosters
    <3> QED
      BY <2>2, <2>3, <2>4, <3>1 DEF ToldOfJoin, ToldOfLeave
  <2>7. /\ \A n \in Node : group'[n] # NoKey /\ join'[n].at # "self" => n \in roster'[n]
        /\ \A n, y \in Node :
             join'[n].at = "import" => (y \in join'[n].nodes <=> group'[y] = join'[n].key)
    BY <1>a, <2>4 DEF Rosters
  <2> QED
    BY <2>5, <2>6, <2>7 DEF Rosters
<1>10. ASSUME NEW m \in InFlight, Refuse(m) \/ CallBackFails(m)
       PROVE  FALSE
  BY <1>a, <1>10 DEF OneSubject, Refuse, CallBackFails, FirstHand
<1>11. ASSUME NEW m \in InFlight, Add(m)
       PROVE  OneSubject' /\ Rosters'
  <2> DEFINE more == Propagate(m, roster'[m.to])
  <2>1. m \in Message /\ m.op = "add" /\ m.key # NoKey /\ group[m.to] = m.key /\ group[m.node] = m.key
    BY <1>0, <1>11, <1>a DEF Add, Message, GroupAssumption, OneSubject
  <2>2. m.to \in Node /\ m.node \in Node /\ m.hop \in BOOLEAN
    BY <2>1 DEF Message
  <2>3. InFlight' \subseteq InFlight \cup more /\ (InFlight \ {m}) \cup more \subseteq InFlight'
    BY <1>0, <1>11, Turned DEF Add
  <2>4. /\ roster'[m.to] = roster[m.to] \cup {m.node}
        /\ \A n \in Node : n # m.to => roster'[n] = roster[n]
        /\ UNCHANGED <<group, join>>
    BY <1>11, <2>2 DEF Add, GroupFields
  <2>5. \A n \in Node : ~Joining(n)
    BY <1>11 DEF Turns
  <2>6. \A o \in InFlight : o.op = "add" /\ o.node = m.node /\ o.key = m.key
    BY <1>a, <2>1 DEF OneSubject
  <2>7. \A x, y \in Node : group[x] # NoKey /\ y \in roster[x] => group[y] = group[x]
    BY <1>a, <2>6 DEF Rosters, ToldOfLeave
  <2>8. \A x, y \in Node : group[x] # NoKey /\ group[y] = group[x] /\ y \notin roster[x] =>
          y = m.node /\ \E o \in InFlight : ~o.hop \/ o.to = x
    BY <1>a, <2>5, <2>6 DEF Rosters, ToldOfJoin, Joining
  <2>9. \A o \in more : /\ o.op = "add" /\ o.node = m.node /\ o.key = m.key
                        /\ o.to \in roster[m.to] /\ o.hop
    BY <2>1, <2>4 DEF Propagate, Request
  <2>10. ~m.hop => \A p \in roster[m.to] : p # m.node =>
           \E o \in more : o.op = "add" /\ o.node = m.node /\ o.to = p
    <3> SUFFICES ASSUME ~m.hop, NEW p \in roster[m.to], p # m.node
                 PROVE  \E o \in more : o.op = "add" /\ o.node = m.node /\ o.to = p
      OBVIOUS
    <3>1. Request(p, m.op, m.node, group[m.to], TRUE) \in more
      BY <2>1, <2>4 DEF Propagate
    <3> QED
      BY <2>1, <3>1 DEF Request
  <2> HIDE DEF more
  <2>11. \A p \in roster[m.to] : p \in Node /\ group[p] = m.key
    BY <2>1, <2>2, <2>7 DEF GroupFields
  <2>12. OneSubject'
    BY <1>a, <2>1, <2>3, <2>4, <2>6, <2>9, <2>11 DEF OneSubject
  <2>13. ASSUME NEW x \in Node, NEW y \in Node, group[x] # NoKey, group[y] = group[x],
                y \notin roster'[x]
         PROVE  ToldOfJoin(x, y)'
    <3>1. y \notin roster[x] /\ y = m.node /\ x # m.to /\ x # y
      BY <1>a, <2>4, <2>5, <2>8, <2>13 DEF Rosters, Joining
    <3>2. CASE m.hop
      <4>1. PICK o \in InFlight : ~o.hop \/ o.to = x
        BY <2>8, <2>13, <3>1
      <4>2. o # m
        BY <3>1, <3>2, <4>1
      <4> QED
        BY <2>3, <2>6, <3>1, <4>1, <4>2 DEF ToldOfJoin
    <3>3. CASE ~m.hop
      <4>1. x \in roster[m.to]
        BY <2>1, <2>2, <2>8, <2>13, <3>1
      <4> QED
        BY <2>3, <2>10, <3>1, <3>3, <4>1 DEF ToldOfJoin
    <3> QED
      BY <2>2, <3>2, <3>3
  <2>14. \A x, y \in Node : group[x] # NoKey /\ y \in roster'[x] => group[y] = group[x]
    BY <2>1, <2>2, <2>4, <2>7
  <2>15. \A n \in Node : join'[n].at = "idle" /\ (group'[n] # NoKey => n \in roster'[n])
    BY <1>a, <2>4, <2>5 DEF Rosters, Joining
  <2> QED
    BY <2>4, <2>12, <2>13, <2>14, <2>15 DEF Rosters
<1>12. ASSUME NEW m \in InFlight, Remove(m)
       PROVE  OneSubject' /\ Rosters'
  <2>1. /\ m \in Message /\ m.op = "remove" /\ m.hop
        /\ group[m.node] = NoKey /\ group[m.to] = m.key /\ m.to # m.node
    BY <1>0, <1>12, <1>a DEF Remove, OneSubject
  <2>2. m.to \in Node /\ m.node \in Node
    BY <2>1 DEF Message
  <2>3. InFlight' \subseteq InFlight /\ InFlight \ {m} \subseteq InFlight'
    <3>1. Turn(m, {})
      BY <1>12, <2>1 DEF Remove, Propagate
    <3> QED
      BY <1>0, <3>1, Turned
  <2>4. /\ roster'[m.to] = roster[m.to] \ {m.node}
        /\ \A n \in Node : n # m.to => roster'[n] = roster[n]
        /\ UNCHANGED <<group, join>>
    BY <1>12, <2>2 DEF Remove, GroupFields
  <2>5. \A n \in Node : join[n].at = "idle"
    BY <1>12 DEF Turns, Joining
  <2>6. \A o \in InFlight : o.op = "remove" /\ o.node = m.node
    BY <1>a, <2>1 DEF OneSubject
  <2>7. OneSubject'
    BY <1>a, <2>3, <2>4 DEF OneSubject
  <2>8. \A x, y \in Node : group[x] # NoKey /\ group[y] = group[x] => y \in roster'[x]
    BY <1>a, <2>1, <2>4, <2>5, <2>6 DEF Rosters, ToldOfJoin
  <2>9. ASSUME NEW x \in Node, NEW y \in Node, group[x] # NoKey, group[y] # group[x],
               y \in roster'[x]
        PROVE  ToldOfLeave(x, y)'
    <3>1. y \in roster[x] /\ ~(x = m.to /\ y = m.node)
      BY <2>2, <2>4, <2>9
    <3>2. PICK o \in InFlight : o.op = "remove" /\ o.node = y /\ o.to = x
      BY <1>a, <2>9, <3>1 DEF Rosters, ToldOfLeave
    <3> QED
      BY <2>3, <3>1, <3>2 DEF ToldOfLeave
  <2> QED
    BY <2>4, <2>5, <2>7, <2>8, <2>9 DEF Rosters
<1>13. CASE UNCHANGED vars
  BY <1>13 DEF vars, history, OneSubject, Rosters, ToldOfJoin, ToldOfLeave, InFlight
<1> QED
  BY <1>1, <1>2, <1>3, <1>4, <1>5, <1>6, <1>7, <1>8, <1>9, <1>10, <1>11, <1>12, <1>13
  DEF Next, InFlight

\* The invariant of groups whose users act one at a time.
GroupInv == GroupFields /\ Turns /\ Entitled /\ OneSubject /\ Rosters

\* It holds throughout.
LEMMA GroupInvariant ==
  ASSUME GroupAssumption, Ops \cap {"together", "same"} = {}
  PROVE  Spec => []GroupInv
<1>1. Init => GroupInv
  <2> SUFFICES ASSUME Init
               PROVE  GroupInv
    OBVIOUS
  <2>1. IsABag(msgs) /\ InFlight = {}
    BY DEF Init, EmptyBag, SetToBag, IsABag, InFlight, BagToSet
  <2>2. \A n \in Node : group[n] = NoKey /\ roster[n] = {} /\ join[n].at = "idle" /\ ~leaving[n].on
    BY DEF Init, NoJoin, NoLeave
  <2>3. GroupFields
    BY <2>1 DEF Init, GroupFields, JoinState, LeaveState, GroupAssumption
  <2> QED
    BY <2>1, <2>2, <2>3 DEF GroupInv, Turns, Joining, Leaving, Entitled, OneSubject, Rosters
<1>2. GroupInv /\ [Next]_vars => GroupInv'
  BY FieldsKept, TurnsKept, EntitledKept, RostersKept DEF GroupInv
<1> QED
  BY <1>1, <1>2, PTL DEF Spec

\* The key and the callback keep strangers out, whatever is lost and whoever is
\* removed: when operations do not overlap, who is in a roster has had the group's
\* key.
THEOREM SameGroup ==
  ASSUME Ops \cap {"together", "same"} = {}
  PROVE  Spec => []RosterSameGroup
<1>1. GroupInv => RosterSameGroup
  BY DEF GroupInv, Entitled, RosterSameGroup
<1>2. Spec => []GroupInv
  BY GroupInvariant, GroupAssumption
<1> QED
  BY <1>1, <1>2, PTL

\* As long as no request is lost and nobody is removed by another, once every
\* request has been answered a roster shows the members of its group: all of them
\* and nobody else.
Exact ==
  calm /\ Quiet =>
    \A x, y \in Node : group[x] # NoKey => (y \in roster[x] <=> group[y] = group[x])

\* Every roster is exact: what the two that follow are made of.
THEOREM RostersExact ==
  ASSUME Ops \cap {"together", "same"} = {}
  PROVE  Spec => []Exact
<1>1. GroupInv => Exact
  <2> SUFFICES ASSUME GroupInv, calm, Quiet
               PROVE  \A x, y \in Node : group[x] # NoKey => (y \in roster[x] <=> group[y] = group[x])
    BY DEF Exact
  <2>1. InFlight = {} /\ \A n \in Node : join[n].at = "idle"
    BY DEF Quiet, Busy, InFlight, BagToSet, EmptyBag, SetToBag, NoJoin
  <2> QED
    BY <2>1 DEF GroupInv, Rosters, ToldOfJoin, ToldOfLeave
<1>2. Spec => []GroupInv
  BY GroupInvariant, GroupAssumption
<1> QED
  BY <1>1, <1>2, PTL

\* "All rosters converge": the members of a group see the same nodes.
THEOREM Converge ==
  ASSUME Ops \cap {"together", "same"} = {}
  PROVE  Spec => []RostersAgree
<1>1. GroupInv /\ Exact => RostersAgree
  <2> SUFFICES ASSUME GroupInv, Exact, calm, Quiet, NEW n \in Node, NEW m \in Node,
                      group[n] = group[m], group[n] # NoKey
               PROVE  roster[n] = roster[m]
    BY DEF RostersAgree
  <2>1. roster[n] \subseteq Node /\ roster[m] \subseteq Node
    BY DEF GroupInv, GroupFields
  <2>2. \A y \in Node : y \in roster[n] <=> y \in roster[m]
    BY DEF Exact
  <2> QED
    BY <2>1, <2>2
<1>2. Spec => []GroupInv
  BY GroupInvariant, GroupAssumption
<1>3. Spec => []Exact
  BY RostersExact
<1> QED
  BY <1>1, <1>2, <1>3, PTL

\* LeaveGroup tells everybody: no roster shows a node that left.
THEOREM GhostFree ==
  ASSUME Ops \cap {"together", "same"} = {}
  PROVE  Spec => []NoGhost
<1>1. GroupInv /\ Exact => NoGhost
  BY DEF GroupInv, Entitled, Exact, NoGhost
<1>2. Spec => []GroupInv
  BY GroupInvariant, GroupAssumption
<1>3. Spec => []Exact
  BY RostersExact
<1> QED
  BY <1>1, <1>2, <1>3, PTL

\* Registries, requests and the counters of the model keep their types.
THEOREM GroupTypeCorrect ==
  ASSUME Ops \cap {"together", "same"} = {}
  PROVE  Spec => []TypeOK
<1>1. GroupInv => TypeOK
  BY DEF GroupInv, GroupFields, Entitled, Message, JoinState, NoJoin, InFlight, TypeOK
<1>2. Spec => []GroupInv
  BY GroupInvariant, GroupAssumption
<1> QED
  BY <1>1, <1>2, PTL
=============================================================================
