------------------------------- MODULE Group --------------------------------
(***************************************************************************)
(* Nodes that form groups (internal/registry, api/handlers_registry.go):   *)
(* each keeps the group's key and a roster of its own, and tells the       *)
(* others, once and best-effort, of a node that joins, leaves or is        *)
(* removed.                                                                *)
(*                                                                         *)
(* A step is one critical section of a node's r.mu, or a request between   *)
(* two nodes taking one more check.  A key stands for the group's name and *)
(* key, a roster for the names in it (a name determines the URL), and a    *)
(* request that was sent but not answered is a message, in any order, as   *)
(* each is sent by a goroutine of its own.                                 *)
(***************************************************************************)
EXTENDS Integers, FiniteSets, Bags

CONSTANTS
  Node,
  Key,     \* generateKey: each is used for one group
  NoKey,
  MaxOps,  \* bound on the operations that users ask for
  Ops      \* "leave", "remove": such operations; "together": operations of
           \* several nodes overlap; "same": those of one node do as well;
           \* "lost": requests fail

ASSUME GroupAssumption ==
  /\ NoKey \notin Key /\ MaxOps \in Nat
  /\ Ops \subseteq {"leave", "remove", "together", "same", "lost"}

VARIABLES
  group,    \* r.file.GroupName and GroupKey of each node
  roster,   \* r.file.Nodes
  join,     \* JoinGroup of each node
  leaving,  \* what LeaveGroup read before it wipes the registry
  msgs,     \* requests between nodes
  held,     \* the keys each node has had so far
  calm,     \* so far, no request was lost and nobody removed by another
  ops       \* operations asked for

history == <<held, calm, ops>>
vars == <<group, roster, join, leaving, msgs, history>>

NoJoin == [at |-> "idle"]
NoLeave == [on |-> FALSE]

Init ==
  /\ group = [n \in Node |-> NoKey]
  /\ roster = [n \in Node |-> {}]
  /\ join = [n \in Node |-> NoJoin]
  /\ leaving = [n \in Node |-> NoLeave]
  /\ msgs = EmptyBag
  /\ held = [n \in Node |-> {}]
  /\ calm = TRUE
  /\ ops = 0

Request(to, op, node, key, hop) ==
  [to |-> to, op |-> op, node |-> node, key |-> key, hop |-> hop, at |-> "sent"]

Send(ms) == msgs' = msgs (+) SetToBag(ms)
Drop(m) == msgs' = msgs (-) SetToBag({m})
Turn(m, ms) == msgs' = (msgs (-) SetToBag({m})) (+) SetToBag(ms)

Busy(n) == join[n] # NoJoin \/ leaving[n] # NoLeave
Quiet == msgs = EmptyBag /\ \A n \in Node : ~Busy(n)

Ask(n) ==
  /\ ops < MaxOps /\ ops' = ops + 1
  /\ \/ Quiet
     \/ "together" \in Ops /\ ~Busy(n)
     \/ "same" \in Ops

-----------------------------------------------------------------------------
(* Operations of the node's own user *)

CreateGroup(n) ==
  /\ Ask(n) /\ group[n] = NoKey
  /\ \E k \in Key \ UNION {held[m] : m \in Node} :
       /\ group' = [group EXCEPT ![n] = k]
       /\ held' = [held EXCEPT ![n] = @ \cup {k}]
  /\ roster' = [roster EXCEPT ![n] = {n}]
  /\ UNCHANGED <<join, leaving, msgs, calm>>

\* JoinGroup up to its first request: only a node without a group.
JoinStart(n, peer) ==
  /\ Ask(n) /\ group[n] = NoKey /\ join[n] = NoJoin /\ peer # n
  /\ \E k \in UNION {held[m] : m \in Node} :
       join' = [join EXCEPT ![n] = [at |-> "export", peer |-> peer, key |-> k]]
  /\ UNCHANGED <<group, roster, leaving, msgs, held, calm>>

\* The peer's ExportGroup.
JoinExport(n) ==
  /\ join[n].at = "export"
  /\ group[join[n].peer] = join[n].key
  /\ join' = [join EXCEPT ![n] = [at |-> "import", peer |-> @.peer, key |-> @.key,
                                  nodes |-> roster[@.peer]]]
  /\ UNCHANGED <<group, roster, leaving, msgs, history>>

JoinFails(n) ==
  /\ join[n].at = "export"
  /\ "lost" \in Ops \/ group[join[n].peer] # join[n].key
  /\ join' = [join EXCEPT ![n] = NoJoin]
  /\ UNCHANGED <<group, roster, leaving, msgs, history>>

\* ImportFromJSON.
JoinImport(n) ==
  /\ join[n].at = "import"
  /\ group' = [group EXCEPT ![n] = join[n].key]
  /\ held' = [held EXCEPT ![n] = @ \cup {join[n].key}]
  /\ roster' = [roster EXCEPT ![n] = join[n].nodes]
  /\ join' = [join EXCEPT ![n] = [at |-> "self", peer |-> @.peer, key |-> @.key]]
  /\ UNCHANGED <<leaving, msgs, calm, ops>>

\* AddNode of itself, and the request to the peer to do the same.
JoinSelf(n) ==
  /\ join[n].at = "self"
  /\ roster' = [roster EXCEPT ![n] = @ \cup {n}]
  /\ Send({Request(join[n].peer, "add", n, join[n].key, FALSE)})
  /\ join' = [join EXCEPT ![n] = NoJoin]
  /\ UNCHANGED <<group, leaving, history>>

\* LeaveGroup: peers and key are read ...
LeaveRead(n) ==
  /\ "leave" \in Ops /\ Ask(n) /\ group[n] # NoKey /\ leaving[n] = NoLeave
  /\ leaving' = [leaving EXCEPT ![n] = [on |-> TRUE, peers |-> roster[n], key |-> group[n]]]
  /\ UNCHANGED <<group, roster, join, msgs, held, calm>>

\* Mutant of LeaveWipe: the peers are read after the wipe.
LeaveUntold(n) ==
  /\ leaving[n] # NoLeave
  /\ group' = [group EXCEPT ![n] = NoKey]
  /\ roster' = [roster EXCEPT ![n] = {}]
  /\ Send({Request(p, "remove", n, leaving[n].key, TRUE) : p \in roster'[n] \ {n}})
  /\ leaving' = [leaving EXCEPT ![n] = NoLeave]
  /\ UNCHANGED <<join, history>>

\* ... the registry is wiped, and the peers are told.
LeaveWipe(n) ==
  /\ leaving[n] # NoLeave
  /\ group' = [group EXCEPT ![n] = NoKey]
  /\ roster' = [roster EXCEPT ![n] = {}]
  /\ Send({Request(p, "remove", n, leaving[n].key, TRUE) : p \in leaving[n].peers \ {n}})
  /\ leaving' = [leaving EXCEPT ![n] = NoLeave]
  /\ UNCHANGED <<join, history>>

\* A user of the group asks a node to remove another.
AskRemove(n, x) ==
  /\ "remove" \in Ops /\ Ask(n) /\ x \in roster[n]
  /\ Send({Request(n, "remove", x, group[n], FALSE)})
  /\ calm' = FALSE
  /\ UNCHANGED <<group, roster, join, leaving, held>>

-----------------------------------------------------------------------------
(* The handlers AddNode and RemoveNode *)

Advance(m, at) ==
  /\ Turn(m, {[m EXCEPT !.at = at]})
  /\ UNCHANGED <<group, roster, join, leaving, history>>

\* Mutant of Verify: the key is not looked at.
VerifyAny(m) == m.at = "sent" /\ Advance(m, "verified")

\* VerifyKey lets the request in ...
Verify(m) == m.at = "sent" /\ group[m.to] = m.key /\ Advance(m, "verified")

\* ... or it does not, or the request is lost.
Refuse(m) ==
  /\ m.at = "sent"
  /\ Drop(m)
  /\ \/ group[m.to] # m.key /\ UNCHANGED calm
     \/ "lost" \in Ops /\ calm' = FALSE
  /\ UNCHANGED <<group, roster, join, leaving, held, ops>>

FirstHand(m) == m.op = "add" /\ ~m.hop

\* verifyJoiningNode, for the original request only: the new node is asked for
\* its key.
CallBack(m) ==
  /\ FirstHand(m) /\ m.at = "verified" /\ group[m.node] = m.key
  /\ Advance(m, "called")

CallBackFails(m) ==
  /\ FirstHand(m) /\ m.at = "verified"
  /\ Drop(m)
  /\ \/ group[m.node] # m.key /\ UNCHANGED calm
     \/ "lost" \in Ops /\ calm' = FALSE
  /\ UNCHANGED <<group, roster, join, leaving, held, ops>>

\* propagateAdd, propagateRemove: to everybody in the roster, this node included,
\* but the node in question.
Propagate(m, to) ==
  IF m.hop \/ group[m.to] = NoKey THEN {}
  ELSE {Request(p, m.op, m.node, group[m.to], TRUE) : p \in to \ {m.node}}

\* Mutant of Add: nobody else is told.
AddQuietly(m) ==
  /\ m.op = "add" /\ m.at = IF FirstHand(m) THEN "called" ELSE "verified"
  /\ roster' = [roster EXCEPT ![m.to] = @ \cup {m.node}]
  /\ Drop(m)
  /\ UNCHANGED <<group, join, leaving, history>>

Add(m) ==
  /\ m.op = "add" /\ m.at = IF FirstHand(m) THEN "called" ELSE "verified"
  /\ roster' = [roster EXCEPT ![m.to] = @ \cup {m.node}]
  /\ Turn(m, Propagate(m, roster'[m.to]))
  /\ UNCHANGED <<group, join, leaving, history>>

Remove(m) ==
  /\ m.op = "remove" /\ m.at = "verified"
  /\ roster' = [roster EXCEPT ![m.to] = @ \ {m.node}]
  /\ Turn(m, IF m.node \in roster[m.to] THEN Propagate(m, roster'[m.to]) ELSE {})
  /\ UNCHANGED <<group, join, leaving, history>>

Next ==
  \/ \E n \in Node :
       \/ CreateGroup(n) \/ JoinExport(n) \/ JoinFails(n) \/ JoinImport(n) \/ JoinSelf(n)
       \/ LeaveRead(n) \/ LeaveWipe(n)
       \/ \E p \in Node : JoinStart(n, p) \/ AskRemove(n, p)
  \/ \E m \in BagToSet(msgs) :
       Verify(m) \/ Refuse(m) \/ CallBack(m) \/ CallBackFails(m) \/ Add(m) \/ Remove(m)

Spec == Init /\ [][Next]_vars

-----------------------------------------------------------------------------
(* Properties *)

\* What a registry and a request hold; a request carries a key somebody had.
TypeOK ==
  /\ group \in [Node -> Key \cup {NoKey}]
  /\ roster \in [Node -> SUBSET Node]
  /\ held \in [Node -> SUBSET Key]
  /\ \A n \in Node : join[n].at \in {"idle", "export", "import", "self"}
  /\ \A m \in BagToSet(msgs) :
       /\ m.to \in Node /\ m.node \in Node /\ m.hop \in BOOLEAN
       /\ m.op \in {"add", "remove"} /\ m.at \in {"sent", "verified", "called"}
       /\ m.key \in UNION {held[n] : n \in Node}
  /\ calm \in BOOLEAN /\ ops \in 0..MaxOps

\* "All rosters converge": when every request has been answered and none was lost,
\* the members of a group see the same nodes.
RostersAgree ==
  calm /\ Quiet => \A n, m \in Node : group[n] = group[m] /\ group[n] # NoKey => roster[n] = roster[m]

\* LeaveGroup tells the peers "so other dashboards don't show us as offline
\* forever": once everything is answered and nothing was lost, no roster shows a
\* node that left.
NoGhost ==
  calm /\ Quiet => \A n, m \in Node : m \in roster[n] => group[m] # NoKey

\* The key and the callback keep strangers out: who is in a roster has had the
\* group's key, even if it has left since.
RosterSameGroup ==
  \A n \in Node : group[n] # NoKey => \A m \in roster[n] : group[n] \in held[m]

\* "Already in group - leave first": a node never goes from one group straight
\* to another.
LeaveFirst ==
  [][\A n \in Node : group[n] # NoKey => group'[n] \in {group[n], NoKey}]_vars

\* "Empty state means standalone": a node without a group has no roster.
StandaloneIsEmpty == \A n \in Node : group[n] = NoKey => roster[n] = {}
=============================================================================
